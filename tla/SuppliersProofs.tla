-------------------------- MODULE SuppliersProofs --------------------------
(***************************************************************************)
(* Theorems about Suppliers, for any suppliers and requests: what is shown *)
(* can be fetched, what is deleted stays deleted, and an order is put in   *)
(* force as a whole.                                                       *)
(***************************************************************************)
EXTENDS Suppliers, TLAPS

-----------------------------------------------------------------------------
(* The steps. *)

\* A request reads supplier i, for an edit or an upload, and keeps r; an upload
\* keeps the row as it is.
Lookup(q, i, r, state) ==
  /\ pc[q] = "new"
  /\ Exists(i)
  /\ state = "saving" => r = row[i]
  /\ Read(q, i, r, state)

LEMMA LookupCases ==
  ASSUME TypeOK, NEW q \in Requests, ReadForEdit(q) \/ ReadForUpload(q)
  PROVE  \/ Refuse(q)
         \/ \E i \in Ids, r \in Rows, state \in {"editing", "saving"} : Lookup(q, i, r, state)
<1>1. ASSUME NEW i \in Ids, Exists(i)
      PROVE  row[i] \in Rows /\ row[i].position \in Int /\ row[i].image \in Images
  BY <1>1 DEF TypeOK, Exists, Rows
<1>2. CASE ReadForEdit(q) /\ ~Refuse(q)
  <2>1. PICK i \in Ids, p \in Positions \cup {Omitted}, u \in Images \cup {Omitted} :
          /\ pc[q] = "new"
          /\ Exists(i)
          /\ Read(q, i, [position |-> Given(p, row[i].position),
                         image |-> Given(u, row[i].image)], "editing")
    BY <1>2 DEF ReadForEdit
  <2> DEFINE r == [position |-> Given(p, row[i].position),
                   image |-> Given(u, row[i].image)]
  <2>2. Given(p, row[i].position) \in Int
    BY <1>1, <2>1, SuppliersAssumption DEF Given
  <2>3. Given(u, row[i].image) \in Images
    BY <1>1, <2>1 DEF Given
  <2>4. r \in Rows
    BY <2>2, <2>3 DEF Rows
  <2>5. Lookup(q, i, r, "editing")
    BY <2>1, <2>4 DEF Lookup
  <2>6. QED
    BY <2>4, <2>5
<1>3. CASE ReadForUpload(q) /\ ~Refuse(q)
  <2>1. PICK i \in Ids : pc[q] = "new" /\ Exists(i) /\ Read(q, i, row[i], "saving")
    BY <1>3 DEF ReadForUpload
  <2>2. Lookup(q, i, row[i], "saving")
    BY <1>1, <2>1 DEF Lookup
  <2>3. QED
    BY <1>1, <2>1, <2>2
<1>4. QED
  BY <1>2, <1>3

LEMMA StepCases ==
  ASSUME TypeOK, Next
  PROVE  \E q \in Requests :
           \/ Refuse(q)
           \/ Create(q)
           \/ \E i \in Ids, r \in Rows, state \in {"editing", "saving"} : Lookup(q, i, r, state)
           \/ Exists(about[q]) /\ Update(q)
           \/ \E i \in Ids : Exists(i) /\ RowFree(i, q) /\ pc[q] = "new"
                /\ row' = [row EXCEPT ![i] = NoRow]
                /\ Answer(q) /\ UNCHANGED <<issued, copied, objects>>
           \/ \E l \in Lists : ValidOrder(l) /\ Goto(q, "ordering")
                /\ list' = [list EXCEPT ![q] = l]
                /\ pc[q] = "new"
                /\ UNCHANGED <<tableVars, objects, lock, about, copy, at>>
           \/ Exists(list[q][at[q] + 1]) /\ ReorderRow(q)
           \/ ReorderCommit(q)
           \/ ListAgain(q)
           \/ Save(q)
           \/ Exists(about[q]) /\ UpdateImageURL(q)
           \/ DeleteReplaced(q)
<1>1. PICK q \in Requests :
        \/ \E path \in Paths, method \in Methods : HandleAdminSuppliers(q, path, method)
        \/ Progress(q)
        \/ Malformed(q) \/ Invalid(q) \/ Fail(q)
  BY DEF Next
<1>2. CASE Malformed(q) \/ Invalid(q) \/ Fail(q)
  BY <1>2 DEF Malformed, Invalid, Fail
<1>3. CASE Progress(q)
  BY <1>3 DEF Progress, Update, ReorderRow, Deadlock, UpdateImageURL
<1>4. CASE \E path \in Paths, method \in Methods : HandleAdminSuppliers(q, path, method)
  <2>1. \/ Create(q) \/ Reorder(q) \/ Delete(q)
        \/ ReadForEdit(q) \/ ReadForUpload(q)
    BY <1>4 DEF HandleAdminSuppliers
  <2>2. CASE Reorder(q)
    BY <2>2 DEF Reorder
  <2>3. CASE Delete(q)
    BY <2>3 DEF Delete
  <2>4. QED
    BY <2>1, <2>2, <2>3, LookupCases
<1>5. QED
  BY <1>1, <1>2, <1>3, <1>4

-----------------------------------------------------------------------------
(* Types. *)

WorkTyped ==
  /\ lock \in [Ids -> Requests \cup {Nobody}]
  /\ pc \in [Requests -> States]
  /\ about \in [Requests -> Ids \cup {Nobody}]
  /\ copy \in [Requests -> Rows \cup {NoRow}]
  /\ list \in [Requests -> Seq(Int)]
  /\ at \in [Requests -> Nat]
  /\ \A q \in Requests :
       /\ pc[q] = "new" => at[q] = 0
       /\ pc[q] \in {"editing", "saving", "saved", "replaced"} =>
            about[q] \in Ids /\ copy[q] \in Rows
       /\ pc[q] = "ordering" => ValidOrder(list[q]) /\ at[q] <= Len(list[q])

TableTyped ==
  /\ row \in [Ids -> Rows \cup {NoRow}]
  /\ issued \subseteq Ids
  /\ copied \subseteq Requests
  /\ objects \subseteq Requests
  /\ \A i \in Ids : row[i] # NoRow => i \in issued

LEMMA TypeParts == TypeOK <=> WorkTyped /\ TableTyped
BY DEF TypeOK, WorkTyped, TableTyped

LEMMA LeaveTyped ==
  ASSUME WorkTyped, NEW q \in Requests, NEW state \in {"done", "refused", "listing"},
         Leave(q, state)
  PROVE  WorkTyped'
<1>1. /\ pc' = [pc EXCEPT ![q] = state]
      /\ about' = [about EXCEPT ![q] = Nobody]
      /\ copy' = [copy EXCEPT ![q] = NoRow]
      /\ list' = [list EXCEPT ![q] = <<>>]
      /\ at' = [at EXCEPT ![q] = 0]
      /\ lock' = [i \in Ids |-> IF lock[i] = q THEN Nobody ELSE lock[i]]
  BY DEF Leave, Goto
<1>2. /\ lock' \in [Ids -> Requests \cup {Nobody}]
      /\ about' \in [Requests -> Ids \cup {Nobody}]
      /\ copy' \in [Requests -> Rows \cup {NoRow}]
      /\ at' \in [Requests -> Nat]
  BY <1>1 DEF WorkTyped
<1>3. list' \in [Requests -> Seq(Int)]
  BY <1>1 DEF WorkTyped
<1>4. pc' \in [Requests -> States]
  BY <1>1 DEF WorkTyped, States
<1>5. \A r \in Requests \ {q} :
        /\ pc'[r] = pc[r] /\ about'[r] = about[r] /\ copy'[r] = copy[r]
        /\ list'[r] = list[r] /\ at'[r] = at[r]
  BY <1>1 DEF WorkTyped
<1>6. pc'[q] \notin {"new", "editing", "saving", "saved", "replaced", "ordering"}
  BY <1>1 DEF WorkTyped
<1>7. ASSUME NEW r \in Requests
      PROVE  /\ pc'[r] = "new" => at'[r] = 0
             /\ pc'[r] \in {"editing", "saving", "saved", "replaced"} =>
                  about'[r] \in Ids /\ copy'[r] \in Rows
             /\ pc'[r] = "ordering" => ValidOrder(list'[r]) /\ at'[r] <= Len(list'[r])
  <2>1. CASE r = q
    BY <1>6, <2>1
  <2>2. CASE r # q
    BY <1>5, <2>2 DEF WorkTyped
  <2>3. QED
    BY <2>1, <2>2
<1>8. QED
  BY <1>2, <1>3, <1>4, <1>7 DEF WorkTyped, ValidOrder

LEMMA GotoTyped ==
  ASSUME WorkTyped, NEW q \in Requests, NEW state \in {"saved", "replaced"},
         pc[q] \in {"saving", "saved"}, Goto(q, state),
         UNCHANGED <<lock, about, copy, list, at>>
  PROVE  WorkTyped'
<1>1. \A r \in Requests : pc'[r] = IF r = q THEN state ELSE pc[r]
  BY DEF Goto, WorkTyped
<1>2. pc' \in [Requests -> States]
  BY DEF Goto, WorkTyped, States
<1>3. \A r \in Requests :
        /\ pc'[r] = "new" => at[r] = 0
        /\ pc'[r] \in {"editing", "saving", "saved", "replaced"} =>
             about[r] \in Ids /\ copy[r] \in Rows
        /\ pc'[r] = "ordering" => ValidOrder(list[r]) /\ at[r] <= Len(list[r])
  BY <1>1 DEF WorkTyped
<1>4. QED
  BY <1>2, <1>3 DEF WorkTyped, ValidOrder

LEMMA LookupTyped ==
  ASSUME WorkTyped, NEW q \in Requests, NEW i \in Ids, NEW r \in Rows,
         NEW state \in {"editing", "saving"}, Lookup(q, i, r, state)
  PROVE  WorkTyped'
<1>1. /\ pc' = [pc EXCEPT ![q] = state]
      /\ about' = [about EXCEPT ![q] = i]
      /\ copy' = [copy EXCEPT ![q] = r]
      /\ UNCHANGED <<lock, list, at>>
  BY DEF Lookup, Read, Goto
<1>2. /\ pc' \in [Requests -> States]
      /\ about' \in [Requests -> Ids \cup {Nobody}]
      /\ copy' \in [Requests -> Rows \cup {NoRow}]
  BY <1>1 DEF WorkTyped, States
<1>3. \A p \in Requests :
        /\ pc'[p] = "new" => at[p] = 0
        /\ pc'[p] \in {"editing", "saving", "saved", "replaced"} =>
             about'[p] \in Ids /\ copy'[p] \in Rows
        /\ pc'[p] = "ordering" => ValidOrder(list[p]) /\ at[p] <= Len(list[p])
  BY <1>1 DEF WorkTyped
<1>4. QED
  BY <1>1, <1>2, <1>3 DEF WorkTyped, ValidOrder

LEMMA ReorderTyped ==
  ASSUME WorkTyped, NEW q \in Requests, NEW l \in Lists, ValidOrder(l),
         pc[q] = "new", Goto(q, "ordering"), list' = [list EXCEPT ![q] = l],
         UNCHANGED <<lock, about, copy, at>>
  PROVE  WorkTyped'
<1>1. /\ pc' \in [Requests -> States]
      /\ \A r \in Requests : pc'[r] = IF r = q THEN "ordering" ELSE pc[r]
  BY DEF Goto, WorkTyped, States
<1>2. l \in Seq(Int)
  BY SuppliersAssumption
<1>3. /\ list' \in [Requests -> Seq(Int)]
      /\ \A r \in Requests : list'[r] = IF r = q THEN l ELSE list[r]
  BY <1>2 DEF WorkTyped
<1>4. 0 <= Len(l)
  BY <1>2
<1>5. ASSUME NEW r \in Requests
      PROVE  /\ pc'[r] = "new" => at[r] = 0
             /\ pc'[r] \in {"editing", "saving", "saved", "replaced"} =>
                  about[r] \in Ids /\ copy[r] \in Rows
             /\ pc'[r] = "ordering" => ValidOrder(list'[r]) /\ at[r] <= Len(list'[r])
  <2>1. CASE r = q
    BY <1>1, <1>3, <1>4, <2>1 DEF WorkTyped
  <2>2. CASE r # q
    BY <1>1, <1>3, <2>2 DEF WorkTyped
  <2>3. QED
    BY <2>1, <2>2
<1>6. QED
  BY <1>1, <1>3, <1>5 DEF WorkTyped, ValidOrder

LEMMA RowStep ==
  ASSUME WorkTyped, NEW q \in Requests, ReorderRow(q), Exists(list[q][at[q] + 1])
  PROVE  /\ WorkTyped'
         /\ at[q] + 1 \in DOMAIN list[q]
         /\ list[q][at[q] + 1] \in Ids
         /\ lock' = [lock EXCEPT ![list[q][at[q] + 1]] = q]
         /\ at' = [at EXCEPT ![q] = @ + 1]
         /\ UNCHANGED <<tableVars, objects, pc, about, copy, list>>
<1>1. /\ pc[q] = "ordering" /\ at[q] < Len(list[q])
      /\ list[q][at[q] + 1] \in Ids
      /\ lock' = [lock EXCEPT ![list[q][at[q] + 1]] = q]
      /\ at' = [at EXCEPT ![q] = @ + 1]
      /\ UNCHANGED <<tableVars, objects, pc, about, copy, list>>
  BY DEF ReorderRow, Advance, Exists
<1>2. at[q] \in Nat /\ list[q] \in Seq(Int)
  BY DEF WorkTyped
<1>3. at[q] + 1 \in DOMAIN list[q] /\ at[q] + 1 <= Len(list[q])
  BY <1>1, <1>2
<1>4. lock' \in [Ids -> Requests \cup {Nobody}]
  BY <1>1 DEF WorkTyped
<1>5. at' \in [Requests -> Nat]
  BY <1>1 DEF WorkTyped
<1>6. \A r \in Requests : at'[r] = IF r = q THEN at[q] + 1 ELSE at[r]
  BY <1>1 DEF WorkTyped
<1>7. ASSUME NEW r \in Requests
      PROVE  /\ pc[r] = "new" => at'[r] = 0
             /\ pc[r] \in {"editing", "saving", "saved", "replaced"} =>
                  about[r] \in Ids /\ copy[r] \in Rows
             /\ pc[r] = "ordering" => ValidOrder(list[r]) /\ at'[r] <= Len(list[r])
  <2>1. CASE r = q
    BY <1>1, <1>3, <1>6, <2>1 DEF WorkTyped
  <2>2. CASE r # q
    BY <1>6, <2>2 DEF WorkTyped
  <2>3. QED
    BY <2>1, <2>2
<1>8. WorkTyped'
  BY <1>1, <1>4, <1>5, <1>7 DEF WorkTyped, ValidOrder
<1>9. QED
  BY <1>1, <1>3, <1>8

LEMMA NextPositionsTyped == TypeOK => NextPositions \subseteq Int
<1> SUFFICES ASSUME TypeOK
             PROVE  NextPositions \subseteq Int
  OBVIOUS
<1> DEFINE taken == {row[i].position : i \in {j \in Ids : Exists(j)}}
           top == {m \in taken : \A n \in taken : n <= m}
<1>1. taken \subseteq Int
  BY DEF TypeOK, Exists, Rows
<1>2. NextPositions \subseteq {1} \cup {p + 1 : p \in top}
  BY DEF NextPositions
<1> HIDE DEF taken
<1>3. top \subseteq Int
  BY <1>1
<1> HIDE DEF top
<1>4. {p + 1 : p \in top} \subseteq Int
  <2> SUFFICES ASSUME NEW p \in top
               PROVE  p + 1 \in Int
    OBVIOUS
  <2>1. QED
    BY <1>3
<1>5. QED
  BY <1>2, <1>4

\* Where a rearrangement puts a row.
LEMMA ArrangedTyped ==
  ASSUME TypeOK, NEW l \in Seq(Int), ValidOrder(l), NEW i \in Ids
  PROVE  /\ Arranged(l) \in [Ids -> Rows \cup {NoRow}]
         /\ Arranged(l)[i] = NoRow <=> row[i] = NoRow
         /\ Exists(i) => Arranged(l)[i].image = row[i].image
         /\ \A k \in DOMAIN l : Exists(i) /\ l[k] = i => Arranged(l)[i].position = k
<1>1. ASSUME NEW j \in Ids, Exists(j), NEW k \in DOMAIN l, l[k] = j
      PROVE  (CHOOSE m \in DOMAIN l : l[m] = j) = k
  BY <1>1 DEF ValidOrder
<1>2. \A k \in DOMAIN l : k \in Int
  OBVIOUS
<1>3. ASSUME NEW j \in Ids, Exists(j)
      PROVE  /\ row[j] \in Rows
             /\ \A k \in Int : [row[j] EXCEPT !.position = k] \in Rows
             /\ \A k \in Int : /\ [row[j] EXCEPT !.position = k].position = k
                               /\ [row[j] EXCEPT !.position = k].image = row[j].image
  BY <1>3 DEF TypeOK, Exists, Rows
<1>4. ASSUME NEW j \in Ids
      PROVE  /\ Arranged(l)[j] \in Rows \cup {NoRow}
             /\ Arranged(l)[j] = NoRow <=> row[j] = NoRow
             /\ Exists(j) => Arranged(l)[j].image = row[j].image
             /\ \A k \in DOMAIN l : Exists(j) /\ l[k] = j => Arranged(l)[j].position = k
  <2>1. CASE Exists(j) /\ \E k \in DOMAIN l : l[k] = j
    <3>1. PICK k \in DOMAIN l : l[k] = j
      BY <2>1
    <3>2. Arranged(l)[j] = [row[j] EXCEPT !.position = k]
      BY <1>1, <2>1, <3>1 DEF Arranged
    <3>3. \A m \in DOMAIN l : l[m] = j => m = k
      BY <3>1 DEF ValidOrder
    <3>4. row[j] # NoRow
      BY <2>1 DEF Exists
    <3>5. Arranged(l)[j] # NoRow
      BY <1>2, <1>3, <2>1, <3>2, SuppliersAssumption
    <3>6. QED
      BY <1>2, <1>3, <2>1, <3>2, <3>3, <3>4, <3>5
  <2>2. CASE ~(Exists(j) /\ \E k \in DOMAIN l : l[k] = j)
    <3>1. Arranged(l)[j] = row[j]
      BY <2>2 DEF Arranged
    <3>2. QED
      BY <2>2, <3>1 DEF TypeOK
  <2>3. QED
    BY <2>1, <2>2
<1>5. Arranged(l) \in [Ids -> Rows \cup {NoRow}]
  BY <1>4 DEF Arranged
<1>6. QED
  BY <1>4, <1>5

LEMMA TypeStep == TypeOK /\ Next => TypeOK'
<1> SUFFICES ASSUME TypeOK, Next
             PROVE  TypeOK'
  OBVIOUS
<1>1. WorkTyped /\ TableTyped
  BY TypeParts
<1>2. (WorkTyped' /\ TableTyped') => TypeOK'
  BY DEF TypeOK, WorkTyped, TableTyped
<1>3. ASSUME UNCHANGED <<tableVars, objects>>
      PROVE  TableTyped'
  BY <1>1, <1>3 DEF TableTyped, tableVars
<1>4. ASSUME NEW q \in Requests, Refuse(q)
      PROVE  TypeOK'
  BY <1>1, <1>2, <1>3, <1>4, LeaveTyped DEF Refuse
<1>5. ASSUME NEW q \in Requests, Create(q)
      PROVE  TypeOK'
  <2>1. PICK i \in Ids \ issued, p \in Positions \cup NextPositions, u \in Images :
          /\ row' = [row EXCEPT ![i] = [position |-> p, image |-> u]]
          /\ issued' = issued \cup {i}
          /\ copied' = copied \cup ({u} \ {NoObject})
    BY <1>5 DEF Create
  <2>2. [position |-> p, image |-> u] \in Rows
    BY NextPositionsTyped, SuppliersAssumption DEF Rows
  <2>3. copied' \subseteq Requests
    BY <1>1, <2>1 DEF TableTyped, Images
  <2>4. TableTyped'
    BY <1>1, <1>5, <2>1, <2>2, <2>3 DEF TableTyped, Create
  <2>5. QED
    BY <1>1, <1>2, <1>5, <2>4, LeaveTyped DEF Create, Answer
<1>6. ASSUME NEW q \in Requests, NEW i \in Ids, NEW r \in Rows,
             NEW state \in {"editing", "saving"}, Lookup(q, i, r, state)
      PROVE  TypeOK'
  BY <1>1, <1>2, <1>3, <1>6, LookupTyped DEF Lookup, Read
<1>7. ASSUME NEW q \in Requests, Exists(about[q]), Update(q)
      PROVE  TypeOK'
  <2>1. /\ pc[q] = "editing"
        /\ row' = [row EXCEPT ![about[q]] = copy[q]]
        /\ copied' = copied \cup Copied(q)
        /\ UNCHANGED <<issued, objects>>
        /\ Leave(q, "done") \/ Leave(q, "refused")
    BY <1>7 DEF Update, Answer
  <2>2. about[q] \in Ids /\ row[about[q]] # NoRow /\ copy[q] \in Rows
    BY <1>1, <1>7, <2>1 DEF WorkTyped, Exists
  <2>a. copied' \subseteq Requests
    BY <1>1, <2>1, <2>2 DEF TableTyped, Copied, Rows, Images
  <2>3. TableTyped'
    BY <1>1, <2>1, <2>2, <2>a DEF TableTyped
  <2>4. QED
    BY <1>1, <1>2, <2>1, <2>3, LeaveTyped
<1>8. ASSUME NEW q \in Requests, NEW i \in Ids,
             row' = [row EXCEPT ![i] = NoRow],
             Answer(q), UNCHANGED <<issued, copied, objects>>
      PROVE  TypeOK'
  <2>1. TableTyped'
    BY <1>1, <1>8 DEF TableTyped
  <2>2. QED
    BY <1>1, <1>2, <1>8, <2>1, LeaveTyped DEF Answer
<1>9. ASSUME NEW q \in Requests, NEW l \in Lists, ValidOrder(l), Goto(q, "ordering"),
             list' = [list EXCEPT ![q] = l], pc[q] = "new",
             UNCHANGED <<tableVars, objects, lock, about, copy, at>>
      PROVE  TypeOK'
  BY <1>1, <1>2, <1>3, <1>9, ReorderTyped
<1>10. ASSUME NEW q \in Requests, Exists(list[q][at[q] + 1]), ReorderRow(q)
       PROVE  TypeOK'
  BY <1>1, <1>2, <1>3, <1>10, RowStep
<1>11. ASSUME NEW q \in Requests, ReorderCommit(q)
       PROVE  TypeOK'
  <2>1. list[q] \in Seq(Int) /\ ValidOrder(list[q])
    BY <1>1, <1>11 DEF WorkTyped, ReorderCommit
  <2>2. row' = Arranged(list[q]) /\ UNCHANGED <<issued, copied, objects>>
    BY <1>11 DEF ReorderCommit
  <2>3. /\ row' \in [Ids -> Rows \cup {NoRow}] \/ Ids = {}
        /\ \A i \in Ids : row'[i] # NoRow => row[i] # NoRow
    BY <2>1, <2>2, ArrangedTyped
  <2>4. row' \in [Ids -> Rows \cup {NoRow}]
    BY <2>2, <2>3 DEF Arranged
  <2>5. TableTyped'
    BY <1>1, <2>2, <2>3, <2>4 DEF TableTyped
  <2>6. QED
    BY <1>1, <1>2, <1>11, <2>5, LeaveTyped DEF ReorderCommit
<1>12. ASSUME NEW q \in Requests, ListAgain(q)
       PROVE  TypeOK'
  BY <1>1, <1>2, <1>3, <1>12, LeaveTyped DEF ListAgain
<1>13. ASSUME NEW q \in Requests, Save(q)
       PROVE  TypeOK'
  <2>1. TableTyped'
    BY <1>1, <1>13 DEF TableTyped, Save, tableVars
  <2>2. WorkTyped'
    BY <1>1, <1>13, LeaveTyped, GotoTyped DEF Save
  <2>3. QED
    BY <1>2, <2>1, <2>2
<1>14. ASSUME NEW q \in Requests, Exists(about[q]), UpdateImageURL(q)
       PROVE  TypeOK'
  <2>1. /\ pc[q] = "saved"
        /\ row' = [row EXCEPT ![about[q]].image = q]
        /\ UNCHANGED <<issued, copied, objects>>
        /\ \/ Goto(q, "replaced") /\ UNCHANGED <<lock, about, copy, list, at>>
           \/ Leave(q, "refused")
    BY <1>14 DEF UpdateImageURL
  <2>2. about[q] \in Ids /\ row[about[q]] # NoRow
    BY <1>14 DEF Exists
  <2>3. row[about[q]] \in Rows
    BY <1>1, <2>2 DEF TableTyped
  <2>4. [row[about[q]] EXCEPT !.image = q] \in Rows
    BY <2>3 DEF Rows, Images
  <2>5. row' = [row EXCEPT ![about[q]] = [row[about[q]] EXCEPT !.image = q]]
    BY <2>1
  <2>6. TableTyped'
    BY <1>1, <2>1, <2>2, <2>4, <2>5 DEF TableTyped
  <2>7. WorkTyped'
    BY <1>1, <2>1, LeaveTyped, GotoTyped
  <2>8. QED
    BY <1>2, <2>6, <2>7
<1>15. ASSUME NEW q \in Requests, DeleteReplaced(q)
       PROVE  TypeOK'
  <2>1. TableTyped'
    BY <1>1, <1>15 DEF TableTyped, DeleteReplaced, tableVars
  <2>2. QED
    BY <1>1, <1>2, <1>15, <2>1, LeaveTyped DEF DeleteReplaced
<1>16. QED
  BY <1>4, <1>5, <1>6, <1>7, <1>8, <1>9, <1>10, <1>11, <1>12, <1>13, <1>14, <1>15,
    StepCases

LEMMA InitTyped == Init => TypeOK
<1> SUFFICES ASSUME Init
             PROVE  TypeOK
  OBVIOUS
<1>1. [position : Ids, image : {NoObject}] \subseteq Rows
  <2>1. Ids \subseteq Int /\ {NoObject} \subseteq Images
    BY SuppliersAssumption DEF Images
  <2>2. QED
    BY <2>1 DEF Rows
<1>2. TableTyped
  BY <1>1 DEF Init, TableTyped
<1>3. /\ pc \in [Requests -> States]
      /\ \A q \in Requests : pc[q] = "new" /\ at[q] = 0
      /\ list \in [Requests -> Seq(Int)]
  BY DEF Init, States
<1>4. WorkTyped
  BY <1>3 DEF Init, WorkTyped
<1>5. QED
  BY <1>2, <1>4, TypeParts

\* Every reachable state of the suppliers is well typed.
THEOREM TypeCorrect == Spec => []TypeOK
<1>1. TypeOK /\ UNCHANGED vars => TypeOK'
  BY DEF TypeOK, ValidOrder, vars, tableVars, requestVars
<1>2. QED
  BY <1>1, InitTyped, TypeStep, PTL DEF Spec

-----------------------------------------------------------------------------
(* A deleted supplier stays deleted. *)

LEMMA DeletedStep ==
  ASSUME TypeOK, Next, NEW i \in issued, row[i] = NoRow
  PROVE  row'[i] = NoRow
<1>1. i \in Ids /\ ~Exists(i)
  BY DEF TypeOK, Exists
<1>2. ASSUME NEW q \in Requests, Create(q)
      PROVE  row'[i] = NoRow
  <2>1. PICK j \in Ids \ issued : \E r : row' = [row EXCEPT ![j] = r]
    BY <1>2 DEF Create
  <2>2. QED
    BY <1>1, <2>1 DEF TypeOK
<1>3. ASSUME NEW q \in Requests, Exists(about[q]), Update(q)
      PROVE  row'[i] = NoRow
  <2>1. row' = [row EXCEPT ![about[q]] = copy[q]]
    BY <1>3 DEF Update
  <2>2. QED
    BY <1>1, <1>3, <2>1 DEF TypeOK
<1>4. ASSUME NEW q \in Requests, Exists(about[q]), UpdateImageURL(q)
      PROVE  row'[i] = NoRow
  <2>1. row' = [row EXCEPT ![about[q]].image = q]
    BY <1>4 DEF UpdateImageURL
  <2>2. QED
    BY <1>1, <1>4, <2>1 DEF TypeOK
<1>5. ASSUME NEW q \in Requests, ReorderCommit(q)
      PROVE  row'[i] = NoRow
  BY <1>1, <1>5 DEF ReorderCommit, Arranged
<1>6. ASSUME UNCHANGED row
      PROVE  row'[i] = NoRow
  BY <1>6
<1>7. ASSUME NEW j \in Ids, row' = [row EXCEPT ![j] = NoRow]
      PROVE  row'[i] = NoRow
  BY <1>1, <1>7 DEF TypeOK
<1>8. QED
  BY <1>2, <1>3, <1>4, <1>5, <1>6, <1>7, StepCases
    DEF Refuse, Lookup, Read, ReorderRow, ListAgain, Save, DeleteReplaced, tableVars

\* No request brings a deleted supplier back.
THEOREM DeletedForGood == Spec => DeletedStays
<1>1. TypeOK /\ [Next]_vars =>
        [\A i \in issued : row[i] = NoRow => row'[i] = NoRow]_vars
  BY DeletedStep
<1>2. QED
  BY <1>1, TypeCorrect, PTL DEF Spec, DeletedStays

-----------------------------------------------------------------------------
(* A rearrangement holds the rows it has updated until it ends. *)

RowsHeld ==
  \A q \in Requests : pc[q] = "ordering" =>
    \A k \in 1 .. at[q] :
      list[q][k] \in Ids /\ lock[list[q][k]] = q /\ row[list[q][k]] # NoRow

\* What other requests leave alone, and what a request's end does.
LEMMA LeaveOrdering ==
  ASSUME TypeOK, NEW q \in Requests, NEW state \in {"done", "refused", "listing"},
         Leave(q, state)
  PROVE  /\ pc'[q] = state
         /\ \A r \in Requests \ {q} :
              pc'[r] = pc[r] /\ list'[r] = list[r] /\ at'[r] = at[r]
         /\ \A i \in Ids : lock[i] # q => lock'[i] = lock[i]
BY DEF TypeOK, Leave, Goto

\* A step that takes away no row held by another keeps the rest held.
LEMMA HeldFrame ==
  ASSUME RowsHeld, NEW q \in Requests,
         pc'[q] # "ordering",
         \A r \in Requests \ {q} :
           pc'[r] = pc[r] /\ list'[r] = list[r] /\ at'[r] = at[r],
         \A i \in Ids : lock[i] # q => lock'[i] = lock[i],
         \A i \in Ids : row[i] # NoRow /\ lock[i] \in Requests \ {q} => row'[i] # NoRow
  PROVE  RowsHeld'
BY DEF RowsHeld

LEMMA HeldStep == TypeOK /\ RowsHeld /\ Next => RowsHeld'
<1> SUFFICES ASSUME TypeOK, RowsHeld, Next
             PROVE  RowsHeld'
  OBVIOUS
<1>1. ASSUME NEW q \in Requests, NEW state \in {"done", "refused", "listing"},
             Leave(q, state),
             \A i \in Ids : row[i] # NoRow /\ lock[i] \in Requests \ {q} => row'[i] # NoRow
      PROVE  RowsHeld'
  BY <1>1, LeaveOrdering, HeldFrame
<1>2. ASSUME NEW q \in Requests, Refuse(q)
      PROVE  RowsHeld'
  BY <1>1, <1>2 DEF Refuse, tableVars
<1>3. ASSUME NEW q \in Requests, Create(q)
      PROVE  RowsHeld'
  <2>1. PICK j \in Ids \ issued, p \in Positions \cup NextPositions, u \in Images :
          row' = [row EXCEPT ![j] = [position |-> p, image |-> u]]
    BY <1>3 DEF Create
  <2>2. row[j] = NoRow
    BY <2>1 DEF TypeOK
  <2>3. \A i \in Ids : row[i] # NoRow => row'[i] # NoRow
    BY <2>1, <2>2 DEF TypeOK
  <2>4. QED
    BY <1>1, <1>3, <2>3 DEF Create, Answer
<1>4. ASSUME NEW q \in Requests, NEW i \in Ids, NEW r \in Rows,
             NEW state \in {"editing", "saving"}, Lookup(q, i, r, state)
      PROVE  RowsHeld'
  <2>1. /\ \A p \in Requests \ {q} : pc'[p] = pc[p]
        /\ pc'[q] # "ordering"
        /\ UNCHANGED <<lock, list, at, row>>
    BY <1>4 DEF Lookup, Read, Goto, tableVars, TypeOK
  <2>2. QED
    BY <2>1, HeldFrame
<1>5. ASSUME NEW q \in Requests, Exists(about[q]), Update(q)
      PROVE  RowsHeld'
  <2>1. row' = [row EXCEPT ![about[q]] = copy[q]] /\ pc[q] = "editing"
    BY <1>5 DEF Update
  <2>2. copy[q] # NoRow
    BY <2>1, SuppliersAssumption DEF TypeOK
  <2>3. \A i \in Ids : row[i] # NoRow => row'[i] # NoRow
    BY <2>1, <2>2 DEF TypeOK
  <2>4. QED
    BY <1>1, <1>5, <2>3 DEF Update, Answer
<1>6. ASSUME NEW q \in Requests, NEW i \in Ids, RowFree(i, q),
             row' = [row EXCEPT ![i] = NoRow], Answer(q)
      PROVE  RowsHeld'
  <2>1. \A j \in Ids : row[j] # NoRow /\ lock[j] \in Requests \ {q} => row'[j] # NoRow
    BY <1>6, SuppliersAssumption DEF TypeOK, RowFree
  <2>2. QED
    BY <1>1, <1>6, <2>1 DEF Answer
<1>7. ASSUME NEW q \in Requests, NEW l \in Lists, Goto(q, "ordering"),
             list' = [list EXCEPT ![q] = l], pc[q] = "new",
             UNCHANGED <<tableVars, objects, lock, about, copy, at>>
      PROVE  RowsHeld'
  <2>1. at[q] = 0
    BY <1>7 DEF TypeOK
  <2>2. \A r \in Requests \ {q} : pc'[r] = pc[r] /\ list'[r] = list[r]
    BY <1>7 DEF Goto, TypeOK
  <2>3. 1 .. at'[q] = {}
    BY <1>7, <2>1
  <2>4. QED
    BY <1>7, <2>2, <2>3 DEF RowsHeld, tableVars
<1>8. ASSUME NEW q \in Requests, Exists(list[q][at[q] + 1]), ReorderRow(q)
      PROVE  RowsHeld'
  <2> DEFINE i == list[q][at[q] + 1]
  <2>1. /\ i \in Ids /\ row[i] # NoRow
        /\ lock' = [lock EXCEPT ![i] = q]
        /\ at' = [at EXCEPT ![q] = @ + 1]
        /\ UNCHANGED <<row, pc, list>>
        /\ pc[q] = "ordering"
    BY <1>8, RowStep, TypeParts DEF Exists, tableVars, ReorderRow
  <2>2. lock[i] \in {Nobody, q}
    BY <1>8, <2>1 DEF ReorderRow, RowFree
  <2> HIDE DEF i
  <2>3. \A j \in Ids : lock'[j] = IF j = i THEN q ELSE lock[j]
    BY <2>1 DEF TypeOK
  <2>4. \A r \in Requests \ {q} : at'[r] = at[r]
    BY <2>1 DEF TypeOK
  <2>5. at[q] \in Nat /\ at'[q] = at[q] + 1
    BY <2>1 DEF TypeOK
  <2>6. ASSUME NEW k \in 1 .. at'[q]
        PROVE  list[q][k] \in Ids /\ lock'[list[q][k]] = q /\ row[list[q][k]] # NoRow
    <3>1. CASE k = at[q] + 1
      BY <2>1, <2>3, <3>1 DEF i
    <3>2. CASE k # at[q] + 1
      <4>1. k \in 1 .. at[q]
        BY <2>5, <3>2
      <4>2. QED
        BY <2>1, <2>3, <4>1 DEF RowsHeld
    <3>3. QED
      BY <3>1, <3>2
  <2>7. ASSUME NEW r \in Requests \ {q}, pc[r] = "ordering", NEW k \in 1 .. at[r]
        PROVE  list[r][k] \in Ids /\ lock'[list[r][k]] = r /\ row[list[r][k]] # NoRow
    <3>1. list[r][k] \in Ids /\ lock[list[r][k]] = r /\ row[list[r][k]] # NoRow
      BY <2>7 DEF RowsHeld
    <3>2. list[r][k] # i
      BY <2>2, <3>1, SuppliersAssumption
    <3>3. QED
      BY <2>3, <3>1, <3>2
  <2>8. QED
    BY <2>1, <2>4, <2>6, <2>7 DEF RowsHeld
<1>9. ASSUME NEW q \in Requests, ReorderCommit(q)
      PROVE  RowsHeld'
  <2>1. list[q] \in Seq(Int) /\ ValidOrder(list[q]) /\ row' = Arranged(list[q])
    BY <1>9 DEF TypeOK, ReorderCommit
  <2>2. \A i \in Ids : row[i] # NoRow => row'[i] # NoRow
    BY <2>1, ArrangedTyped
  <2>3. QED
    BY <1>1, <1>9, <2>2 DEF ReorderCommit
<1>10. ASSUME NEW q \in Requests, ListAgain(q) \/ DeleteReplaced(q)
       PROVE  RowsHeld'
  BY <1>1, <1>10 DEF ListAgain, DeleteReplaced, tableVars
<1>11. ASSUME NEW q \in Requests, NEW state \in {"saved", "replaced"}, Goto(q, state),
              UNCHANGED <<lock, about, copy, list, at>>,
              \A i \in Ids : row[i] # NoRow => row'[i] # NoRow
       PROVE  RowsHeld'
  <2>1. pc'[q] # "ordering" /\ \A r \in Requests \ {q} : pc'[r] = pc[r]
    BY <1>11 DEF Goto, TypeOK
  <2>2. QED
    BY <1>11, <2>1, HeldFrame
<1>12. ASSUME NEW q \in Requests, Save(q)
       PROVE  RowsHeld'
  BY <1>1, <1>11, <1>12 DEF Save, tableVars
<1>13. ASSUME NEW q \in Requests, Exists(about[q]), UpdateImageURL(q)
       PROVE  RowsHeld'
  <2>1. row' = [row EXCEPT ![about[q]] = [row[about[q]] EXCEPT !.image = q]]
    BY <1>13 DEF UpdateImageURL
  <2>2. row[about[q]] \in Rows
    BY <1>13 DEF TypeOK, Exists
  <2>3. [row[about[q]] EXCEPT !.image = q] \in Rows
    BY <2>2 DEF Rows, Images
  <2>4. \A i \in Ids : row[i] # NoRow => row'[i] # NoRow
    BY <2>1, <2>3, SuppliersAssumption DEF TypeOK
  <2>5. QED
    BY <1>1, <1>11, <1>13, <2>4 DEF UpdateImageURL
<1>14. QED
  BY <1>2, <1>3, <1>4, <1>5, <1>6, <1>7, <1>8, <1>9, <1>10, <1>12, <1>13, StepCases

LEMMA HeldAlways == Spec => []RowsHeld
<1>1. Init => RowsHeld
  BY DEF Init, RowsHeld
<1>2. RowsHeld /\ UNCHANGED vars => RowsHeld'
  BY DEF RowsHeld, vars, tableVars, requestVars
<1>3. QED
  BY <1>1, <1>2, HeldStep, TypeCorrect, PTL DEF Spec

OrderInForce(q) ==
  LET l == list[q]
  IN  /\ \A k \in DOMAIN l : l[k] \in Ids /\ row'[l[k]] # NoRow
      /\ \A j, k \in DOMAIN l : j < k => Before(row', l[j], l[k])

\* Once every row is held, COMMIT puts all of them where they belong.
LEMMA CommitOrders ==
  ASSUME TypeOK, RowsHeld, NEW q \in Requests, ReorderCommit(q)
  PROVE  OrderInForce(q)
<1> DEFINE l == list[q]
<1>1. /\ pc[q] = "ordering" /\ at[q] = Len(l) /\ row' = Arranged(l)
      /\ l \in Seq(Int) /\ ValidOrder(l)
  BY DEF TypeOK, ReorderCommit
<1>2. \A k \in DOMAIN l : k \in 1 .. at[q] /\ k \in Int
  BY <1>1
<1>3. ASSUME NEW k \in DOMAIN l
      PROVE  l[k] \in Ids /\ row'[l[k]] # NoRow /\ row'[l[k]].position = k
  <2>1. l[k] \in Ids /\ row[l[k]] # NoRow
    BY <1>1, <1>2 DEF RowsHeld
  <2>2. Exists(l[k])
    BY <2>1 DEF Exists
  <2>3. QED
    BY <1>1, <2>1, <2>2, ArrangedTyped
<1>4. QED
  BY <1>2, <1>3 DEF OrderInForce, Before

\* Nothing but its COMMIT lets a rearrangement change the list.
LEMMA OnlyCommits ==
  ASSUME TypeOK, Next, NEW q \in Requests, pc[q] = "ordering",
         pc'[q] # pc[q] \/ at'[q] # at[q], row' # row
  PROVE  ReorderCommit(q)
<1>1. ASSUME NEW r \in Requests, NEW state \in {"done", "refused", "listing"},
             Leave(r, state)
      PROVE  r = q
  BY <1>1 DEF Leave, Goto, TypeOK
<1>2. ASSUME NEW r \in Requests, NEW state, Goto(r, state), UNCHANGED at
      PROVE  r = q
  BY <1>2 DEF Goto, TypeOK
<1>3. ASSUME NEW r \in Requests, Create(r)
      PROVE  FALSE
  BY <1>1, <1>3 DEF Create, Answer
<1>4. ASSUME NEW r \in Requests, pc[r] = "new", Answer(r)
      PROVE  FALSE
  BY <1>1, <1>4 DEF Answer
<1>5. ASSUME NEW r \in Requests, Update(r), Exists(about[r])
      PROVE  FALSE
  BY <1>1, <1>5 DEF Update, Answer
<1>6. ASSUME NEW r \in Requests, UpdateImageURL(r), Exists(about[r])
      PROVE  FALSE
  BY <1>1, <1>2, <1>6 DEF UpdateImageURL
<1>7. ASSUME NEW r \in Requests, ReorderCommit(r)
      PROVE  ReorderCommit(q)
  BY <1>1, <1>7 DEF ReorderCommit
<1>8. ASSUME UNCHANGED row
      PROVE  FALSE
  BY <1>8
<1>9. QED
  BY <1>3, <1>4, <1>5, <1>6, <1>7, <1>8, StepCases
    DEF Refuse, Lookup, Read, ReorderRow, ListAgain, Save, DeleteReplaced, tableVars

\* A rearrangement changes the list as a whole or not at all.
THEOREM OrderAtomic == Spec => Rearranged
<1> DEFINE A == \A q \in Requests :
                  /\ pc[q] = "ordering"
                  /\ pc'[q] # pc[q] \/ at'[q] # at[q]
                  /\ row' # row
                  => LET l == list[q]
                     IN  /\ \A k \in DOMAIN l : l[k] \in Ids /\ row'[l[k]] # NoRow
                         /\ \A j, k \in DOMAIN l : j < k => Before(row', l[j], l[k])
<1>1. TypeOK /\ RowsHeld /\ Next => A
  BY CommitOrders, OnlyCommits DEF OrderInForce
<1> HIDE DEF A
<1>2. TypeOK /\ RowsHeld /\ [Next]_vars => [A]_vars
  BY <1>1
<1>3. Spec => [][A]_vars
  BY <1>2, TypeCorrect, HeldAlways, PTL DEF Spec
<1>4. QED
  BY <1>3 DEF A, Rearranged

-----------------------------------------------------------------------------
(* Images. *)

Uploading == {"saving", "saved", "replaced"}

\* Supplier i, or an upload at work on it, has the object o.
Held(o, i) ==
  \/ Exists(i) /\ row[i].image = o
  \/ \E r \in Requests : pc[r] \in Uploading /\ about[r] = i /\ copy[r].image = o

\* No row has been given the object that the request saves.
Early == {"new", "editing", "saving", "saved", "ordering", "listing"}

OneHome ==
  \A o \in Requests \ copied, i, j \in Ids : Held(o, i) /\ Held(o, j) => i = j

Unlinked ==
  \A q \in Requests \ copied : pc[q] \in Early => \A i \in Ids : ~Held(q, i)

SavedThere == \A q \in Requests \ copied : pc[q] = "saved" => q \in objects

\* The object that an upload is about to delete is nobody's image any more.
Superseded ==
  \A q \in Requests : pc[q] = "replaced" /\ copy[q].image \in Requests \ copied =>
    \A i \in Ids : Exists(i) => row[i].image # copy[q].image

ImagesInv == OneHome /\ Unlinked /\ SavedThere /\ Superseded /\ ImagesServed

\* A step that gives nobody an object it had not, but for those it copies.
Quiet ==
  /\ copied \subseteq copied'
  /\ \A r \in Requests : pc'[r] \in Uploading =>
       pc[r] \in Uploading /\ copy'[r] = copy[r] /\ about'[r] = about[r]
  /\ \A i \in Ids : Exists(i)' /\ row'[i].image \in Requests \ copied' =>
       Exists(i) /\ row[i].image = row'[i].image
  /\ \A r \in Requests :
       /\ pc'[r] \in Early => pc[r] \in Early
       /\ pc'[r] = "saved" => pc[r] = "saved" \/ r \in objects'
       /\ pc'[r] = "replaced" => pc[r] = "replaced"

LEMMA QuietKeeps ==
  ASSUME TypeOK, ImagesInv, Quiet, objects \subseteq objects'
  PROVE  ImagesInv'
<1>1. ASSUME NEW o \in Requests \ copied', NEW i \in Ids, Held(o, i)'
      PROVE  Held(o, i)
  <2>1. CASE Exists(i)' /\ row'[i].image = o
    BY <1>1, <2>1 DEF Quiet, Held
  <2>2. CASE \E r \in Requests :
               pc'[r] \in Uploading /\ about'[r] = i /\ copy'[r].image = o
    BY <2>2 DEF Quiet, Held
  <2>3. QED
    BY <1>1, <2>1, <2>2 DEF Held
<1>2. copied \subseteq copied'
  BY DEF Quiet
<1>3. OneHome'
  BY <1>1, <1>2 DEF ImagesInv, OneHome
<1>4. Unlinked'
  BY <1>1, <1>2 DEF ImagesInv, Unlinked, Quiet
<1>5. SavedThere'
  BY <1>2 DEF ImagesInv, SavedThere, Quiet
<1>6. Superseded'
  BY <1>2 DEF ImagesInv, Superseded, Quiet, Uploading
<1>7. ImagesServed'
  BY <1>2 DEF ImagesInv, ImagesServed, Quiet
<1>8. QED
  BY <1>3, <1>4, <1>5, <1>6, <1>7 DEF ImagesInv

\* The end of a request gives nobody anything.
LEMMA LeaveQuiet ==
  ASSUME TypeOK, NEW q \in Requests, NEW state \in {"done", "refused", "listing"},
         state = "listing" => pc[q] = "ordering",
         Leave(q, state)
  PROVE  /\ \A r \in Requests : pc'[r] \in Uploading =>
              pc'[r] = pc[r] /\ copy'[r] = copy[r] /\ about'[r] = about[r]
         /\ \A r \in Requests : pc'[r] \in Early => pc[r] \in Early
<1>1. /\ pc' = [pc EXCEPT ![q] = state]
      /\ about' = [about EXCEPT ![q] = Nobody]
      /\ copy' = [copy EXCEPT ![q] = NoRow]
  BY DEF Leave, Goto
<1>2. QED
  BY <1>1 DEF TypeOK, Early, Uploading

LEMMA QuietStep ==
  ASSUME TypeOK, Next
  PROVE  \/ Quiet /\ objects \subseteq objects'
         \/ \E q \in Requests :
              \/ \E i \in Ids : Lookup(q, i, row[i], "saving")
              \/ Exists(about[q]) /\ UpdateImageURL(q)
              \/ DeleteReplaced(q)
<1> DEFINE Goal == Quiet /\ objects \subseteq objects'
           Kept == \A i \in Ids : Exists(i)' /\ row'[i].image \in Requests \ copied' =>
                     Exists(i) /\ row[i].image = row'[i].image
<1>1. ASSUME NEW q \in Requests, NEW state \in {"done", "refused", "listing"},
             state = "listing" => pc[q] = "ordering", Leave(q, state),
             objects \subseteq objects', copied \subseteq copied', Kept
      PROVE  Goal
  BY <1>1, LeaveQuiet DEF Quiet, Uploading
<1>2. ASSUME UNCHANGED row
      PROVE  Kept
  BY <1>2 DEF Exists
<1>3. ASSUME NEW q \in Requests, Refuse(q)
      PROVE  Goal
  BY <1>1, <1>2, <1>3 DEF Refuse, tableVars
<1>4. ASSUME NEW q \in Requests, Create(q)
      PROVE  Goal
  <2>1. PICK j \in Ids \ issued, p \in Positions \cup NextPositions, u \in Images :
          /\ row' = [row EXCEPT ![j] = [position |-> p, image |-> u]]
          /\ copied' = copied \cup ({u} \ {NoObject})
    BY <1>4 DEF Create
  <2>2. row'[j].image = u /\ u \notin Requests \ copied'
    BY <2>1, SuppliersAssumption DEF TypeOK
  <2>3. \A i \in Ids \ {j} : row'[i] = row[i]
    BY <2>1 DEF TypeOK
  <2>4. Kept
    BY <2>2, <2>3 DEF Exists
  <2>5. QED
    BY <1>1, <1>4, <2>1, <2>4 DEF Create, Answer
<1>5. ASSUME NEW q \in Requests, NEW j \in Ids, row' = [row EXCEPT ![j] = NoRow],
             Answer(q), UNCHANGED <<copied, objects>>
      PROVE  Goal
  <2>1. Kept
    BY <1>5 DEF TypeOK, Exists
  <2>2. QED
    BY <1>1, <1>5, <2>1 DEF Answer
<1>6. ASSUME NEW q \in Requests, NEW state \in {"ordering", "editing"}, Goto(q, state),
             pc[q] = "new", UNCHANGED <<tableVars, objects>>,
             \A r \in Requests \ {q} : about'[r] = about[r] /\ copy'[r] = copy[r]
      PROVE  Goal
  <2>1. \A r \in Requests : pc'[r] = IF r = q THEN state ELSE pc[r]
    BY <1>6 DEF Goto, TypeOK
  <2>2. QED
    BY <1>2, <1>6, <2>1 DEF Quiet, Early, Uploading, tableVars
<1>7. ASSUME NEW q \in Requests, NEW i \in Ids, NEW r \in Rows,
             Lookup(q, i, r, "editing")
      PROVE  Goal
  <2>1. \A p \in Requests \ {q} : about'[p] = about[p] /\ copy'[p] = copy[p]
    BY <1>7 DEF Lookup, Read, TypeOK
  <2>2. QED
    BY <1>6, <1>7, <2>1 DEF Lookup, Read
<1>8. ASSUME NEW q \in Requests, Exists(about[q]), Update(q)
      PROVE  Goal
  <2> DEFINE i == about[q]
  <2>1. /\ row' = [row EXCEPT ![i] = copy[q]]
        /\ copied' = copied \cup ({copy[q].image} \ {row[i].image, NoObject})
        /\ objects' = objects
        /\ Leave(q, "done") \/ Leave(q, "refused")
    BY <1>8 DEF Update, Answer, Copied
  <2>2. \A j \in Ids : row'[j] = IF j = i THEN copy[q] ELSE row[j]
    BY <2>1 DEF TypeOK
  <2>3. Kept
    BY <1>8, <2>1, <2>2, SuppliersAssumption DEF Exists
  <2>4. QED
    BY <1>1, <2>1, <2>3
<1>9. ASSUME NEW q \in Requests, Exists(list[q][at[q] + 1]), ReorderRow(q)
      PROVE  Goal
  <2>1. UNCHANGED <<tableVars, objects, pc, about, copy>>
    BY <1>9 DEF ReorderRow, Exists
  <2>2. QED
    BY <1>2, <2>1 DEF Quiet, tableVars
<1>10. ASSUME NEW q \in Requests, ReorderCommit(q)
       PROVE  Goal
  <2>1. list[q] \in Seq(Int) /\ ValidOrder(list[q]) /\ row' = Arranged(list[q])
    BY <1>10 DEF TypeOK, ReorderCommit
  <2>2. Kept
    BY <2>1, ArrangedTyped DEF Exists
  <2>3. QED
    BY <1>1, <1>10, <2>2 DEF ReorderCommit
<1>11. ASSUME NEW q \in Requests, ListAgain(q)
       PROVE  Goal
  BY <1>1, <1>2, <1>11 DEF ListAgain, tableVars
<1>12. ASSUME NEW q \in Requests, Save(q)
       PROVE  Goal
  <2>1. /\ objects' = objects \cup {q} /\ UNCHANGED tableVars
        /\ pc[q] = "saving"
    BY <1>12 DEF Save
  <2>2. CASE Leave(q, "refused")
    BY <1>1, <1>2, <2>1, <2>2 DEF tableVars
  <2>3. CASE Goto(q, "saved") /\ UNCHANGED <<about, copy>>
    <3>1. \A r \in Requests : pc'[r] = IF r = q THEN "saved" ELSE pc[r]
      BY <2>3 DEF Goto, TypeOK
    <3>2. QED
      BY <1>2, <2>1, <2>3, <3>1 DEF Quiet, Early, Uploading, tableVars
  <2>4. QED
    BY <1>12, <2>2, <2>3 DEF Save
<1>13. ASSUME NEW q \in Requests, NEW l \in Lists, Goto(q, "ordering"), pc[q] = "new",
              UNCHANGED <<tableVars, objects, lock, about, copy, at>>
       PROVE  Goal
  BY <1>6, <1>13
<1>14. ASSUME NEW q \in Requests, NEW i \in Ids, NEW r \in Rows,
              NEW state \in {"editing", "saving"}, Lookup(q, i, r, state)
       PROVE  Goal \/ Lookup(q, i, row[i], "saving")
  <2>1. CASE state = "editing"
    BY <1>7, <1>14, <2>1
  <2>2. CASE state = "saving"
    BY <1>14, <2>2 DEF Lookup
  <2>3. QED
    BY <2>1, <2>2
<1> HIDE DEF Goal, Kept
<1>15. Goal => Quiet /\ objects \subseteq objects'
  BY DEF Goal
<1>16. QED
  BY <1>3, <1>4, <1>5, <1>8, <1>9, <1>10, <1>11, <1>12, <1>13, <1>14, <1>15, StepCases

LEMMA LookupKeeps ==
  ASSUME TypeOK, ImagesInv, NEW q \in Requests, NEW i \in Ids,
         Lookup(q, i, row[i], "saving")
  PROVE  ImagesInv'
<1>1. /\ Exists(i) /\ pc[q] = "new"
      /\ pc' = [pc EXCEPT ![q] = "saving"]
      /\ about' = [about EXCEPT ![q] = i]
      /\ copy' = [copy EXCEPT ![q] = row[i]]
      /\ UNCHANGED <<row, copied, objects>>
  BY DEF Lookup, Read, Goto, tableVars
<1>2. \A p \in Requests :
        /\ pc'[p] = IF p = q THEN "saving" ELSE pc[p]
        /\ about'[p] = IF p = q THEN i ELSE about[p]
        /\ copy'[p] = IF p = q THEN row[i] ELSE copy[p]
  BY <1>1 DEF TypeOK
<1>3. ASSUME NEW o \in Requests, NEW j \in Ids, Held(o, j)'
      PROVE  Held(o, j)
  <2>1. CASE Exists(j)' /\ row'[j].image = o
    BY <1>1, <2>1 DEF Held, Exists
  <2>2. CASE \E p \in Requests :
               pc'[p] \in Uploading /\ about'[p] = j /\ copy'[p].image = o
    <3>1. PICK p \in Requests :
                 pc'[p] \in Uploading /\ about'[p] = j /\ copy'[p].image = o
      BY <2>2
    <3>2. QED
      BY <1>1, <1>2, <3>1 DEF Held
  <2>3. QED
    BY <1>3, <2>1, <2>2 DEF Held
<1>4. OneHome' /\ Unlinked'
  BY <1>1, <1>2, <1>3 DEF ImagesInv, OneHome, Unlinked, Early
<1>5. SavedThere'
  BY <1>1, <1>2 DEF ImagesInv, SavedThere
<1>6. Superseded'
  BY <1>1, <1>2 DEF ImagesInv, Superseded, Exists
<1>7. ImagesServed'
  BY <1>1 DEF ImagesInv, ImagesServed, Exists
<1>8. QED
  BY <1>4, <1>5, <1>6, <1>7 DEF ImagesInv

LEMMA UpdateImageKeeps ==
  ASSUME TypeOK, ImagesInv, NEW q \in Requests, Exists(about[q]), UpdateImageURL(q)
  PROVE  ImagesInv'
<1> DEFINE i == about[q]
<1>1. /\ pc[q] = "saved"
      /\ row' = [row EXCEPT ![i] = [row[i] EXCEPT !.image = q]]
      /\ UNCHANGED <<copied, objects>>
      /\ \/ Goto(q, "replaced") /\ UNCHANGED <<about, copy>>
         \/ Leave(q, "refused")
  BY DEF UpdateImageURL
<1>2. i \in Ids /\ row[i] \in Rows
  BY DEF Exists, TypeOK
<1>3. \A j \in Ids : j # i => row'[j] = row[j]
  BY <1>1 DEF TypeOK
<1>4. row'[i].image = q
  BY <1>1, <1>2 DEF TypeOK, Rows
<1>5. \A r \in Requests : pc'[r] \in Uploading =>
        pc[r] \in Uploading /\ copy'[r] = copy[r] /\ about'[r] = about[r]
  <2>1. CASE Leave(q, "refused")
    BY <2>1, LeaveQuiet
  <2>2. CASE Goto(q, "replaced") /\ UNCHANGED <<about, copy>>
    BY <1>1, <2>2 DEF Goto, TypeOK, Uploading
  <2>3. QED
    BY <1>1, <2>1, <2>2
<1>6. /\ pc'[q] \in {"replaced", "refused"}
      /\ \A r \in Requests \ {q} : pc'[r] = pc[r]
  BY <1>1 DEF Goto, Leave, TypeOK
<1>7. q \notin copied => \A j \in Ids : ~Held(q, j)
  BY <1>1 DEF ImagesInv, Unlinked, Early
<1> HIDE DEF i
<1>8. ASSUME NEW o \in Requests, NEW j \in Ids, Held(o, j)'
      PROVE  Held(o, j) \/ (o = q /\ j = i)
  <2>1. CASE Exists(j)' /\ row'[j].image = o
    BY <1>3, <1>4, <2>1 DEF Held, Exists
  <2>2. CASE \E r \in Requests :
               pc'[r] \in Uploading /\ about'[r] = j /\ copy'[r].image = o
    BY <1>5, <2>2 DEF Held
  <2>3. QED
    BY <1>8, <2>1, <2>2 DEF Held
<1>9. OneHome'
  BY <1>1, <1>7, <1>8 DEF ImagesInv, OneHome
<1>10. Unlinked'
  BY <1>1, <1>6, <1>8 DEF ImagesInv, Unlinked, Early
<1>11. SavedThere'
  BY <1>1, <1>6 DEF ImagesInv, SavedThere
<1>12. ImagesServed'
  BY <1>1, <1>3, <1>4 DEF ImagesInv, ImagesServed, SavedThere, Exists
<1>13. Superseded'
  <2> SUFFICES ASSUME NEW r \in Requests, pc'[r] = "replaced",
                      copy'[r].image \in Requests \ copied',
                      NEW j \in Ids, Exists(j)'
               PROVE  row'[j].image # copy'[r].image
    BY DEF Superseded
  <2> DEFINE o == copy[r].image
  <2>1. /\ pc[r] \in Uploading /\ copy'[r] = copy[r]
        /\ o \in Requests \ copied
    BY <1>1, <1>5 DEF Uploading
  <2>2. about[r] \in Ids /\ Held(o, about[r])
    BY <2>1 DEF Held, Uploading, TypeOK
  <2>3. o # q
    BY <1>7, <2>1, <2>2
  <2>4. CASE j = i
    BY <1>4, <2>1, <2>3, <2>4
  <2>5. CASE j # i /\ r = q
    <3>1. Exists(j) /\ row'[j] = row[j]
      BY <1>3, <2>5 DEF Exists
    <3>2. row[j].image = o => Held(o, j)
      BY <3>1 DEF Held
    <3>3. about[r] = i
      BY <2>5 DEF i
    <3>4. QED
      BY <1>2, <2>1, <2>2, <2>5, <3>1, <3>2, <3>3 DEF ImagesInv, OneHome
  <2>6. CASE j # i /\ r # q
    <3>1. Exists(j) /\ row'[j] = row[j] /\ pc[r] = "replaced"
      BY <1>3, <1>6, <2>6 DEF Exists
    <3>2. QED
      BY <2>1, <3>1 DEF ImagesInv, Superseded
  <2>7. QED
    BY <2>4, <2>5, <2>6
<1>14. QED
  BY <1>9, <1>10, <1>11, <1>12, <1>13 DEF ImagesInv

LEMMA DeleteReplacedKeeps ==
  ASSUME TypeOK, ImagesInv, NEW q \in Requests, DeleteReplaced(q)
  PROVE  ImagesInv'
<1>1. /\ pc[q] = "replaced" /\ Leave(q, "done") /\ UNCHANGED <<row, copied>>
      /\ \/ objects' = objects
         \/ objects' = objects \ {copy[q].image}
  BY DEF DeleteReplaced, Replaced, tableVars
<1>2. /\ \A r \in Requests : pc'[r] \in Uploading =>
           pc'[r] = pc[r] /\ copy'[r] = copy[r] /\ about'[r] = about[r]
      /\ \A r \in Requests : pc'[r] \in Early => pc[r] \in Early
  BY <1>1, LeaveQuiet
<1>3. ASSUME NEW o \in Requests, NEW i \in Ids, Held(o, i)'
      PROVE  Held(o, i)
  BY <1>1, <1>2, <1>3 DEF Held, Exists
<1>4. OneHome' /\ Unlinked'
  BY <1>1, <1>2, <1>3 DEF ImagesInv, OneHome, Unlinked
<1>5. Superseded'
  BY <1>1, <1>2 DEF ImagesInv, Superseded, Exists, Uploading
<1>6. SavedThere'
  <2> SUFFICES ASSUME NEW r \in Requests \ copied, pc'[r] = "saved"
               PROVE  r \in objects'
    BY <1>1 DEF SavedThere
  <2>1. pc[r] = "saved" /\ r \in objects
    BY <1>2 DEF ImagesInv, SavedThere, Uploading
  <2>2. about[q] \in Ids /\ Held(copy[q].image, about[q])
    BY <1>1 DEF Held, Uploading, TypeOK
  <2>3. copy[q].image # r
    BY <2>1, <2>2 DEF ImagesInv, Unlinked, Early
  <2>4. QED
    BY <1>1, <2>1, <2>3
<1>7. ImagesServed'
  BY <1>1 DEF ImagesInv, ImagesServed, Superseded, Exists
<1>8. QED
  BY <1>4, <1>5, <1>6, <1>7 DEF ImagesInv

\* An image that no body has named and no late edit has written back can be
\* fetched as long as a supplier shows it.
THEOREM ImagesStay == Spec => []ImagesServed
<1>1. Init => ImagesInv
  <2> SUFFICES ASSUME Init
               PROVE  ImagesInv
    OBVIOUS
  <2>1. /\ \A i \in Ids : Exists(i) => row[i].image = NoObject
        /\ \A q \in Requests : pc[q] = "new"
    BY DEF Init, Exists
  <2>2. \A o \in Requests, i \in Ids : ~Held(o, i)
    BY <2>1, SuppliersAssumption DEF Held, Uploading
  <2>3. QED
    BY <2>1, <2>2, SuppliersAssumption
      DEF ImagesInv, OneHome, Unlinked, SavedThere, Superseded, ImagesServed
<1>2. TypeOK /\ ImagesInv /\ Next => ImagesInv'
  BY QuietStep, QuietKeeps, LookupKeeps, UpdateImageKeeps, DeleteReplacedKeeps
<1>3. ImagesInv /\ UNCHANGED vars => ImagesInv'
  BY DEF ImagesInv, OneHome, Unlinked, SavedThere, Superseded, ImagesServed, Held, Exists,
    vars, tableVars, requestVars
<1>4. ImagesInv => ImagesServed
  BY DEF ImagesInv
<1>5. QED
  BY <1>1, <1>2, <1>3, <1>4, TypeCorrect, PTL DEF Spec
=============================================================================
