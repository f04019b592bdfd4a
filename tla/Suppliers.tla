----------------------------- MODULE Suppliers -----------------------------
(***************************************************************************)
(* The restaurant's suppliers as the owner's requests change them: create, *)
(* edit, delete, rearrange, and replace the image, which is an object in a *)
(* bucket next to the row.  An action is one SQL statement, one COMMIT or  *)
(* one call of the storage; only the rearrangement runs in a transaction.  *)
(*                                                                         *)
(* A row is its position and its image: texts, link and visibility are     *)
(* read, merged and overwritten together with these and tell nothing more. *)
(* An uploaded object has a fresh name, here the request that saved it.  A *)
(* body may name any of them: the code checks no image_url.                *)
(***************************************************************************)
EXTENDS Integers, Sequences

CONSTANTS
  Ids,        \* suppliers.id
  Requests,   \* the owner's requests
  Positions,  \* display_order values that may be sent
  Lists,      \* orders that a rearrangement may ask for
  NoRow,      \* no row with the id
  NoObject,   \* image_url is NULL, or a URL outside the bucket
  Omitted,    \* a field left out of the body
  Nobody      \* no holder of a row's lock, no supplier at work on

Images == Requests \cup {NoObject}
Rows == [position : Int, image : Images]

ASSUME SuppliersAssumption ==
  /\ Ids \subseteq Nat \ {0}
  /\ Positions \subseteq Int
  /\ Lists \subseteq Seq(Int)
  /\ NoRow \notin Rows
  /\ NoObject \notin Requests
  /\ Omitted \notin Int \cup Images
  /\ Nobody \notin Requests \cup Ids

VARIABLES
  row,      \* suppliers, by id: what is committed
  issued,   \* ids the sequence has given out
  objects,  \* objects in the bucket
  lock,     \* the transaction that has updated a row, by id
  pc,       \* where each request is
  about,    \* the supplier an edit or an upload is about
  copy,     \* its row as read, with the fields of the edit filled in
  list,     \* the order a rearrangement asks for
  at,       \* how many rows of it have been updated
  (* History variable: no action depends on it. *)
  copied    \* images that a body or a late edit has put into a row

tableVars == <<row, issued, copied>>
requestVars == <<pc, about, copy, list, at>>
vars == <<tableVars, objects, lock, requestVars>>

States == {"new", "editing", "saving", "saved", "replaced", "ordering",
           "listing", "done", "refused"}
Ended == {"done", "refused"}

Exists(i) == i \in Ids /\ row[i] # NoRow

\* List, of a table t: ORDER BY display_order, id.
Before(t, i, j) ==
  \/ t[i].position < t[j].position
  \/ t[i].position = t[j].position /\ i < j

\* q's UPDATE or DELETE waits for a transaction that has updated the row.
RowFree(i, q) == lock[i] \in {Nobody, q}

-----------------------------------------------------------------------------
Init ==
  /\ row \in [Ids -> [position : Ids, image : {NoObject}] \cup {NoRow}]
  /\ \A i \in Ids : row[i] # NoRow => row[i].position = i
  /\ issued = {i \in Ids : row[i] # NoRow}
  /\ copied = {}
  /\ objects = {}
  /\ lock = [i \in Ids |-> Nobody]
  /\ pc = [q \in Requests |-> "new"]
  /\ about = [q \in Requests |-> Nobody]
  /\ copy = [q \in Requests |-> NoRow]
  /\ list = [q \in Requests |-> <<>>]
  /\ at = [q \in Requests |-> 0]

Goto(q, state) == pc' = [pc EXCEPT ![q] = state]

\* [Mutant of Leave] DoInTx returns the error and does not roll back.
LeaveWithLocks(q, state) ==
  /\ Goto(q, state)
  /\ about' = [about EXCEPT ![q] = Nobody]
  /\ copy' = [copy EXCEPT ![q] = NoRow]
  /\ list' = [list EXCEPT ![q] = <<>>]
  /\ at' = [at EXCEPT ![q] = 0]
  /\ UNCHANGED lock

\* The request, or its transaction, ends, and its locks and variables with it.
Leave(q, state) ==
  /\ Goto(q, state)
  /\ about' = [about EXCEPT ![q] = Nobody]
  /\ copy' = [copy EXCEPT ![q] = NoRow]
  /\ list' = [list EXCEPT ![q] = <<>>]
  /\ at' = [at EXCEPT ![q] = 0]
  /\ lock' = [i \in Ids |-> IF lock[i] = q THEN Nobody ELSE lock[i]]

\* An answer, or none: what a statement has done stays done.
Answer(q) == Leave(q, "done") \/ Leave(q, "refused")

\* Any answer but 200, 201 and 204; nothing is changed.
Refuse(q) == Leave(q, "refused") /\ UNCHANGED <<tableVars, objects>>

Read(q, i, r, state) ==
  /\ Goto(q, state)
  /\ about' = [about EXCEPT ![q] = i]
  /\ copy' = [copy EXCEPT ![q] = r]
  /\ UNCHANGED <<tableVars, objects, lock, list, at>>

-----------------------------------------------------------------------------
(* Create, edit, delete. *)

Given(value, default) == IF value = Omitted THEN default ELSE value

\* COALESCE(MAX(display_order), 0) + 1, a set of one.
NextPositions ==
  LET taken == {row[i].position : i \in {j \in Ids : Exists(j)}}
  IN  IF taken = {} THEN {1}
      ELSE {p + 1 : p \in {m \in taken : \A n \in taken : n <= m}}

\* image_url is stored as it is sent.
Create(q) ==
  /\ pc[q] = "new"
  /\ \E i \in Ids \ issued, p \in Positions \cup NextPositions, u \in Images :
       /\ \A j \in Ids \ issued : i <= j
       /\ row' = [row EXCEPT ![i] = [position |-> p, image |-> u]]
       /\ issued' = issued \cup {i}
       /\ copied' = copied \cup ({u} \ {NoObject})
  /\ Answer(q)
  /\ UNCHANGED objects

\* UpdateSupplierUseCase.Execute: GetByID, and what the body leaves out.
ReadForEdit(q) ==
  /\ pc[q] = "new"
  /\ \E i \in Ids :
       \/ ~Exists(i) /\ Refuse(q)
       \/ /\ Exists(i)
          /\ \E p \in Positions \cup {Omitted}, u \in Images \cup {Omitted} :
               Read(q, i, [position |-> Given(p, row[i].position),
                           image |-> Given(u, row[i].image)], "editing")

\* An image other than the row's is copied into it, from the body or from the
\* row as it was read.
Copied(q) ==
  {copy[q].image} \ {row[about[q]].image, NoObject}

\* [Mutant of Update] INSERT ... ON CONFLICT (id) DO UPDATE.
Upsert(q) ==
  LET i == about[q]
  IN  /\ pc[q] = "editing"
      /\ RowFree(i, q)
      /\ row' = [row EXCEPT ![i] = copy[q]]
      /\ copied' = copied \cup ({copy[q].image} \ {NoObject})
      /\ Answer(q)
      /\ UNCHANGED <<issued, objects>>

\* Every column is overwritten, with what was read or sent.
Update(q) ==
  LET i == about[q]
  IN  /\ pc[q] = "editing"
      /\ RowFree(i, q)
      /\ \/ ~Exists(i) /\ Refuse(q)
         \/ /\ Exists(i)
            /\ row' = [row EXCEPT ![i] = copy[q]]
            /\ copied' = copied \cup Copied(q)
            /\ Answer(q)
            /\ UNCHANGED <<issued, objects>>

Delete(q) ==
  /\ pc[q] = "new"
  /\ \E i \in Ids :
       /\ RowFree(i, q)
       /\ \/ ~Exists(i) /\ Refuse(q)
          \/ /\ Exists(i)
             /\ row' = [row EXCEPT ![i] = NoRow]
             /\ Answer(q)
             /\ UNCHANGED <<issued, copied, objects>>

-----------------------------------------------------------------------------
(* PUT /admin/suppliers/order: one transaction, one UPDATE a row. *)

ValidOrder(l) ==
  /\ l # <<>>
  /\ \A k \in DOMAIN l : l[k] > 0
  /\ \A j, k \in DOMAIN l : l[j] = l[k] => j = k

Reorder(q) ==
  /\ pc[q] = "new"
  /\ \E l \in Lists :
       \/ ~ValidOrder(l) /\ Refuse(q)
       \/ /\ ValidOrder(l)
          /\ Goto(q, "ordering")
          /\ list' = [list EXCEPT ![q] = l]
          /\ UNCHANGED <<tableVars, objects, lock, about, copy, at>>

\* [Mutant of Advance] every other row is skipped.
AdvanceByTwo(q) == at' = [at EXCEPT ![q] = @ + 2]

Advance(q) == at' = [at EXCEPT ![q] = @ + 1]

\* [Mutant of ReorderRow] the UPDATE runs on r.db and commits by itself.
ReorderRowOutsideTx(q) ==
  LET i == list[q][at[q] + 1]
  IN  /\ pc[q] = "ordering" /\ at[q] < Len(list[q])
      /\ i \in Ids => RowFree(i, q)
      /\ \/ ~Exists(i) /\ Refuse(q)
         \/ /\ Exists(i)
            /\ row' = [row EXCEPT ![i].position = at[q] + 1]
            /\ Advance(q)
            /\ UNCHANGED <<issued, copied, objects, lock, pc, about, copy, list>>

\* The row is locked until COMMIT; a missing one rolls everything back.
ReorderRow(q) ==
  LET i == list[q][at[q] + 1]
  IN  /\ pc[q] = "ordering" /\ at[q] < Len(list[q])
      /\ i \in Ids => RowFree(i, q)
      /\ \/ ~Exists(i) /\ Refuse(q)
         \/ /\ Exists(i)
            /\ lock' = [lock EXCEPT ![i] = q]
            /\ Advance(q)
            /\ UNCHANGED <<tableVars, objects, pc, about, copy, list>>

Arranged(l) ==
  [i \in Ids |->
     IF Exists(i) /\ \E k \in DOMAIN l : l[k] = i
       THEN [row[i] EXCEPT !.position = CHOOSE k \in DOMAIN l : l[k] = i]
       ELSE row[i]]

\* COMMIT; the list is then read for the answer.
ReorderCommit(q) ==
  /\ pc[q] = "ordering" /\ at[q] = Len(list[q])
  /\ row' = Arranged(list[q])
  /\ Leave(q, "listing") \/ Leave(q, "refused")
  /\ UNCHANGED <<issued, copied, objects>>

ListAgain(q) ==
  pc[q] = "listing" /\ Leave(q, "done") /\ UNCHANGED <<tableVars, objects>>

WaitsFor(q, r) ==
  /\ pc[q] = "ordering" /\ at[q] < Len(list[q])
  /\ list[q][at[q] + 1] \in Ids
  /\ lock[list[q][at[q] + 1]] = r

\* PostgreSQL breaks a cycle of transactions waiting for each other's rows.
Deadlock(q) ==
  /\ \E S \in SUBSET Requests :
       /\ q \in S
       /\ \A r \in S : (\E p \in S : WaitsFor(r, p)) /\ \E p \in S : WaitsFor(p, r)
  /\ Refuse(q)

-----------------------------------------------------------------------------
(* POST /admin/suppliers/{id}/image: UploadImageUseCase.Execute. *)

ReadForUpload(q) ==
  /\ pc[q] = "new"
  /\ \E i \in Ids : \/ ~Exists(i) /\ Refuse(q)
                    \/ Exists(i) /\ Read(q, i, row[i], "saving")

\* storage.Save, under a new name; its answer may be lost.
Save(q) ==
  /\ pc[q] = "saving"
  /\ objects' = objects \cup {q}
  /\ \/ Goto(q, "saved") /\ UNCHANGED <<lock, about, copy, list, at>>
     \/ Leave(q, "refused")
  /\ UNCHANGED tableVars

UpdateImageURL(q) ==
  LET i == about[q]
  IN  /\ pc[q] = "saved"
      /\ RowFree(i, q)
      /\ \/ ~Exists(i) /\ Refuse(q)
         \/ /\ Exists(i)
            /\ row' = [row EXCEPT ![i].image = q]
            /\ \/ Goto(q, "replaced") /\ UNCHANGED <<lock, about, copy, list, at>>
               \/ Leave(q, "refused")
            /\ UNCHANGED <<issued, copied, objects>>

\* [Mutant of Replaced] the image to delete is read after the update.
InForce(q) == IF Exists(about[q]) THEN row[about[q]].image ELSE NoObject

\* The object to delete: the image the row had when the upload read it.
Replaced(q) == copy[q].image

\* Best effort; KeyFromURL finds no object for a URL outside the bucket.
DeleteReplaced(q) ==
  /\ pc[q] = "replaced"
  /\ \/ UNCHANGED objects
     \/ /\ Replaced(q) \notin {q, NoObject}
        /\ objects' = objects \ {Replaced(q)}
  /\ Leave(q, "done")
  /\ UNCHANGED tableVars

-----------------------------------------------------------------------------
\* What each path does with each method; GETs change nothing, the rest is
\* 404 and 405.
HandleAdminSuppliers(q, path, method) ==
  /\ pc[q] = "new"
  /\ \/ path = "suppliers" /\ method = "POST" /\ Create(q)
     \/ path = "suppliers/order" /\ method = "PUT" /\ Reorder(q)
     \/ path = "suppliers/id" /\ method = "PUT" /\ ReadForEdit(q)
     \/ path = "suppliers/id" /\ method = "DELETE" /\ Delete(q)
     \/ path = "suppliers/id/image" /\ method = "POST" /\ ReadForUpload(q)

\* A path, an id, a body or an image in no form.
Malformed(q) == pc[q] = "new" /\ Refuse(q)

\* validateSupplierFields: an edit is looked at with what it has read filled in.
Invalid(q) == pc[q] \in {"new", "editing"} /\ Refuse(q)

\* A statement or a call of the storage fails, the context is cancelled, the
\* process ends.
Fail(q) == pc[q] \notin Ended /\ Refuse(q)

\* What a request that has started goes on to do.
Progress(q) ==
  \/ Update(q)
  \/ ReorderRow(q) \/ ReorderCommit(q) \/ ListAgain(q) \/ Deadlock(q)
  \/ Save(q) \/ UpdateImageURL(q) \/ DeleteReplaced(q)

Paths == {"suppliers", "suppliers/order", "suppliers/id", "suppliers/id/image"}
Methods == {"POST", "PUT", "DELETE"}

Next ==
  \E q \in Requests :
    \/ \E path \in Paths, method \in Methods : HandleAdminSuppliers(q, path, method)
    \/ Progress(q)
    \/ Malformed(q) \/ Invalid(q) \/ Fail(q)

Spec == Init /\ [][Next]_vars

\* Handlers that have started go on.
FairSpec == Spec /\ \A q \in Requests : WF_vars(Progress(q))

-----------------------------------------------------------------------------
(* Properties. *)

(* Types.  A supplier is there while an edit or an upload is at work on it,  *)
(* a valid order while a rearrangement is.                                   *)
TypeOK ==
  /\ row \in [Ids -> Rows \cup {NoRow}]
  /\ issued \subseteq Ids
  /\ copied \subseteq Requests
  /\ objects \subseteq Requests
  /\ lock \in [Ids -> Requests \cup {Nobody}]
  /\ pc \in [Requests -> States]
  /\ about \in [Requests -> Ids \cup {Nobody}]
  /\ copy \in [Requests -> Rows \cup {NoRow}]
  /\ list \in [Requests -> Seq(Int)]
  /\ at \in [Requests -> Nat]
  /\ \A q \in Requests :
       /\ pc[q] = "new" => at[q] = 0
       /\ pc[q] \in {"editing", "saving", "saved", "replaced"} =>
            about[q] \in Ids /\ copy[q] \in Rows
       /\ pc[q] = "ordering" => ValidOrder(list[q]) /\ at[q] <= Len(list[q])
  /\ \A i \in Ids : row[i] # NoRow => i \in issued

(* The image of a supplier can be fetched: an upload deletes the object it   *)
(* replaces and no other, whatever other uploads, edits, deletions and       *)
(* failures come between its steps.  Nothing is promised of an image that a  *)
(* body has named, or an edit that had read it has written back: two rows    *)
(* may then show one object, and an upload to either deletes it; or the      *)
(* object may be gone before the row shows it.                               *)
ImagesServed ==
  \A i \in Ids :
    Exists(i) /\ row[i].image \in Requests \ copied => row[i].image \in objects

(* A deleted supplier never comes back, neither by an edit or an upload that *)
(* had read it before nor by a rearrangement (UPDATE ... WHERE id).          *)
DeletedStays ==
  [][\A i \in issued : row[i] = NoRow => row'[i] = NoRow]_vars

(* A rearrangement changes the list once and as a whole: to one in which all *)
(* the suppliers it names are there in the order asked for, also when rows   *)
(* are edited, deleted or rearranged meanwhile; when it does not get so far  *)
(* it changes nothing (DoInTx around Reorder).                               *)
Rearranged ==
  [][\A q \in Requests :
       /\ pc[q] = "ordering"
       /\ pc'[q] # pc[q] \/ at'[q] # at[q]
       /\ row' # row
       => LET l == list[q]
          IN  /\ \A k \in DOMAIN l : l[k] \in Ids /\ row'[l[k]] # NoRow
              /\ \A j, k \in DOMAIN l : j < k => Before(row', l[j], l[k])]_vars

(* Every request that has started ends, also when it waits for rows that     *)
(* rearrangements have updated, and when these wait for each other.          *)
RequestsEnd ==
  \A q \in Requests : pc[q] # "new" ~> pc[q] \in Ended
=============================================================================
