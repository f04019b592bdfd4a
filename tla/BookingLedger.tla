---------------------------- MODULE BookingLedger ----------------------------
(***************************************************************************)
(* What the reservations promise, without locks, transactions, separate    *)
(* reads or handlers: a customer's booking is one entry, made only if the  *)
(* guests who count fit and the slot is free; the owner's entries and      *)
(* decisions respect the slots alone, and a decision and its mail are two  *)
(* events.                                                                 *)
(***************************************************************************)
EXTENDS Naturals, FiniteSets, TLAPS

CONSTANTS
  WebRequests, AdminEntries,             \* reservations of customers, of the owner
  Forms, MaxPeople,                      \* what can be asked for
  Dates, EditedDates,
  Schedules, DefaultSchedule, NoSchedule

Ids == WebRequests \cup AdminEntries
Statuses == {"pending", "approved", "rejected", "cancelled", "no_show"}
Targets == {"approved", "rejected", "cancelled", "no_show"}
Active == {"pending", "approved"}

VARIABLES
  form,      \* what each reservation is for
  status,    \* its status, "none" before it is in the ledger
  stored,    \* the schedules the owner has set
  outbox,    \* the mails queued, <<reservation, mail type>>
  offers,    \* schedules in force since a customer's booking is considered
  taken,     \* customers' reservations that were admitted and active ever since
  asked,     \* decisions accepted and not yet made, <<reservation, status>>
  owed       \* decisions made whose mail is still to be queued

vars == <<form, status, stored, outbox, offers, taken, asked, owed>>

Effective(d) == IF stored[d] = NoSchedule THEN DefaultSchedule[d] ELSE stored[d]

Open(s) == s.type \notin {"closed", "external_event"}

\* The guests of the reservations S, one pair each.
Guests(S) == {g \in S \X (1 .. MaxPeople) : g[2] <= form[g[1]].people}

SameSlot(i, j) ==
  /\ form[i].date = form[j].date
  /\ form[i].time = form[j].time
  /\ form[i].phone = form[j].phone

SlotFree(i) == \A j \in Ids \ {i} : SameSlot(i, j) => status[j] \notin Active

\* The guests of r and those already counted on its date fit s.
Fits(r, s) ==
  LET counted == {q \in taken : form[q].date = form[r].date}
  IN  Open(s) /\ Cardinality(Guests(counted \cup {r})) <= s.capacity

Decidable(from, to) ==
  \/ from = "pending" /\ to \in {"approved", "rejected", "cancelled"}
  \/ from = "approved" /\ to \in {"no_show", "cancelled"}

Init ==
  /\ form \in [Ids -> Forms]
  /\ status = [i \in Ids |-> "none"]
  /\ stored = [d \in Dates |-> NoSchedule]
  /\ outbox = {}
  /\ offers = [r \in WebRequests |-> {}]
  /\ taken = {}
  /\ asked = {}
  /\ owed = {}

Consider(r) ==
  /\ status[r] = "none"
  /\ offers' = [offers EXCEPT ![r] = {Effective(form[r].date)}]
  /\ UNCHANGED <<form, status, stored, outbox, taken, asked, owed>>

Withdraw(r) ==
  /\ offers' = [offers EXCEPT ![r] = {}]
  /\ UNCHANGED <<form, status, stored, outbox, taken, asked, owed>>

Book(r) ==
  /\ status[r] = "none"
  /\ SlotFree(r)
  /\ \E s \in offers[r] : Fits(r, s)
  /\ status' = [status EXCEPT ![r] = "pending"]
  /\ outbox' = outbox \cup {<<r, "received">>}
  /\ taken' = taken \cup {r}
  /\ offers' = [offers EXCEPT ![r] = {}]
  /\ UNCHANGED <<form, stored, asked, owed>>

Enter(e, s) ==
  /\ status[e] = "none"
  /\ s \in Active => SlotFree(e)
  /\ status' = [status EXCEPT ![e] = s]
  /\ UNCHANGED <<form, stored, outbox, offers, taken, asked, owed>>

Ask(i, t) ==
  /\ Decidable(status[i], t)
  /\ asked' = asked \cup {<<i, t>>}
  /\ UNCHANGED <<form, status, stored, outbox, offers, taken, owed>>

\* Two sessions may have asked for the same: one of them is through.
Less(S, m) == {S, S \ {m}}

\* The decision is not checked again: the status may have changed meanwhile.
Decide(i, t) ==
  /\ <<i, t>> \in asked
  /\ t \in Active => SlotFree(i)
  /\ status' = [status EXCEPT ![i] = t]
  /\ taken' = IF t \in Active THEN taken ELSE taken \ {i}
  /\ asked' \in Less(asked, <<i, t>>)
  /\ owed' = IF t \in {"approved", "rejected"} THEN owed \cup {<<i, t>>} ELSE owed
  /\ UNCHANGED <<form, stored, outbox, offers>>

Announce(m) ==
  /\ m \in owed
  /\ outbox' = outbox \cup {m}
  /\ owed' \in Less(owed, m)
  /\ UNCHANGED <<form, status, stored, offers, taken, asked>>

\* A session gives up before its decision is made, or before its mail is queued.
GiveUp(m) ==
  /\ asked' \in Less(asked, m)
  /\ owed' \in Less(owed, m)
  /\ UNCHANGED <<form, status, stored, outbox, offers, taken>>

Edit(d, row) ==
  /\ stored' = [stored EXCEPT ![d] = row]
  /\ offers' = [r \in WebRequests |->
       IF form[r].date = d /\ offers[r] # {}
       THEN offers[r] \cup {IF row = NoSchedule THEN DefaultSchedule[d] ELSE row}
       ELSE offers[r]]
  /\ UNCHANGED <<form, status, outbox, taken, asked, owed>>

Next ==
  \/ \E r \in WebRequests : Consider(r) \/ Withdraw(r) \/ Book(r)
  \/ \E e \in AdminEntries, s \in Statuses : Enter(e, s)
  \/ \E i \in Ids, t \in Targets :
       Ask(i, t) \/ Decide(i, t) \/ Announce(<<i, t>>) \/ GiveUp(<<i, t>>)
  \/ \E d \in EditedDates, row \in Schedules \cup {NoSchedule} : Edit(d, row)

Spec == Init /\ [][Next]_vars
-----------------------------------------------------------------------------
\* No two active reservations for the same date, time and phone.
OnePerSlot ==
  \A i, j \in Ids :
    i # j /\ SameSlot(i, j) => ~(status[i] \in Active /\ status[j] \in Active)

Typed == status \in [Ids -> Statuses \cup {"none"}]

\* A status given to one reservation, into a free slot if it is active, leaves
\* the slots distinct.
LEMMA GiveStatus ==
  ASSUME Typed, OnePerSlot, NEW i \in Ids, NEW s \in Statuses, form' = form,
         status' = [status EXCEPT ![i] = s], s \in Active => SlotFree(i)
  PROVE  Typed' /\ OnePerSlot'
<1>1. Typed'
  BY DEF Typed
<1>2. ASSUME NEW j \in Ids, NEW k \in Ids, j # k, SameSlot(j, k)
      PROVE  ~(status'[j] \in Active /\ status'[k] \in Active)
  <2>1. SameSlot(k, j)
    BY <1>2 DEF SameSlot
  <2>2. CASE i \in {j, k}
    BY <1>2, <2>1, <2>2 DEF SlotFree, Typed
  <2>3. CASE i \notin {j, k}
    BY <1>2, <2>3 DEF OnePerSlot, Typed
  <2>4. QED
    BY <2>2, <2>3
<1>3. QED
  BY <1>1, <1>2 DEF OnePerSlot, SameSlot

\* In a ledger no slot is given twice, however late a decision is made.
THEOREM SlotsDistinct == Spec => []OnePerSlot
<1>1. Init => Typed /\ OnePerSlot
  BY DEF Init, Typed, OnePerSlot, Active
<1>2. Typed /\ OnePerSlot /\ [Next]_vars => (Typed /\ OnePerSlot)'
  <2> SUFFICES ASSUME Typed, OnePerSlot, [Next]_vars
               PROVE  (Typed /\ OnePerSlot)'
    OBVIOUS
  <2>0. ASSUME UNCHANGED <<form, status>>
        PROVE  (Typed /\ OnePerSlot)'
    BY <2>0 DEF Typed, OnePerSlot, SameSlot
  <2>1. ASSUME NEW r \in WebRequests, Consider(r) \/ Withdraw(r)
        PROVE  (Typed /\ OnePerSlot)'
    BY <2>0, <2>1 DEF Consider, Withdraw
  <2>2. ASSUME NEW r \in WebRequests, Book(r)
        PROVE  (Typed /\ OnePerSlot)'
    BY <2>2, GiveStatus DEF Book, Ids, Statuses
  <2>3. ASSUME NEW e \in AdminEntries, NEW s \in Statuses, Enter(e, s)
        PROVE  (Typed /\ OnePerSlot)'
    BY <2>3, GiveStatus DEF Enter, Ids
  <2>4. ASSUME NEW i \in Ids, NEW t \in Targets, Decide(i, t)
        PROVE  (Typed /\ OnePerSlot)'
    BY <2>4, GiveStatus DEF Decide, Targets, Statuses
  <2>5. ASSUME NEW i \in Ids, NEW t \in Targets,
               Ask(i, t) \/ Announce(<<i, t>>) \/ GiveUp(<<i, t>>)
        PROVE  (Typed /\ OnePerSlot)'
    BY <2>0, <2>5 DEF Ask, Announce, GiveUp
  <2>6. ASSUME NEW d \in EditedDates, NEW row \in Schedules \cup {NoSchedule}, Edit(d, row)
        PROVE  (Typed /\ OnePerSlot)'
    BY <2>0, <2>6 DEF Edit
  <2>7. CASE UNCHANGED vars
    BY <2>0, <2>7 DEF vars
  <2>8. QED
    BY <2>1, <2>2, <2>3, <2>4, <2>5, <2>6, <2>7 DEF Next
<1>3. QED
  BY <1>1, <1>2, PTL DEF Spec
=============================================================================
