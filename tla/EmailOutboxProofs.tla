-------------------------- MODULE EmailOutboxProofs --------------------------
(***************************************************************************)
(* Theorems about EmailOutbox, for any number of mails and of overlapping  *)
(* flushes, any timeouts the lease covers and any limits.                  *)
(***************************************************************************)
EXTENDS EmailOutbox, TLAPS

\* Counting down stays a natural number.
LEMMA LessType == \A n \in Nat : Less(n) \in Nat /\ Less(n) <= n
BY DEF Less

\* Every variable keeps its type; a flush holds a row exactly while it sends
\* the mail or records the result.
THEOREM TypeCorrect == Spec => []TypeOK
<1>1. Init => TypeOK
  BY OutboxAssumption DEF Init, TypeOK, RowsTyped, FlushesTyped, Busy
<1>2. TypeOK /\ [Next]_vars => TypeOK'
  <2> SUFFICES ASSUME TypeOK, [Next]_vars
               PROVE  TypeOK'
    OBVIOUS
  <2> USE OutboxAssumption
  <2>0. ASSUME NEW m \in Mails, Begin(m)
        PROVE  TypeOK'
    BY <2>0 DEF Begin, TypeOK, RowsTyped, FlushesTyped, Busy, flush
  <2>1. ASSUME NEW m \in Mails, Enqueue(m)
        PROVE  TypeOK'
    BY <2>1 DEF Enqueue, TypeOK, RowsTyped, FlushesTyped, Busy, flush
  <2>2. ASSUME NEW w \in Flushes, FlushStep(w)
        PROVE  TypeOK'
    <3>a. ASSUME Stop(w)
          PROVE  FlushesTyped'
      BY <3>a DEF Stop, Leave, TypeOK, FlushesTyped, Busy
    <3>b. ASSUME Continue(w)
          PROVE  FlushesTyped'
      BY <3>b DEF Continue, Leave, TypeOK, FlushesTyped, Busy
    <3>c. ASSUME UNCHANGED <<rows, accepted, lost>>
          PROVE  RowsTyped'
      BY <3>c DEF rows, TypeOK, RowsTyped
    <3>d. ASSUME Busy(w), UNCHANGED <<rows, accepted>>,
                 lost' = [lost EXCEPT ![mail[w]] = @ + 1]
          PROVE  RowsTyped'
      <4>1. mail[w] \in Mails
        BY <3>d DEF TypeOK, FlushesTyped
      <4>2. QED
        BY <3>d, <4>1 DEF rows, TypeOK, RowsTyped
    <3>1. CASE StartFlush(w)
      BY <3>1, <3>c DEF StartFlush, TypeOK, FlushesTyped, Busy
    <3>2. CASE Claim(w)
      <4>1. LeaseUntil \in Nat
        BY DEF LeaseUntil
      <4>2. room[w] - 1 \in 0 .. BatchSize
        BY <3>2 DEF Claim, MayClaim, TypeOK, FlushesTyped
      <4>3. PICK m \in Mails :
              /\ attempts' = [attempts EXCEPT ![m] = @ + 1]
              /\ due' = [due EXCEPT ![m] = LeaseUntil]
              /\ mail' = [mail EXCEPT ![w] = m]
              /\ count' = [count EXCEPT ![w] = attempts[m] + 1]
        BY <3>2 DEF Claim
      <4>4. RowsTyped'
        BY <3>2, <4>1, <4>3 DEF Claim, TypeOK, RowsTyped
      <4>5. attempts[m] + 1 \in Nat /\ attempts[m] + 1 > 0
        BY DEF TypeOK, RowsTyped
      <4>6. FlushesTyped'
        BY <3>2, <4>2, <4>3, <4>5 DEF Claim, TypeOK, FlushesTyped, Busy
      <4>7. QED
        BY <4>4, <4>6 DEF TypeOK
    <3>3. CASE EndFlush(w)
      BY <3>3, <3>a, <3>c DEF EndFlush, TypeOK
    <3>4. CASE ClaimError(w)
      BY <3>4, <3>a, <3>c DEF ClaimError, TypeOK
    <3>5. CASE Accept(w)
      BY <3>5 DEF Accept, TypeOK, RowsTyped, FlushesTyped, Busy, rows, flush
    <3>6. ASSUME NEW outcome \in Outcomes, SendReturns(w, outcome)
          PROVE  TypeOK'
      BY <3>6, <3>c DEF SendReturns, TypeOK, FlushesTyped, Busy
    <3>7. CASE Mark(w)
      <4>1. mail[w] \in Mails /\ count[w] \in Nat /\ count[w] > 0
        BY <3>7 DEF Mark, TypeOK, FlushesTyped, Busy
      <4>2. RowsTyped'
        <5>1. CASE Record(mail[w], result[w], count[w])
          <6>1. ~Exhausted(count[w]) => Backoff[count[w]] \in Nat
            BY <4>1 DEF Exhausted
          <6>2. Released(attempts[mail[w]]) \in Nat
            BY <4>1, LessType DEF Released, TypeOK, RowsTyped
          <6>3. /\ status' \in [Mails -> {"none", "open", "pending", "sent", "failed"}]
                /\ attempts' \in [Mails -> Nat]
                /\ due' \in [Mails -> Nat]
            <7>1. status' \in [Mails -> {"none", "open", "pending", "sent", "failed"}]
              BY <4>1, <5>1 DEF Record, TypeOK, RowsTyped
            <7>2. attempts' \in [Mails -> Nat]
              BY <4>1, <5>1, <6>2 DEF Record, TypeOK, RowsTyped
            <7>3. due' \in [Mails -> Nat]
              BY <4>1, <5>1, <6>1 DEF Record, TypeOK, RowsTyped
            <7>4. QED
              BY <7>1, <7>2, <7>3
          <6>4. QED
            BY <3>7, <6>3 DEF Mark, TypeOK, RowsTyped
        <5>2. CASE UNCHANGED <<status, attempts, due>>
          BY <3>7, <5>2 DEF Mark, TypeOK, RowsTyped
        <5>3. QED
          BY <3>7, <5>1, <5>2 DEF Mark
      <4>3. QED
        BY <3>7, <3>a, <3>b, <4>2 DEF Mark, Proceed, TypeOK
    <3>8. CASE MarkError(w)
      BY <3>8, <3>a, <3>b, <3>d DEF MarkError, Proceed, TypeOK, Busy
    <3>9. CASE Crash(w)
      BY <3>9, <3>a, <3>d DEF Crash, TypeOK
    <3>10. QED
      BY <2>2, <3>1, <3>2, <3>3, <3>4, <3>5, <3>6, <3>7, <3>8, <3>9 DEF FlushStep
  <2>3. CASE Tick
    BY <2>3, LessType DEF Tick, TypeOK, RowsTyped, FlushesTyped, Busy
  <2>4. CASE UNCHANGED vars
    BY <2>4 DEF TypeOK, RowsTyped, FlushesTyped, Busy, vars, rows, flush
  <2>5. QED
    BY <2>0, <2>1, <2>2, <2>3, <2>4 DEF Next
<1>3. QED
  BY <1>1, <1>2, PTL DEF Spec

-----------------------------------------------------------------------------
(***************************************************************************)
(* The lease.                                                              *)
(***************************************************************************)
\* What Stop and Continue leave of a flush.
LetGo(w) ==
  /\ mode' \in [Flushes -> {"idle", "claiming", "sending", "marking"}]
  /\ mode'[w] \in {"idle", "claiming"}
  /\ \A v \in Flushes \ {w} : mode'[v] = mode[v]
  /\ mail' = [mail EXCEPT ![w] = NoMail]
  /\ count' = [count EXCEPT ![w] = 0]
  /\ result' = [result EXCEPT ![w] = "none"]
  /\ timer' = [timer EXCEPT ![w] = 0]

LEMMA StopLetsGo ==
  ASSUME TypeOK, NEW w \in Flushes, Stop(w) \/ Continue(w)
  PROVE  LetGo(w)
BY DEF LetGo, Stop, Continue, Leave, TypeOK, FlushesTyped

\* A flush that lets go of its row may change that row and no other.
LEMMA LeaseLetGo ==
  ASSUME TypeOK, LeaseExclusive, NEW w \in Flushes, LetGo(w),
         status' \in [Mails -> {"none", "open", "pending", "sent", "failed"}],
         \A m \in Mails \ {mail[w]} :
           status'[m] = status[m] /\ attempts'[m] = attempts[m] /\ due'[m] = due[m]
  PROVE  LeaseExclusive'
<1>1. ASSUME NEW v \in Flushes, Busy(v)'
      PROVE  /\ v # w /\ Busy(v)
             /\ mode'[v] = mode[v] /\ mail'[v] = mail[v]
             /\ count'[v] = count[v] /\ timer'[v] = timer[v]
             /\ mail[v] \in Mails /\ mail[v] # mail[w]
  <2>1. v # w
    BY <1>1 DEF Busy, LetGo
  <2>2. Busy(v) /\ mode'[v] = mode[v]
    BY <1>1, <2>1 DEF Busy, LetGo
  <2>3. mail[v] \in Mails /\ mail[v] # mail[w]
    BY <2>1, <2>2 DEF TypeOK, FlushesTyped, LeaseExclusive
  <2>4. QED
    BY <2>1, <2>2, <2>3 DEF LetGo, TypeOK, FlushesTyped
<1>2. ASSUME NEW v \in Flushes, Busy(v)'
      PROVE  /\ status'[mail'[v]] = "pending"
             /\ count'[v] = attempts'[mail'[v]] /\ count'[v] > 0
             /\ timer'[v] + (IF mode'[v] = "sending" THEN MarkTimeout ELSE 0)
                  < due'[mail'[v]]
  <2>1. /\ Busy(v) /\ mode'[v] = mode[v] /\ mail'[v] = mail[v]
        /\ count'[v] = count[v] /\ timer'[v] = timer[v]
        /\ mail[v] \in Mails /\ mail[v] # mail[w]
    BY <1>1, <1>2
  <2>2. /\ status'[mail[v]] = status[mail[v]]
        /\ attempts'[mail[v]] = attempts[mail[v]]
        /\ due'[mail[v]] = due[mail[v]]
    BY <2>1
  <2>3. QED
    BY <2>1, <2>2 DEF LeaseExclusive
<1>3. ASSUME NEW v \in Flushes, NEW u \in Flushes, Busy(v)', mail'[v] = mail'[u]
      PROVE  v = u
  <2>1. Busy(v) /\ mail'[v] = mail[v] /\ mail[v] \in Mails
    BY <1>1, <1>3
  <2>2. u # w
    BY <1>3, <2>1, OutboxAssumption DEF LetGo, TypeOK, FlushesTyped
  <2>3. mail'[u] = mail[u]
    BY <2>2 DEF LetGo, TypeOK, FlushesTyped
  <2>4. mail[v] = mail[u]
    BY <1>3, <2>1, <2>3
  <2>5. \A x, y \in Flushes : Busy(x) /\ mail[x] = mail[y] => x = y
    BY DEF LeaseExclusive
  <2>6. QED
    BY <2>1, <2>4, <2>5
<1>4. QED
  BY <1>2, <1>3 DEF LeaseExclusive, Busy

\* Nobody holds a row that can be claimed.
LEMMA ClaimableFree ==
  ASSUME TypeOK, LeaseExclusive, NEW m \in Mails, Claimable(m),
         NEW v \in Flushes
  PROVE  mail[v] # m
<1>1. CASE Busy(v)
  <2>1. timer[v] \in Nat /\ MarkTimeout \in Nat
    BY OutboxAssumption DEF TypeOK, FlushesTyped
  <2>2. timer[v] + (IF mode[v] = "sending" THEN MarkTimeout ELSE 0) < due[mail[v]]
    BY <1>1 DEF LeaseExclusive
  <2>3. QED
    BY <2>1, <2>2 DEF Claimable
<1>2. CASE ~Busy(v)
  BY <1>2, OutboxAssumption DEF TypeOK, FlushesTyped
<1>3. QED
  BY <1>1, <1>2

LEMMA LeaseStep == LeaseExclusive /\ TypeOK /\ [Next]_vars => LeaseExclusive'
<1> SUFFICES ASSUME LeaseExclusive, TypeOK, [Next]_vars
             PROVE  LeaseExclusive'
  OBVIOUS
<1>0. \A v \in Flushes : Busy(v) => mail[v] \in Mails /\ status[mail[v]] = "pending"
  BY DEF TypeOK, FlushesTyped, LeaseExclusive
<1>1. ASSUME NEW m \in Mails, Begin(m) \/ Enqueue(m)
      PROVE  LeaseExclusive'
  <2>1. /\ status[m] # "pending" /\ UNCHANGED <<attempts, due, mode, mail, count, timer>>
        /\ \A n \in Mails \ {m} : status'[n] = status[n]
    BY <1>1 DEF Begin, Enqueue, Committed, TypeOK, RowsTyped, flush
  <2>2. QED
    BY <1>0, <2>1 DEF LeaseExclusive, Busy
<1>2. ASSUME NEW w \in Flushes, FlushStep(w)
      PROVE  LeaseExclusive'
  <2>a. ASSUME LetGo(w), UNCHANGED rows
        PROVE  LeaseExclusive'
    BY <2>a, LeaseLetGo DEF rows, TypeOK, RowsTyped
  <2>1. CASE StartFlush(w)
    BY <2>1 DEF StartFlush, LeaseExclusive, Busy, TypeOK, FlushesTyped, rows
  <2>2. CASE Claim(w)
    <3>1. PICK m \in Mails :
            /\ Claimable(m)
            /\ attempts' = [attempts EXCEPT ![m] = @ + 1]
            /\ due' = [due EXCEPT ![m] = LeaseUntil]
            /\ mail' = [mail EXCEPT ![w] = m]
            /\ count' = [count EXCEPT ![w] = attempts[m] + 1]
      BY <2>2 DEF Claim, Candidate
    <3>2. \A v \in Flushes : mail[v] # m
      BY <3>1, ClaimableFree
    <3>3. /\ status' = status
          /\ mode' = [mode EXCEPT ![w] = "sending"]
          /\ timer' = [timer EXCEPT ![w] = SendTimeout]
      BY <2>2 DEF Claim
    <3>4. ASSUME NEW v \in Flushes, Busy(v)'
          PROVE  /\ status'[mail'[v]] = "pending"
                 /\ count'[v] = attempts'[mail'[v]] /\ count'[v] > 0
                 /\ timer'[v] + (IF mode'[v] = "sending" THEN MarkTimeout ELSE 0)
                      < due'[mail'[v]]
      <4>1. CASE v = w
        <5>1. /\ mail'[v] = m /\ mode'[v] = "sending" /\ timer'[v] = SendTimeout
              /\ count'[v] = attempts[m] + 1 /\ attempts'[m] = attempts[m] + 1
              /\ due'[m] = Lease /\ status'[m] = "pending"
          BY <3>1, <3>3, <4>1
          DEF Claimable, TypeOK, RowsTyped, FlushesTyped, LeaseUntil
        <5>2. attempts[m] \in Nat /\ SendTimeout + MarkTimeout < Lease
          BY OutboxAssumption, LeaseCoversDelivery DEF TypeOK, RowsTyped
        <5>3. QED
          BY <5>1, <5>2
      <4>2. CASE v # w
        <5>1. /\ mode'[v] = mode[v] /\ mail'[v] = mail[v]
              /\ count'[v] = count[v] /\ timer'[v] = timer[v]
          BY <3>1, <3>3, <4>2 DEF TypeOK, FlushesTyped
        <5>2. Busy(v)
          BY <3>4, <5>1 DEF Busy
        <5>3. mail[v] # m /\ mail[v] \in Mails
          BY <1>0, <3>2, <5>2
        <5>4. attempts'[mail[v]] = attempts[mail[v]] /\ due'[mail[v]] = due[mail[v]]
          BY <3>1, <5>3 DEF TypeOK, RowsTyped
        <5>5. QED
          BY <3>3, <5>1, <5>2, <5>4 DEF LeaseExclusive
      <4>3. QED
        BY <4>1, <4>2
    <3>5. ASSUME NEW v \in Flushes, NEW u \in Flushes, Busy(v)', mail'[v] = mail'[u]
          PROVE  v = u
      <4>1. CASE v = w \/ u = w
        BY <3>1, <3>2, <3>5, <4>1 DEF TypeOK, FlushesTyped
      <4>2. CASE v # w /\ u # w
        BY <3>1, <3>3, <3>5, <4>2 DEF TypeOK, FlushesTyped, LeaseExclusive, Busy
      <4>3. QED
        BY <4>1, <4>2
    <3>6. QED
      BY <3>4, <3>5 DEF LeaseExclusive, Busy
  <2>3. CASE EndFlush(w) \/ ClaimError(w)
    BY <2>3, <2>a, StopLetsGo DEF EndFlush, ClaimError
  <2>4. CASE Accept(w)
    BY <2>4 DEF Accept, LeaseExclusive, Busy, rows, flush
  <2>5. ASSUME NEW outcome \in Outcomes, SendReturns(w, outcome)
        PROVE  LeaseExclusive'
    <3>1. timer[w] \in Nat /\ MarkTimeout \in Nat /\ due[mail[w]] \in Nat
      BY <1>0, <2>5, OutboxAssumption
      DEF SendReturns, Busy, TypeOK, RowsTyped, FlushesTyped
    <3>2. MarkTimeout < due[mail[w]]
      BY <2>5, <3>1 DEF SendReturns, LeaseExclusive, Busy
    <3>3. QED
      BY <2>5, <3>1, <3>2
      DEF SendReturns, LeaseExclusive, Busy, TypeOK, FlushesTyped, rows
  <2>6. CASE Mark(w)
    <3>1. LetGo(w)
      BY <2>6, StopLetsGo DEF Mark, Proceed
    <3>2. mail[w] \in Mails
      BY <1>0, <2>6 DEF Mark, Busy
    <3>3. /\ status' \in [Mails -> {"none", "open", "pending", "sent", "failed"}]
          /\ \A m \in Mails \ {mail[w]} :
               status'[m] = status[m] /\ attempts'[m] = attempts[m] /\ due'[m] = due[m]
      BY <2>6, <3>2 DEF Mark, Record, TypeOK, RowsTyped
    <3>4. QED
      BY <3>1, <3>3, LeaseLetGo
  <2>7. CASE MarkError(w) \/ Crash(w)
    BY <2>7, <2>a, StopLetsGo DEF MarkError, Crash, Proceed
  <2>8. QED
    BY <1>2, <2>1, <2>2, <2>3, <2>4, <2>5, <2>6, <2>7 DEF FlushStep
<1>3. CASE Tick
  <2>1. ASSUME NEW v \in Flushes, Busy(v)
        PROVE  /\ timer'[v] = timer[v] - 1 /\ timer[v] \in Nat
               /\ due'[mail[v]] = due[mail[v]] - 1 /\ due[mail[v]] \in Nat
    <3>1. /\ timer[v] \in Nat /\ timer[v] > 0 /\ MarkTimeout \in Nat
          /\ due[mail[v]] \in Nat
      BY <1>0, <1>3, <2>1, OutboxAssumption
      DEF Tick, TypeOK, RowsTyped, FlushesTyped
    <3>2. due[mail[v]] > 0
      BY <2>1, <3>1 DEF LeaseExclusive
    <3>3. QED
      BY <1>0, <1>3, <2>1, <3>1, <3>2 DEF Tick, Less
  <2>2. UNCHANGED <<status, attempts, mode, mail, count>>
    BY <1>3 DEF Tick
  <2>3. ASSUME NEW v \in Flushes, Busy(v)
        PROVE  timer'[v] + (IF mode[v] = "sending" THEN MarkTimeout ELSE 0)
                 < due'[mail[v]]
    BY <2>1, <2>3, OutboxAssumption DEF LeaseExclusive
  <2>4. QED
    BY <2>2, <2>3 DEF LeaseExclusive, Busy
<1>4. CASE UNCHANGED vars
  BY <1>4 DEF LeaseExclusive, Busy, vars, rows, flush
<1>5. QED
  BY <1>1, <1>2, <1>3, <1>4 DEF Next

\* Two flushes never deliver the same mail at the same time, and a mark always
\* finds the row it was made for: no fencing token is needed as long as the
\* lease covers the two timeouts.
THEOREM Exclusive == Spec => []LeaseExclusive
<1>1. Init => LeaseExclusive
  BY DEF Init, LeaseExclusive, Busy
<1>2. QED
  BY <1>1, LeaseStep, TypeCorrect, PTL DEF Spec

-----------------------------------------------------------------------------
(***************************************************************************)
(* The attempts.                                                           *)
(***************************************************************************)
Unclaimed(m) == \A w \in Flushes : mail[w] # m

\* The flush w lets go of a row that keeps its account.
LEMMA AttemptsLetGo ==
  ASSUME TypeOK, AttemptsAccounted, NEW w \in Flushes, LetGo(w),
         \A m \in Mails \ {mail[w]} :
           status'[m] = status[m] /\ attempts'[m] = attempts[m] /\ lost'[m] = lost[m],
         \A m \in Mails : mail[w] = m =>
           /\ attempts'[m] <= MaxAttempts + lost'[m]
           /\ status'[m] \notin {"sent", "failed"} => attempts'[m] < MaxAttempts + lost'[m]
  PROVE  AttemptsAccounted'
<1>1. ASSUME NEW m \in Mails, m # mail[w]
      PROVE  /\ attempts'[m] <= MaxAttempts + lost'[m]
             /\ status'[m] \notin {"sent", "failed"} /\ Unclaimed(m)' =>
                  attempts'[m] < MaxAttempts + lost'[m]
  <2>1. Unclaimed(m)' => Unclaimed(m)
    BY <1>1 DEF Unclaimed, LetGo, TypeOK, FlushesTyped
  <2>2. status'[m] = status[m] /\ attempts'[m] = attempts[m] /\ lost'[m] = lost[m]
    BY <1>1
  <2>3. QED
    BY <1>1, <2>1, <2>2 DEF AttemptsAccounted, Unclaimed
<1>2. QED
  BY <1>1 DEF AttemptsAccounted, Unclaimed

LEMMA AttemptsStep ==
  AttemptsAccounted /\ LeaseExclusive /\ TypeOK /\ [Next]_vars => AttemptsAccounted'
<1> SUFFICES ASSUME AttemptsAccounted, LeaseExclusive, TypeOK, [Next]_vars
             PROVE  AttemptsAccounted'
  OBVIOUS
<1>0. /\ MaxAttempts \in Nat /\ MaxAttempts > 0
      /\ \A m \in Mails : attempts[m] \in Nat /\ lost[m] \in Nat
  BY OutboxAssumption DEF TypeOK, RowsTyped
<1>a. ASSUME UNCHANGED <<status, attempts, lost, mail>>
      PROVE  AttemptsAccounted'
  BY <1>a DEF AttemptsAccounted
<1>1. ASSUME NEW m \in Mails, Begin(m) \/ Enqueue(m)
      PROVE  AttemptsAccounted'
  <2>1. /\ UNCHANGED <<attempts, lost, mail>>
        /\ status[m] \notin {"pending", "sent", "failed"}
        /\ \A n \in Mails \ {m} : status'[n] = status[n]
    BY <1>1 DEF Begin, Enqueue, Committed, flush, TypeOK, RowsTyped
  <2>2. ASSUME NEW v \in Flushes
        PROVE  mail[v] # m
    <3>1. CASE Busy(v)
      BY <2>1, <3>1 DEF LeaseExclusive
    <3>2. CASE ~Busy(v)
      BY <3>2, OutboxAssumption DEF TypeOK, FlushesTyped
    <3>3. QED
      BY <3>1, <3>2
  <2>3. attempts[m] < MaxAttempts + lost[m]
    BY <2>1, <2>2 DEF AttemptsAccounted
  <2>4. QED
    BY <2>1, <2>3 DEF AttemptsAccounted
<1>2. ASSUME NEW w \in Flushes, FlushStep(w)
      PROVE  AttemptsAccounted'
  <2>a. ASSUME LetGo(w), UNCHANGED <<rows, lost>>, ~Busy(w)
        PROVE  AttemptsAccounted'
    <3>1. mail[w] \notin Mails
      BY <2>a, OutboxAssumption DEF TypeOK, FlushesTyped
    <3>2. QED
      BY <2>a, <3>1, AttemptsLetGo DEF rows
  <2>b. ASSUME LetGo(w), UNCHANGED rows, Busy(w),
               lost' = [lost EXCEPT ![mail[w]] = @ + 1]
        PROVE  AttemptsAccounted'
    <3>1. mail[w] \in Mails
      BY <2>b DEF TypeOK, FlushesTyped
    <3>2. lost'[mail[w]] = lost[mail[w]] + 1
      BY <2>b, <3>1 DEF TypeOK, RowsTyped
    <3>3. attempts[mail[w]] < MaxAttempts + lost'[mail[w]]
      BY <1>0, <3>1, <3>2 DEF AttemptsAccounted
    <3>4. \A m \in Mails \ {mail[w]} : lost'[m] = lost[m]
      BY <2>b DEF TypeOK, RowsTyped
    <3>5. attempts[mail[w]] <= MaxAttempts + lost'[mail[w]]
      BY <1>0, <3>1, <3>2, <3>3
    <3>6. QED
      BY <2>b, <3>3, <3>4, <3>5, AttemptsLetGo DEF rows
  <2>1. CASE StartFlush(w) \/ Accept(w)
    BY <1>a, <2>1 DEF StartFlush, Accept, rows, flush
  <2>2. CASE Claim(w)
    <3>1. PICK m \in Mails :
            /\ Claimable(m)
            /\ attempts' = [attempts EXCEPT ![m] = @ + 1]
            /\ mail' = [mail EXCEPT ![w] = m]
      BY <2>2 DEF Claim, Candidate
    <3>2. status[m] = "pending" /\ Unclaimed(m)
      BY <3>1, ClaimableFree DEF Claimable, Unclaimed
    <3>3. attempts[m] < MaxAttempts + lost[m]
      BY <3>2 DEF AttemptsAccounted, Unclaimed
    <3>4. attempts'[m] = attempts[m] + 1 /\ mail'[w] = m
      BY <3>1 DEF TypeOK, RowsTyped, FlushesTyped
    <3>5. status' = status /\ lost' = lost
      BY <2>2 DEF Claim
    <3>6. attempts'[m] <= MaxAttempts + lost'[m]
      BY <1>0, <3>3, <3>4, <3>5
    <3>7. ASSUME NEW n \in Mails, n # m
          PROVE  attempts'[n] = attempts[n] /\ (Unclaimed(n)' => Unclaimed(n))
      <4>1. attempts'[n] = attempts[n]
        BY <3>1, <3>7 DEF TypeOK, RowsTyped
      <4>2. mail[w] = NoMail
        BY <2>2 DEF Claim, TypeOK, FlushesTyped, Busy
      <4>3. Unclaimed(n)' => Unclaimed(n)
        BY <3>1, <4>2, OutboxAssumption DEF Unclaimed, TypeOK, FlushesTyped
      <4>4. QED
        BY <4>1, <4>3
    <3>8. QED
      BY <3>4, <3>5, <3>6, <3>7 DEF AttemptsAccounted, Unclaimed
  <2>3. CASE EndFlush(w) \/ ClaimError(w)
    BY <2>3, <2>a, StopLetsGo DEF EndFlush, ClaimError, Busy
  <2>4. ASSUME NEW outcome \in Outcomes, SendReturns(w, outcome)
        PROVE  AttemptsAccounted'
    BY <1>a, <2>4 DEF SendReturns, rows
  <2>5. CASE Mark(w)
    <3>0. LetGo(w)
      BY <2>5, StopLetsGo DEF Mark, Proceed
    <3>1. mail[w] \in Mails /\ Busy(w)
      BY <2>5 DEF Mark, TypeOK, FlushesTyped, Busy
    <3>2. status[mail[w]] = "pending" /\ count[w] = attempts[mail[w]] /\ count[w] > 0
      BY <3>1 DEF LeaseExclusive
    <3>3. Record(mail[w], result[w], count[w]) /\ lost' = lost
      BY <2>5, <3>2 DEF Mark
    <3>4. \A m \in Mails \ {mail[w]} :
            status'[m] = status[m] /\ attempts'[m] = attempts[m]
      BY <3>1, <3>3 DEF Record, TypeOK, RowsTyped
    <3>5. attempts[mail[w]] <= MaxAttempts + lost[mail[w]]
      BY <3>1 DEF AttemptsAccounted
    <3>6. /\ attempts'[mail[w]] <= MaxAttempts + lost[mail[w]]
          /\ status'[mail[w]] \notin {"sent", "failed"} =>
               attempts'[mail[w]] < MaxAttempts + lost[mail[w]]
      <4>1. CASE result[w] = "auth"
        <5>1. attempts'[mail[w]] = attempts[mail[w]] - 1
          BY <1>0, <3>1, <3>2, <3>3, <4>1
          DEF Record, Released, Less, TypeOK, RowsTyped
        <5>2. QED
          BY <1>0, <3>1, <3>5, <5>1
      <4>2. CASE result[w] = "transient" /\ ~Exhausted(count[w])
        <5>1. attempts'[mail[w]] = attempts[mail[w]]
          BY <3>3, <4>2 DEF Record
        <5>2. QED
          BY <1>0, <3>1, <3>2, <4>2, <5>1 DEF Exhausted
      <4>3. CASE result[w] # "auth" /\ ~(result[w] = "transient" /\ ~Exhausted(count[w]))
        BY <3>1, <3>3, <3>5, <4>3 DEF Record, TypeOK, RowsTyped
      <4>4. QED
        BY <4>1, <4>2, <4>3
    <3>7. QED
      BY <3>0, <3>3, <3>4, <3>6, AttemptsLetGo
  <2>6. CASE MarkError(w) \/ Crash(w)
    BY <2>6, <2>b, StopLetsGo DEF MarkError, Crash, Proceed, Busy
  <2>7. QED
    BY <1>2, <2>1, <2>2, <2>3, <2>4, <2>5, <2>6 DEF FlushStep
<1>3. CASE Tick
  BY <1>a, <1>3 DEF Tick
<1>4. CASE UNCHANGED vars
  BY <1>a, <1>4 DEF vars, rows, flush
<1>5. QED
  BY <1>1, <1>2, <1>3, <1>4 DEF Next

\* Only a lost result (a crash, a failed mark) makes an attempt beyond the
\* limit possible; authentication errors do not use up attempts.
THEOREM Accounted == Spec => []AttemptsAccounted
<1>1. Init => AttemptsAccounted
  BY OutboxAssumption DEF Init, AttemptsAccounted
<1>2. QED
  BY <1>1, AttemptsStep, Exclusive, TypeCorrect, PTL DEF Spec

-----------------------------------------------------------------------------
(***************************************************************************)
(* Order, acceptance and finality: EmailOutbox implements MailDelivery.    *)
(***************************************************************************)
\* What recording a result does to the rows.
LEMMA MarkSettles ==
  ASSUME TypeOK, LeaseExclusive, DeliveryInv, NEW w \in Flushes, Mark(w)
  PROVE  /\ mail[w] \in Mails /\ status[mail[w]] = "pending"
         /\ \/ status' = status
            \/ /\ mail[w] \in accepted
               /\ status' = [status EXCEPT ![mail[w]] = "sent"]
            \/ status' = [status EXCEPT ![mail[w]] = "failed"]
         /\ UNCHANGED <<older, ahead, accepted>>
<1>1. Busy(w)
  BY DEF Mark, Busy
<1>2. mail[w] \in Mails /\ status[mail[w]] = "pending"
  BY <1>1 DEF TypeOK, FlushesTyped, LeaseExclusive
<1>3. Record(mail[w], result[w], count[w])
  BY <1>2 DEF Mark
<1>4. QED
  BY <1>2, <1>3 DEF Mark, Record, DeliveryInv

LEMMA DeliveryStep ==
  DeliveryInv /\ LeaseExclusive /\ TypeOK /\ [Next]_vars => DeliveryInv'
<1> SUFFICES ASSUME DeliveryInv, LeaseExclusive, TypeOK, [Next]_vars
             PROVE  DeliveryInv'
  OBVIOUS
<1> DEFINE First == \A m \in Mails : \A n \in ahead[m] : Earlier(n, m) /\ Committed(n)
           Behind == \A w \in Flushes : Busy(w) =>
                       \A n \in ahead[mail[w]] : status[n] # "pending"
           Good == \A w \in Flushes : result[w] = "ok" => mail[w] \in accepted
<1>0. First /\ Behind /\ Good
  BY DEF DeliveryInv
<1>a. ASSUME First', Behind', Good'
      PROVE  DeliveryInv'
  BY <1>a DEF DeliveryInv
<1>b. ASSUME UNCHANGED <<status, older, ahead>>
      PROVE  First'
  BY <1>0, <1>b DEF Earlier, Committed
<1>c. ASSUME NEW w \in Flushes, LetGo(w)
      PROVE  /\ accepted' = accepted => Good'
             /\ \A v \in Flushes : Busy(v)' => Busy(v) /\ mail'[v] = mail[v]
  <2>1. ASSUME NEW v \in Flushes, v # w
        PROVE  mail'[v] = mail[v] /\ result'[v] = result[v] /\ mode'[v] = mode[v]
    BY <1>c, <2>1 DEF LetGo, TypeOK, FlushesTyped
  <2>2. result'[w] = "none" /\ ~Busy(w)'
    BY <1>c DEF LetGo, Busy, TypeOK, FlushesTyped
  <2>3. QED
    BY <1>0, <2>1, <2>2 DEF Busy
<1>d. ASSUME NEW m \in Mails, ~Committed(m)
      PROVE  /\ \A n \in Mails : m \notin ahead[n]
             /\ \A w \in Flushes : Busy(w) => mail[w] # m
  BY <1>0, <1>d DEF Committed, LeaseExclusive
<1>1. ASSUME NEW m \in Mails, Begin(m)
      PROVE  DeliveryInv'
  <2>1. /\ \A n \in Mails : m \notin ahead[n]
        /\ \A w \in Flushes : Busy(w) => mail[w] # m
    BY <1>1, <1>d DEF Begin
  <2>2. /\ UNCHANGED <<ahead, accepted, mode, mail, result>>
        /\ \A n \in Mails \ {m} : status'[n] = status[n] /\ older'[n] = older[n] \ {m}
        /\ older'[m] = {k \in Mails \ {m} : status[k] # "none"}
    BY <1>1 DEF Begin, flush, TypeOK, RowsTyped
  <2>3. ASSUME NEW k \in Mails, NEW n \in ahead[k]
        PROVE  Earlier(n, k)' /\ Committed(n)'
    <3>1. n \in Mails /\ n # m /\ Earlier(n, k) /\ Committed(n)
      BY <1>0, <2>1 DEF TypeOK, RowsTyped
    <3>2. Committed(n)'
      BY <2>2, <3>1 DEF Committed
    <3>3. CASE k = m
      BY <2>2, <3>1, <3>2, <3>3 DEF Earlier, Committed
    <3>4. CASE k # m
      BY <2>2, <3>1, <3>2, <3>4 DEF Earlier
    <3>5. QED
      BY <3>3, <3>4
  <2>4. First'
    BY <2>2, <2>3
  <2>5. Behind'
    <3>1. ASSUME NEW w \in Flushes, Busy(w)', NEW n \in ahead'[mail'[w]]
          PROVE  status'[n] # "pending"
      <4>1. Busy(w) /\ n \in ahead[mail[w]] /\ mail[w] \in Mails
        BY <2>2, <3>1 DEF Busy, TypeOK, FlushesTyped
      <4>2. n \in Mails /\ n # m
        BY <2>1, <4>1 DEF TypeOK, RowsTyped
      <4>3. QED
        BY <1>0, <2>2, <4>1, <4>2
    <3>2. QED
      BY <3>1
  <2>6. QED
    BY <1>0, <1>a, <2>2, <2>4, <2>5
<1>2. ASSUME NEW m \in Mails, Enqueue(m)
      PROVE  DeliveryInv'
  <2>1. /\ \A n \in Mails : m \notin ahead[n]
        /\ \A w \in Flushes : Busy(w) => mail[w] # m
    BY <1>2, <1>d DEF Enqueue, Committed
  <2>2. /\ UNCHANGED <<older, accepted, mode, mail, result>>
        /\ status[m] = "open" /\ status'[m] = "pending"
        /\ \A n \in Mails \ {m} : status'[n] = status[n] /\ ahead'[n] = ahead[n]
        /\ ahead'[m] = {n \in Mails : Earlier(n, m) /\ Committed(n)}
    BY <1>2 DEF Enqueue, flush, TypeOK, RowsTyped
  <2>3. ASSUME NEW k \in Mails, NEW n \in ahead'[k]
        PROVE  Earlier(n, k)' /\ Committed(n)'
    <3>1. n \in Mails /\ Earlier(n, k) /\ Committed(n)
      BY <1>0, <2>2 DEF TypeOK, RowsTyped
    <3>2. QED
      BY <2>2, <3>1 DEF Earlier, Committed
  <2>4. First'
    BY <2>3
  <2>5. Behind'
    <3>1. ASSUME NEW w \in Flushes, Busy(w)', NEW n \in ahead'[mail'[w]]
          PROVE  status'[n] # "pending"
      <4>1. Busy(w) /\ mail[w] \in Mails /\ mail[w] # m /\ mail'[w] = mail[w]
        BY <2>1, <2>2, <3>1 DEF Busy, TypeOK, FlushesTyped
      <4>2. n \in ahead[mail[w]] /\ n \in Mails /\ n # m
        BY <2>1, <2>2, <3>1, <4>1 DEF TypeOK, RowsTyped
      <4>3. QED
        BY <1>0, <2>2, <4>1, <4>2
    <3>2. QED
      BY <3>1
  <2>6. QED
    BY <1>0, <1>a, <2>2, <2>4, <2>5
<1>3. ASSUME NEW w \in Flushes, FlushStep(w)
      PROVE  DeliveryInv'
  <2>a. ASSUME LetGo(w), UNCHANGED <<rows, accepted>>
        PROVE  DeliveryInv'
    BY <1>0, <1>a, <1>b, <1>c, <2>a DEF rows
  <2>1. CASE StartFlush(w)
    <3>1. UNCHANGED <<status, older, ahead, accepted, mail, result>>
          /\ \A v \in Flushes : Busy(v)' => Busy(v)
      BY <2>1 DEF StartFlush, rows, Busy, TypeOK, FlushesTyped
    <3>2. QED
      BY <1>0, <1>a, <1>b, <3>1
  <2>2. CASE Claim(w)
    <3>1. PICK m \in Mails : Claimable(m) /\ mail' = [mail EXCEPT ![w] = m]
      BY <2>2 DEF Claim, Candidate
    <3>2. UNCHANGED <<status, older, ahead, accepted, result>>
          /\ mode' = [mode EXCEPT ![w] = "sending"] /\ mode[w] = "claiming"
      BY <2>2 DEF Claim
    <3>3. result[w] = "none"
      BY <3>2 DEF TypeOK, FlushesTyped
    <3>4. \A v \in Flushes \ {w} : mail'[v] = mail[v] /\ mode'[v] = mode[v]
      BY <3>1, <3>2 DEF TypeOK, FlushesTyped
    <3>5. mail'[w] = m
      BY <3>1 DEF TypeOK, FlushesTyped
    <3>6. Good'
      BY <1>0, <3>2, <3>3, <3>4
    <3>7. \A n \in ahead[m] : status[n] # "pending"
      BY <1>0, <3>1 DEF Claimable, TypeOK, RowsTyped
    <3>8. Behind'
      BY <1>0, <3>2, <3>4, <3>5, <3>7 DEF Busy
    <3>9. QED
      BY <1>a, <1>b, <3>2, <3>6, <3>8
  <2>3. CASE EndFlush(w) \/ ClaimError(w)
    BY <2>3, <2>a, StopLetsGo DEF EndFlush, ClaimError
  <2>4. CASE Accept(w)
    <3>1. /\ UNCHANGED <<status, older, ahead, mode, mail, result>>
          /\ accepted \subseteq accepted'
      BY <2>4 DEF Accept, rows, flush
    <3>2. QED
      BY <1>0, <1>a, <1>b, <3>1 DEF Busy
  <2>5. ASSUME NEW outcome \in Outcomes, SendReturns(w, outcome)
        PROVE  DeliveryInv'
    <3>1. /\ UNCHANGED <<status, older, ahead, mail, accepted>>
          /\ result' = [result EXCEPT ![w] = outcome]
          /\ outcome = "ok" => mail[w] \in accepted
          /\ \A v \in Flushes : Busy(v)' => Busy(v)
      BY <2>5 DEF SendReturns, rows, Busy, TypeOK, FlushesTyped
    <3>2. Good'
      BY <1>0, <3>1 DEF TypeOK, FlushesTyped
    <3>3. QED
      BY <1>0, <1>a, <1>b, <3>1, <3>2
  <2>6. CASE Mark(w)
    <3>1. LetGo(w)
      BY <2>6, StopLetsGo DEF Mark, Proceed
    <3>2. /\ mail[w] \in Mails /\ status[mail[w]] = "pending"
          /\ UNCHANGED <<older, ahead, accepted>>
          /\ \A n \in Mails : status'[n] = status[n]
                              \/ (status[n] = "pending" /\ status'[n] \in {"sent", "failed"})
      BY <2>6, MarkSettles DEF TypeOK, RowsTyped
    <3>3. First'
      BY <1>0, <3>2 DEF Earlier, Committed, TypeOK, RowsTyped
    <3>4. Behind'
      <4>1. ASSUME NEW v \in Flushes, Busy(v)', NEW n \in ahead'[mail'[v]]
            PROVE  status'[n] # "pending"
        <5>1. Busy(v) /\ mail'[v] = mail[v] /\ mail[v] \in Mails
          BY <1>c, <3>1, <4>1 DEF TypeOK, FlushesTyped
        <5>2. n \in ahead[mail[v]] /\ n \in Mails
          BY <3>2, <4>1, <5>1 DEF TypeOK, RowsTyped
        <5>3. QED
          BY <1>0, <3>2, <5>1, <5>2
      <4>2. QED
        BY <4>1
    <3>5. QED
      BY <1>a, <1>c, <3>1, <3>2, <3>3, <3>4
  <2>7. CASE MarkError(w) \/ Crash(w)
    BY <2>7, <2>a, StopLetsGo DEF MarkError, Crash, Proceed
  <2>8. QED
    BY <1>3, <2>1, <2>2, <2>3, <2>4, <2>5, <2>6, <2>7 DEF FlushStep
<1>4. CASE UNCHANGED <<status, older, ahead, accepted, mode, mail, result>>
  BY <1>0, <1>4, <1>a, <1>b DEF Busy
<1>5. QED
  BY <1>1, <1>2, <1>3, <1>4 DEF Next, Tick, vars, rows, flush

\* The mail in a flush's hands is behind no pending one of its reservation that
\* was created and committed first, however many decisions race.
THEOREM DeliveryInvariant == Spec => []DeliveryInv
<1>1. Init => DeliveryInv
  BY DEF Init, DeliveryInv, Busy
<1>2. QED
  BY <1>1, DeliveryStep, Exclusive, TypeCorrect, PTL DEF Spec

\* Whatever flushes overlap, crash or lose answers, the outbox keeps what it
\* promises: no mail overtakes a pending one created and committed before it,
\* "sent" only after acceptance, and settled rows stay settled.
THEOREM Implements == Spec => Delivered
<1>1. Init => Delivery!Init
  BY DEF Init, Delivery!Init
<1>2. DeliveryInv /\ LeaseExclusive /\ TypeOK /\ [Next]_vars
        => [Delivery!Next]_(Delivery!vars)
  <2> SUFFICES ASSUME DeliveryInv, LeaseExclusive, TypeOK, [Next]_vars
               PROVE  Delivery!Next \/ UNCHANGED <<status, older, ahead, accepted>>
    BY DEF Delivery!vars
  <2>0. ASSUME NEW m \in Mails, Begin(m)
        PROVE  Delivery!Begin(m)
    BY <2>0 DEF Begin, Committed, Delivery!Begin, Delivery!Committed
  <2>1. ASSUME NEW m \in Mails, Enqueue(m)
        PROVE  Delivery!Queue(m)
    BY <2>1 DEF Enqueue, Earlier, Committed, Delivery!Queue, Delivery!Committed
  <2>2. ASSUME NEW w \in Flushes, Accept(w)
        PROVE  mail[w] \in Mails /\ Delivery!Accept(mail[w])
    <3>1. Busy(w)
      BY <2>2 DEF Accept, Busy
    <3>2. mail[w] \in Mails /\ status[mail[w]] = "pending"
      BY <3>1 DEF TypeOK, FlushesTyped, LeaseExclusive
    <3>3. \A n \in ahead[mail[w]] : status[n] # "pending"
      BY <3>1 DEF DeliveryInv
    <3>4. QED
      BY <2>2, <3>2, <3>3 DEF Accept, rows, Delivery!Accept
  <2>3. ASSUME NEW w \in Flushes, Mark(w), status' # status
        PROVE  mail[w] \in Mails /\ Delivery!Settle(mail[w])
    BY <2>3, MarkSettles DEF Delivery!Settle
  <2>4. ASSUME NEW w \in Flushes, Mark(w), status' = status
        PROVE  UNCHANGED <<status, older, ahead, accepted>>
    BY <2>4, MarkSettles
  <2>5. ASSUME NEW w \in Flushes, FlushStep(w), ~Accept(w), ~Mark(w)
        PROVE  UNCHANGED <<status, older, ahead, accepted>>
    BY <2>5
    DEF FlushStep, StartFlush, Claim, EndFlush, ClaimError, SendReturns,
        MarkError, Crash, rows
  <2>6. CASE Tick \/ UNCHANGED vars
    BY <2>6 DEF Tick, vars, rows
  <2>7. QED
    BY <2>0, <2>1, <2>2, <2>3, <2>4, <2>5, <2>6 DEF Next, Delivery!Next
<1>3. QED
  BY <1>1, <1>2, DeliveryInvariant, Exclusive, TypeCorrect, PTL
  DEF Spec, Delivered, Delivery!Spec

\* In MailDelivery the order at the moment of acceptance lasts: what is ahead
\* of a mail is fixed when it is queued, and a settled mail does not become
\* pending again.  The mail that confirms a request is begun before all others
\* of its reservation and committed before they begin, so it is ahead of them.
LEMMA OrderLasts == Delivered => []MailsInSequence
<1> DEFINE Typed ==
             /\ status \in [Mails -> {"none", "open", "pending", "sent", "failed"}]
             /\ older \in [Mails -> SUBSET Mails]
             /\ ahead \in [Mails -> SUBSET Mails]
             /\ accepted \subseteq Mails
           Known == /\ \A m \in accepted : Committed(m)
                    /\ \A m \in Mails : \A n \in ahead[m] : Committed(n)
           Confirmed ==
             \A m, n \in Mails :
               n # m /\ n[1] = m[1] /\ n[2] = "received"
                 /\ status[n] # "none" /\ status[m] # "none" =>
               /\ Committed(n) /\ n \in older[m]
               /\ Committed(m) => n \in ahead[m]
           InOrder == \A m \in accepted : \A n \in ahead[m] : status[n] # "pending"
           Honest == \A m \in Mails : status[m] = "sent" => m \in accepted
           Inv == Typed /\ Known /\ Confirmed /\ InOrder /\ Honest
<1> USE DEF Committed, Delivery!Committed
<1>1. Delivery!Init => Inv
  BY DEF Delivery!Init
<1>2. Inv /\ [Delivery!Next]_(Delivery!vars) => Inv'
  <2> SUFFICES ASSUME Inv, [Delivery!Next]_(Delivery!vars)
               PROVE  Inv'
    OBVIOUS
  <2>1. ASSUME NEW m \in Mails, Delivery!Begin(m)
        PROVE  Inv'
    <3>1. /\ ~Committed(m) /\ UNCHANGED <<ahead, accepted>>
          /\ status' = [status EXCEPT ![m] = "open"]
          /\ older' \in [Mails -> SUBSET Mails]
          /\ older'[m] = {k \in Mails \ {m} : status[k] # "none"}
          /\ \A n \in Mails \ {m} : older'[n] = older[n] \ {m}
          /\ \A n \in Mails \ {m} : n[1] = m[1] =>
               /\ m[2] = "received" => status[n] = "none"
               /\ n[2] = "received" => status[n] # "open"
      BY <2>1 DEF Delivery!Begin
    <3>2. status'[m] = "open" /\ \A n \in Mails \ {m} : status'[n] = status[n]
      BY <3>1
    <3>3. Typed' /\ Known'
      BY <3>1, <3>2
    <3>4. InOrder' /\ Honest'
      BY <3>1, <3>2
    <3>5. ASSUME NEW k \in Mails, NEW n \in Mails, n # k, n[1] = k[1],
                 n[2] = "received", status'[n] # "none", status'[k] # "none"
          PROVE  /\ Committed(n)' /\ n \in older'[k]
                 /\ Committed(k)' => n \in ahead'[k]
      <4>1. CASE n = m
        BY <3>1, <3>2, <3>5, <4>1
      <4>2. CASE k = m
        BY <3>1, <3>2, <3>5, <4>2
      <4>3. CASE n # m /\ k # m
        BY <3>1, <3>2, <3>5, <4>3
      <4>4. QED
        BY <4>1, <4>2, <4>3
    <3>6. QED
      BY <3>3, <3>4, <3>5
  <2>2. ASSUME NEW m \in Mails, Delivery!Queue(m)
        PROVE  Inv'
    <3>1. /\ status[m] = "open" /\ UNCHANGED <<older, accepted>>
          /\ status' = [status EXCEPT ![m] = "pending"]
          /\ ahead' \in [Mails -> SUBSET Mails]
          /\ ahead'[m] = {n \in Mails : n[1] = m[1] /\ n \in older[m] /\ Committed(n)}
          /\ \A n \in Mails \ {m} : ahead'[n] = ahead[n]
      BY <2>2 DEF Delivery!Queue
    <3>2. status'[m] = "pending" /\ \A n \in Mails \ {m} : status'[n] = status[n]
      BY <3>1
    <3>3. m \notin accepted /\ \A n \in Mails : m \notin ahead[n]
      BY <3>1
    <3>4. Typed' /\ Known'
      BY <3>1, <3>2
    <3>5. InOrder' /\ Honest'
      BY <3>1, <3>2, <3>3
    <3>6. ASSUME NEW k \in Mails, NEW n \in Mails, n # k, n[1] = k[1],
                 n[2] = "received", status'[n] # "none", status'[k] # "none"
          PROVE  /\ Committed(n)' /\ n \in older'[k]
                 /\ Committed(k)' => n \in ahead'[k]
      <4>1. status[n] # "none" /\ status[k] # "none"
        BY <3>1, <3>2, <3>6
      <4>2. Committed(n) /\ n \in older[k] /\ (Committed(k) => n \in ahead[k])
        BY <3>6, <4>1
      <4>3. QED
        BY <3>1, <3>2, <3>6, <4>2
    <3>7. QED
      BY <3>4, <3>5, <3>6
  <2>3. ASSUME NEW m \in Mails, Delivery!Accept(m)
        PROVE  Inv'
    BY <2>3 DEF Delivery!Accept
  <2>4. ASSUME NEW m \in Mails, Delivery!Settle(m)
        PROVE  Inv'
    <3>1. /\ UNCHANGED <<older, ahead, accepted>> /\ status[m] = "pending"
          /\ status'[m] \in {"sent", "failed"}
          /\ status'[m] = "sent" => m \in accepted
          /\ \A n \in Mails \ {m} : status'[n] = status[n]
          /\ status' \in [Mails -> {"none", "open", "pending", "sent", "failed"}]
      BY <2>4 DEF Delivery!Settle
    <3>2. \A n \in Mails : (Committed(n)' <=> Committed(n))
                           /\ (status'[n] = "none" <=> status[n] = "none")
      BY <3>1
    <3>3. Typed' /\ Known' /\ Confirmed'
      BY <3>1, <3>2
    <3>4. InOrder' /\ Honest'
      BY <3>1
    <3>5. QED
      BY <3>3, <3>4
  <2>5. CASE UNCHANGED Delivery!vars
    BY <2>5 DEF Delivery!vars
  <2>6. QED
    BY <2>1, <2>2, <2>3, <2>4, <2>5 DEF Delivery!Next
<1>3. Inv => MailsInSequence
  <2> SUFFICES ASSUME Inv
               PROVE  MailsInSequence
    OBVIOUS
  <2>1. ASSUME NEW m \in accepted, NEW n \in Mails, n # m, n[1] = m[1],
               n[2] = "received"
        PROVE  status[n] \in {"none", "sent", "failed"}
    BY <2>1
  <2>2. QED
    BY <2>1 DEF MailsInSequence, Delivery!NeverOvertaken
<1>4. QED
  BY <1>1, <1>2, <1>3, PTL DEF Delivered, Delivery!Spec

\* The outbox inherits it: no decision reaches Resend before the mail that
\* confirms the request is sent or has failed, nor ahead of a decision created
\* and committed before it.
THEOREM InSequence == Spec => []MailsInSequence
  BY Implements, OrderLasts, PTL
=============================================================================
