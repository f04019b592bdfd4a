------------------------ MODULE RefreshTokensProofs ------------------------
(***************************************************************************)
(* Proofs about RefreshTokens: typing, the invariant of the sessions, and  *)
(* that the sessions are those of AdminSessions.                           *)
(***************************************************************************)
EXTENDS RefreshTokens, TLAPS

\* The steps of one request.
Step(r) ==
  \/ LoginStart(r)
  \/ \E u \in Users, t \in Tokens : LoginIssue(r, u, t)
  \/ LoginCleanup(r)
  \/ \E t \in Tokens : RefreshFind(r, t)
  \/ RefreshRevoke(r)
  \/ \E t \in Tokens : RefreshIssue(r, t)
  \/ RefreshCommit(r)
  \/ SweepStart(r)
  \/ SweepEnd(r)
  \/ \E t \in Tokens : LogoutFind(r, t)
  \/ LogoutRevoke(r)
  \/ Fail(r)

\* Next, request by request.
LEMMA NextSteps ==
  ASSUME [Next]_vars
  PROVE  \/ \E r \in Requests : Step(r)
         \/ \E t \in Tokens : Expire(t)
         \/ UNCHANGED vars
BY DEF Next, Step

\* A row that is revoked or deleted is a row of the table's history.
LEMMA RevokedTyped ==
  ASSUME TypeOK, NEW S \in SUBSET Tokens
  PROVE  /\ Revoked(S) \in [Tokens -> {"none", "active", "revoked", "gone"}]
         /\ \A t \in Tokens : Revoked(S)[t] = "none" <=> row[t] = "none"
BY DEF TypeOK, Revoked

\* Ending a request keeps the typing of what requests hold.
LEMMA DoneTyped ==
  ASSUME TypeOK, NEW r \in Requests, Done(r),
         row' \in [Tokens -> {"none", "active", "revoked", "gone"}],
         \A t \in Tokens : row[t] # "none" => row'[t] # "none",
         expired' \subseteq Tokens,
         owner' \in [Tokens -> Users \cup {NoUser}],
         parent' \in [Tokens -> Tokens \cup {NoToken}],
         session' \in [Tokens -> Tokens \cup {NoToken}],
         \A t \in Tokens : row'[t] # "none" => owner'[t] \in Users /\ session'[t] \in Tokens
  PROVE  TypeOK'
<1>1. /\ pc' \in [Requests -> Points]
      /\ token' \in [Requests -> Tokens \cup {NoToken}]
      /\ fresh' \in [Requests -> Tokens \cup {NoToken}]
      /\ doomed' \in [Requests -> SUBSET Tokens]
  BY DEF TypeOK, Done, Goto, Points
<1>2. ASSUME NEW q \in Requests
      PROVE  /\ pc'[q] \in {"found", "rotating", "issued", "reuse", "logout"} =>
                  token'[q] \in Tokens /\ row'[token'[q]] # "none"
             /\ IF pc'[q] = "issued" THEN fresh'[q] \in Tokens ELSE fresh'[q] = NoToken
             /\ \A t \in doomed'[q] : row'[t] # "none"
  <2>1. CASE q = r
    BY <2>1 DEF TypeOK, Done, Goto
  <2>2. CASE q # r
    <3>1. /\ pc'[q] = pc[q] /\ token'[q] = token[q] /\ fresh'[q] = fresh[q]
          /\ doomed'[q] = doomed[q] /\ doomed[q] \subseteq Tokens
      BY <2>2 DEF TypeOK, Done, Goto
    <3>2. QED
      BY <3>1 DEF TypeOK
  <2>3. QED
    BY <2>1, <2>2
<1>3. QED
  BY <1>1, <1>2 DEF TypeOK

\* The typing is kept by every step of a request.
LEMMA TypeStep ==
  ASSUME TypeOK, NEW r \in Requests, Step(r)
  PROVE  TypeOK'
<1>1. CASE LoginStart(r)
  BY <1>1 DEF TypeOK, Points, LoginStart, Goto, rows
<1>2. ASSUME NEW u \in Users, NEW t \in Tokens, LoginIssue(r, u, t)
      PROVE  TypeOK'
  <2>1. /\ pc' \in [Requests -> Points]
        /\ row' \in [Tokens -> {"none", "active", "revoked", "gone"}]
        /\ owner' \in [Tokens -> Users \cup {NoUser}]
        /\ session' \in [Tokens -> Tokens \cup {NoToken}]
    BY <1>2 DEF TypeOK, Points, LoginIssue, Goto
  <2>2. \A x \in Tokens : row'[x] # "none" => owner'[x] \in Users /\ session'[x] \in Tokens
    BY <1>2 DEF TypeOK, LoginIssue
  <2>3. \A x \in Tokens : row[x] # "none" => row'[x] # "none"
    BY <1>2 DEF TypeOK, LoginIssue
  <2>4. QED
    BY <1>2, <2>1, <2>2, <2>3 DEF TypeOK, LoginIssue, Goto
<1>3. CASE LoginCleanup(r)
  <2>1. /\ row' \in [Tokens -> {"none", "active", "revoked", "gone"}]
        /\ \A t \in Tokens : row[t] # "none" => row'[t] # "none"
    BY <1>3 DEF TypeOK, LoginCleanup
  <2>2. \A t \in Tokens : row'[t] # "none" => owner[t] \in Users /\ session[t] \in Tokens
    <3>1. \A t \in Tokens : t \in doomed[r] => row[t] # "none"
      BY DEF TypeOK
    <3>2. QED
      BY <1>3, <3>1 DEF TypeOK, LoginCleanup
  <2>3. QED
    BY <1>3, <2>1, <2>2, DoneTyped DEF TypeOK, LoginCleanup
<1>4. ASSUME NEW t \in Tokens, RefreshFind(r, t)
      PROVE  TypeOK'
  BY <1>4 DEF TypeOK, Points, RefreshFind, Goto, rows
<1>5. CASE RefreshRevoke(r)
  BY <1>5 DEF TypeOK, Points, RefreshRevoke, Goto, rows
<1>6. ASSUME NEW t \in Tokens, RefreshIssue(r, t)
      PROVE  TypeOK'
  BY <1>6 DEF TypeOK, Points, RefreshIssue, Goto, rows
<1>7. CASE RefreshCommit(r)
  <2>1. token[r] \in Tokens /\ fresh[r] \in Tokens /\ row[token[r]] # "none"
    BY <1>7 DEF TypeOK, RefreshCommit
  <2>2. /\ row' \in [Tokens -> {"none", "active", "revoked", "gone"}]
        /\ \A t \in Tokens : row'[t] # "none" => row[t] # "none" \/ t = fresh[r]
        /\ \A t \in Tokens : row[t] # "none" => row'[t] # "none"
    <3>1. /\ row' = [Revoked({token[r]}) EXCEPT ![fresh[r]] = "active"]
          /\ {token[r]} \in SUBSET Tokens
      BY <1>7, <2>1 DEF RefreshCommit
    <3>2. /\ Revoked({token[r]}) \in [Tokens -> {"none", "active", "revoked", "gone"}]
          /\ \A t \in Tokens : Revoked({token[r]})[t] = "none" <=> row[t] = "none"
      BY <3>1, RevokedTyped
    <3>3. QED
      BY <2>1, <3>1, <3>2
  <2>3. /\ owner' \in [Tokens -> Users \cup {NoUser}]
        /\ parent' \in [Tokens -> Tokens \cup {NoToken}]
        /\ session' \in [Tokens -> Tokens \cup {NoToken}]
    BY <1>7, <2>1 DEF TypeOK, RefreshCommit
  <2>4. \A t \in Tokens : row'[t] # "none" => owner'[t] \in Users /\ session'[t] \in Tokens
    <3>1. ASSUME NEW t \in Tokens, row'[t] # "none"
          PROVE  owner'[t] \in Users /\ session'[t] \in Tokens
      <4>1. CASE t = fresh[r]
        <5>1. owner'[t] = owner[token[r]] /\ session'[t] = session[token[r]]
          BY <1>7, <4>1 DEF TypeOK, RefreshCommit
        <5>2. QED
          BY <2>1, <5>1 DEF TypeOK
      <4>2. CASE t # fresh[r]
        <5>1. owner'[t] = owner[t] /\ session'[t] = session[t] /\ row[t] # "none"
          BY <1>7, <2>2, <3>1, <4>2 DEF TypeOK, RefreshCommit
        <5>2. QED
          BY <5>1 DEF TypeOK
      <4>3. QED
        BY <4>1, <4>2
    <3>2. QED
      BY <3>1
  <2>5. QED
    BY <1>7, <2>2, <2>3, <2>4, DoneTyped DEF TypeOK, RefreshCommit
<1>8. CASE SweepStart(r)
  BY <1>8 DEF TypeOK, Points, SweepStart, Goto, rows
<1>9. CASE SweepEnd(r)
  <2>1. doomed[r] \in SUBSET Tokens
    BY DEF TypeOK
  <2>2. QED
    BY <1>9, <2>1, RevokedTyped, DoneTyped DEF TypeOK, SweepEnd
<1>10. ASSUME NEW t \in Tokens, LogoutFind(r, t)
       PROVE  TypeOK'
  BY <1>10 DEF TypeOK, Points, LogoutFind, Goto, rows
<1>11. CASE LogoutRevoke(r)
  <2>1. {token[r]} \in SUBSET Tokens
    BY <1>11 DEF TypeOK, LogoutRevoke
  <2>2. QED
    BY <1>11, <2>1, RevokedTyped, DoneTyped DEF TypeOK, LogoutRevoke
<1>12. CASE Fail(r)
  BY <1>12, DoneTyped DEF TypeOK, Fail, rows
<1>13. QED
  BY <1>1, <1>2, <1>3, <1>4, <1>5, <1>6, <1>7, <1>8, <1>9, <1>10, <1>11, <1>12 DEF Step

\* Rows, requests and history keep their types (refresh_tokens, refresh.go).
THEOREM TypeCorrect == Spec => []TypeOK
<1>1. Init => TypeOK
  BY DEF Init, TypeOK, Points
<1>2. TypeOK /\ [Next]_vars => TypeOK'
  <2>1. SUFFICES ASSUME TypeOK, [Next]_vars PROVE TypeOK'
    OBVIOUS
  <2>2. ASSUME NEW t \in Tokens, Expire(t) PROVE TypeOK'
    BY <2>1, <2>2 DEF TypeOK, Expire
  <2>3. CASE UNCHANGED vars
    BY <2>1, <2>3 DEF TypeOK, vars, rows
  <2>4. QED
    BY <2>1, <2>2, <2>3, NextSteps, TypeStep
<1>3. QED
  BY <1>1, <1>2, PTL DEF Spec

----------------------------------------------------------------------------
(* The invariant of the sessions. *)

\* Steps that leave the rows alone and do not touch a rotation.
LEMMA QuietStep ==
  ASSUME TypeOK, SessionsInv, UNCHANGED <<row, parent, session>>,
         NEW r \in Requests,
         \A q \in Requests \ {r} :
           pc'[q] = pc[q] /\ token'[q] = token[q] /\ fresh'[q] = fresh[q],
         fresh'[r] \in {fresh[r], NoToken},
         pc'[r] \notin {"rotating", "issued"}
  PROVE  SessionsInv'
<1>1. FamilyInv' /\ SingleUse' /\ OneLivePerSession'
  BY DEF SessionsInv, FamilyInv, SingleUse, OneLivePerSession
<1>2. \A q \in Requests : Rotating(q)' => Rotating(q) /\ token'[q] = token[q] /\ q # r
  BY DEF Rotating
<1>3. \A q \in Requests : pc'[q] = "issued" => pc[q] = "issued" /\ fresh'[q] = fresh[q] /\ q # r
  OBVIOUS
<1>4. \A q \in Requests : pc[q] = "issued" => fresh[q] # NoToken
  BY TokensAssumption DEF TypeOK
<1>5. /\ \A q \in Requests : Rotating(q)' => row'[token'[q]] = "active"
      /\ \A p, q \in Requests :
           Rotating(p)' /\ Rotating(q)' /\ token'[p] = token'[q] => p = q
  BY <1>2 DEF SessionsInv, RotationInv
<1>6. \A p, q \in Requests : pc'[p] = "issued" =>
        row'[fresh'[p]] = "none" /\ (fresh'[q] = fresh'[p] => q = p)
  BY <1>3, <1>4 DEF SessionsInv, RotationInv
<1>7. QED
  BY <1>1, <1>5, <1>6 DEF SessionsInv, RotationInv

\* Rows that nobody rotates may be revoked or deleted.
LEMMA EndingStep ==
  ASSUME TypeOK, SessionsInv, UNCHANGED <<parent, session>>,
         NEW r \in Requests, Done(r),
         \A t \in Tokens : row'[t] = "none" <=> row[t] = "none",
         \A t \in Tokens : row'[t] = row[t] \/ (RowFree(t) /\ row'[t] \in {"revoked", "gone"})
  PROVE  SessionsInv'
<1>1. \A q \in Requests : q # r =>
        pc'[q] = pc[q] /\ token'[q] = token[q] /\ fresh'[q] = fresh[q]
  BY DEF TypeOK, Done, Goto
<1>2. pc'[r] = "idle" /\ fresh'[r] = NoToken
  BY DEF TypeOK, Done, Goto
<1>3. FamilyInv'
  <2>1. \A t \in Tokens : row'[t] = "none" => parent'[t] = NoToken /\ session'[t] = NoToken
    BY DEF SessionsInv, FamilyInv
  <2>2. \A t \in Tokens : row'[t] # "none" => row'[session'[t]] # "none"
    BY DEF SessionsInv, FamilyInv, TypeOK
  <2>3. \A t \in Tokens : parent'[t] # NoToken => row'[parent'[t]] \in {"revoked", "gone"}
    <3>1. SUFFICES ASSUME NEW t \in Tokens, parent[t] # NoToken
                   PROVE  row'[parent[t]] \in {"revoked", "gone"}
      OBVIOUS
    <3>2. parent[t] \in Tokens /\ row[parent[t]] \in {"revoked", "gone"}
      BY <3>1 DEF SessionsInv, FamilyInv, TypeOK
    <3>3. QED
      BY <3>2
  <2>4. QED
    BY <2>1, <2>2, <2>3 DEF FamilyInv
<1>4. SingleUse'
  BY DEF SessionsInv, SingleUse
<1>5. OneLivePerSession'
  <2>1. \A t \in Tokens : row'[t] = "active" => row[t] = "active"
    OBVIOUS
  <2>2. QED
    BY <2>1 DEF SessionsInv, OneLivePerSession
<1>6. \A q \in Requests : Rotating(q)' => Rotating(q) /\ token'[q] = token[q] /\ token[q] \in Tokens
  BY <1>1, <1>2 DEF Rotating, TypeOK
<1>7. \A q \in Requests : Rotating(q)' => row'[token'[q]] = "active"
  <2>1. SUFFICES ASSUME NEW q \in Requests, Rotating(q)' PROVE row'[token[q]] = "active"
    BY <1>6
  <2>2. Rotating(q) /\ token[q] \in Tokens /\ row[token[q]] = "active"
    BY <1>6, <2>1 DEF SessionsInv, RotationInv
  <2>3. ~RowFree(token[q])
    BY <2>2 DEF RowFree
  <2>4. QED
    BY <2>2, <2>3
<1>8. \A p, q \in Requests :
        Rotating(p)' /\ Rotating(q)' /\ token'[p] = token'[q] => p = q
  BY <1>6 DEF SessionsInv, RotationInv
<1>9. ASSUME NEW p \in Requests, NEW q \in Requests, pc'[p] = "issued"
      PROVE  row'[fresh'[p]] = "none" /\ (fresh'[q] = fresh'[p] => q = p)
  <2>1. pc[p] = "issued" /\ fresh'[p] = fresh[p] /\ p # r /\ fresh[p] \in Tokens
    BY <1>1, <1>2, <1>9 DEF TypeOK
  <2>2. row'[fresh[p]] = "none"
    BY <2>1 DEF SessionsInv, RotationInv
  <2>3. ASSUME fresh'[q] = fresh[p] PROVE q = p
    <3>1. q # r
      BY <1>2, <2>1, <2>3, TokensAssumption
    <3>2. fresh[q] = fresh[p]
      BY <1>1, <2>3, <3>1
    <3>3. QED
      BY <2>1, <3>2 DEF SessionsInv, RotationInv
  <2>4. QED
    BY <2>1, <2>2, <2>3
<1>10. QED
  BY <1>3, <1>4, <1>5, <1>7, <1>8, <1>9 DEF SessionsInv, RotationInv

\* A login adds a row of a session of its own.
LEMMA LoginStep ==
  ASSUME TypeOK, SessionsInv, NEW r \in Requests, NEW u \in Users, NEW t \in Tokens,
         LoginIssue(r, u, t)
  PROVE  SessionsInv'
<1>1. /\ row[t] = "none" /\ row'[t] = "active" /\ session'[t] = t
      /\ \A q \in Requests : fresh[q] # t
      /\ \A x \in Tokens \ {t} : row'[x] = row[x] /\ session'[x] = session[x]
      /\ UNCHANGED <<parent, token, fresh>>
  BY DEF LoginIssue, Unused, TypeOK
<1>2. /\ pc'[r] = "cleaning"
      /\ \A q \in Requests \ {r} : pc'[q] = pc[q]
  BY DEF LoginIssue, Goto, TypeOK
<1>3. \A q \in Requests : Rotating(q)' => Rotating(q) /\ row[token[q]] = "active" /\ token[q] \in Tokens
  BY <1>2 DEF Rotating, SessionsInv, RotationInv, TypeOK
<1>4. RotationInv'
  <2>1. \A q \in Requests : Rotating(q)' => row'[token'[q]] = "active"
    BY <1>1, <1>3
  <2>2. \A p, q \in Requests :
          Rotating(p)' /\ Rotating(q)' /\ token'[p] = token'[q] => p = q
    BY <1>1, <1>3 DEF SessionsInv, RotationInv
  <2>3. \A p, q \in Requests : pc'[p] = "issued" =>
          row'[fresh'[p]] = "none" /\ (fresh'[q] = fresh'[p] => q = p)
    BY <1>1, <1>2 DEF SessionsInv, RotationInv, TypeOK
  <2>4. QED
    BY <2>1, <2>2, <2>3 DEF RotationInv
<1>5. \A x \in Tokens : row[x] # "none" => session[x] # t
  BY <1>1 DEF SessionsInv, FamilyInv, TypeOK
<1>6. FamilyInv'
  <2>1. \A x \in Tokens : row'[x] = "none" => parent'[x] = NoToken /\ session'[x] = NoToken
    BY <1>1 DEF SessionsInv, FamilyInv
  <2>2. \A x \in Tokens : row'[x] # "none" => row'[session'[x]] # "none"
    BY <1>1 DEF SessionsInv, FamilyInv, TypeOK
  <2>3. \A x \in Tokens : parent'[x] # NoToken => row'[parent'[x]] \in {"revoked", "gone"}
    BY <1>1 DEF SessionsInv, FamilyInv, TypeOK
  <2>4. QED
    BY <2>1, <2>2, <2>3 DEF FamilyInv
<1>7. SingleUse'
  BY <1>1 DEF SessionsInv, SingleUse
<1>8. OneLivePerSession'
  BY <1>1, <1>5 DEF SessionsInv, OneLivePerSession
<1>9. QED
  BY <1>4, <1>6, <1>7, <1>8 DEF SessionsInv

\* A rotation begins on an active row that nobody else rotates.
LEMMA RotationBegins ==
  ASSUME TypeOK, SessionsInv, NEW r \in Requests, RefreshRevoke(r)
  PROVE  SessionsInv'
<1>1. CASE ~StillActive(token[r])
  <2>1. /\ UNCHANGED <<row, parent, session>>
        /\ \A q \in Requests \ {r} :
             pc'[q] = pc[q] /\ token'[q] = token[q] /\ fresh'[q] = fresh[q]
        /\ fresh'[r] = fresh[r]
        /\ pc'[r] = "reuse"
    BY <1>1 DEF RefreshRevoke, Goto, rows, TypeOK
  <2>2. QED
    BY <2>1, QuietStep
<1>2. CASE StillActive(token[r])
  <2>1. /\ UNCHANGED <<row, parent, session, token, fresh>>
        /\ row[token[r]] = "active" /\ RowFree(token[r])
        /\ pc[r] = "found" /\ pc'[r] = "rotating"
        /\ \A q \in Requests \ {r} : pc'[q] = pc[q]
    BY <1>2 DEF RefreshRevoke, StillActive, Goto, rows, TypeOK
  <2>2. FamilyInv' /\ SingleUse' /\ OneLivePerSession'
    BY <2>1 DEF SessionsInv, FamilyInv, SingleUse, OneLivePerSession
  <2>3. \A q \in Requests \ {r} : Rotating(q)' => Rotating(q) /\ token[q] # token[r]
    BY <2>1 DEF Rotating, RowFree
  <2>4. \A q \in Requests : Rotating(q)' => row'[token'[q]] = "active"
    BY <2>1, <2>3 DEF SessionsInv, RotationInv
  <2>5. \A p, q \in Requests :
          Rotating(p)' /\ Rotating(q)' /\ token'[p] = token'[q] => p = q
    BY <2>1, <2>3 DEF SessionsInv, RotationInv
  <2>6. \A p, q \in Requests : pc'[p] = "issued" =>
          row'[fresh'[p]] = "none" /\ (fresh'[q] = fresh'[p] => q = p)
    BY <2>1 DEF SessionsInv, RotationInv
  <2>7. QED
    BY <2>2, <2>4, <2>5, <2>6 DEF SessionsInv, RotationInv
<1>3. QED
  BY <1>1, <1>2

\* The successor is a token nobody has.
LEMMA RotationIssues ==
  ASSUME TypeOK, SessionsInv, NEW r \in Requests, NEW t \in Tokens, RefreshIssue(r, t)
  PROVE  SessionsInv'
<1>1. /\ UNCHANGED <<row, parent, session, token>>
      /\ row[t] = "none" /\ \A q \in Requests : fresh[q] # t
      /\ pc[r] = "rotating" /\ pc'[r] = "issued" /\ fresh'[r] = t
      /\ \A q \in Requests \ {r} : pc'[q] = pc[q] /\ fresh'[q] = fresh[q]
  BY DEF RefreshIssue, Unused, Goto, rows, TypeOK
<1>2. FamilyInv' /\ SingleUse' /\ OneLivePerSession'
  BY <1>1 DEF SessionsInv, FamilyInv, SingleUse, OneLivePerSession
<1>3. \A q \in Requests : Rotating(q)' <=> Rotating(q)
  BY <1>1 DEF Rotating
<1>4. /\ \A q \in Requests : Rotating(q)' => row'[token'[q]] = "active"
      /\ \A p, q \in Requests :
           Rotating(p)' /\ Rotating(q)' /\ token'[p] = token'[q] => p = q
  BY <1>1, <1>3 DEF SessionsInv, RotationInv
<1>5. \A p, q \in Requests : pc'[p] = "issued" =>
        row'[fresh'[p]] = "none" /\ (fresh'[q] = fresh'[p] => q = p)
  <2>1. SUFFICES ASSUME NEW p \in Requests, NEW q \in Requests, pc'[p] = "issued"
                 PROVE  row'[fresh'[p]] = "none" /\ (fresh'[q] = fresh'[p] => q = p)
    OBVIOUS
  <2>2. CASE p = r
    BY <1>1, <2>2
  <2>3. CASE p # r
    <3>1. pc[p] = "issued" /\ fresh'[p] = fresh[p]
      BY <1>1, <2>1, <2>3
    <3>2. QED
      BY <1>1, <3>1 DEF SessionsInv, RotationInv
  <2>4. QED
    BY <2>2, <2>3
<1>6. QED
  BY <1>2, <1>4, <1>5 DEF SessionsInv, RotationInv

\* COMMIT of a rotation in terms of its two rows.
LEMMA CommitFacts ==
  ASSUME TypeOK, SessionsInv, NEW r \in Requests, RefreshCommit(r)
  PROVE  /\ pc[r] = "issued" /\ token[r] \in Tokens /\ fresh[r] \in Tokens
         /\ row[token[r]] = "active" /\ row[fresh[r]] = "none" /\ token[r] # fresh[r]
         /\ row'[token[r]] = "revoked" /\ row'[fresh[r]] = "active"
         /\ parent'[fresh[r]] = token[r] /\ session'[fresh[r]] = session[token[r]]
         /\ parent'[token[r]] = parent[token[r]] /\ session'[token[r]] = session[token[r]]
         /\ \A x \in Tokens \ {token[r], fresh[r]} :
              row'[x] = row[x] /\ parent'[x] = parent[x] /\ session'[x] = session[x]
<1>1. pc[r] = "issued" /\ token[r] \in Tokens /\ fresh[r] \in Tokens
  BY DEF RefreshCommit, TypeOK
<1>2. row[token[r]] = "active" /\ row[fresh[r]] = "none" /\ token[r] # fresh[r]
  BY <1>1 DEF Rotating, SessionsInv, RotationInv
<1>3. \A x \in Tokens : row'[x] = IF x = fresh[r] THEN "active"
                                  ELSE IF x = token[r] THEN "revoked" ELSE row[x]
  BY <1>1, <1>2 DEF RefreshCommit, Revoked, TypeOK
<1>4. \A x \in Tokens :
        /\ parent'[x] = IF x = fresh[r] THEN token[r] ELSE parent[x]
        /\ session'[x] = IF x = fresh[r] THEN session[token[r]] ELSE session[x]
  BY <1>1 DEF RefreshCommit, TypeOK
<1>5. QED
  BY <1>1, <1>2, <1>3, <1>4

\* The commit replaces the live row of the session by its successor.
LEMMA CommitStep ==
  ASSUME TypeOK, SessionsInv, NEW r \in Requests, RefreshCommit(r)
  PROVE  SessionsInv'
<1> DEFINE old == token[r]
           new == fresh[r]
<1>1. /\ pc[r] = "issued" /\ old \in Tokens /\ new \in Tokens
      /\ row[old] = "active" /\ row[new] = "none" /\ old # new
      /\ row'[old] = "revoked" /\ row'[new] = "active"
      /\ parent'[new] = old /\ session'[new] = session[old]
      /\ parent'[old] = parent[old] /\ session'[old] = session[old]
      /\ \A x \in Tokens \ {old, new} :
           row'[x] = row[x] /\ parent'[x] = parent[x] /\ session'[x] = session[x]
  BY CommitFacts
<1>2. /\ \A q \in Requests : q # r =>
           pc'[q] = pc[q] /\ token'[q] = token[q] /\ fresh'[q] = fresh[q]
      /\ pc'[r] = "idle" /\ fresh'[r] = NoToken
  BY DEF TypeOK, RefreshCommit, Done, Goto
<1>3. session[old] \in Tokens /\ row[session[old]] # "none"
  BY <1>1 DEF SessionsInv, FamilyInv, TypeOK
<1> HIDE DEF old, new
<1>4. FamilyInv'
  <2>1. \A x \in Tokens : row'[x] = "none" => parent'[x] = NoToken /\ session'[x] = NoToken
    BY <1>1 DEF SessionsInv, FamilyInv
  <2>2. \A x \in Tokens : row[x] # "none" => row'[x] # "none"
    BY <1>1
  <2>3. ASSUME NEW x \in Tokens, row'[x] # "none" PROVE row'[session'[x]] # "none"
    <3>1. CASE x = new
      BY <1>1, <1>3, <2>2, <3>1
    <3>2. CASE x # new
      <4>1. session'[x] = session[x] /\ row[x] # "none"
        BY <1>1, <2>3, <3>2
      <4>2. session[x] \in Tokens /\ row[session[x]] # "none"
        BY <4>1 DEF SessionsInv, FamilyInv, TypeOK
      <4>3. QED
        BY <2>2, <4>1, <4>2
    <3>3. QED
      BY <3>1, <3>2
  <2>4. ASSUME NEW x \in Tokens, parent'[x] # NoToken
        PROVE  row'[parent'[x]] \in {"revoked", "gone"}
    <3>1. CASE x = new
      BY <1>1, <3>1
    <3>2. CASE x # new
      <4>1. parent'[x] = parent[x]
        BY <1>1, <3>2
      <4>2. parent[x] \in Tokens /\ row[parent[x]] \in {"revoked", "gone"}
        BY <2>4, <4>1 DEF SessionsInv, FamilyInv, TypeOK
      <4>3. parent[x] # old /\ parent[x] # new
        BY <1>1, <4>2
      <4>4. QED
        BY <1>1, <4>1, <4>2, <4>3
    <3>3. QED
      BY <3>1, <3>2
  <2>5. QED
    BY <2>1, <2>3, <2>4 DEF FamilyInv
<1>5. SingleUse'
  <2>1. \A x \in Tokens : parent[x] # old
    BY <1>1, TokensAssumption DEF SessionsInv, FamilyInv
  <2>2. \A x \in Tokens \ {new} : parent'[x] = parent[x]
    BY <1>1
  <2>3. \A x, y \in Tokens : parent'[x] = parent'[y] /\ parent'[x] # NoToken => x = y
    BY <1>1, <2>1, <2>2 DEF SessionsInv, SingleUse
  <2>4. QED
    BY <2>3 DEF SingleUse
<1>6. OneLivePerSession'
  <2>1. ASSUME NEW x \in Tokens, x # new, row'[x] = "active"
        PROVE  row[x] = "active" /\ session'[x] = session[x] /\ session[x] # session[old]
    <3>1. x # old /\ row[x] = "active" /\ session'[x] = session[x]
      BY <1>1, <2>1
    <3>2. QED
      BY <1>1, <3>1 DEF SessionsInv, OneLivePerSession
  <2>2. \A x, y \in Tokens :
          row'[x] = "active" /\ row'[y] = "active" /\ session'[x] = session'[y] => x = y
    BY <1>1, <2>1 DEF SessionsInv, OneLivePerSession
  <2>3. QED
    BY <2>2 DEF OneLivePerSession
<1>7. \A q \in Requests : Rotating(q)' =>
        /\ Rotating(q) /\ q # r /\ token'[q] = token[q] /\ token[q] \in Tokens
        /\ row[token[q]] = "active"
  BY <1>2 DEF Rotating, SessionsInv, RotationInv, TypeOK
<1>8. \A q \in Requests : Rotating(q)' => row'[token'[q]] = "active"
  <2>1. \A q \in Requests : Rotating(q)' => token[q] # old
    BY <1>1, <1>7 DEF SessionsInv, RotationInv, Rotating, old
  <2>2. QED
    BY <1>1, <1>7, <2>1
<1>9. \A p, q \in Requests :
        Rotating(p)' /\ Rotating(q)' /\ token'[p] = token'[q] => p = q
  BY <1>7 DEF SessionsInv, RotationInv
<1>10. ASSUME NEW p \in Requests, NEW q \in Requests, pc'[p] = "issued"
       PROVE  row'[fresh'[p]] = "none" /\ (fresh'[q] = fresh'[p] => q = p)
  <2>1. pc[p] = "issued" /\ p # r /\ fresh'[p] = fresh[p] /\ fresh[p] \in Tokens
    BY <1>2, <1>10 DEF TypeOK
  <2>2. row[fresh[p]] = "none" /\ fresh[p] # new
    BY <2>1 DEF SessionsInv, RotationInv, new
  <2>3. row'[fresh[p]] = "none"
    BY <1>1, <2>1, <2>2
  <2>4. ASSUME fresh'[q] = fresh[p] PROVE q = p
    <3>1. q # r
      BY <1>2, <2>1, <2>4, TokensAssumption
    <3>2. fresh[q] = fresh[p]
      BY <1>2, <2>4, <3>1
    <3>3. QED
      BY <2>1, <3>2 DEF SessionsInv, RotationInv
  <2>5. QED
    BY <2>1, <2>3, <2>4
<1>11. QED
  BY <1>4, <1>5, <1>6, <1>8, <1>9, <1>10 DEF SessionsInv, RotationInv

\* Deleting and revoking, step by step.
LEMMA EndingSteps ==
  ASSUME TypeOK, SessionsInv, NEW r \in Requests,
         LoginCleanup(r) \/ SweepEnd(r) \/ LogoutRevoke(r) \/ Fail(r)
  PROVE  /\ UNCHANGED <<parent, session>>
         /\ Done(r)
         /\ \A t \in Tokens : row'[t] = "none" <=> row[t] = "none"
         /\ \A t \in Tokens : row'[t] = row[t] \/ (RowFree(t) /\ row'[t] \in {"revoked", "gone"})
<1>1. CASE LoginCleanup(r)
  <2>1. \A t \in Tokens : row'[t] = IF t \in doomed[r] THEN "gone" ELSE row[t]
    BY <1>1 DEF LoginCleanup
  <2>2. \A t \in doomed[r] : RowFree(t) /\ row[t] # "none"
    BY <1>1 DEF LoginCleanup, TypeOK
  <2>3. QED
    BY <1>1, <2>1, <2>2 DEF LoginCleanup
<1>2. CASE SweepEnd(r)
  <2>1. \A t \in Tokens :
          row'[t] = IF t \in doomed[r] /\ row[t] = "active" THEN "revoked" ELSE row[t]
    BY <1>2 DEF SweepEnd, Revoked
  <2>2. \A t \in doomed[r] : RowFree(t)
    BY <1>2 DEF SweepEnd
  <2>3. QED
    BY <1>2, <2>1, <2>2 DEF SweepEnd
<1>3. CASE LogoutRevoke(r)
  <2>1. \A t \in Tokens :
          row'[t] = IF t = token[r] /\ row[t] = "active" THEN "revoked" ELSE row[t]
    BY <1>3 DEF LogoutRevoke, Revoked
  <2>2. RowFree(token[r])
    BY <1>3 DEF LogoutRevoke
  <2>3. QED
    BY <1>3, <2>1, <2>2 DEF LogoutRevoke
<1>4. CASE Fail(r)
  BY <1>4 DEF Fail, rows
<1>5. QED
  BY <1>1, <1>2, <1>3, <1>4

\* Finding a row or picking rows, step by step.
LEMMA QuietSteps ==
  ASSUME TypeOK, NEW r \in Requests,
         \/ LoginStart(r)
         \/ \E t \in Tokens : RefreshFind(r, t) \/ LogoutFind(r, t)
         \/ SweepStart(r)
  PROVE  /\ UNCHANGED <<row, parent, session, fresh>>
         /\ \A q \in Requests \ {r} : pc'[q] = pc[q] /\ token'[q] = token[q]
         /\ pc'[r] \notin {"rotating", "issued"}
<1>1. CASE LoginStart(r)
  BY <1>1 DEF LoginStart, Goto, rows, TypeOK
<1>2. ASSUME NEW t \in Tokens, RefreshFind(r, t)
      PROVE  /\ UNCHANGED <<row, parent, session, fresh>>
             /\ \A q \in Requests \ {r} : pc'[q] = pc[q] /\ token'[q] = token[q]
             /\ pc'[r] \notin {"rotating", "issued"}
  BY <1>2 DEF RefreshFind, Goto, rows, TypeOK
<1>3. ASSUME NEW t \in Tokens, LogoutFind(r, t)
      PROVE  /\ UNCHANGED <<row, parent, session, fresh>>
             /\ \A q \in Requests \ {r} : pc'[q] = pc[q] /\ token'[q] = token[q]
             /\ pc'[r] \notin {"rotating", "issued"}
  BY <1>3 DEF LogoutFind, Goto, rows, TypeOK
<1>4. CASE SweepStart(r)
  BY <1>4 DEF SweepStart, Goto, rows, TypeOK
<1>5. QED
  BY <1>1, <1>2, <1>3, <1>4

\* Every step of a request keeps the invariant.
LEMMA SessionsStep ==
  ASSUME TypeOK, SessionsInv, NEW r \in Requests, Step(r)
  PROVE  SessionsInv'
<1>1. ASSUME \/ LoginStart(r)
             \/ \E t \in Tokens : RefreshFind(r, t) \/ LogoutFind(r, t)
             \/ SweepStart(r)
      PROVE  SessionsInv'
  BY <1>1, QuietSteps, QuietStep
<1>2. ASSUME LoginCleanup(r) \/ SweepEnd(r) \/ LogoutRevoke(r) \/ Fail(r)
      PROVE  SessionsInv'
  BY <1>2, EndingSteps, EndingStep
<1>3. ASSUME NEW u \in Users, NEW t \in Tokens, LoginIssue(r, u, t)
      PROVE  SessionsInv'
  BY <1>3, LoginStep
<1>4. CASE RefreshRevoke(r)
  BY <1>4, RotationBegins
<1>5. ASSUME NEW t \in Tokens, RefreshIssue(r, t)
      PROVE  SessionsInv'
  BY <1>5, RotationIssues
<1>6. CASE RefreshCommit(r)
  BY <1>6, CommitStep
<1>7. QED
  BY <1>1, <1>2, <1>3, <1>4, <1>5, <1>6 DEF Step

\* Every reachable state satisfies the invariant of the sessions: a token is
\* exchanged once, a session has one token that works (refresh.go,
\* refresh_token.go).
THEOREM SessionsInvariant == Spec => []SessionsInv
<1>1. Init => SessionsInv
  BY DEF Init, SessionsInv, RotationInv, FamilyInv, SingleUse, OneLivePerSession, Rotating
<1>2. TypeOK /\ SessionsInv /\ [Next]_vars => SessionsInv'
  <2>1. SUFFICES ASSUME TypeOK, SessionsInv, [Next]_vars PROVE SessionsInv'
    OBVIOUS
  <2>2. ASSUME UNCHANGED <<row, parent, session, pc, token, fresh>> PROVE SessionsInv'
    BY <2>1, <2>2 DEF SessionsInv, RotationInv, FamilyInv, SingleUse, OneLivePerSession, Rotating
  <2>3. ASSUME NEW t \in Tokens, Expire(t) PROVE SessionsInv'
    BY <2>2, <2>3 DEF Expire
  <2>4. CASE UNCHANGED vars
    BY <2>2, <2>4 DEF vars, rows
  <2>5. QED
    BY <2>1, <2>3, <2>4, NextSteps, SessionsStep
<1>3. QED
  BY <1>1, <1>2, TypeCorrect, PTL DEF Spec

----------------------------------------------------------------------------
(* The sessions are those of AdminSessions. *)

\* What Current says of a session.
LEMMA CurrentFacts ==
  ASSUME TypeOK, OneLivePerSession, NEW s \in Tokens
  PROVE  /\ \A t \in Tokens : row[t] = "active" /\ session[t] = s => Current[s] = t
         /\ (\A t \in Tokens : ~(row[t] = "active" /\ session[t] = s)) => Current[s] = NoToken
         /\ Current[s] # NoToken => Current[s] \in Live(s)
<1>1. Current[s] = IF Live(s) = {} THEN NoToken ELSE CHOOSE t \in Live(s) : TRUE
  BY DEF Current, OneOf
<1>2. Live(s) # {} => (CHOOSE t \in Live(s) : TRUE) \in Live(s)
  OBVIOUS
<1>3. \A t \in Live(s) : Live(s) = {t}
  BY DEF Live, OneLivePerSession
<1>4. QED
  BY <1>1, <1>2, <1>3 DEF Live

\* What a step does to Current, from what it does to the live rows.
LEMMA CurrentNext ==
  ASSUME NEW s \in Tokens
  PROVE  /\ Live(s)' = Live(s) => Current'[s] = Current[s]
         /\ Live(s)' = {} => Current'[s] = NoToken
         /\ \A t \in Tokens : Live(s)' = {t} => Current'[s] = t
<1>1. Current'[s] = OneOf(Live(s)') /\ Current[s] = OneOf(Live(s))
  BY DEF Current
<1>2. OneOf({}) = NoToken
  BY DEF OneOf
<1>3. \A t \in Tokens : OneOf({t}) = t
  BY DEF OneOf
<1>4. QED
  BY <1>1, <1>2, <1>3

\* A step that leaves rows and sessions alone.
LEMMA StutterMaps ==
  ASSUME UNCHANGED <<row, session>>
  PROVE  UNCHANGED <<Issued, Current>>
<1>1. \A s \in Tokens : Live(s)' = Live(s)
  BY DEF Live
<1>2. \A s \in Tokens : OneOf(Live(s)') = OneOf(Live(s))
  BY <1>1
<1>3. Current' = Current
  BY <1>2 DEF Current
<1>4. QED
  BY <1>3 DEF Issued

\* Deleting and revoking end sessions.
LEMMA EndingMaps ==
  ASSUME TypeOK, OneLivePerSession, UNCHANGED session,
         \A t \in Tokens : row'[t] = "none" <=> row[t] = "none",
         \A t \in Tokens : row'[t] = row[t] \/ row'[t] \in {"revoked", "gone"}
  PROVE  Sessions!Next
<1> DEFINE S == {s \in Tokens : Live(s)' = {}}
<1>1. Issued' = Issued
  BY DEF Issued
<1>2. \A s \in Tokens : s \in S => Current'[s] = NoToken
  BY CurrentNext
<1>3. \A s \in Tokens : s \notin S => Current'[s] = Current[s]
  <2>1. SUFFICES ASSUME NEW s \in Tokens, Live(s)' # {} PROVE Current'[s] = Current[s]
    OBVIOUS
  <2>2. Live(s)' \subseteq Live(s)
    BY DEF Live
  <2>3. \A t \in Live(s) : Live(s) = {t}
    BY DEF Live, OneLivePerSession
  <2>4. Live(s)' = Live(s)
    BY <2>1, <2>2, <2>3
  <2>5. QED
    BY <2>4, CurrentNext
<1>4. Current' = [s \in Tokens |-> IF s \in S THEN NoToken ELSE Current[s]]
  <2>1. Current' = [s \in Tokens |-> Current'[s]]
    BY DEF Current
  <2>2. QED
    BY <1>2, <1>3, <2>1
<1>5. S \in SUBSET Tokens
  OBVIOUS
<1> HIDE DEF S
<1>6. Sessions!End(S)
  BY <1>1, <1>4 DEF Sessions!End
<1>7. QED
  BY <1>5, <1>6 DEF Sessions!Next

\* A new row that becomes the only live one of its session.
LEMMA HandMaps ==
  ASSUME NEW s \in Tokens, NEW t \in Tokens,
         row[t] = "none", row'[t] # "none",
         \A x \in Tokens \ {t} : row'[x] = "none" <=> row[x] = "none",
         Live(s)' = {t},
         \A z \in Tokens \ {s} : Live(z)' = Live(z)
  PROVE  Sessions!Hand(s, t)
<1>1. t \in Tokens \ Issued /\ Issued' = Issued \cup {t}
  BY DEF Issued
<1>2. Current'[s] = t /\ \A z \in Tokens \ {s} : Current'[z] = Current[z]
  BY CurrentNext
<1>3. Current' = [z \in Tokens |-> Current'[z]] /\ Current = [z \in Tokens |-> Current[z]]
  BY DEF Current
<1>4. Current' = [Current EXCEPT ![s] = t]
  BY <1>2, <1>3
<1>5. QED
  BY <1>1, <1>4 DEF Sessions!Hand

\* A login opens a session.
LEMMA LoginMaps ==
  ASSUME TypeOK, SessionsInv, NEW r \in Requests, NEW u \in Users, NEW t \in Tokens,
         LoginIssue(r, u, t)
  PROVE  Sessions!Next
<1>1. /\ row[t] = "none" /\ row'[t] = "active" /\ session'[t] = t
      /\ \A x \in Tokens \ {t} : row'[x] = row[x] /\ session'[x] = session[x]
  BY DEF LoginIssue, Unused, TypeOK
<1>2. \A x \in Tokens : row[x] # "none" => session[x] # t
  BY <1>1 DEF SessionsInv, FamilyInv, TypeOK
<1>3. Live(t)' = {t}
  BY <1>1, <1>2 DEF Live
<1>4. \A z \in Tokens \ {t} : Live(z)' = Live(z)
  BY <1>1 DEF Live
<1>5. Sessions!Hand(t, t)
  BY <1>1, <1>3, <1>4, HandMaps
<1>6. QED
  BY <1>5 DEF Sessions!Next, Sessions!Open

\* A committed rotation exchanges the token of its session.
LEMMA CommitMaps ==
  ASSUME TypeOK, SessionsInv, NEW r \in Requests, RefreshCommit(r)
  PROVE  Sessions!Next
<1>1. SUFFICES ASSUME NEW old \in Tokens, NEW new \in Tokens, NEW s \in Tokens,
                      row[old] = "active", row[new] = "none", old # new,
                      row'[old] = "revoked", row'[new] = "active",
                      session[old] = s, session'[new] = s, session'[old] = s,
                      \A x \in Tokens \ {old, new} : row'[x] = row[x] /\ session'[x] = session[x]
               PROVE  Sessions!Next
  BY CommitFacts DEF TypeOK
<1>2. \A x \in Tokens : row[x] = "active" /\ session[x] = s => x = old
  BY <1>1 DEF SessionsInv, OneLivePerSession
<1>3. Live(s)' = {new}
  BY <1>1, <1>2 DEF Live
<1>4. \A z \in Tokens \ {s} : Live(z)' = Live(z)
  BY <1>1 DEF Live
<1>5. Sessions!Hand(s, new)
  BY <1>1, <1>3, <1>4, HandMaps
<1>6. Current[s] # NoToken
  <2>1. Current[s] = old
    BY <1>1, CurrentFacts DEF SessionsInv
  <2>2. QED
    BY <1>1, <2>1, TokensAssumption
<1>7. QED
  BY <1>1, <1>5, <1>6 DEF Sessions!Next, Sessions!Rotate

\* Every step of a request is a step of AdminSessions or leaves it alone.
LEMMA StepMaps ==
  ASSUME TypeOK, SessionsInv, NEW r \in Requests, Step(r)
  PROVE  Sessions!Next \/ UNCHANGED <<Issued, Current>>
<1>1. ASSUME \/ LoginStart(r)
             \/ \E t \in Tokens : RefreshFind(r, t) \/ LogoutFind(r, t)
             \/ SweepStart(r)
      PROVE  UNCHANGED <<Issued, Current>>
  BY <1>1, QuietSteps, StutterMaps
<1>2. ASSUME LoginCleanup(r) \/ SweepEnd(r) \/ LogoutRevoke(r) \/ Fail(r)
      PROVE  Sessions!Next
  <2>1. OneLivePerSession
    BY DEF SessionsInv
  <2>2. QED
    BY <1>2, <2>1, EndingSteps, EndingMaps
<1>3. ASSUME NEW u \in Users, NEW t \in Tokens, LoginIssue(r, u, t)
      PROVE  Sessions!Next
  BY <1>3, LoginMaps
<1>4. CASE RefreshRevoke(r)
  BY <1>4, StutterMaps DEF RefreshRevoke, rows
<1>5. ASSUME NEW t \in Tokens, RefreshIssue(r, t)
      PROVE  UNCHANGED <<Issued, Current>>
  BY <1>5, StutterMaps DEF RefreshIssue, rows
<1>6. CASE RefreshCommit(r)
  BY <1>6, CommitMaps
<1>7. QED
  BY <1>1, <1>2, <1>3, <1>4, <1>5, <1>6 DEF Step

\* A session that has ended never works again, and only the token that works
\* is exchanged (refresh.go, logout.go, login.go).
THEOREM SessionsImplemented == Spec => SessionsEnd
<1>1. Init => Sessions!Init
  <2>1. SUFFICES ASSUME Init PROVE Sessions!Init
    OBVIOUS
  <2>2. \A t \in Tokens : row[t] = "none"
    BY <2>1 DEF Init
  <2>3. Issued = {} /\ \A s : Live(s) = {}
    BY <2>2 DEF Issued, Live
  <2>4. \A s \in Tokens : OneOf(Live(s)) = NoToken
    BY <2>3 DEF OneOf
  <2>5. QED
    BY <2>3, <2>4 DEF Sessions!Init, Current
<1>2. TypeOK /\ SessionsInv /\ [Next]_vars => [Sessions!Next]_Sessions!vars
  <2>1. SUFFICES ASSUME TypeOK, SessionsInv, [Next]_vars
                 PROVE  Sessions!Next \/ UNCHANGED <<Issued, Current>>
    BY DEF Sessions!vars
  <2>2. ASSUME NEW t \in Tokens, Expire(t) PROVE UNCHANGED <<Issued, Current>>
    BY <2>2, StutterMaps DEF Expire
  <2>3. CASE UNCHANGED vars
    BY <2>3, StutterMaps DEF vars, rows
  <2>4. QED
    BY <2>1, <2>2, <2>3, NextSteps, StepMaps
<1>3. QED
  BY <1>1, <1>2, TypeCorrect, SessionsInvariant, PTL DEF Spec, SessionsEnd, Sessions!Spec

\* A session that has ended stays so: AdminSessions hands out a token only to
\* open a session with it or in exchange for the one that works.
THEOREM EndedForGood == Spec => EndedStays
<1>1. ASSUME [Sessions!Next]_Sessions!vars, NEW s \in Tokens,
             row[s] # "none", Live(s) = {}
      PROVE  Live(s)' = {}
  <2>1. s \in Issued /\ Current[s] = NoToken
    BY <1>1 DEF Issued, Current, OneOf
  <2>2. Current'[s] = NoToken
    <3>1. Current = [z \in Tokens |-> Current[z]]
      BY DEF Current
    <3>2. CASE UNCHANGED Sessions!vars
      BY <2>1, <3>2 DEF Sessions!vars
    <3>3. ASSUME NEW z \in Tokens, NEW t \in Tokens, Sessions!Hand(z, t), z # s
          PROVE  Current'[s] = NoToken
      BY <2>1, <3>1, <3>3 DEF Sessions!Hand
    <3>4. ASSUME NEW t \in Tokens, Sessions!Open(t)
          PROVE  Current'[s] = NoToken
      <4>1. Sessions!Hand(t, t)
        BY <3>4 DEF Sessions!Open
      <4>2. t # s
        BY <2>1, <4>1 DEF Sessions!Hand
      <4>3. QED
        BY <3>3, <4>1, <4>2
    <3>5. ASSUME NEW z \in Tokens, NEW t \in Tokens, Sessions!Rotate(z, t)
          PROVE  Current'[s] = NoToken
      BY <2>1, <3>3, <3>5 DEF Sessions!Rotate
    <3>6. ASSUME NEW S \in SUBSET Tokens, Sessions!End(S)
          PROVE  Current'[s] = NoToken
      BY <2>1, <3>6 DEF Sessions!End
    <3>7. QED
      BY <1>1, <3>2, <3>4, <3>5, <3>6 DEF Sessions!Next
  <2>3. OneOf(Live(s)') = NoToken
    BY <2>2 DEF Current
  <2>4. QED
    <3>1. Live(s)' \subseteq Tokens
      BY DEF Live
    <3>2. CASE Live(s)' # {}
      <4>1. OneOf(Live(s)') \in Live(s)'
        BY <3>2 DEF OneOf
      <4>2. QED
        BY <2>3, <3>1, <4>1, TokensAssumption
    <3>3. QED
      BY <3>2
<1>2. [Sessions!Next]_Sessions!vars =>
        [\A s \in Tokens : row[s] # "none" /\ Live(s) = {} => Live(s)' = {}]_vars
  BY <1>1
<1>3. QED
  BY <1>2, SessionsImplemented, PTL DEF SessionsEnd, Sessions!Spec, EndedStays
=============================================================================
