--------------------------- MODULE RefreshTokens ---------------------------
(***************************************************************************)
(* The owner's login sessions: rows of refresh_tokens and the requests     *)
(* that work on them at the same time (login, refresh with rotation and    *)
(* reuse detection, logout).                                               *)
(*                                                                         *)
(* Every statement is a step, and a step of its own transaction except     *)
(* between BEGIN and COMMIT of the rotation.  PostgreSQL runs at READ      *)
(* COMMITTED: an UPDATE or DELETE picks its rows from a snapshot, waits    *)
(* for those another transaction has changed, and looks at them again.     *)
(***************************************************************************)
EXTENDS FiniteSets

CONSTANTS
  Users,      \* admin users
  Tokens,     \* bound: refresh tokens that can ever be generated
  Requests,   \* bound: requests served at the same time
  NoUser, NoToken

ASSUME TokensAssumption ==
  /\ NoUser \notin Users
  /\ NoToken \notin Tokens

VARIABLES
  row,       \* "none", or "active", or "revoked" (revoked_at), or "gone" (deleted)
  expired,   \* tokens whose expires_at is over
  owner,     \* admin_user_id
  parent,    \* history: the token it was rotated from, NoToken for a login
  session,   \* history: the token of the login it descends from
  pc, token, \* each request: where it is, the row it has found
  fresh,     \* the row it has inserted and not committed
  doomed     \* the rows its UPDATE or DELETE has picked

rows == <<row, expired, owner, parent, session>>
vars == <<rows, pc, token, fresh, doomed>>

Points == {"idle", "login", "cleaning", "found", "rotating", "issued",
           "reuse", "sweeping", "logout"}

TypeOK ==
  /\ row \in [Tokens -> {"none", "active", "revoked", "gone"}]
  /\ expired \subseteq Tokens
  /\ owner \in [Tokens -> Users \cup {NoUser}]
  /\ parent \in [Tokens -> Tokens \cup {NoToken}]
  /\ session \in [Tokens -> Tokens \cup {NoToken}]
  /\ pc \in [Requests -> Points]
  /\ token \in [Requests -> Tokens \cup {NoToken}]
  /\ fresh \in [Requests -> Tokens \cup {NoToken}]
  /\ doomed \in [Requests -> SUBSET Tokens]
  /\ \A t \in Tokens : row[t] # "none" => owner[t] \in Users /\ session[t] \in Tokens
  /\ \A r \in Requests :
       /\ pc[r] \in {"found", "rotating", "issued", "reuse", "logout"} =>
            token[r] \in Tokens /\ row[token[r]] # "none"
       /\ IF pc[r] = "issued" THEN fresh[r] \in Tokens ELSE fresh[r] = NoToken
       /\ \A t \in doomed[r] : row[t] # "none"

Init ==
  /\ row = [t \in Tokens |-> "none"]
  /\ expired = {}
  /\ owner = [t \in Tokens |-> NoUser]
  /\ parent = [t \in Tokens |-> NoToken]
  /\ session = [t \in Tokens |-> NoToken]
  /\ pc = [r \in Requests |-> "idle"]
  /\ token = [r \in Requests |-> NoToken]
  /\ fresh = [r \in Requests |-> NoToken]
  /\ doomed = [r \in Requests |-> {}]

\* A rotation holds the lock of the row it has revoked until it ends.
Rotating(r) == pc[r] \in {"rotating", "issued"}
RowFree(t) == \A r \in Requests : Rotating(r) => token[r] # t

\* The next random token: no row has it, no open transaction either.
Unused(t) == row[t] = "none" /\ \A r \in Requests : fresh[r] # t

Goto(r, point) == pc' = [pc EXCEPT ![r] = point]

\* [Mutant of Done] the open transaction is left behind.
Abandoned(r) ==
  /\ Goto(r, "idle")
  /\ token' = [token EXCEPT ![r] = NoToken]
  /\ doomed' = [doomed EXCEPT ![r] = {}]
  /\ UNCHANGED fresh

\* The request ends; what it has not committed is rolled back.
Done(r) ==
  /\ Goto(r, "idle")
  /\ token' = [token EXCEPT ![r] = NoToken]
  /\ fresh' = [fresh EXCEPT ![r] = NoToken]
  /\ doomed' = [doomed EXCEPT ![r] = {}]

\* SET revoked_at = NOW() WHERE revoked_at IS NULL, on the rows in S.
Revoked(S) == [t \in Tokens |-> IF t \in S /\ row[t] = "active" THEN "revoked" ELSE row[t]]

----------------------------------------------------------------------------
(* Login.  The rate limit and the password come before, in LoginAttempts. *)

\* The clock that DeleteExpired will use is read first.
LoginStart(r) ==
  /\ pc[r] = "idle"
  /\ Goto(r, "login")
  /\ doomed' = [doomed EXCEPT ![r] = {t \in expired : row[t] \in {"active", "revoked"}}]
  /\ UNCHANGED <<rows, token, fresh>>

LoginIssue(r, u, t) ==
  /\ pc[r] = "login"
  /\ Unused(t)
  /\ row' = [row EXCEPT ![t] = "active"]
  /\ owner' = [owner EXCEPT ![t] = u]
  /\ session' = [session EXCEPT ![t] = t]
  /\ Goto(r, "cleaning")
  /\ UNCHANGED <<expired, parent, token, fresh, doomed>>

\* DeleteExpired waits for rotations of the rows it deletes.  (That it may
\* fail and the login succeed is Fail.)
LoginCleanup(r) ==
  /\ pc[r] = "cleaning"
  /\ \A t \in doomed[r] : RowFree(t)
  /\ row' = [t \in Tokens |-> IF t \in doomed[r] THEN "gone" ELSE row[t]]
  /\ Done(r)
  /\ UNCHANGED <<expired, owner, parent, session>>

----------------------------------------------------------------------------
(* Refresh.  A missing or expired row ends the request without a trace.   *)

RefreshFind(r, t) ==
  /\ pc[r] = "idle"
  /\ \/ row[t] = "active" /\ t \notin expired /\ Goto(r, "found")
     \/ row[t] = "revoked" /\ Goto(r, "reuse")
  /\ token' = [token EXCEPT ![r] = t]
  /\ UNCHANGED <<rows, fresh, doomed>>

\* [Mutant of StillActive] the number of rows RevokeIfActive updated is ignored.
ActiveOrNot(t) == row[t] # "none"

\* [Mutant of StillActive] only a revoked row is refused, not a deleted one.
NotRevoked(t) == row[t] # "revoked"

\* RevokeIfActive updates one row.
StillActive(t) == row[t] = "active"

\* BEGIN and RevokeIfActive, which waits for the row's lock.  If the row is no
\* longer active, the transaction is rolled back and the request goes on as a
\* reuse.
RefreshRevoke(r) ==
  /\ pc[r] = "found"
  /\ RowFree(token[r])
  /\ Goto(r, IF StillActive(token[r]) THEN "rotating" ELSE "reuse")
  /\ UNCHANGED <<rows, token, fresh, doomed>>

RefreshIssue(r, t) ==
  /\ pc[r] = "rotating"
  /\ Unused(t)
  /\ Goto(r, "issued")
  /\ fresh' = [fresh EXCEPT ![r] = t]
  /\ UNCHANGED <<rows, token, doomed>>

RefreshCommit(r) ==
  /\ pc[r] = "issued"
  /\ row' = [Revoked({token[r]}) EXCEPT ![fresh[r]] = "active"]
  /\ owner' = [owner EXCEPT ![fresh[r]] = owner[token[r]]]
  /\ parent' = [parent EXCEPT ![fresh[r]] = token[r]]
  /\ session' = [session EXCEPT ![fresh[r]] = session[token[r]]]
  /\ Done(r)
  /\ UNCHANGED expired

\* RevokeAllByUser: the rows its snapshot shows.
SweepStart(r) ==
  /\ pc[r] = "reuse"
  /\ Goto(r, "sweeping")
  /\ doomed' = [doomed EXCEPT ![r] =
       {t \in Tokens : row[t] = "active" /\ owner[t] = owner[token[r]]}]
  /\ UNCHANGED <<rows, token, fresh>>

\* It has waited for the rows that were locked.
SweepEnd(r) ==
  /\ pc[r] = "sweeping"
  /\ \A t \in doomed[r] : RowFree(t)
  /\ row' = Revoked(doomed[r])
  /\ Done(r)
  /\ UNCHANGED <<expired, owner, parent, session>>

----------------------------------------------------------------------------
(* Logout: an unknown token is a success without a trace, a revoked one   *)
(* a success that updates no row.                                         *)

LogoutFind(r, t) ==
  /\ pc[r] = "idle"
  /\ row[t] \in {"active", "revoked"}
  /\ Goto(r, "logout")
  /\ token' = [token EXCEPT ![r] = t]
  /\ UNCHANGED <<rows, fresh, doomed>>

LogoutRevoke(r) ==
  /\ pc[r] = "logout"
  /\ RowFree(token[r])
  /\ row' = Revoked({token[r]})
  /\ Done(r)
  /\ UNCHANGED <<expired, owner, parent, session>>

----------------------------------------------------------------------------
\* The process dies, the caller goes away or the database fails: the open
\* transaction is rolled back.
Fail(r) ==
  /\ pc[r] # "idle"
  /\ Done(r)
  /\ UNCHANGED rows

\* Thirty days pass.
Expire(t) ==
  /\ row[t] \in {"active", "revoked"}
  /\ t \notin expired
  /\ expired' = expired \cup {t}
  /\ UNCHANGED <<row, owner, parent, session, pc, token, fresh, doomed>>

Next ==
  \/ \E r \in Requests :
       \/ LoginStart(r)
       \/ \E u \in Users, t \in Tokens : LoginIssue(r, u, t)
       \/ LoginCleanup(r)
       \/ \E t \in Tokens : RefreshFind(r, t) \/ RefreshIssue(r, t) \/ LogoutFind(r, t)
       \/ RefreshRevoke(r)
       \/ RefreshCommit(r)
       \/ SweepStart(r)
       \/ SweepEnd(r)
       \/ LogoutRevoke(r)
       \/ Fail(r)
  \/ \E t \in Tokens : Expire(t)

Spec == Init /\ [][Next]_vars

----------------------------------------------------------------------------
(* Properties *)

\* An open rotation works on a row that is still active for everyone else, and
\* nobody else rotates that row; what it has inserted nobody else sees.
RotationInv ==
  /\ \A r \in Requests : Rotating(r) => row[token[r]] = "active"
  /\ \A r, q \in Requests :
       Rotating(r) /\ Rotating(q) /\ token[r] = token[q] => r = q
  /\ \A r, q \in Requests : pc[r] = "issued" =>
       row[fresh[r]] = "none" /\ (fresh[q] = fresh[r] => q = r)

\* A row without descendants yet has no history; a rotated row is not active.
FamilyInv ==
  /\ \A t \in Tokens : row[t] = "none" => parent[t] = NoToken /\ session[t] = NoToken
  /\ \A t \in Tokens : row[t] # "none" => row[session[t]] # "none"
  /\ \A t \in Tokens : parent[t] # NoToken => row[parent[t]] \in {"revoked", "gone"}

\* A refresh token is exchanged once: of the requests that send the same token
\* at the same time, one rotates it (refresh.go, RevokeIfActive).
SingleUse ==
  \A s, t \in Tokens : parent[s] = parent[t] /\ parent[s] # NoToken => s = t

\* One refresh token of a login session works at a time, however rotations,
\* logouts, sweeps and failures interleave.
OneLivePerSession ==
  \A s, t \in Tokens :
    row[s] = "active" /\ row[t] = "active" /\ session[s] = session[t] => s = t

\* The inductive invariant behind both.
SessionsInv == RotationInv /\ FamilyInv /\ SingleUse /\ OneLivePerSession

\* The sessions of the owner, as AdminSessions tells them.
Live(s) == {t \in Tokens : row[t] = "active" /\ session[t] = s}

Issued == {t \in Tokens : row[t] # "none"}

OneOf(S) == IF S = {} THEN NoToken ELSE CHOOSE t \in S : TRUE
Current == [s \in Tokens |-> OneOf(Live(s))]

Sessions == INSTANCE AdminSessions WITH issued <- Issued, current <- Current

\* Every step of the requests is a step of AdminSessions or changes nothing of
\* it: a session that was ended by logout, cleanup or reuse never works again,
\* even if a refresh was under way.
SessionsEnd == Sessions!Spec

\* Logged out is logged out: when no token of a session works any more, by a
\* logout, an expiry swept away or a detected reuse, none will ever again,
\* whatever rotation was under way and commits or inserts after it.
EndedStays ==
  [][\A s \in Tokens : row[s] # "none" /\ Live(s) = {} => Live(s)' = {}]_vars

\* When a reused token is answered, no refresh token that descends from it
\* works (docs/api_design.md:364, the comment at refresh.go:62).
ReuseEndsSession ==
  [][\A r \in Requests : pc[r] = "sweeping" /\ row' = Revoked(doomed[r]) /\ Done(r) =>
       \A t \in Tokens : session[t] = session[token[r]] => row'[t] # "active"]_vars
=============================================================================
