--------------------------- MODULE AdminSessions ---------------------------
(***************************************************************************)
(* What a login session of the owner promises: one refresh token of it     *)
(* works at a time, only the token that works can be exchanged for the     *)
(* next, and a session that has ended never works again.                   *)
(*                                                                         *)
(* A session is named after the token its login issued.                    *)
(***************************************************************************)
CONSTANTS Tokens, NoToken

VARIABLES issued,   \* tokens handed out so far
          current   \* by session: the token that works

vars == <<issued, current>>

Init ==
  /\ issued = {}
  /\ current = [s \in Tokens |-> NoToken]

Hand(s, t) ==
  /\ t \in Tokens \ issued
  /\ issued' = issued \cup {t}
  /\ current' = [current EXCEPT ![s] = t]

\* A login opens the session of its token.
Open(t) == Hand(t, t)

\* A refresh exchanges the token that works.
Rotate(s, t) == current[s] # NoToken /\ Hand(s, t)

\* A logout, an expiry or the detection of a reuse ends sessions.
End(S) ==
  /\ issued' = issued
  /\ current' = [s \in Tokens |-> IF s \in S THEN NoToken ELSE current[s]]

Next ==
  \/ \E t \in Tokens : Open(t)
  \/ \E s, t \in Tokens : Rotate(s, t)
  \/ \E S \in SUBSET Tokens : End(S)

Spec == Init /\ [][Next]_vars
=============================================================================
