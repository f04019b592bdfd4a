-------------------------- MODULE MCRefreshTokens --------------------------
(* Bounded instances of RefreshTokens. *)
EXTENDS RefreshTokens, TLC

Interchangeable == Permutations(Tokens) \cup Permutations(Requests) \cup Permutations(Users)
=============================================================================
