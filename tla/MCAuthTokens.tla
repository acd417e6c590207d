----------------------------- MODULE MCAuthTokens -----------------------------
(* AuthTokens with two tokens that share their prefix. *)
EXTENDS AuthTokens, TLC
SamePrefix == [t \in Tokens |-> CHOOSE p \in Prefixes : TRUE]
Symmetry == Permutations(Tokens) \cup Permutations(Requests)
================================================================================
