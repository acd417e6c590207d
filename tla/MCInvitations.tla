---------------------------- MODULE MCInvitations ----------------------------
(* Invitations with interchangeable tokens.                               *)
EXTENDS Invitations, TLC

Interchangeable == Permutations(Tokens)
================================================================================
