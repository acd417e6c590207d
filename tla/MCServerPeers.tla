----------------------------- MODULE MCServerPeers -----------------------------
(* ServerPeers: requests of one kind are interchangeable. *)
EXTENDS ServerPeers
Symmetry == Permutations(Adders) \cup Permutations(Removers)
================================================================================
