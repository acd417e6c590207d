--------------------------- MODULE MCVpsProvision ---------------------------
(* VpsProvision with interchangeable requests and hosts.                    *)
EXTENDS VpsProvision, TLC

Interchangeable == Permutations(Runs) \cup Permutations(Hosts)
================================================================================
