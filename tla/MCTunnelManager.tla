--------------------------- MODULE MCTunnelManager ---------------------------
(* TunnelManager on two connects and two disconnects.  Liveness is checked, *)
(* so no symmetry.                                                            *)
EXTENDS TunnelManager
================================================================================
