---------------------------- MODULE MCVpsHealth ----------------------------
(* Model checking of VpsHealth. *)
EXTENDS VpsHealth, TLC
================================================================================
