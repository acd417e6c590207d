---------------------------- MODULE MCLogStream ----------------------------
(* Model checking of LogStream. *)
EXTENDS LogStream, TLC
CONSTANTS w1, w2
MCFilters == {{w1}}
================================================================================
