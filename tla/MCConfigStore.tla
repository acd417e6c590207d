----------------------------- MODULE MCConfigStore -----------------------------
(* ConfigStore on three Updates, two Readers and two crashes.                 *)
EXTENDS ConfigStore
================================================================================
