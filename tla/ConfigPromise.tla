----------------------------- MODULE ConfigPromise -----------------------------
(***************************************************************************)
(* What config.Manager promises its callers, with no files, locks or       *)
(* pointers: Update applies a mutation atomically to the durable           *)
(* configuration and only then makes it visible to Get; a rejected Update  *)
(* leaves no trace; after a restart the visible configuration is the       *)
(* durable one.  A power loss may take the durable configuration back, but *)
(* never invents a mutation.                                               *)
(***************************************************************************)
CONSTANT Updates
VARIABLES durable, visible, outcome

Init ==
  /\ durable = {} /\ visible = {}
  /\ outcome = [u \in Updates |-> "pending"]

\* One mutation at a time is on its way: nobody builds on an invisible one.
Commit(u) ==
  /\ outcome[u] = "pending" /\ visible = durable
  /\ durable' = durable \cup {u}
  /\ UNCHANGED <<visible, outcome>>

Acknowledge(u) ==
  /\ outcome[u] = "pending" /\ u \in durable
  /\ visible' = durable
  /\ outcome' = [outcome EXCEPT ![u] = "ok"]
  /\ UNCHANGED durable

Reject(u) ==
  /\ outcome[u] = "pending" /\ u \notin durable
  /\ outcome' = [outcome EXCEPT ![u] = "err"]
  /\ UNCHANGED <<durable, visible>>

\* The caller of an interrupted Update learns nothing.
Interrupted ==
  \E S \in SUBSET {u \in Updates : outcome[u] = "pending"} :
     outcome' = [u \in Updates |-> IF u \in S THEN "unknown" ELSE outcome[u]]

Restart ==
  /\ durable' \in SUBSET durable
  /\ visible' = durable'
  /\ Interrupted

Next == Restart \/ \E u \in Updates : Commit(u) \/ Acknowledge(u) \/ Reject(u)

Spec == Init /\ [][Next]_<<durable, visible, outcome>>
================================================================================
