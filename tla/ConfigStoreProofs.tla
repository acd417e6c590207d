--------------------------- MODULE ConfigStoreProofs ---------------------------
(***************************************************************************)
(* The two stores of files.  The safety properties of ConfigStore for      *)
(* every set of Updates and Readers and every number of crashes, and its   *)
(* refinement of ConfigPromise, rest on the inductive invariant Inv.       *)
(* Those of Invitations, for every number of tokens, clients, requests,    *)
(* invitations and faults, rest on IInv: what the offsets of the index     *)
(* lead to, and which attempts the limiter remembers.                      *)
(***************************************************************************)
EXTENDS ConfigStore, Invitations, SequenceTheorems, FiniteSetTheorems,
        WellFoundedInduction, TLAPS

\* The write lock is held by exactly the call that is between its lock and
\* its unlock, and NewManager saves only while the daemon starts.
LockInv ==
  /\ \A c \in Callers : pc[c] \in Saving <=> mu = c
  /\ proc = "down" => mu = NoOne
  /\ proc = "starting" => mu = Boot
  /\ proc = "up" => mu # Boot

\* Manager.config points at a configuration no call is still writing; the
\* holder of the lock builds its draft on it.
DraftInv ==
  /\ config # Boot => pc[config] = "ok"
  /\ proc = "starting" => config = Boot /\ heap[Boot] = {}
  /\ \A u \in Updates : pc[u] \in Saving => heap[u] = heap[config] \cup {u}

\* What config.json holds, by the phase of the process and of the save.
FileInv ==
  /\ proc = "up" /\ (mu # NoOne => pc[mu] # "publish") => file = Json(heap[config])
  /\ \A c \in Callers : pc[c] = "publish" => file = Json(heap[c])
  /\ proc = "starting" /\ pc[Boot] # "publish" => file = NoFile

\* A save is atomic and synced before it replaces config.json, and what a
\* power loss may bring back is an earlier configuration.
DiskInv ==
  /\ file \in onDisk
  /\ \A c \in Callers : pc[c] \in {"close", "rename"} => tmp[c] = "synced"
  /\ Torn \notin onDisk
  /\ \A v \in onDisk : v.val \subseteq file.val
  /\ powerLosses <= crashes

\* A mutation that has not reached its rename is nowhere to be seen.
Unsaved == {"idle", "err", "create", "write", "sync", "close", "rename"}
TraceInv ==
  \A u \in Updates : pc[u] \in Unsaved =>
    u \notin heap[config] /\ \A v \in onDisk : u \notin v.val

\* The pointers readers hold denote published, hence immutable, configurations.
SnapInv ==
  \A r \in Readers : snap[r] # NoSnap =>
    /\ proc = "up"
    /\ snap[r] # Boot => pc[snap[r]] = "ok"
    /\ heap[snap[r]] = seen[r]

Inv == /\ TypeOK /\ LockInv /\ DraftInv /\ FileInv /\ DiskInv /\ TraceInv
       /\ SnapInv /\ AcknowledgedSurvives

--------------------------------------------------------------------------------
\* The invariant holds before the daemon's first start.
LEMMA InitInv == Init => Inv
BY StoreAssumption DEF Init, Inv, TypeOK, LockInv, DraftInv, FileInv, DiskInv,
   TraceInv, SnapInv, AcknowledgedSurvives, acked, Callers, Content, Version, Saving,
   Returned, Unsaved, Json, NoFile, Torn

\* NewManager on a first run.
LEMMA FirstRunInv ==
  ASSUME Inv, FirstRun
  PROVE  Inv'
<1> USE StoreAssumption DEF Inv, Callers, Saving, Returned, Unsaved, Json, NoFile, Torn
<1>1. TypeOK'
  BY DEF FirstRun, TypeOK, Content, Version
<1>2. LockInv'
  BY DEF FirstRun, TypeOK, LockInv
<1>3. DraftInv'
  BY DEF FirstRun, TypeOK, LockInv, DraftInv
<1>4. FileInv'
  BY DEF FirstRun, TypeOK, FileInv
<1>5. DiskInv'
  BY DEF FirstRun, TypeOK, DiskInv
<1>6. TraceInv'
  BY DEF FirstRun, TypeOK, TraceInv
<1>7. SnapInv'
  BY DEF FirstRun, TypeOK, SnapInv
<1>8. AcknowledgedSurvives'
  BY DEF FirstRun, TypeOK, AcknowledgedSurvives, acked
<1> QED
  BY <1>1, <1>2, <1>3, <1>4, <1>5, <1>6, <1>7, <1>8

\* NewManager on a later run.
LEMMA LoadExistingInv ==
  ASSUME Inv, LoadExisting
  PROVE  Inv'
<1> USE StoreAssumption DEF Inv, Callers, Saving, Returned, Unsaved, Json, NoFile, Torn
<1>1. TypeOK'
  BY DEF LoadExisting, TypeOK, Content, Version
<1>2. LockInv'
  BY DEF LoadExisting, TypeOK, LockInv
<1>3. DraftInv'
  BY DEF LoadExisting, TypeOK, LockInv, DraftInv
<1>4. FileInv'
  <2>1. file = Json(file.val)
    BY DEF LoadExisting, TypeOK, Version
  <2> QED
    BY <2>1 DEF LoadExisting, TypeOK, LockInv, FileInv
<1>5. DiskInv'
  BY DEF LoadExisting, TypeOK, DiskInv
<1>6. TraceInv'
  BY DEF LoadExisting, TypeOK, DiskInv, TraceInv
<1>7. SnapInv'
  BY DEF LoadExisting, TypeOK, SnapInv
<1>8. AcknowledgedSurvives'
  BY DEF LoadExisting, TypeOK, AcknowledgedSurvives, acked
<1> QED
  BY <1>1, <1>2, <1>3, <1>4, <1>5, <1>6, <1>7, <1>8

\* Get hands out a published configuration.
LEMMA GetInv ==
  ASSUME Inv, NEW r \in Readers, Get(r)
  PROVE  Inv'
<1> USE StoreAssumption DEF Inv, Callers, Saving, Returned, Unsaved, Json, NoFile, Torn
<1>1. TypeOK'
  BY DEF Get, TypeOK, Content, Version
<1>2. LockInv'
  BY DEF Get, TypeOK, LockInv
<1>3. DraftInv'
  BY DEF Get, TypeOK, DraftInv
<1>4. FileInv'
  BY DEF Get, TypeOK, FileInv
<1>5. DiskInv'
  BY DEF Get, TypeOK, DiskInv
<1>6. TraceInv'
  BY DEF Get, TypeOK, TraceInv
<1>7. SnapInv'
  BY DEF Get, TypeOK, DraftInv, SnapInv
<1>8. AcknowledgedSurvives'
  BY DEF Get, TypeOK, AcknowledgedSurvives, acked
<1> QED
  BY <1>1, <1>2, <1>3, <1>4, <1>5, <1>6, <1>7, <1>8

\* Update writes to a fresh draft only.
LEMMA BeginUpdateInv ==
  ASSUME Inv, NEW u \in Updates, BeginUpdate(u)
  PROVE  Inv'
<1> USE StoreAssumption DEF Inv, Callers, Saving, Returned, Unsaved, Json, NoFile, Torn
<1>1. TypeOK'
  BY DEF BeginUpdate, TypeOK, Content, Version
<1>2. LockInv'
  BY DEF BeginUpdate, TypeOK, LockInv
<1>3. DraftInv'
  BY DEF BeginUpdate, TypeOK, DraftInv
<1>4. FileInv'
  BY DEF BeginUpdate, TypeOK, DraftInv, FileInv
<1>5. DiskInv'
  BY DEF BeginUpdate, TypeOK, DiskInv
<1>6. TraceInv'
  BY DEF BeginUpdate, TypeOK, DraftInv, TraceInv
<1>7. SnapInv'
  BY DEF BeginUpdate, TypeOK, SnapInv
<1>8. AcknowledgedSurvives'
  BY DEF BeginUpdate, TypeOK, AcknowledgedSurvives, acked
<1> QED
  BY <1>1, <1>2, <1>3, <1>4, <1>5, <1>6, <1>7, <1>8

\* The steps on the temp file.
LEMMA AdvanceInv ==
  ASSUME Inv, NEW c \in Callers,
         CreateTemp(c) \/ WriteTemp(c) \/ SyncTemp(c) \/ CloseTemp(c)
  PROVE  Inv'
<1> USE StoreAssumption DEF Inv, Callers, Saving, Returned, Unsaved, Json, NoFile, Torn
<1>1. TypeOK'
  BY DEF CreateTemp, WriteTemp, SyncTemp, CloseTemp, Advance, TypeOK, Content, Version
<1>2. LockInv'
  BY DEF CreateTemp, WriteTemp, SyncTemp, CloseTemp, Advance, TypeOK, LockInv
<1>3. DraftInv'
  BY DEF CreateTemp, WriteTemp, SyncTemp, CloseTemp, Advance, TypeOK, DraftInv
<1>4. FileInv'
  BY DEF CreateTemp, WriteTemp, SyncTemp, CloseTemp, Advance, TypeOK, FileInv
<1>5. DiskInv'
  BY DEF CreateTemp, WriteTemp, SyncTemp, CloseTemp, Advance, TypeOK, DiskInv
<1>6. TraceInv'
  BY DEF CreateTemp, WriteTemp, SyncTemp, CloseTemp, Advance, TypeOK, TraceInv
<1>7. SnapInv'
  BY DEF CreateTemp, WriteTemp, SyncTemp, CloseTemp, Advance, TypeOK, SnapInv
<1>8. AcknowledgedSurvives'
  BY DEF CreateTemp, WriteTemp, SyncTemp, CloseTemp, Advance, TypeOK, AcknowledgedSurvives, acked
<1> QED
  BY <1>1, <1>2, <1>3, <1>4, <1>5, <1>6, <1>7, <1>8

\* The rename: config.json and what a power loss may reveal.
LEMMA RenameInv ==
  ASSUME Inv, NEW c \in Callers, Rename(c)
  PROVE  Inv'
<1> USE StoreAssumption DEF Inv, Callers, Saving, Returned, Unsaved, Json, NoFile, Torn
<1>1. TypeOK'
  BY DEF Rename, TypeOK, Content, Version
<1>2. LockInv'
  BY DEF Rename, TypeOK, LockInv
<1>3. DraftInv'
  BY DEF Rename, TypeOK, DraftInv
<1>4. FileInv'
  BY DEF Rename, TypeOK, LockInv, FileInv
<1>5. DiskInv'
  BY DEF Rename, TypeOK, LockInv, DraftInv, FileInv, DiskInv
<1>6. TraceInv'
  BY DEF Rename, TypeOK, LockInv, DraftInv, TraceInv
<1>7. SnapInv'
  BY DEF Rename, TypeOK, SnapInv
<1>8. AcknowledgedSurvives'
  BY DEF Rename, TypeOK, LockInv, DraftInv, FileInv, AcknowledgedSurvives, acked
<1> QED
  BY <1>1, <1>2, <1>3, <1>4, <1>5, <1>6, <1>7, <1>8

\* The error paths of saveLocked.
LEMMA SaveFailsInv ==
  ASSUME Inv, NEW c \in Callers, SaveFails(c)
  PROVE  Inv'
<1> USE StoreAssumption DEF Inv, Callers, Saving, Returned, Unsaved, Json, NoFile, Torn
<1>1. TypeOK'
  BY DEF SaveFails, TypeOK, Content, Version
<1>2. LockInv'
  BY DEF SaveFails, TypeOK, LockInv
<1>3. DraftInv'
  BY DEF SaveFails, TypeOK, DraftInv
<1>4. FileInv'
  BY DEF SaveFails, TypeOK, LockInv, FileInv
<1>5. DiskInv'
  BY DEF SaveFails, TypeOK, DiskInv
<1>6. TraceInv'
  BY DEF SaveFails, TypeOK, TraceInv
<1>7. SnapInv'
  BY DEF SaveFails, TypeOK, LockInv, SnapInv
<1>8. AcknowledgedSurvives'
  BY DEF SaveFails, TypeOK, AcknowledgedSurvives, acked
<1> QED
  BY <1>1, <1>2, <1>3, <1>4, <1>5, <1>6, <1>7, <1>8

\* The swap of the pointer.
LEMMA PublishInv ==
  ASSUME Inv, NEW c \in Callers, Publish(c)
  PROVE  Inv'
<1> USE StoreAssumption DEF Inv, Callers, Saving, Returned, Unsaved, Json, NoFile, Torn
<1>1. TypeOK'
  BY DEF Publish, TypeOK, Content, Version
<1>2. LockInv'
  BY DEF Publish, TypeOK, LockInv
<1>3. DraftInv'
  BY DEF Publish, TypeOK, LockInv, DraftInv
<1>4. FileInv'
  BY DEF Publish, TypeOK, FileInv
<1>5. DiskInv'
  BY DEF Publish, TypeOK, DiskInv
<1>6. TraceInv'
  BY DEF Publish, TypeOK, LockInv, DraftInv, TraceInv
<1>7. SnapInv'
  BY DEF Publish, TypeOK, SnapInv
<1>8. AcknowledgedSurvives'
  BY DEF Publish, TypeOK, DraftInv, FileInv, AcknowledgedSurvives, acked
<1> QED
  BY <1>1, <1>2, <1>3, <1>4, <1>5, <1>6, <1>7, <1>8

\* A crash of the process: memory and calls in progress are gone.
LEMMA CrashInv ==
  ASSUME Inv, Crash
  PROVE  Inv'
<1> USE StoreAssumption DEF Inv, Callers, Saving, Returned, Unsaved, Json, NoFile, Torn
<1>1. TypeOK'
  BY DEF Crash, Die, TypeOK, Content, Version
<1>2. LockInv'
  BY DEF Crash, Die, TypeOK, LockInv
<1>3. DraftInv'
  BY DEF Crash, Die, TypeOK, DraftInv
<1>4. FileInv'
  BY DEF Crash, Die, TypeOK, FileInv
<1>5. DiskInv'
  BY DEF Crash, Die, TypeOK, DiskInv
<1>6. TraceInv'
  BY DEF Crash, Die, TypeOK, TraceInv
<1>7. SnapInv'
  BY DEF Crash, Die, TypeOK, SnapInv
<1>8. AcknowledgedSurvives'
  BY DEF Crash, Die, TypeOK, AcknowledgedSurvives, acked
<1> QED
  BY <1>1, <1>2, <1>3, <1>4, <1>5, <1>6, <1>7, <1>8

\* A power loss: config.json may also go back in time.
LEMMA PowerLossInv ==
  ASSUME Inv, PowerLoss
  PROVE  Inv'
<1> USE StoreAssumption DEF Inv, Callers, Saving, Returned, Unsaved, Json, NoFile, Torn
<1>1. TypeOK'
  BY DEF PowerLoss, Die, TypeOK, DiskInv, Content, Version
<1>2. LockInv'
  BY DEF PowerLoss, Die, TypeOK, LockInv
<1>3. DraftInv'
  BY DEF PowerLoss, Die, TypeOK, DraftInv
<1>4. FileInv'
  BY DEF PowerLoss, Die, TypeOK, FileInv
<1>5. DiskInv'
  <2>1. file' \in onDisk' /\ Torn \notin onDisk' /\ \A v \in onDisk' : v.val \subseteq file'.val
    BY DEF PowerLoss, DiskInv
  <2>2. \A c \in Callers : pc'[c] \notin {"close", "rename"}
    BY DEF PowerLoss, Die, TypeOK
  <2>3. powerLosses' <= crashes'
    BY DEF PowerLoss, Die, TypeOK, DiskInv
  <2> QED
    BY <2>1, <2>2, <2>3 DEF DiskInv
<1>6. TraceInv'
  BY DEF PowerLoss, Die, TypeOK, TraceInv
<1>7. SnapInv'
  BY DEF PowerLoss, Die, TypeOK, SnapInv
<1>8. AcknowledgedSurvives'
  BY DEF PowerLoss, Die, TypeOK, AcknowledgedSurvives, acked
<1> QED
  BY <1>1, <1>2, <1>3, <1>4, <1>5, <1>6, <1>7, <1>8

\* The kernel writes config.json back.
LEMMA WritebackInv ==
  ASSUME Inv, Writeback
  PROVE  Inv'
<1> USE StoreAssumption DEF Inv, Callers, Saving, Returned, Unsaved, Json, NoFile, Torn
<1>1. TypeOK'
  BY DEF Writeback, TypeOK, Content, Version
<1>2. LockInv'
  BY DEF Writeback, TypeOK, LockInv
<1>3. DraftInv'
  BY DEF Writeback, TypeOK, DraftInv
<1>4. FileInv'
  BY DEF Writeback, TypeOK, FileInv
<1>5. DiskInv'
  BY DEF Writeback, TypeOK, DiskInv
<1>6. TraceInv'
  BY DEF Writeback, TypeOK, DiskInv, TraceInv
<1>7. SnapInv'
  BY DEF Writeback, TypeOK, SnapInv
<1>8. AcknowledgedSurvives'
  BY DEF Writeback, TypeOK, AcknowledgedSurvives, acked
<1> QED
  BY <1>1, <1>2, <1>3, <1>4, <1>5, <1>6, <1>7, <1>8

--------------------------------------------------------------------------------
\* Inv is inductive: every step of the store keeps it.
LEMMA NextInv == Inv /\ [Next]_vars => Inv'
<1> SUFFICES ASSUME Inv, [Next]_vars PROVE Inv'
  OBVIOUS
<1>1. CASE UNCHANGED vars
  BY <1>1 DEF vars, Inv, TypeOK, LockInv, DraftInv, FileInv, DiskInv, TraceInv,
     SnapInv, AcknowledgedSurvives, acked
<1>2. CASE FirstRun \/ LoadExisting \/ Crash \/ PowerLoss \/ Writeback
  BY <1>2, FirstRunInv, LoadExistingInv, CrashInv, PowerLossInv, WritebackInv
<1>3. CASE \E r \in Readers : Get(r)
  BY <1>3, GetInv
<1>4. CASE \E u \in Updates : BeginUpdate(u)
  BY <1>4, BeginUpdateInv
<1>5. CASE \E c \in Callers : SaveStep(c) \/ SaveFails(c)
  BY <1>5, AdvanceInv, RenameInv, PublishInv, SaveFailsInv DEF SaveStep
<1> QED
  BY <1>1, <1>2, <1>3, <1>4, <1>5 DEF Next

LEMMA InvHolds == Spec => []Inv
BY InitInv, NextInv, PTL DEF Spec

\* Every state of config.Manager and of its file is well formed.
THEOREM TypeCorrect == Spec => []TypeOK
<1>1. Inv => TypeOK
  BY DEF Inv
<1> QED
  BY <1>1, InvHolds, PTL

\* Update's nil return is a promise: whatever the other goroutines, the error
\* paths of saveLocked and crashes do afterwards, the mutation stays in
\* config.json, unless the machine loses power.
THEOREM AcknowledgedUpdatesSurvive == Spec => []AcknowledgedSurvives
<1>1. Inv => AcknowledgedSurvives
  BY DEF Inv
<1> QED
  BY <1>1, InvHolds, PTL

\* Whenever nobody holds the lock, what Get returns is what config.json holds.
THEOREM MemoryAndFileAgree == Spec => []MemoryIsDurable
<1>1. Inv => MemoryIsDurable
  BY DEF Inv, FileInv, MemoryIsDurable
<1> QED
  BY <1>1, InvHolds, PTL

\* Copy-on-write: no Update ever changes what a pointer from Get denotes.
THEOREM SnapshotsAreStable == Spec => []SnapshotStable
<1>1. Inv => SnapshotStable
  BY DEF Inv, SnapInv, SnapshotStable
<1> QED
  BY <1>1, InvHolds, PTL

\* An Update that returned an error has changed nothing, now or after a power
\* loss.
THEOREM FailedUpdatesLeaveNoTrace == Spec => []FailedLeavesNoTrace
<1>1. Inv => FailedLeavesNoTrace
  BY DEF Inv, DiskInv, TraceInv, Unsaved, FailedLeavesNoTrace, failed
<1> QED
  BY <1>1, InvHolds, PTL

\* Temp file, fsync, rename: config.json is never half written.
THEOREM FileIsNeverTorn == Spec => []NeverTorn
<1>1. Inv => NeverTorn
  BY DEF Inv, DiskInv, NeverTorn
<1> QED
  BY <1>1, InvHolds, PTL
--------------------------------------------------------------------------------
(* Refinement *)

\* The visible configuration is the durable one, except between a rename and
\* the swap of the pointer; Updates end as the promise says.
LEMMA StepRefines ==
  ASSUME Inv, [Next]_vars, Inv'
  PROVE  [Promise!Next]_<<Durable, Visible, Outcome>>
<1> USE StoreAssumption DEF Inv, Callers, Saving, Json, NoFile
<1>1. CASE UNCHANGED vars
  BY <1>1 DEF vars, Durable, Visible, Outcome
<1>2. CASE FirstRun
  BY <1>2 DEF FirstRun, TypeOK, Durable, Visible, Outcome
<1>3. CASE LoadExisting
  BY <1>3 DEF LoadExisting, TypeOK, Durable, Visible, Outcome
<1>4. CASE Crash \/ PowerLoss
  <2>1. Durable' \subseteq Durable
    BY <1>4 DEF Crash, PowerLoss, DiskInv, Durable
  <2>2. Visible' = Durable'
    BY <1>4 DEF Crash, PowerLoss, Die, Durable, Visible
  <2>3. Promise!Interrupted
    <3> DEFINE lost == {u \in Updates : pc[u] \in Saving}
    <3>1. lost \subseteq {u \in Updates : Outcome[u] = "pending"}
      BY DEF Outcome
    <3>2. Outcome' = [u \in Updates |-> IF u \in lost THEN "unknown" ELSE Outcome[u]]
      BY <1>4 DEF Crash, PowerLoss, Die, TypeOK, Outcome
    <3> QED
      BY <3>1, <3>2 DEF Promise!Interrupted
  <2> QED
    BY <2>1, <2>2, <2>3 DEF Promise!Next, Promise!Restart
<1>5. CASE Writeback
  BY <1>5 DEF Writeback, Durable, Visible, Outcome
<1>6. ASSUME NEW r \in Readers, Get(r) PROVE UNCHANGED <<Durable, Visible, Outcome>>
  BY <1>6 DEF Get, Durable, Visible, Outcome
<1>7. ASSUME NEW u \in Updates, BeginUpdate(u) PROVE UNCHANGED <<Durable, Visible, Outcome>>
  BY <1>7 DEF BeginUpdate, TypeOK, DraftInv, Durable, Visible, Outcome
<1>8. ASSUME NEW c \in Callers, CreateTemp(c) \/ WriteTemp(c) \/ SyncTemp(c) \/ CloseTemp(c)
      PROVE  UNCHANGED <<Durable, Visible, Outcome>>
  BY <1>8 DEF CreateTemp, WriteTemp, SyncTemp, CloseTemp, Advance, TypeOK, Durable,
     Visible, Outcome
<1>9. ASSUME NEW u \in Updates, Rename(u) PROVE Promise!Commit(u)
  <2>1. Outcome[u] = "pending" /\ Visible = Durable
    BY <1>9 DEF Rename, TypeOK, LockInv, FileInv, Durable, Visible, Outcome
  <2>2. Durable' = Durable \cup {u} /\ Visible' = Visible
    BY <1>9 DEF Rename, TypeOK, LockInv, DraftInv, FileInv, Durable, Visible
  <2>3. Outcome' = Outcome
    BY <1>9 DEF Rename, TypeOK, Outcome
  <2> QED
    BY <2>1, <2>2, <2>3 DEF Promise!Commit
<1>10. ASSUME NEW u \in Updates, SaveFails(u) PROVE Promise!Reject(u)
  <2>1. Outcome[u] = "pending" /\ u \notin Durable
    BY <1>10 DEF SaveFails, DiskInv, TraceInv, Unsaved, Durable, Outcome
  <2>2. Durable' = Durable /\ Visible' = Visible
    BY <1>10 DEF SaveFails, Durable, Visible
  <2>3. Outcome' = [Outcome EXCEPT ![u] = "err"]
    BY <1>10 DEF SaveFails, TypeOK, Outcome
  <2> QED
    BY <2>1, <2>2, <2>3 DEF Promise!Reject
<1>11. ASSUME NEW u \in Updates, Publish(u) PROVE Promise!Acknowledge(u)
  <2>1. Outcome[u] = "pending" /\ u \in Durable
    BY <1>11 DEF Publish, DraftInv, FileInv, Durable, Outcome
  <2>2. Durable' = Durable /\ Visible' = Durable
    BY <1>11 DEF Publish, FileInv, Durable, Visible
  <2>3. Outcome' = [Outcome EXCEPT ![u] = "ok"]
    BY <1>11 DEF Publish, TypeOK, Outcome
  <2> QED
    BY <2>1, <2>2, <2>3 DEF Promise!Acknowledge
<1>12. CASE Rename(Boot) \/ SaveFails(Boot) \/ Publish(Boot)
  <2>1. proc = "starting" /\ config = Boot /\ heap[Boot] = {} /\ file.val = {}
    BY <1>12 DEF Rename, SaveFails, Publish, TypeOK, LockInv, DraftInv, FileInv
  <2>2. Durable' = Durable /\ Visible' = Visible
    BY <1>12, <2>1 DEF Rename, SaveFails, Publish, Durable, Visible
  <2>3. Outcome' = Outcome
    BY <1>12 DEF Rename, SaveFails, Publish, TypeOK, Outcome
  <2> QED
    BY <2>2, <2>3
<1>13. ASSUME NEW c \in Callers, SaveStep(c) \/ SaveFails(c)
       PROVE  [Promise!Next]_<<Durable, Visible, Outcome>>
  <2>1. CASE c = Boot
    BY <1>8, <1>12, <1>13, <2>1 DEF SaveStep
  <2>2. CASE c \in Updates
    BY <1>8, <1>9, <1>10, <1>11, <1>13, <2>2 DEF SaveStep, Promise!Next
  <2> QED
    BY <2>1, <2>2
<1> QED
  BY <1>1, <1>2, <1>3, <1>4, <1>5, <1>6, <1>7, <1>13 DEF Next

\* To its callers config.Manager is ConfigPromise: a step of saveLocked, a
\* reload, a crash or a power loss is a step of the promise or none.
THEOREM StoreImplementsPromise == Spec => ImplementsPromise
<1>1. Init => Promise!Init
  BY StoreAssumption DEF Init, Promise!Init, Durable, Visible, Outcome, NoFile, Callers
<1>2. Inv /\ [Next]_vars /\ Inv' => [Promise!Next]_<<Durable, Visible, Outcome>>
  BY StepRefines
<1> QED
  BY <1>1, <1>2, InvHolds, PTL DEF Spec, ImplementsPromise, Promise!Spec

--------------------------------------------------------------------------------
(* Invitations *)

\* A line of invitation n begins at p; only at the end of the file it may lack
\* its newline.
LineIs(d, p, n) ==
  /\ n # 0 /\ p \in DOMAIN d /\ p + 1 \in DOMAIN d
  /\ d[p] = [part |-> "head", n |-> n] /\ d[p + 1] = [part |-> "tail", n |-> n]
  /\ p + 2 \in DOMAIN d => d[p + 2] = Newline

\* The cells of the file are of invitations that were made.
Numbered == \A i \in DOMAIN disk : disk[i].n <= Len(book)

\* An offset of the index leads into the file, and not to a line of another
\* token; a line that a failed write has spoilt may be there.
Aligned ==
  open => \A k \in Tokens : index[k] # 0 =>
    /\ index[k] \in DOMAIN disk
    /\ \A n \in 1..Len(book) : LineIs(disk, index[k], n) => book[n].tok = k

\* What a request has found.
Answers ==
  \A r \in Requests :
    /\ step[r] \in {"find", "answer", "shown"} => ask[r] \in Ask
    /\ step[r] = "shown" => got[r] # 0
    /\ step[r] \in {"answer", "shown"} /\ got[r] # 0 =>
         got[r] \in DOMAIN book /\ book[got[r]].tok = ask[r].tok

\* An invitation that has to be found.
Live(n) ==
  /\ n \in known /\ now <= book[n].exp
  /\ \A i \in DOMAIN book : book[i].tok = book[n].tok => i = n

\* While nothing has failed the file ends with a newline, and a live
\* invitation has a line, which the index leads to.
Findable ==
  faults = 0 =>
    /\ open /\ (disk # <<>> => disk[Len(disk)] = Newline)
    /\ \A n \in known : Live(n) =>
         /\ LineIs(disk, index[book[n].tok], n)
         /\ \E p \in Starts(disk) : LineIs(disk, p, n)

\* The limiter keeps every attempt that is still in the window.
Remembered ==
  \A c \in Clients :
    /\ IsFiniteSet(rl[c])
    /\ \A i, j \in DOMAIN tried[c] : i <= j => tried[c][i] <= tried[c][j]
    /\ \A i \in DOMAIN tried[c] :
         tried[c][i] + Window > now => [n |-> i, at |-> tried[c][i]] \in rl[c]

IInv ==
  /\ InviteTypeOK /\ Numbered /\ Aligned /\ Answers /\ Findable /\ Remembered /\ RateBound

--------------------------------------------------------------------------------
(* Sets of numbers, and lines *)

\* A set of naturals has a least element, and Min is it.
LEMMA MinIsLeast ==
  ASSUME NEW S \in SUBSET Nat, S # {}
  PROVE  Min(S) \in S /\ \A y \in S : Min(S) <= y
<1> DEFINE R == {ss \in Nat \X Nat : ss[1] < ss[2]}
<1>1. IsWellFoundedOn(R, Nat)
  BY NatLessThanWellFounded, Zenon DEF OpToRel
<1>2. \A x, y \in Nat : y < x => <<y, x>> \in R
  OBVIOUS
<1> HIDE DEF R
<1>3. PICK x \in S : \A y \in S : ~(<<y, x>> \in R)
  BY <1>1, WFMin
<1>4. \A y \in S : ~(y < x)
  BY <1>2, <1>3, Zenon
<1>5. \A y \in S : x <= y
  BY <1>4
<1> QED
  BY <1>5 DEF Min

\* A set of offsets into a file has a greatest element, and Max is it.
LEMMA MaxIsGreatest ==
  ASSUME NEW N \in Nat, NEW S \in SUBSET (1..N), S # {}
  PROVE  Max(S) \in S
<1> DEFINE T == {N - x : x \in S}
<1>1. T \in SUBSET Nat /\ T # {}
  <2>1. \A x \in S : N - x \in Nat
    OBVIOUS
  <2> QED
    BY <2>1
<1>2. Min(T) \in T /\ \A y \in T : Min(T) <= y
  <2> HIDE DEF T
  <2> QED
    BY <1>1, MinIsLeast
<1>3. PICK x \in S : Min(T) = N - x
  BY <1>2
<1>4. \A y \in S : x >= y
  <2> TAKE y \in S
  <2>1. N - y \in T
    OBVIOUS
  <2>2. N - x <= N - y
    BY <1>2, <1>3, <2>1, Zenon
  <2> QED
    BY <2>2
<1> QED
  BY <1>4 DEF Max

\* The line at p ends before the next newline, or with the file.
LEMMA LineAtProperties ==
  ASSUME NEW d \in Seq(Cell), NEW p \in DOMAIN d
  PROVE  \E e \in (p - 1)..Len(d) :
           /\ LineAt(d, p) \in Seq(Cell) /\ Len(LineAt(d, p)) = (e - p) + 1
           /\ \A i \in 1..((e - p) + 1) : LineAt(d, p)[i] = d[p + i - 1]
           /\ \A q \in p..e : d[q] # Newline
           /\ e < Len(d) => d[e + 1] = Newline
<1> DEFINE ends == {q \in p..Len(d) : d[q] = Newline}
           e == IF ends = {} THEN Len(d) ELSE Min(ends) - 1
<1>1. p \in Nat /\ p >= 1 /\ p <= Len(d) /\ Len(d) \in Nat
  OBVIOUS
<1>2. /\ e \in (p - 1)..Len(d) /\ \A q \in p..e : d[q] # Newline
      /\ e < Len(d) => d[e + 1] = Newline
  <2>1. CASE ends = {}
    BY <1>1, <2>1
  <2>2. CASE ends # {}
    <3>1. ends \in SUBSET Nat
      BY <1>1
    <3>2. Min(ends) \in ends /\ \A y \in ends : Min(ends) <= y
      <4> HIDE DEF ends
      <4> QED
        BY <2>2, <3>1, MinIsLeast
    <3>3. PICK m \in p..Len(d) : m = Min(ends) /\ d[m] = Newline
      BY <3>2
    <3>4. e = m - 1
      BY <2>2, <3>3
    <3>5. \A q \in p..e : d[q] # Newline
      <4> SUFFICES ASSUME NEW q \in p..(m - 1), d[q] = Newline PROVE FALSE
        BY <3>4
      <4>1. q \in ends
        BY <1>1
      <4>2. m <= q
        BY <3>2, <3>3, <4>1, Zenon
      <4> QED
        BY <1>1, <4>2
    <3> HIDE DEF e
    <3> QED
      BY <1>1, <3>3, <3>4, <3>5
  <2> QED
    BY <2>1, <2>2
<1>3. LineAt(d, p) = SubSeq(d, p, e)
  BY DEF LineAt
<1> HIDE DEF e
<1>4. \A i \in p..e : d[i] \in Cell
  BY <1>1, <1>2
<1>5. e \in Int /\ p \in Int
  BY <1>1, <1>2
<1>6. /\ SubSeq(d, p, e) \in Seq(Cell)
      /\ Len(SubSeq(d, p, e)) = IF p <= e THEN e - p + 1 ELSE 0
      /\ \A i \in 1..e - p + 1 : SubSeq(d, p, e)[i] = d[p + i - 1]
  BY <1>4, <1>5, SubSeqProperties
<1>7. e \in (p - 1)..Len(d) /\ Len(LineAt(d, p)) = (e - p) + 1
  BY <1>1, <1>2, <1>3, <1>6
<1> QED
  <2> USE <1>7
  <2> WITNESS e \in (p - 1)..Len(d)
  <2> QED
    BY <1>2, <1>3, <1>6, <1>7

\* What json.Unmarshal makes of the line at p: an invitation only where its
\* whole line begins.
LEMMA ParseLine ==
  ASSUME NEW d \in Seq(Cell), NEW p \in DOMAIN d
  PROVE  /\ Parse(LineAt(d, p)) # 0 => LineIs(d, p, Parse(LineAt(d, p)))
         /\ \A n : LineIs(d, p, n) => Parse(LineAt(d, p)) = n
         /\ Parse(LineAt(d, p)) \in 0..MaxInvites
<1>1. PICK e \in (p - 1)..Len(d) :
           /\ LineAt(d, p) \in Seq(Cell) /\ Len(LineAt(d, p)) = (e - p) + 1
           /\ \A i \in 1..((e - p) + 1) : LineAt(d, p)[i] = d[p + i - 1]
           /\ \A q \in p..e : d[q] # Newline
           /\ e < Len(d) => d[e + 1] = Newline
  BY LineAtProperties
<1> DEFINE line == LineAt(d, p)
<1>2. p \in Nat /\ p >= 1 /\ p <= Len(d) /\ Len(d) \in Nat /\ DOMAIN d = 1..Len(d)
  OBVIOUS
<1>3. \A i \in DOMAIN d : d[i] = [part |-> d[i].part, n |-> d[i].n] /\ d[i].n \in 0..MaxInvites
  <2>1. \A c \in Cell : c = [part |-> c.part, n |-> c.n] /\ c.n \in 0..MaxInvites
    BY DEF Cell
  <2>2. \A i \in DOMAIN d : d[i] \in Cell
    OBVIOUS
  <2> QED
    BY <2>1, <2>2
<1>4. e = p + 1 => line[1] = d[p] /\ line[2] = d[p + 1] /\ Len(line) = 2 /\ p + 1 \in DOMAIN d
  <2> SUFFICES ASSUME e = p + 1
               PROVE  line[1] = d[p] /\ line[2] = d[p + 1] /\ Len(line) = 2 /\ p + 1 \in DOMAIN d
    OBVIOUS
  <2>1. /\ (e - p) + 1 = 2 /\ p + 1 - 1 = p /\ p + 2 - 1 = p + 1 /\ p + 1 \in DOMAIN d
        /\ 1 \in 1..((e - p) + 1) /\ 2 \in 1..((e - p) + 1)
    BY <1>1, <1>2
  <2>2. line[1] = d[p + 1 - 1] /\ line[2] = d[p + 2 - 1]
    BY <1>1, <2>1, Zenon
  <2> QED
    BY <1>1, <2>1, <2>2, Zenon
<1>5. Len(line) = 2 <=> e = p + 1
  BY <1>1, <1>2
<1> HIDE DEF line
<1>6. ASSUME Parse(line) # 0 PROVE LineIs(d, p, Parse(line))
  <2>1. e = p + 1 /\ d[p].part = "head" /\ d[p + 1] = [part |-> "tail", n |-> d[p].n]
        /\ Parse(line) = d[p].n
    BY <1>4, <1>5, <1>6 DEF Parse
  <2>2. d[p] = [part |-> "head", n |-> d[p].n]
    BY <1>3, <2>1
  <2>3. p + 2 \in DOMAIN d => d[p + 2] = Newline
    BY <1>1, <1>2, <2>1
  <2> QED
    BY <1>4, <1>6, <2>1, <2>2, <2>3 DEF LineIs
<1>7. ASSUME NEW n, LineIs(d, p, n) PROVE Parse(line) = n
  <2>1. d[p] = [part |-> "head", n |-> n] /\ d[p + 1] = [part |-> "tail", n |-> n]
        /\ p + 1 \in DOMAIN d /\ (p + 2 \in DOMAIN d => d[p + 2] = Newline)
    BY <1>7 DEF LineIs
  <2>2. d[p] # Newline /\ d[p + 1] # Newline
    BY <2>1 DEF Newline
  <2>3. e = p + 1
    <3>1. e # p - 1
      <4>1. e = p - 1 => e < Len(d) /\ e + 1 = p
        BY <1>2
      <4> QED
        BY <1>1, <4>1, <2>2
    <3>2. e # p
      <4>1. e = p => e < Len(d) /\ e + 1 = p + 1
        BY <1>2, <2>1
      <4> QED
        BY <1>1, <4>1, <2>2
    <3>3. ~(e >= p + 2)
      <4>1. e >= p + 2 => p + 2 \in p..e /\ p + 2 \in DOMAIN d
        BY <1>1, <1>2
      <4> QED
        BY <1>1, <4>1, <2>1
    <3> QED
      BY <1>1, <1>2, <3>1, <3>2, <3>3
  <2> QED
    BY <1>4, <2>1, <2>3 DEF Parse
<1>8. Parse(line) \in 0..MaxInvites
  <2>1. CASE Len(line) = 2
    BY <1>3, <1>4, <1>5, <2>1, InvitationsAssumption DEF Parse
  <2>2. CASE Len(line) # 2
    BY <2>2, InvitationsAssumption DEF Parse
  <2> QED
    BY <2>1, <2>2
<1> QED
  BY <1>6, <1>7, <1>8 DEF line

\* A line is that of one invitation, whose number its head holds.
LEMMA OneLine ==
  ASSUME NEW d, NEW p, NEW n, LineIs(d, p, n)
  PROVE  d[p].n = n /\ n # 0 /\ p \in DOMAIN d /\ d[p + 1].part = "tail"
BY DEF LineIs

\* buildIndex: an offset is that of a line of the token, and a token that has
\* a line has an offset.
LEMMA IndexOfProperties ==
  ASSUME NEW d \in Seq(Cell), NEW b
  PROVE  /\ IndexOf(d, b) \in [Tokens -> Nat]
         /\ \A k \in Tokens : IndexOf(d, b)[k] # 0 =>
              /\ IndexOf(d, b)[k] \in DOMAIN d
              /\ \E n : LineIs(d, IndexOf(d, b)[k], n) /\ b[n].tok = k
         /\ \A k \in Tokens, p \in Starts(d) : \A n :
              LineIs(d, p, n) /\ b[n].tok = k => IndexOf(d, b)[k] # 0
<1> DEFINE At(k) == {p \in Starts(d) : Parse(LineAt(d, p)) # 0 /\ b[Parse(LineAt(d, p))].tok = k}
<1>1. \A k \in Tokens : IndexOf(d, b)[k] = IF At(k) = {} THEN 0 ELSE Max(At(k))
  BY DEF IndexOf
<1>2. \A k : At(k) \in SUBSET (1..Len(d))
  BY DEF Starts
<1>3. \A k : At(k) # {} => Max(At(k)) \in At(k)
  <2> SUFFICES ASSUME NEW k, At(k) # {} PROVE Max(At(k)) \in At(k)
    OBVIOUS
  <2>1. At(k) \in SUBSET (1..Len(d)) /\ Len(d) \in Nat
    BY <1>2
  <2> HIDE DEF At
  <2> QED
    BY <2>1, MaxIsGreatest
<1>4. ASSUME NEW k \in Tokens, IndexOf(d, b)[k] # 0
      PROVE  IndexOf(d, b)[k] \in At(k)
  <2> HIDE DEF At
  <2> QED
    BY <1>1, <1>3, <1>4, Zenon
<1>5. \A p \in DOMAIN d : Parse(LineAt(d, p)) # 0 => LineIs(d, p, Parse(LineAt(d, p)))
  BY ParseLine
<1>6. ASSUME NEW k \in Tokens, IndexOf(d, b)[k] # 0
      PROVE  /\ IndexOf(d, b)[k] \in DOMAIN d
             /\ \E n : LineIs(d, IndexOf(d, b)[k], n) /\ b[n].tok = k
  <2> DEFINE q == IndexOf(d, b)[k]
  <2>1. q \in DOMAIN d /\ Parse(LineAt(d, q)) # 0 /\ b[Parse(LineAt(d, q))].tok = k
    BY <1>4, <1>6, Zenon DEF Starts
  <2>2. LineIs(d, q, Parse(LineAt(d, q)))
    BY <1>5, <2>1, Zenon
  <2> QED
    BY <2>1, <2>2, Zenon
<1>7. ASSUME NEW k \in Tokens, NEW p \in Starts(d), NEW n, LineIs(d, p, n), b[n].tok = k
      PROVE  IndexOf(d, b)[k] # 0
  <2>1. p \in DOMAIN d
    BY DEF Starts
  <2>2. Parse(LineAt(d, p)) = n /\ n # 0
    <3>1. \A m : LineIs(d, p, m) => Parse(LineAt(d, p)) = m
      BY <2>1, ParseLine
    <3> QED
      BY <1>7, <3>1, OneLine, Zenon
  <2>3. p \in At(k)
    BY <1>7, <2>2
  <2>4. Max(At(k)) \in At(k) /\ At(k) # {}
    BY <1>3, <2>3, Zenon
  <2>5. Max(At(k)) \in 1..Len(d)
    BY <1>2, <2>4, Zenon
  <2>6. Max(At(k)) # 0
    <3> HIDE DEF At
    <3> QED
      BY <2>5
  <2> QED
    BY <1>1, <2>4, <2>6, Zenon
<1>8. IndexOf(d, b) \in [Tokens -> Nat]
  <2>1. IndexOf(d, b) = [k \in Tokens |-> IndexOf(d, b)[k]]
    BY DEF IndexOf
  <2>2. \A k \in Tokens : IndexOf(d, b)[k] \in Nat
    <3> TAKE k \in Tokens
    <3>1. CASE IndexOf(d, b)[k] = 0
      BY <3>1
    <3>2. CASE IndexOf(d, b)[k] # 0
      <4>1. IndexOf(d, b)[k] \in DOMAIN d
        BY <1>6, <3>2, Zenon
      <4> QED
        BY <4>1
    <3> QED
      BY <3>1, <3>2
  <2> QED
    BY <2>1, <2>2, Zenon
<1> QED
  BY <1>6, <1>7, <1>8, Zenon

\* A write behind the end of the file makes no line begin before it, and
\* spoils none if the file ended with a newline.
LEMMA AppendedLines ==
  ASSUME NEW d \in Seq(Cell), NEW t \in Seq(Cell), t # <<>> => t[1].part = "head"
  PROVE  /\ d \o t \in Seq(Cell) /\ Len(d \o t) = Len(d) + Len(t)
         /\ \A i \in DOMAIN d : i \in DOMAIN (d \o t) /\ (d \o t)[i] = d[i]
         /\ \A i \in DOMAIN t : (d \o t)[Len(d) + i] = t[i]
         /\ \A p \in DOMAIN d : \A n : LineIs(d \o t, p, n) => LineIs(d, p, n)
         /\ (d = <<>> \/ d[Len(d)] = Newline) =>
              \A p \in DOMAIN d : \A n : LineIs(d, p, n) => LineIs(d \o t, p, n)
         /\ Starts(d) \subseteq Starts(d \o t)
<1> DEFINE e == d \o t
<1>1. /\ e \in Seq(Cell) /\ Len(e) = Len(d) + Len(t)
      /\ \A i \in DOMAIN d : i \in DOMAIN e /\ e[i] = d[i]
      /\ \A i \in DOMAIN t : e[Len(d) + i] = t[i]
  OBVIOUS
<1>2. Len(d) \in Nat /\ Len(t) \in Nat /\ DOMAIN d = 1..Len(d) /\ DOMAIN e = 1..Len(e)
  BY <1>1
<1>3. Len(t) > 0 => e[Len(d) + 1].part = "head"
  OBVIOUS
<1> HIDE DEF e
<1>4. ASSUME NEW p \in DOMAIN d, NEW n, LineIs(e, p, n) PROVE LineIs(d, p, n)
  <2>1. /\ n # 0 /\ p + 1 \in DOMAIN e
        /\ e[p] = [part |-> "head", n |-> n] /\ e[p + 1] = [part |-> "tail", n |-> n]
        /\ p + 2 \in DOMAIN e => e[p + 2] = Newline
    BY <1>4 DEF LineIs
  <2>2. p # Len(d)
    <3> SUFFICES ASSUME p = Len(d) PROVE FALSE
      OBVIOUS
    <3>1. Len(t) > 0
      BY <1>1, <1>2, <2>1
    <3>2. e[p + 1].part = "head" /\ e[p + 1].part = "tail"
      BY <1>3, <2>1, <3>1
    <3> QED
      BY <3>2
  <2>3. p + 1 \in DOMAIN d
    BY <1>2, <2>2
  <2>4. p + 2 \in DOMAIN d => p + 2 \in DOMAIN e /\ e[p + 2] = d[p + 2]
    BY <1>1
  <2> QED
    BY <1>1, <2>1, <2>3, <2>4 DEF LineIs
<1>5. ASSUME d = <<>> \/ d[Len(d)] = Newline, NEW p \in DOMAIN d, NEW n, LineIs(d, p, n)
      PROVE  LineIs(e, p, n)
  <2>1. /\ n # 0 /\ p + 1 \in DOMAIN d
        /\ d[p] = [part |-> "head", n |-> n] /\ d[p + 1] = [part |-> "tail", n |-> n]
        /\ p + 2 \in DOMAIN d => d[p + 2] = Newline
    BY <1>5 DEF LineIs
  <2>2. d[p + 1] # Newline
    BY <2>1 DEF Newline
  <2>3. p + 1 # Len(d)
    BY <1>2, <1>5, <2>2
  <2>4. p + 2 \in DOMAIN d
    BY <1>2, <2>1, <2>3
  <2> QED
    BY <1>1, <2>1, <2>4 DEF LineIs
<1>6. Starts(d) \subseteq Starts(e)
  <2> SUFFICES ASSUME NEW p \in Starts(d) PROVE p \in Starts(e)
    OBVIOUS
  <2>1. p \in DOMAIN d /\ (p = 1 \/ d[p - 1] = Newline)
    BY DEF Starts
  <2>2. p # 1 => p - 1 \in DOMAIN d
    BY <1>2, <2>1
  <2> QED
    BY <1>1, <2>1, <2>2 DEF Starts
<1> QED
  BY <1>1, <1>4, <1>5, <1>6 DEF e

\* Where a line begins that a collection keeps there is one of an invitation
\* that was made, and the line of one that has not expired is kept.
LEMMA KeptLines ==
  ASSUME disk \in Seq(Cell)
  PROVE  /\ \A p \in Kept : p \in DOMAIN disk /\ LineIs(disk, p, Parse(LineAt(disk, p)))
         /\ \A p \in Starts(disk) : \A n : LineIs(disk, p, n) /\ now <= book[n].exp => p \in Kept
         /\ IsFiniteSet(Kept) /\ Cardinality(Kept) \in Nat
<1>1. \A p \in Kept : p \in Starts(disk) /\ Parse(LineAt(disk, p)) # 0
  BY DEF Kept
<1>2. \A p \in Starts(disk) : p \in DOMAIN disk
  BY DEF Starts
<1>3. \A p \in DOMAIN disk :
        /\ Parse(LineAt(disk, p)) # 0 => LineIs(disk, p, Parse(LineAt(disk, p)))
        /\ \A n : LineIs(disk, p, n) => Parse(LineAt(disk, p)) = n
  BY ParseLine
<1>4. ASSUME NEW p \in Starts(disk), NEW n, LineIs(disk, p, n), now <= book[n].exp
      PROVE  p \in Kept
  <2>1. Parse(LineAt(disk, p)) = n /\ n # 0
    BY <1>2, <1>3, <1>4, OneLine, Zenon
  <2> QED
    BY <1>4, <2>1 DEF Kept
<1>5. Kept \in SUBSET (1..Len(disk))
  BY <1>1, <1>2
<1>6. IsFiniteSet(Kept)
  <2>1. IsFiniteSet(1..Len(disk))
    BY FS_Interval
  <2> QED
    BY <1>5, <2>1, FS_Subset
<1> QED
  BY <1>1, <1>2, <1>3, <1>4, <1>6, FS_CardinalityType, Zenon

\* The three cells of the i-th line that is written.
LEMMA RewrittenCells ==
  ASSUME NEW o, NEW m \in Nat, NEW i \in 1..m
  PROVE  LET n == Parse(LineAt(disk, o[i]))
             e == Rewritten(o, m)
         IN /\ e[3 * i - 2] = [part |-> "head", n |-> n]
            /\ e[3 * i - 1] = [part |-> "tail", n |-> n]
            /\ e[3 * i] = Newline
<1> DEFINE n == Parse(LineAt(disk, o[i]))
           Line(j) == LineOf(Parse(LineAt(disk, o[(j + 2) \div 3])))[1 + ((j - 1) % 3)]
<1>1. \A j \in 1..(3 * m) : Rewritten(o, m)[j] = Line(j)
  BY DEF Rewritten
<1>2. /\ 3 * i - 2 \in 1..(3 * m) /\ 3 * i - 1 \in 1..(3 * m) /\ 3 * i \in 1..(3 * m)
      /\ ((3 * i - 2) + 2) \div 3 = i /\ 1 + (((3 * i - 2) - 1) % 3) = 1
      /\ ((3 * i - 1) + 2) \div 3 = i /\ 1 + (((3 * i - 1) - 1) % 3) = 2
      /\ ((3 * i) + 2) \div 3 = i /\ 1 + (((3 * i) - 1) % 3) = 3
  OBVIOUS
<1>3. /\ Line(3 * i - 2) = LineOf(n)[1] /\ Line(3 * i - 1) = LineOf(n)[2]
      /\ Line(3 * i) = LineOf(n)[3]
  BY <1>2, Zenon
<1>4. /\ LineOf(n)[1] = [part |-> "head", n |-> n] /\ LineOf(n)[2] = [part |-> "tail", n |-> n]
      /\ LineOf(n)[3] = Newline
  BY DEF LineOf
<1> HIDE DEF n, Line
<1>5. /\ Rewritten(o, m)[3 * i - 2] = Line(3 * i - 2)
      /\ Rewritten(o, m)[3 * i - 1] = Line(3 * i - 1)
      /\ Rewritten(o, m)[3 * i] = Line(3 * i)
  BY <1>1, <1>2, Zenon
<1> QED
  BY <1>3, <1>4, <1>5, Zenon DEF n

\* GC: the file that is written has a line of every invitation that is kept,
\* each at a start, ends with a newline and holds nothing else.
LEMMA RewrittenLines ==
  ASSUME disk \in Seq(Cell), NEW o \in InOrder(Kept), NEW m \in 0..Len(o)
  PROVE  /\ Rewritten(o, m) \in Seq(Cell)
         /\ \A q \in DOMAIN Rewritten(o, m) :
              Rewritten(o, m)[q].n = 0 \/ \E p \in DOMAIN disk : Rewritten(o, m)[q].n = disk[p].n
         /\ Rewritten(o, m) # <<>> => Rewritten(o, m)[Len(Rewritten(o, m))] = Newline
         /\ m = Len(o) => \A p \in Kept : \A n : LineIs(disk, p, n) =>
              \E q \in Starts(Rewritten(o, m)) : LineIs(Rewritten(o, m), q, n)
<1> DEFINE N(i) == Parse(LineAt(disk, o[i]))
           e == Rewritten(o, m)
<1>1. o \in [1..Cardinality(Kept) -> Kept] /\ \A p \in Kept : \E i \in DOMAIN o : o[i] = p
  BY DEF InOrder
<1>2. Cardinality(Kept) \in Nat
  BY KeptLines
<1>3. Len(o) = Cardinality(Kept) /\ m \in Nat /\ DOMAIN o = 1..Len(o)
  BY <1>1, <1>2
<1>4. \A i \in 1..m : o[i] \in Kept
  BY <1>1, <1>3
<1>5. ASSUME NEW i \in 1..m
      PROVE  o[i] \in DOMAIN disk /\ N(i) = disk[o[i]].n /\ N(i) \in 1..MaxInvites
  <2>1. o[i] \in DOMAIN disk /\ LineIs(disk, o[i], N(i))
    BY <1>4, KeptLines, Zenon
  <2>2. N(i) \in 0..MaxInvites
    BY <2>1, ParseLine
  <2>3. N(i) = disk[o[i]].n /\ N(i) # 0
    BY <2>1, OneLine, Zenon
  <2> QED
    BY <2>1, <2>2, <2>3, InvitationsAssumption
<1>6. ASSUME NEW i \in 1..m
      PROVE  /\ e[3 * i - 2] = [part |-> "head", n |-> N(i)]
             /\ e[3 * i - 1] = [part |-> "tail", n |-> N(i)]
             /\ e[3 * i] = Newline
  BY <1>3, RewrittenCells
<1>7. e = [j \in 1..(3 * m) |-> e[j]] /\ DOMAIN e = 1..(3 * m)
  BY DEF Rewritten
<1> HIDE DEF e, N
<1>8. ASSUME NEW j \in 1..(3 * m)
      PROVE  e[j] \in Cell /\ (e[j].n = 0 \/ \E p \in DOMAIN disk : e[j].n = disk[p].n)
  <2>1. PICK i \in 1..m : j = 3 * i - 2 \/ j = 3 * i - 1 \/ j = 3 * i
    <3>1. (j + 2) \div 3 \in 1..m
      BY <1>3
    <3>2. j = 3 * ((j + 2) \div 3) - 2 \/ j = 3 * ((j + 2) \div 3) - 1 \/ j = 3 * ((j + 2) \div 3)
      BY <1>3
    <3> QED
      BY <3>1, <3>2
  <2>2. 0 \in 0..MaxInvites /\ 1..MaxInvites \subseteq 0..MaxInvites
    BY InvitationsAssumption
  <2>3. N(i) \in 0..MaxInvites /\ N(i) = disk[o[i]].n /\ o[i] \in DOMAIN disk
    BY <1>5, <2>2
  <2>4. CASE j = 3 * i - 2
    <3>1. e[j] = [part |-> "head", n |-> N(i)]
      BY <1>6, <2>4, Zenon
    <3> QED
      BY <2>3, <3>1 DEF Cell
  <2>5. CASE j = 3 * i - 1
    <3>1. e[j] = [part |-> "tail", n |-> N(i)]
      BY <1>6, <2>5, Zenon
    <3> QED
      BY <2>3, <3>1 DEF Cell
  <2>6. CASE j = 3 * i
    <3>1. e[j] = Newline
      BY <1>6, <2>6, Zenon
    <3> QED
      BY <2>2, <3>1 DEF Cell, Newline
  <2> QED
    BY <2>1, <2>4, <2>5, <2>6
<1>9. 3 * m \in Nat
  BY <1>3
<1>10. e \in Seq(Cell) /\ Len(e) = 3 * m
  <2>1. e \in [1..(3 * m) -> Cell]
    BY <1>7, <1>8
  <2> QED
    BY <1>9, <2>1
<1>11. e # <<>> => e[Len(e)] = Newline
  <2>1. CASE m = 0
    BY <1>10, <2>1
  <2>2. CASE m # 0
    <3>1. m \in 1..m
      BY <1>3, <2>2
    <3> QED
      BY <1>6, <1>10, <3>1, Zenon
  <2> QED
    BY <2>1, <2>2
<1>12. ASSUME m = Len(o), NEW p \in Kept, NEW n, LineIs(disk, p, n)
       PROVE  \E q \in Starts(e) : LineIs(e, q, n)
  <2>1. PICK i \in 1..m : o[i] = p
    BY <1>1, <1>3, <1>12
  <2>2. p \in DOMAIN disk
    BY <1>12, OneLine
  <2>3. N(i) = n /\ n # 0
    <3>1. \A x : LineIs(disk, p, x) => Parse(LineAt(disk, p)) = x
      BY <2>2, ParseLine
    <3> QED
      BY <1>12, <2>1, <3>1, OneLine, Zenon DEF N
  <2> DEFINE q == 3 * i - 2
  <2>4. /\ q \in DOMAIN e /\ q + 1 \in DOMAIN e /\ q + 2 \in DOMAIN e
        /\ q + 1 = 3 * i - 1 /\ q + 2 = 3 * i
    BY <1>3, <1>7
  <2>5. e[q] = [part |-> "head", n |-> n] /\ e[q + 1] = [part |-> "tail", n |-> n]
        /\ e[q + 2] = Newline
    BY <1>6, <2>3, <2>4, Zenon
  <2>6. q = 1 \/ e[q - 1] = Newline
    <3>1. CASE i = 1
      BY <3>1
    <3>2. CASE i # 1
      <4>1. i - 1 \in 1..m /\ q - 1 = 3 * (i - 1)
        BY <1>3, <3>2
      <4> QED
        BY <1>6, <4>1, Zenon
    <3> QED
      BY <3>1, <3>2
  <2>7. q \in Starts(e) /\ LineIs(e, q, n)
    <3> HIDE DEF q
    <3> QED
      BY <2>3, <2>4, <2>5, <2>6 DEF Starts, LineIs
  <2> QED
    BY <2>7, Zenon
<1> QED
  BY <1>7, <1>8, <1>10, <1>11, <1>12, Zenon DEF e

\* buildIndex over a file of invitations that were made: its offsets are
\* aligned, and an invitation that has a line and alone has its token is found.
LEMMA Rebuilt ==
  ASSUME NEW d \in Seq(Cell), book \in Seq(Invite), \A i \in DOMAIN d : d[i].n <= Len(book)
  PROVE  LET x == IndexOf(d, book)
         IN /\ x \in [Tokens -> Nat]
            /\ \A k \in Tokens : x[k] # 0 =>
                 /\ x[k] \in DOMAIN d
                 /\ \A n \in 1..Len(book) : LineIs(d, x[k], n) => book[n].tok = k
            /\ \A n \in DOMAIN book :
                 /\ \A i \in DOMAIN book : book[i].tok = book[n].tok => i = n
                 /\ \E p \in Starts(d) : LineIs(d, p, n)
                 => LineIs(d, x[book[n].tok], n)
<1> DEFINE x == IndexOf(d, book)
<1>1. /\ x \in [Tokens -> Nat]
      /\ \A k \in Tokens : x[k] # 0 =>
              /\ x[k] \in DOMAIN d
              /\ \E n : LineIs(d, x[k], n) /\ book[n].tok = k
      /\ \A k \in Tokens, p \in Starts(d) : \A n :
              LineIs(d, p, n) /\ book[n].tok = k => x[k] # 0
  BY IndexOfProperties
<1> HIDE DEF x
<1>2. ASSUME NEW k \in Tokens, x[k] # 0, NEW n \in 1..Len(book), LineIs(d, x[k], n)
      PROVE  book[n].tok = k
  <2>1. PICK m : LineIs(d, x[k], m) /\ book[m].tok = k
    BY <1>1, <1>2, Zenon
  <2>2. m = n
    BY <1>2, <2>1 DEF LineIs
  <2> QED
    BY <2>1, <2>2
<1>3. ASSUME NEW n \in DOMAIN book, NEW p \in Starts(d), LineIs(d, p, n),
             \A i \in DOMAIN book : book[i].tok = book[n].tok => i = n
      PROVE  LineIs(d, x[book[n].tok], n)
  <2> DEFINE k == book[n].tok
  <2>1. k \in Tokens
    <3>1. book[n] \in Invite
      OBVIOUS
    <3> QED
      BY <3>1 DEF Invite
  <2>2. x[k] # 0
    BY <1>1, <1>3, <2>1, Zenon
  <2>3. PICK m : LineIs(d, x[k], m) /\ book[m].tok = k
    BY <1>1, <2>1, <2>2, Zenon
  <2>4. m # 0 /\ m = d[x[k]].n /\ x[k] \in DOMAIN d
    BY <2>3 DEF LineIs
  <2>5. m \in DOMAIN book
    <3>1. \A c \in Cell : c.n \in 0..MaxInvites
      BY DEF Cell
    <3>2. d[x[k]] \in Cell /\ d[x[k]].n <= Len(book)
      BY <2>4
    <3>3. m \in Nat /\ m <= Len(book) /\ Len(book) \in Nat
      BY <2>4, <3>1, <3>2
    <3> QED
      BY <2>4, <3>3
  <2>6. m = n
    BY <1>3, <2>3, <2>5, Zenon
  <2> QED
    BY <2>3, <2>6
<1> QED
  BY <1>1, <1>2, <1>3, Zenon DEF x

\* What is found is an invitation of the token.
LEMMA FoundInvite ==
  ASSUME InviteTypeOK, Numbered, Aligned, NEW k \in Tokens
  PROVE  /\ Found(k) \in 0..MaxInvites
         /\ Found(k) # 0 => Found(k) \in DOMAIN book /\ book[Found(k)].tok = k
<1>1. CASE ~open \/ index[k] = 0
  BY <1>1, InvitationsAssumption DEF Found
<1>2. CASE open /\ index[k] # 0
  <2> DEFINE n == Parse(LineAt(disk, index[k]))
  <2>1. Found(k) = n
    BY <1>2 DEF Found
  <2>2. /\ index[k] \in DOMAIN disk
        /\ \A i \in 1..Len(book) : LineIs(disk, index[k], i) => book[i].tok = k
    BY <1>2 DEF Aligned
  <2>3. n \in 0..MaxInvites /\ (n # 0 => LineIs(disk, index[k], n))
    BY <2>2, ParseLine DEF InviteTypeOK
  <2>4. n # 0 => n = disk[index[k]].n
    BY <2>3, OneLine, Zenon
  <2>5. n # 0 => n <= Len(book)
    BY <2>2, <2>4 DEF Numbered
  <2> HIDE DEF n
  <2>6. n # 0 => n \in 1..Len(book) /\ 1..Len(book) = DOMAIN book
    BY <2>3, <2>5, InvitationsAssumption DEF InviteTypeOK
  <2> QED
    BY <2>1, <2>2, <2>3, <2>6, Zenon
<1> QED
  BY <1>1, <1>2

--------------------------------------------------------------------------------
(* The invariant of the invitations *)

\* An empty file, an empty index and no requests.
LEMMA InviteInitInv == InviteInit => IInv
<1> SUFFICES ASSUME InviteInit PROVE IInv
  OBVIOUS
<1> USE InvitationsAssumption DEF InviteInit
<1>1. InviteTypeOK
  BY DEF InviteTypeOK
<1>2. Numbered /\ Aligned /\ Answers /\ Findable
  BY DEF Numbered, Aligned, Answers, Findable, Live
<1>3. Remembered /\ RateBound
  BY FS_EmptySet DEF Remembered, RateBound
<1> QED
  BY <1>1, <1>2, <1>3 DEF IInv

\* Time only lets invitations expire and attempts leave the window.
LEMMA TickInv == ASSUME IInv, Tick PROVE IInv'
<1> USE DEF IInv, Tick, store, limit, serve
<1>1. now \in Nat /\ now' = now + 1 /\ now' \in 0..MaxTime
  BY InvitationsAssumption DEF InviteTypeOK
<1>2. InviteTypeOK'
  <2>1. Attempt(now) \subseteq Attempt(now') /\ 0..now \subseteq 0..now'
    BY <1>1 DEF Attempt
  <2>2. rl' \in [Clients -> SUBSET Attempt(now')]
    BY <2>1 DEF InviteTypeOK
  <2>3. \A c \in Clients : tried[c] \in Seq(0..now')
    BY <2>1 DEF InviteTypeOK
  <2>4. tried' \in [Clients -> Seq(0..now')]
    BY <2>3 DEF InviteTypeOK
  <2> QED
    BY <1>1, <2>2, <2>4 DEF InviteTypeOK
<1>3. Numbered' /\ Aligned' /\ Answers'
  BY DEF Numbered, Aligned, Answers
<1>4. Findable'
  <2>1. \A n \in known : book[n].exp \in Nat
    <3>1. \A n \in known : book[n] \in Invite
      BY DEF InviteTypeOK
    <3> QED
      BY <3>1 DEF Invite
  <2>2. \A n \in known : Live(n)' => Live(n)
    BY <1>1, <2>1 DEF Live
  <2> QED
    BY <2>2 DEF Findable
<1>5. Remembered' /\ RateBound'
  <2>1. \A c \in Clients : \A i \in DOMAIN tried[c] : tried[c][i] \in Nat
    BY <1>1 DEF InviteTypeOK
  <2> QED
    BY <1>1, <2>1, InvitationsAssumption DEF Remembered, RateBound
<1> QED
  BY <1>2, <1>3, <1>4, <1>5

\* What is in the store does not depend on the limiter and the requests.
LEMMA StoreFrame ==
  ASSUME Numbered, Aligned, Findable, UNCHANGED <<store, now, faults>>
  PROVE  Numbered' /\ Aligned' /\ Findable'
BY DEF Numbered, Aligned, Findable, Live, store

\* Nor does the limiter depend on the store and the requests.
LEMMA LimitFrame ==
  ASSUME Remembered, RateBound, UNCHANGED <<limit, now>>
  PROVE  Remembered' /\ RateBound'
BY DEF Remembered, RateBound, limit

\* checkRateLimit: of MaxAttempts attempts in a row that are all kept and in
\* the window, a further one is not let through.
LEMMA Recents ==
  ASSUME NEW c \in Clients, InviteTypeOK, Remembered, Len(tried[c]) >= MaxAttempts,
         tried[c][Len(tried[c]) + 1 - MaxAttempts] + Window > now
  PROVE  Cardinality(Recent(c)) >= MaxAttempts
<1> DEFINE L == Len(tried[c])
           I == (L + 1 - MaxAttempts)..L
           f == [i \in I |-> [n |-> i, at |-> tried[c][i]]]
<1>1. /\ MaxAttempts \in Nat /\ MaxAttempts > 0 /\ L \in Nat /\ Window \in Nat
      /\ DOMAIN tried[c] = 1..L /\ now \in Nat
      /\ \A i \in 1..L : tried[c][i] \in Nat
  <2>1. tried[c] \in Seq(0..now) /\ now \in Nat
    BY InvitationsAssumption DEF InviteTypeOK
  <2>2. DOMAIN tried[c] = 1..L /\ L \in Nat /\ \A i \in 1..L : tried[c][i] \in 0..now
    BY <2>1
  <2>3. \A x \in 0..now : x \in Nat
    BY <2>1
  <2> HIDE DEF L
  <2> QED
    BY <2>1, <2>2, <2>3, InvitationsAssumption
<1>2. \A i \in I : i \in DOMAIN tried[c]
  BY <1>1
<1>3. L + 1 - MaxAttempts \in DOMAIN tried[c]
  BY <1>1
<1>4. \A i \in I : tried[c][i] + Window > now
  <2> TAKE i \in I
  <2>1. tried[c][L + 1 - MaxAttempts] <= tried[c][i]
    BY <1>1, <1>2, <1>3 DEF Remembered
  <2>2. tried[c][L + 1 - MaxAttempts] \in Nat /\ tried[c][i] \in Nat
    BY <1>1, <1>2, <1>3, Zenon
  <2>3. tried[c][L + 1 - MaxAttempts] + Window > now
    OBVIOUS
  <2> HIDE DEF L, I
  <2> QED
    BY <1>1, <2>1, <2>2, <2>3
<1>5. \A i \in I : [n |-> i, at |-> tried[c][i]] \in Recent(c)
  <2> TAKE i \in I
  <2>1. [n |-> i, at |-> tried[c][i]] \in rl[c]
    BY <1>2, <1>4, Zenon DEF Remembered
  <2> QED
    BY <1>4, <2>1 DEF Recent
<1>6. f \in Injection(I, Recent(c))
  <2> HIDE DEF I
  <2>1. f \in [I -> Recent(c)]
    BY <1>5
  <2>2. \A i, j \in I : f[i] = f[j] => i = j
    OBVIOUS
  <2> HIDE DEF f
  <2> QED
    BY <2>1, <2>2 DEF Injection, IsInjective
<1>7. IsFiniteSet(Recent(c)) /\ Cardinality(Recent(c)) \in Nat
  <2>1. IsFiniteSet(rl[c]) /\ Recent(c) \in SUBSET rl[c]
    BY DEF Remembered, Recent
  <2> QED
    BY <2>1, FS_Subset, FS_CardinalityType
<1>8. Cardinality(I) <= Cardinality(Recent(c))
  <2> HIDE DEF I, f
  <2> QED
    BY <1>6, <1>7, FS_Injection
<1>9. Cardinality(I) = MaxAttempts
  <2>1. L + 1 - MaxAttempts \in Int /\ L \in Int
    BY <1>1
  <2>2. Cardinality(I) = IF L + 1 - MaxAttempts > L THEN 0 ELSE L - (L + 1 - MaxAttempts) + 1
    BY <2>1, FS_Interval
  <2> HIDE DEF L, I
  <2> QED
    BY <1>1, <2>2
<1> QED
  BY <1>1, <1>7, <1>8, <1>9

\* An attempt that is let through is kept with all those still in the window.
LEMMA LetThrough ==
  ASSUME NEW c \in Clients, InviteTypeOK, Remembered, RateBound, checkRateLimit(c), now' = now
  PROVE  /\ rl' \in [Clients -> SUBSET Attempt(now)] /\ tried' \in [Clients -> Seq(0..now)]
         /\ Remembered' /\ RateBound'
<1> DEFINE L == Len(tried[c])
           a == [n |-> L + 1, at |-> now]
<1>1. /\ MaxAttempts \in Nat /\ MaxAttempts > 0 /\ L \in Nat /\ Window \in Nat
      /\ now \in Nat /\ tried[c] \in Seq(0..now) /\ DOMAIN tried[c] = 1..L
  BY InvitationsAssumption DEF InviteTypeOK
<1>2. /\ DOMAIN rl' = Clients /\ DOMAIN tried' = Clients
      /\ rl'[c] = Recent(c) \cup {a} /\ tried'[c] = Append(tried[c], now)
      /\ \A d \in Clients \ {c} : rl'[d] = rl[d] /\ tried'[d] = tried[d]
  BY DEF checkRateLimit, InviteTypeOK
<1>3. /\ tried'[c] \in Seq(0..now) /\ Len(tried'[c]) = L + 1 /\ DOMAIN tried'[c] = 1..(L + 1)
      /\ tried'[c][L + 1] = now /\ \A i \in 1..L : tried'[c][i] = tried[c][i]
  BY <1>1, <1>2
<1>4. \A i \in 1..L : tried[c][i] \in 0..now
  BY <1>1
<1>5. a \in Attempt(now) /\ Recent(c) \subseteq Attempt(now)
  BY <1>1 DEF Attempt, Recent, InviteTypeOK
<1>6. rl' \in [Clients -> SUBSET Attempt(now)]
  <2>1. \A d \in Clients : rl'[d] \in SUBSET Attempt(now)
    <3> HIDE DEF a
    <3> QED
      BY <1>2, <1>5 DEF InviteTypeOK
  <2>2. rl' = [d \in Clients |-> rl'[d]]
    BY DEF checkRateLimit, InviteTypeOK
  <2> QED
    BY <2>1, <2>2, Zenon
<1>7. tried' \in [Clients -> Seq(0..now)]
  <2>1. \A d \in Clients : tried'[d] \in Seq(0..now)
    BY <1>2, <1>3 DEF InviteTypeOK
  <2>2. tried' = [d \in Clients |-> tried'[d]]
    BY DEF checkRateLimit, InviteTypeOK
  <2> QED
    BY <2>1, <2>2, Zenon
<1> HIDE DEF L
<1>8. Remembered'
  <2> SUFFICES ASSUME NEW d \in Clients
               PROVE  /\ IsFiniteSet(rl'[d])
                      /\ \A i, j \in DOMAIN tried'[d] : i <= j => tried'[d][i] <= tried'[d][j]
                      /\ \A i \in DOMAIN tried'[d] :
                           tried'[d][i] + Window > now => [n |-> i, at |-> tried'[d][i]] \in rl'[d]
    BY DEF Remembered
  <2>1. CASE d # c
    BY <1>2, <2>1 DEF Remembered
  <2>2. CASE d = c
    <3>1. IsFiniteSet(rl'[c])
      <4>1. IsFiniteSet(rl[c]) /\ Recent(c) \in SUBSET rl[c]
        BY DEF Remembered, Recent
      <4>2. IsFiniteSet(Recent(c))
        BY <4>1, FS_Subset
      <4> HIDE DEF a
      <4> QED
        BY <1>2, <4>2, FS_AddElement
    <3>2. \A i, j \in 1..(L + 1) : i <= j => tried'[c][i] <= tried'[c][j]
      <4> SUFFICES ASSUME NEW i \in 1..(L + 1), NEW j \in 1..(L + 1), i <= j
                   PROVE  tried'[c][i] <= tried'[c][j]
        OBVIOUS
      <4>1. CASE j = L + 1
        <5>1. tried'[c][i] \in 0..now
          BY <1>1, <1>3
        <5> QED
          BY <1>1, <1>3, <4>1, <5>1
      <4>2. CASE j # L + 1
        <5>1. i \in 1..L /\ j \in 1..L
          BY <1>1, <4>2
        <5>2. tried[c][i] <= tried[c][j]
          BY <1>1, <5>1 DEF Remembered
        <5> QED
          BY <1>3, <5>1, <5>2
      <4> QED
        BY <4>1, <4>2
    <3>3. ASSUME NEW i \in 1..(L + 1), tried'[c][i] + Window > now
          PROVE  [n |-> i, at |-> tried'[c][i]] \in rl'[c]
      <4>1. CASE i = L + 1
        BY <1>2, <1>3, <4>1
      <4>2. CASE i # L + 1
        <5>1. i \in 1..L /\ tried'[c][i] = tried[c][i]
          BY <1>1, <1>3, <4>2
        <5>2. [n |-> i, at |-> tried[c][i]] \in rl[c]
          BY <1>1, <3>3, <5>1 DEF Remembered
        <5>3. [n |-> i, at |-> tried[c][i]] \in Recent(c)
          BY <3>3, <5>1, <5>2 DEF Recent
        <5> HIDE DEF a
        <5> QED
          BY <1>2, <5>1, <5>3
      <4> QED
        BY <4>1, <4>2
    <3> QED
      BY <1>3, <2>2, <3>1, <3>2, <3>3
  <2> QED
    BY <2>1, <2>2
<1>9. RateBound'
  <2> SUFFICES ASSUME NEW d \in Clients, NEW i \in DOMAIN tried'[d], i > MaxAttempts
               PROVE  tried'[d][i - MaxAttempts] + Window <= tried'[d][i]
    BY DEF RateBound
  <2>1. CASE d # c
    BY <1>2, <2>1 DEF RateBound
  <2>2. CASE d = c /\ i = L + 1
    <3>1. L >= MaxAttempts /\ L + 1 - MaxAttempts \in 1..L
      BY <1>1, <2>2
    <3>2. ~(tried[c][L + 1 - MaxAttempts] + Window > now)
      <4>1. Cardinality(Recent(c)) < MaxAttempts
        BY DEF checkRateLimit
      <4>2. IsFiniteSet(rl[c]) /\ Recent(c) \in SUBSET rl[c]
        BY DEF Remembered, Recent
      <4>3. Cardinality(Recent(c)) \in Nat
        BY <4>2, FS_Subset, FS_CardinalityType
      <4>4. ~(Cardinality(Recent(c)) >= MaxAttempts)
        BY <1>1, <4>1, <4>3
      <4> QED
        BY <3>1, <4>4, Recents, Zenon DEF L
    <3>3. tried[c][L + 1 - MaxAttempts] \in 0..now
      BY <1>4, <3>1, Zenon
    <3>4. tried'[c][L + 1 - MaxAttempts] = tried[c][L + 1 - MaxAttempts]
      BY <1>3, <3>1, Zenon
    <3>5. tried[c][L + 1 - MaxAttempts] + Window <= now
      BY <1>1, <3>2, <3>3
    <3>6. tried'[d][i - MaxAttempts] = tried'[c][L + 1 - MaxAttempts] /\ tried'[d][i] = now
      <4>1. d = c /\ i = L + 1 /\ tried'[c][L + 1] = now
        BY <1>3, <2>2
      <4>2. i - MaxAttempts = L + 1 - MaxAttempts
        BY <1>1, <4>1
      <4> QED
        BY <4>1, <4>2, Zenon
    <3> QED
      BY <3>4, <3>5, <3>6
  <2>3. CASE d = c /\ i # L + 1
    <3>1. i \in 1..(L + 1) /\ i # L + 1
      BY <1>3, <2>3
    <3>2. i \in 1..L /\ i - MaxAttempts \in 1..L
      BY <1>1, <3>1
    <3>3. tried[c][i - MaxAttempts] + Window <= tried[c][i]
      BY <1>1, <3>2 DEF RateBound
    <3> QED
      BY <1>3, <2>3, <3>2, <3>3, Zenon
  <2> QED
    BY <2>1, <2>2, <2>3
<1> QED
  BY <1>6, <1>7, <1>8, <1>9

\* A refused attempt only forgets what has left the window.
LEMMA Refused ==
  ASSUME NEW c \in Clients, InviteTypeOK, Remembered, RateBound, TooMany(c), now' = now
  PROVE  /\ rl' \in [Clients -> SUBSET Attempt(now)] /\ tried' \in [Clients -> Seq(0..now)]
         /\ Remembered' /\ RateBound'
<1>1. tried' = tried /\ rl' = [rl EXCEPT ![c] = Recent(c)]
  BY DEF TooMany
<1>2. Recent(c) \subseteq rl[c] /\ DOMAIN rl = Clients
  BY DEF Recent, InviteTypeOK
<1>3. /\ rl'[c] = Recent(c) /\ \A d \in Clients \ {c} : rl'[d] = rl[d]
      /\ rl' = [d \in Clients |-> rl'[d]]
  BY <1>1, <1>2
<1>4. rl' \in [Clients -> SUBSET Attempt(now)]
  <2>1. \A d \in Clients : rl'[d] \in SUBSET Attempt(now)
    BY <1>2, <1>3 DEF InviteTypeOK
  <2> QED
    BY <1>3, <2>1, Zenon
<1>5. Remembered'
  <2> SUFFICES ASSUME NEW d \in Clients
               PROVE  /\ IsFiniteSet(rl'[d])
                      /\ \A i \in DOMAIN tried[d] :
                           tried[d][i] + Window > now => [n |-> i, at |-> tried[d][i]] \in rl'[d]
    BY <1>1 DEF Remembered
  <2>1. CASE d # c
    BY <1>3, <2>1 DEF Remembered
  <2>2. CASE d = c
    <3>1. IsFiniteSet(rl'[c])
      BY <1>2, <1>3, FS_Subset DEF Remembered
    <3>2. \A i \in DOMAIN tried[c] :
            tried[c][i] + Window > now => [n |-> i, at |-> tried[c][i]] \in Recent(c)
      BY DEF Remembered, Recent
    <3> QED
      BY <1>3, <2>2, <3>1, <3>2
  <2> QED
    BY <2>1, <2>2
<1>6. RateBound'
  BY <1>1 DEF RateBound
<1> QED
  BY <1>1, <1>4, <1>5, <1>6 DEF InviteTypeOK

\* A request is let through or refused.
LEMMA BeginInv == ASSUME IInv, NEW r \in Requests, Begin(r) PROVE IInv'
<1> USE DEF IInv
<1>1. UNCHANGED <<store, now, faults>> /\ got' = [got EXCEPT ![r] = 0]
  BY DEF Begin
<1>2. PICK c \in Clients :
        \/ /\ checkRateLimit(c) /\ step' = [step EXCEPT ![r] = "find"]
           /\ \E a \in Ask : ask' = [ask EXCEPT ![r] = a]
        \/ /\ TooMany(c) /\ step' = [step EXCEPT ![r] = "idle"]
           /\ ask' = [ask EXCEPT ![r] = None]
  BY DEF Begin
<1>3. /\ rl' \in [Clients -> SUBSET Attempt(now)] /\ tried' \in [Clients -> Seq(0..now)]
      /\ Remembered' /\ RateBound'
  <2>1. CASE checkRateLimit(c)
    BY <1>1, <2>1, LetThrough
  <2>2. CASE TooMany(c)
    BY <1>1, <2>2, Refused
  <2> QED
    BY <1>2, <2>1, <2>2
<1>4. /\ step' \in [Requests -> {"idle", "find", "answer", "shown"}]
      /\ ask' \in [Requests -> Ask \cup {None}] /\ got' \in [Requests -> 0..MaxInvites]
  <2>1. step' \in [Requests -> {"idle", "find", "answer", "shown"}]
    BY <1>2 DEF InviteTypeOK
  <2>2. \E a \in Ask \cup {None} : ask' = [ask EXCEPT ![r] = a]
    BY <1>2
  <2>3. ask' \in [Requests -> Ask \cup {None}]
    BY <2>2 DEF InviteTypeOK
  <2>4. got' \in [Requests -> 0..MaxInvites]
    BY <1>1, InvitationsAssumption DEF InviteTypeOK
  <2> QED
    BY <2>1, <2>3, <2>4
<1>5. InviteTypeOK'
  BY <1>1, <1>3, <1>4 DEF InviteTypeOK, store
<1>6. Answers'
  <2>1. \A s \in Requests \ {r} : step'[s] = step[s] /\ ask'[s] = ask[s] /\ got'[s] = got[s]
    BY <1>1, <1>2 DEF InviteTypeOK
  <2>2. got'[r] = 0 /\ (step'[r] = "idle" \/ (step'[r] = "find" /\ ask'[r] \in Ask))
    BY <1>1, <1>2 DEF InviteTypeOK
  <2>3. book' = book
    BY <1>1 DEF store
  <2> QED
    BY <2>1, <2>2, <2>3 DEF Answers
<1> QED
  BY <1>1, <1>3, <1>5, <1>6, StoreFrame

\* A request looks its token up.
LEMMA LookupInv == ASSUME IInv, NEW r \in Requests, Lookup(r) PROVE IInv'
<1> USE DEF IInv
<1>1. /\ UNCHANGED <<store, limit, ask, now, faults>> /\ step[r] = "find"
      /\ step' = [step EXCEPT ![r] = "answer"] /\ got' = [got EXCEPT ![r] = Found(ask[r].tok)]
  BY DEF Lookup
<1>2. ask[r] \in Ask /\ ask[r].tok \in Tokens
  BY <1>1 DEF Answers, Ask
<1> DEFINE n == Found(ask[r].tok)
<1>3. n \in 0..MaxInvites /\ (n # 0 => n \in DOMAIN book /\ book[n].tok = ask[r].tok)
  BY <1>2, FoundInvite
<1> HIDE DEF n
<1>4. InviteTypeOK'
  <2>1. got' \in [Requests -> 0..MaxInvites]
    BY <1>1, <1>3 DEF InviteTypeOK, n
  <2> QED
    BY <1>1, <2>1 DEF InviteTypeOK, store, limit
<1>5. Answers'
  <2>1. \A s \in Requests \ {r} : step'[s] = step[s] /\ ask'[s] = ask[s] /\ got'[s] = got[s]
    BY <1>1 DEF InviteTypeOK
  <2>2. step'[r] = "answer" /\ got'[r] = n /\ ask'[r] = ask[r]
    BY <1>1 DEF InviteTypeOK, n
  <2>3. book' = book
    BY <1>1 DEF store
  <2> QED
    BY <1>2, <1>3, <2>1, <2>2, <2>3 DEF Answers
<1> QED
  BY <1>1, <1>4, <1>5, StoreFrame, LimitFrame

\* A request is answered: what it shows is what it has found.
LEMMA AnswerInv == ASSUME IInv, NEW r \in Requests, Answer(r) PROVE IInv'
<1> USE DEF IInv
<1>1. UNCHANGED <<store, limit, now, faults>> /\ step[r] = "answer"
  BY DEF Answer
<1>2. \/ got[r] # 0 /\ step' = [step EXCEPT ![r] = "shown"] /\ UNCHANGED <<ask, got>>
      \/ /\ step' = [step EXCEPT ![r] = "idle"] /\ ask' = [ask EXCEPT ![r] = None]
         /\ got' = [got EXCEPT ![r] = 0]
  BY DEF Answer, Shown
<1>3. InviteTypeOK'
  <2>1. /\ step' \in [Requests -> {"idle", "find", "answer", "shown"}]
        /\ ask' \in [Requests -> Ask \cup {None}] /\ got' \in [Requests -> 0..MaxInvites]
    <3>1. step' \in [Requests -> {"idle", "find", "answer", "shown"}]
      BY <1>2 DEF InviteTypeOK
    <3>2. ask' \in [Requests -> Ask \cup {None}]
      BY <1>2 DEF InviteTypeOK
    <3>3. got' \in [Requests -> 0..MaxInvites]
      <4>1. 0 \in 0..MaxInvites
        BY InvitationsAssumption
      <4>2. got' = got \/ got' = [got EXCEPT ![r] = 0]
        BY <1>2
      <4> QED
        BY <4>1, <4>2 DEF InviteTypeOK
    <3> QED
      BY <3>1, <3>2, <3>3
  <2> QED
    BY <1>1, <2>1 DEF InviteTypeOK, store, limit
<1>4. Answers'
  <2>1. \A s \in Requests \ {r} : step'[s] = step[s] /\ ask'[s] = ask[s] /\ got'[s] = got[s]
    BY <1>2 DEF InviteTypeOK
  <2>2. \/ step'[r] = "idle"
        \/ step'[r] = "shown" /\ got[r] # 0 /\ got'[r] = got[r] /\ ask'[r] = ask[r]
    BY <1>2 DEF InviteTypeOK
  <2>3. book' = book
    BY <1>1 DEF store
  <2> QED
    BY <1>1, <2>1, <2>2, <2>3 DEF Answers
<1> QED
  BY <1>1, <1>3, <1>4, StoreFrame, LimitFrame

\* The daemon starts again: the index is built from what is left of the file.
LEMMA RestartInv == ASSUME IInv, Restart PROVE IInv'
<1> USE DEF IInv
<1>1. /\ UNCHANGED <<book, known, now>> /\ open' = TRUE /\ index' = IndexOf(disk', book)
      /\ rl' = [c \in Clients |-> {}] /\ tried' = [c \in Clients |-> <<>>]
      /\ step' = [r \in Requests |-> "idle"] /\ ask' = [r \in Requests |-> None]
      /\ got' = [r \in Requests |-> 0]
  BY DEF Restart
<1>2. \/ disk' = disk /\ faults' = faults
      \/ /\ faults' = faults + 1 /\ faults < MaxFaults
         /\ \E m \in 0..(Len(disk) - 1) : disk' = SubSeq(disk, 1, m)
  BY DEF Restart, Fault
<1>3. /\ disk' \in Seq(Cell) /\ \A i \in DOMAIN disk' : i \in DOMAIN disk /\ disk'[i] = disk[i]
      /\ faults' \in 0..MaxFaults /\ (faults' = 0 => faults = 0 /\ disk' = disk)
  <2>1. /\ faults \in Nat /\ MaxFaults \in Nat /\ faults <= MaxFaults
        /\ disk \in Seq(Cell) /\ Len(disk) \in Nat
    BY InvitationsAssumption DEF InviteTypeOK
  <2>2. CASE disk' = disk /\ faults' = faults
    BY <2>1, <2>2
  <2>3. CASE /\ faults' = faults + 1 /\ faults < MaxFaults
             /\ \E m \in 0..(Len(disk) - 1) : disk' = SubSeq(disk, 1, m)
    <3>1. PICK m \in 0..(Len(disk) - 1) : disk' = SubSeq(disk, 1, m)
      BY <2>3
    <3>2. m \in Nat /\ m <= Len(disk) /\ \A i \in 1..m : disk[i] \in Cell
      BY <2>1
    <3>3. /\ disk' \in Seq(Cell) /\ Len(disk') = m
          /\ \A i \in 1..m : disk'[i] = disk[i]
      BY <2>1, <3>1, <3>2, SubSeqProperties
    <3>4. \A i \in DOMAIN disk' : i \in DOMAIN disk /\ disk'[i] = disk[i]
      BY <2>1, <3>2, <3>3
    <3> QED
      BY <2>1, <2>3, <3>3, <3>4
  <2> QED
    BY <1>2, <2>2, <2>3
<1>4. Numbered'
  BY <1>1, <1>3 DEF Numbered
<1>5. /\ index' \in [Tokens -> Nat]
      /\ \A k \in Tokens : index'[k] # 0 =>
           /\ index'[k] \in DOMAIN disk'
           /\ \A n \in 1..Len(book) : LineIs(disk', index'[k], n) => book[n].tok = k
      /\ \A n \in DOMAIN book :
           /\ \A i \in DOMAIN book : book[i].tok = book[n].tok => i = n
           /\ \E p \in Starts(disk') : LineIs(disk', p, n)
           => LineIs(disk', index'[book[n].tok], n)
  <2>1. book \in Seq(Invite) /\ \A i \in DOMAIN disk' : disk'[i].n <= Len(book)
    BY <1>1, <1>4 DEF Numbered, InviteTypeOK
  <2> QED
    BY <1>1, <1>3, <2>1, Rebuilt
<1>6. Aligned'
  BY <1>1, <1>5 DEF Aligned
<1>7. InviteTypeOK'
  BY <1>1, <1>3, <1>5, InvitationsAssumption DEF InviteTypeOK
<1>8. Findable'
  <2> SUFFICES ASSUME faults' = 0 PROVE
        /\ disk' # <<>> => disk'[Len(disk')] = Newline
        /\ \A n \in known : Live(n)' =>
             /\ LineIs(disk', index'[book[n].tok], n)
             /\ \E p \in Starts(disk') : LineIs(disk', p, n)
    BY <1>1 DEF Findable
  <2>1. faults = 0 /\ disk' = disk
    BY <1>3
  <2>2. \A n \in known : Live(n)' => Live(n) /\ n \in DOMAIN book
    BY <1>1 DEF Live, InviteTypeOK
  <2>3. \A n \in known : Live(n) => \A i \in DOMAIN book : book[i].tok = book[n].tok => i = n
    BY DEF Live
  <2> QED
    BY <1>5, <2>1, <2>2, <2>3 DEF Findable
<1>9. Answers'
  BY <1>1 DEF Answers
<1>10. Remembered' /\ RateBound'
  BY <1>1, FS_EmptySet DEF Remembered, RateBound
<1> QED
  BY <1>4, <1>6, <1>7, <1>8, <1>9, <1>10

\* A collection: the lines of live invitations are kept, the index follows them.
LEMMA GCInv == ASSUME IInv, GC PROVE IInv'
<1> USE DEF IInv
<1>1. UNCHANGED <<book, known, limit, serve, now>>
  BY DEF GC
<1>2. PICK o \in InOrder(Kept) :
        \/ /\ disk' = Rewritten(o, Len(o)) /\ index' = IndexOf(disk', book)
           /\ open' = open /\ faults' = faults
        \/ /\ \/ disk' = disk /\ index' = index
              \/ \E m \in 0..Len(o) : index' = IndexOf(Rewritten(o, m), book) /\ disk' = disk
              \/ disk' = Rewritten(o, Len(o)) /\ index' = IndexOf(disk', book)
           /\ open' = FALSE /\ faults < MaxFaults /\ faults' = faults + 1
  BY DEF GC, Fault
<1>3. disk \in Seq(Cell) /\ Len(o) \in Nat
  <2>1. Cardinality(Kept) \in Nat
    BY KeptLines DEF InviteTypeOK
  <2>2. o \in [1..Cardinality(Kept) -> Kept]
    BY DEF InOrder
  <2> QED
    BY <2>1, <2>2 DEF InviteTypeOK
<1> DEFINE e == Rewritten(o, Len(o))
<1>4. /\ e \in Seq(Cell) /\ (e # <<>> => e[Len(e)] = Newline)
      /\ \A q \in DOMAIN e : e[q].n = 0 \/ \E p \in DOMAIN disk : e[q].n = disk[p].n
      /\ \A p \in Kept : \A n : LineIs(disk, p, n) => \E q \in Starts(e) : LineIs(e, q, n)
  BY <1>3, RewrittenLines
<1>5. \A m \in 0..Len(o) : Rewritten(o, m) \in Seq(Cell)
  BY <1>3, RewrittenLines
<1> HIDE DEF e
<1>6. book \in Seq(Invite) /\ \A i \in DOMAIN e : e[i].n <= Len(book)
  <2>1. Len(book) \in Nat /\ book \in Seq(Invite)
    BY DEF InviteTypeOK
  <2> QED
    BY <1>4, <2>1 DEF Numbered
<1>7. disk' = disk \/ disk' = e
  BY <1>2 DEF e
<1>8. Numbered'
  BY <1>1, <1>6, <1>7 DEF Numbered
<1>9. InviteTypeOK'
  <2>1. disk' \in Seq(Cell)
    BY <1>3, <1>4, <1>7
  <2>2. index' \in [Tokens -> Nat]
    <3>1. \A d \in Seq(Cell) : IndexOf(d, book) \in [Tokens -> Nat]
      BY IndexOfProperties
    <3> QED
      BY <1>2, <1>5, <2>1, <3>1 DEF InviteTypeOK
  <2>3. open' \in BOOLEAN /\ faults' \in 0..MaxFaults
    <3>1. open' \in BOOLEAN
      BY <1>2, Zenon DEF InviteTypeOK
    <3>2. faults' = faults \/ (faults < MaxFaults /\ faults' = faults + 1)
      BY <1>2
    <3> QED
      BY <3>1, <3>2, InvitationsAssumption DEF InviteTypeOK
  <2> QED
    BY <1>1, <2>1, <2>2, <2>3 DEF InviteTypeOK, limit, serve
<1>10. Answers'
  BY <1>1 DEF Answers, serve
<1>11. CASE open' = FALSE /\ faults' = faults + 1
  <2>1. Aligned'
    BY <1>11 DEF Aligned
  <2>2. faults' # 0
    BY <1>11 DEF InviteTypeOK
  <2>3. Findable'
    BY <2>2 DEF Findable
  <2> QED
    BY <1>1, <1>8, <1>9, <1>10, <2>1, <2>3, LimitFrame
<1>12. CASE disk' = e /\ index' = IndexOf(e, book) /\ open' = open /\ faults' = faults
  <2>1. /\ \A k \in Tokens : index'[k] # 0 =>
             /\ index'[k] \in DOMAIN e
             /\ \A n \in 1..Len(book) : LineIs(e, index'[k], n) => book[n].tok = k
        /\ \A n \in DOMAIN book :
             /\ \A i \in DOMAIN book : book[i].tok = book[n].tok => i = n
             /\ \E p \in Starts(e) : LineIs(e, p, n)
             => LineIs(e, index'[book[n].tok], n)
    BY <1>4, <1>6, <1>12, Rebuilt
  <2>2. Aligned'
    BY <1>1, <1>12, <2>1 DEF Aligned
  <2>3. Findable'
    <3> SUFFICES ASSUME faults = 0, NEW n \in known, Live(n)'
                 PROVE  /\ LineIs(e, index'[book[n].tok], n)
                        /\ \E p \in Starts(e) : LineIs(e, p, n)
      BY <1>1, <1>4, <1>12 DEF Findable
    <3>1. Live(n) /\ n \in DOMAIN book
      BY <1>1 DEF Live, InviteTypeOK
    <3>2. /\ now <= book[n].exp /\ \A i \in DOMAIN book : book[i].tok = book[n].tok => i = n
          /\ \E p \in Starts(disk) : LineIs(disk, p, n)
      BY <3>1, Zenon DEF Findable, Live
    <3>3. PICK p \in Kept : LineIs(disk, p, n)
      BY <1>3, <3>2, KeptLines, Zenon
    <3>4. \E q \in Starts(e) : LineIs(e, q, n)
      BY <1>4, <3>3, Zenon
    <3> QED
      BY <2>1, <3>1, <3>2, <3>4, Zenon
  <2> QED
    BY <1>1, <1>8, <1>9, <1>10, <2>2, <2>3, LimitFrame
<1> QED
  BY <1>2, <1>11, <1>12, Zenon DEF e

\* A write behind the end of the file, of a whole line or a part of it, keeps
\* everything of the file.
LEMMA HandleCreateInv == ASSUME IInv, HandleCreate PROVE IInv'
<1> USE DEF IInv
<1>1. /\ Len(book) < MaxInvites /\ UNCHANGED <<open, limit, serve, now>>
      /\ \E k \in Tokens, p \in Peers, mode \in {"hmac", "shortcode"}, ttl \in Lifetimes :
           book' = Append(book, [tok |-> k, peer |-> p, mode |-> mode, exp |-> now + ttl])
      /\ \/ open /\ (Append1(Len(book')) \/ AppendFails(Len(book')))
         \/ ~open /\ UNCHANGED <<disk, index, known, faults>>
  BY DEF HandleCreate
<1>2. PICK v \in Invite : book' = Append(book, v)
  <2>1. PICK k \in Tokens, p \in Peers, mode \in {"hmac", "shortcode"}, ttl \in Lifetimes :
           book' = Append(book, [tok |-> k, peer |-> p, mode |-> mode, exp |-> now + ttl])
    BY <1>1
  <2>2. now + ttl \in Nat
    BY InvitationsAssumption DEF InviteTypeOK
  <2>3. [tok |-> k, peer |-> p, mode |-> mode, exp |-> now + ttl] \in Invite
    BY <2>2 DEF Invite
  <2> QED
    BY <2>1, <2>3
<1> DEFINE n == Len(book) + 1
<1>3. /\ Len(book) \in Nat /\ book' \in Seq(Invite) /\ Len(book') = n /\ book'[n] = v
      /\ \A i \in DOMAIN book : i \in DOMAIN book' /\ book'[i] = book[i]
      /\ DOMAIN book = 1..Len(book) /\ DOMAIN book' = 1..n
  BY <1>2 DEF InviteTypeOK
<1>4. /\ MaxInvites \in Nat /\ n \in 1..MaxInvites /\ n \in DOMAIN book' /\ n \notin DOMAIN book
      /\ n \notin known /\ known \subseteq DOMAIN book /\ v.tok \in Tokens
  BY <1>1, <1>3, InvitationsAssumption DEF InviteTypeOK, Invite
<1>5. /\ disk \in Seq(Cell) /\ index \in [Tokens -> Nat]
      /\ \A i \in DOMAIN disk : disk[i].n <= Len(book)
  BY DEF InviteTypeOK, Numbered
<1> HIDE DEF n
<1>6. LineOf(n) \in Seq(Cell) /\ Len(LineOf(n)) = 3
  <2>1. /\ [part |-> "head", n |-> n] \in Cell /\ [part |-> "tail", n |-> n] \in Cell
        /\ Newline \in Cell
    BY <1>4 DEF Cell, Newline
  <2> QED
    BY <2>1 DEF LineOf
<1>7. /\ LineOf(n)[1] = [part |-> "head", n |-> n] /\ LineOf(n)[2] = [part |-> "tail", n |-> n]
      /\ LineOf(n)[3] = Newline
  BY DEF LineOf
<1>8. Answers'
  BY <1>1, <1>3 DEF Answers, serve
<1>9. \A i \in 1..3 : LineOf(n)[i].n <= n
  <2>1. n \in Nat /\ 0 <= n /\ n <= n
    BY <1>4
  <2> QED
    BY <1>7, <2>1 DEF Newline
<1>10. \A i \in DOMAIN disk : disk[i].n <= n
  <2>1. \A i \in DOMAIN disk : disk[i].n \in Nat
    <3>1. \A c \in Cell : c.n \in Nat
      BY <1>4 DEF Cell
    <3> QED
      BY <1>5, <3>1
  <2> QED
    BY <1>3, <1>5, <2>1 DEF n
<1>11. CASE ~open /\ UNCHANGED <<disk, index, known, faults>>
  <2>1. InviteTypeOK'
    BY <1>1, <1>3, <1>4, <1>11 DEF InviteTypeOK, limit, serve
  <2>2. Numbered'
    BY <1>3, <1>10, <1>11 DEF Numbered
  <2>3. Aligned' /\ Findable'
    BY <1>1, <1>11 DEF Aligned, Findable
  <2> QED
    BY <1>1, <1>8, <2>1, <2>2, <2>3, LimitFrame
\* What both writes have in common: t is what is written.
<1>12. ASSUME NEW t \in Seq(Cell), disk' = disk \o t, Len(t) <= 3,
              \A i \in DOMAIN t : t[i] = LineOf(n)[i]
       PROVE  /\ Numbered' /\ disk' \in Seq(Cell)
              /\ \A p \in DOMAIN disk : \A j : LineIs(disk', p, j) =>
                   LineIs(disk, p, j) /\ j <= Len(book) /\ j # n
              /\ \A i \in DOMAIN disk : i \in DOMAIN disk'
  <2>1. t # <<>> => t[1].part = "head"
    BY <1>7, <1>12
  <2>2. /\ disk' \in Seq(Cell) /\ Len(disk') = Len(disk) + Len(t)
        /\ \A i \in DOMAIN disk : i \in DOMAIN disk' /\ disk'[i] = disk[i]
        /\ \A i \in DOMAIN t : disk'[Len(disk) + i] = t[i]
        /\ \A p \in DOMAIN disk : \A j : LineIs(disk', p, j) => LineIs(disk, p, j)
    BY <1>5, <1>12, <2>1, AppendedLines
  <2>3. ASSUME NEW i \in DOMAIN disk' PROVE disk'[i].n <= n
    <3>1. CASE i \in DOMAIN disk
      BY <1>10, <2>2, <3>1
    <3>2. CASE i \notin DOMAIN disk
      <4>1. /\ Len(disk) \in Nat /\ Len(t) \in Nat /\ DOMAIN t = 1..Len(t)
            /\ DOMAIN disk = 1..Len(disk) /\ DOMAIN disk' = 1..(Len(disk) + Len(t))
        BY <1>5, <2>2
      <4>2. i - Len(disk) \in DOMAIN t /\ Len(disk) + (i - Len(disk)) = i /\ i - Len(disk) \in 1..3
        BY <1>12, <3>2, <4>1
      <4>3. disk'[i] = LineOf(n)[i - Len(disk)]
        BY <1>12, <2>2, <4>2
      <4> QED
        BY <1>9, <4>2, <4>3
    <3> QED
      BY <3>1, <3>2
  <2>4. Numbered'
    BY <1>3, <2>3 DEF Numbered
  <2>5. ASSUME NEW p \in DOMAIN disk, NEW j, LineIs(disk', p, j)
        PROVE  LineIs(disk, p, j) /\ j <= Len(book) /\ j # n
    <3>1. LineIs(disk, p, j)
      BY <2>2, <2>5, Zenon
    <3>2. disk[p].n = j
      BY <3>1 DEF LineIs
    <3>3. j <= Len(book)
      BY <1>5, <3>2
    <3> QED
      BY <1>3, <3>1, <3>3 DEF n
  <2> QED
    BY <2>2, <2>4, <2>5, Zenon
<1>13. ASSUME NEW t \in Seq(Cell), disk' = disk \o t, Len(t) <= 3,
              \A i \in DOMAIN t : t[i] = LineOf(n)[i],
              open, NEW k \in Tokens, index[k] # 0
       PROVE  /\ index[k] \in DOMAIN disk'
              /\ \A j \in 1..n : LineIs(disk', index[k], j) => book'[j].tok = k
  <2>1. /\ index[k] \in DOMAIN disk
        /\ \A j \in 1..Len(book) : LineIs(disk, index[k], j) => book[j].tok = k
    BY <1>13 DEF Aligned
  <2>2. index[k] \in DOMAIN disk'
    BY <1>12, <1>13, <2>1
  <2>3. ASSUME NEW j \in 1..n, LineIs(disk', index[k], j) PROVE book'[j].tok = k
    <3>1. LineIs(disk, index[k], j) /\ j <= Len(book)
      BY <1>12, <1>13, <2>1, <2>3
    <3>2. j \in 1..Len(book)
      BY <1>3, <3>1
    <3> QED
      BY <1>3, <2>1, <3>1, <3>2
  <2> QED
    BY <2>2, <2>3
<1>14. CASE open /\ AppendFails(Len(book'))
  <2>1. /\ index' = index /\ known' = known /\ faults < MaxFaults /\ faults' = faults + 1
        /\ \E m \in 0..2 : disk' = disk \o SubSeq(LineOf(n), 1, m)
    BY <1>3, <1>14 DEF AppendFails, Fault
  <2>2. PICK m \in 0..2 : disk' = disk \o SubSeq(LineOf(n), 1, m)
    BY <2>1
  <2> DEFINE t == SubSeq(LineOf(n), 1, m)
  <2>3. t \in Seq(Cell) /\ Len(t) = m /\ \A i \in 1..m : t[i] = LineOf(n)[i]
    <3>1. \A i \in 1..m : LineOf(n)[i] \in Cell
      BY <1>6
    <3> QED
      BY <3>1, SubSeqProperties
  <2> HIDE DEF t
  <2>4. /\ t \in Seq(Cell) /\ disk' = disk \o t /\ Len(t) <= 3
        /\ \A i \in DOMAIN t : t[i] = LineOf(n)[i]
    BY <2>2, <2>3 DEF t
  <2>5. Numbered' /\ disk' \in Seq(Cell)
    BY <1>12, <2>4
  <2>6. Aligned'
    BY <1>1, <1>3, <1>13, <1>14, <2>1, <2>4 DEF Aligned
  <2>7. faults' # 0 /\ faults' \in 0..MaxFaults
    BY <2>1, InvitationsAssumption DEF InviteTypeOK
  <2>8. Findable'
    BY <2>7 DEF Findable
  <2>9. InviteTypeOK'
    BY <1>1, <1>3, <1>4, <2>1, <2>5, <2>7 DEF InviteTypeOK, limit, serve
  <2> QED
    BY <1>1, <1>8, <2>5, <2>6, <2>8, <2>9, LimitFrame
<1>15. CASE open /\ Append1(Len(book'))
  <2> DEFINE t == LineOf(n)
             q == Len(disk) + 1
  <2>1. /\ disk' = disk \o t /\ index' = [index EXCEPT ![v.tok] = q]
        /\ known' = known \cup {n} /\ faults' = faults
    BY <1>3, <1>15 DEF Append1
  <2>2. /\ t \in Seq(Cell) /\ Len(t) = 3 /\ DOMAIN t = 1..3 /\ Len(t) <= 3
        /\ t # <<>> => t[1].part = "head"
    BY <1>6, <1>7
  <2>3. /\ Len(disk) \in Nat /\ Len(disk') = Len(disk) + 3 /\ disk'[q] = t[1]
        /\ disk'[q + 1] = t[2] /\ disk'[q + 2] = t[3] /\ disk'[Len(disk')] = Newline
        /\ \A i \in DOMAIN disk : disk'[i] = disk[i]
    <3> HIDE DEF t
    <3>1. /\ Len(disk') = Len(disk) + 3 /\ \A i \in 1..3 : disk'[Len(disk) + i] = t[i]
          /\ \A i \in DOMAIN disk : disk'[i] = disk[i]
      <4>1. /\ Len(disk \o t) = Len(disk) + Len(t)
            /\ \A i \in DOMAIN disk : (disk \o t)[i] = disk[i]
            /\ \A i \in DOMAIN t : (disk \o t)[Len(disk) + i] = t[i]
        BY <1>5, <2>2, AppendedLines
      <4> QED
        BY <2>1, <2>2, <4>1, Zenon
    <3>2. Len(disk) \in Nat
      BY <1>5
    <3>3. t[3] = Newline
      BY <1>7 DEF t
    <3> QED
      BY <3>1, <3>2, <3>3
  <2>4. Numbered' /\ disk' \in Seq(Cell)
    BY <1>12, <2>1, <2>2
  <2>5. LineIs(disk', q, n)
    <3>1. q \in DOMAIN disk' /\ q + 1 \in DOMAIN disk' /\ n # 0
      BY <1>4, <2>3, <2>4
    <3> QED
      BY <1>7, <2>3, <3>1 DEF LineIs
  <2>6. /\ index' \in [Tokens -> Nat] /\ index'[v.tok] = q
        /\ \A k \in Tokens \ {v.tok} : index'[k] = index[k]
    BY <1>4, <1>5, <2>1, <2>3
  <2>7. InviteTypeOK'
    <3>1. known' \subseteq 1..n
      BY <1>3, <1>4, <2>1
    <3> QED
      BY <1>1, <1>3, <1>4, <2>1, <2>4, <2>6, <3>1 DEF InviteTypeOK, limit, serve
  <2> HIDE DEF t, q
  <2>8. Aligned'
    <3> SUFFICES ASSUME NEW k \in Tokens, index'[k] # 0
                 PROVE  /\ index'[k] \in DOMAIN disk'
                        /\ \A j \in 1..n : LineIs(disk', index'[k], j) => book'[j].tok = k
      BY <1>3 DEF Aligned
    <3>1. CASE k = v.tok
      <4>1. q \in DOMAIN disk' /\ disk'[q].n = n
        BY <2>5 DEF LineIs
      <4>2. \A j \in 1..n : LineIs(disk', q, j) => j = n
        BY <4>1 DEF LineIs
      <4> QED
        BY <1>3, <2>6, <3>1, <4>1, <4>2
    <3>2. CASE k # v.tok
      <4>1. index'[k] = index[k]
        BY <2>6, <3>2
      <4> QED
        BY <1>7, <1>13, <1>15, <2>1, <2>2, <4>1 DEF t
    <3> QED
      BY <3>1, <3>2
  <2>9. Findable'
    <3> SUFFICES ASSUME faults = 0
                 PROVE  \A j \in known' : Live(j)' =>
                          /\ LineIs(disk', index'[book'[j].tok], j)
                          /\ \E p \in Starts(disk') : LineIs(disk', p, j)
      BY <1>1, <1>15, <2>1, <2>3 DEF Findable
    <3>1. /\ disk # <<>> => disk[Len(disk)] = Newline
          /\ \A j \in known : Live(j) =>
               /\ LineIs(disk, index[book[j].tok], j) /\ \E p \in Starts(disk) : LineIs(disk, p, j)
      BY DEF Findable
    <3>2. q \in Starts(disk')
      <4>1. q \in DOMAIN disk'
        BY <2>5 DEF LineIs
      <4>2. q = 1 \/ disk'[q - 1] = Newline
        BY <1>5, <2>3, <3>1 DEF q
      <4> QED
        BY <4>1, <4>2 DEF Starts
    <3>3. /\ \A p \in DOMAIN disk : \A j : LineIs(disk, p, j) => LineIs(disk', p, j)
          /\ Starts(disk) \subseteq Starts(disk')
      BY <1>5, <2>1, <2>2, <3>1, AppendedLines
    <3>5. ASSUME NEW j \in known, Live(j)'
          PROVE  /\ LineIs(disk', index'[book'[j].tok], j)
                 /\ \E p \in Starts(disk') : LineIs(disk', p, j)
      <4>1. /\ j \in DOMAIN book /\ book'[j] = book[j] /\ now <= book[j].exp
            /\ \A i \in DOMAIN book' : book'[i].tok = book'[j].tok => i = j
        BY <1>1, <1>3, <1>4, <3>5 DEF Live
      <4>2. Live(j)
        BY <1>3, <4>1 DEF Live
      <4>3. book[j].tok # v.tok /\ book[j].tok \in Tokens
        <5>1. book[j] \in Invite
          BY <4>1 DEF InviteTypeOK
        <5>2. n # j
          BY <1>4
        <5> QED
          BY <1>3, <1>4, <4>1, <5>1, <5>2 DEF Invite
      <4>4. index'[book'[j].tok] = index[book[j].tok]
        BY <2>6, <4>1, <4>3
      <4>5. LineIs(disk, index[book[j].tok], j) /\ \E p \in Starts(disk) : LineIs(disk, p, j)
        BY <3>1, <4>2, Zenon
      <4>6. LineIs(disk', index[book[j].tok], j)
        <5>1. index[book[j].tok] \in DOMAIN disk
          BY <4>5 DEF LineIs
        <5> QED
          BY <3>3, <4>5, <5>1
      <4>7. \E p \in Starts(disk') : LineIs(disk', p, j)
        <5>1. PICK p \in Starts(disk) : LineIs(disk, p, j)
          BY <4>5
        <5>2. p \in DOMAIN disk
          BY DEF Starts
        <5> QED
          BY <3>3, <5>1, <5>2
      <4> QED
        BY <4>4, <4>6, <4>7, Zenon
    <3> QED
      BY <1>3, <2>1, <2>5, <2>6, <3>2, <3>5
  <2> QED
    BY <1>1, <1>8, <2>4, <2>7, <2>8, <2>9, LimitFrame
<1> QED
  BY <1>1, <1>11, <1>14, <1>15

\* Every step keeps the invariant.
LEMMA InviteNextInv == IInv /\ [InviteNext]_inviteVars => IInv'
<1> SUFFICES ASSUME IInv, [InviteNext]_inviteVars PROVE IInv'
  OBVIOUS
<1>1. CASE InviteNext
  BY <1>1, HandleCreateInv, GCInv, RestartInv, TickInv, BeginInv, LookupInv, AnswerInv
     DEF InviteNext
<1>2. CASE UNCHANGED inviteVars
  <2> USE <1>2 DEF inviteVars, store, limit, serve, IInv
  <2>1. InviteTypeOK' /\ Answers'
    BY DEF InviteTypeOK, Answers
  <2>2. Numbered' /\ Aligned' /\ Findable'
    BY StoreFrame
  <2>3. Remembered' /\ RateBound'
    BY LimitFrame
  <2> QED
    BY <2>1, <2>2, <2>3
<1> QED
  BY <1>1, <1>2

\* The invariant holds throughout.
LEMMA IInvHolds == InviteSpec => []IInv
BY InviteInitInv, InviteNextInv, PTL DEF InviteSpec

\* The store, the limiter and the requests stay well formed: in particular the
\* limiter keeps no attempt of the future.
THEOREM InvitesTypeCorrect == InviteSpec => []InviteTypeOK
<1>1. IInv => InviteTypeOK
  BY DEF IInv
<1> QED
  BY <1>1, IInvHolds, PTL

\* FindByTokenHash returns an invitation of the token that was asked for, or
\* none, and a landing shows one of the token in its link, over appends that
\* fail half-way, collections between lookup and answer, and restarts.
THEOREM LookupsFindWhatWasAsked == InviteSpec => []FoundAsAsked
<1>1. IInv => FoundAsAsked
  <2> SUFFICES ASSUME IInv PROVE FoundAsAsked
    OBVIOUS
  <2>1. \A k \in Tokens : Found(k) # 0 => book[Found(k)].tok = k
    BY FoundInvite DEF IInv
  <2>2. \A r \in Requests : step[r] = "shown" => book[got[r]].tok = ask[r].tok
    BY DEF IInv, Answers
  <2> QED
    BY <2>1, <2>2 DEF FoundAsAsked
<1> QED
  BY <1>1, IInvHolds, PTL

\* While no write has failed and no power was lost, an invitation whose
\* creation was answered with 201 is found by its token until it expires, over
\* every collection and restart, unless its short code was drawn again.
THEOREM CreatedInvitesAreFound == InviteSpec => []CreatedIsFound
<1>1. IInv => CreatedIsFound
  <2> SUFFICES ASSUME IInv, faults = 0, NEW n \in known, ~(now > book[n].exp),
                      \A i \in DOMAIN book : book[i].tok = book[n].tok => i = n
               PROVE  Found(book[n].tok) = n
    BY DEF CreatedIsFound
  <2> DEFINE k == book[n].tok
  <2>1. book[n] \in Invite /\ disk \in Seq(Cell) /\ now \in Nat
    BY InvitationsAssumption DEF IInv, InviteTypeOK
  <2>2. book[n].exp \in Nat
    BY <2>1 DEF Invite
  <2>3. Live(n)
    BY <2>1, <2>2 DEF Live
  <2>4. open /\ LineIs(disk, index[k], n)
    BY <2>3 DEF IInv, Findable
  <2>5. index[k] \in DOMAIN disk /\ index[k] # 0
    BY <2>1, <2>4 DEF LineIs
  <2>6. Parse(LineAt(disk, index[k])) = n
    BY <2>1, <2>4, <2>5, ParseLine
  <2> QED
    BY <2>4, <2>5, <2>6, Zenon DEF Found
<1> QED
  BY <1>1, IInvHolds, PTL

\* checkRateLimit lets no client through more than MaxAttempts times in any
\* Window, whatever the interleaving of requests, refusals and time.
THEOREM RateIsBounded == InviteSpec => []RateBound
<1>1. IInv => RateBound
  BY DEF IInv
<1> QED
  BY <1>1, IInvHolds, PTL
================================================================================
