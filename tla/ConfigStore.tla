------------------------------ MODULE ConfigStore ------------------------------
(***************************************************************************)
(* config.Manager (src/src/internal/config/config.go): the one in-memory   *)
(* configuration that every component of the daemon reads, and the file    *)
(* ~/.unet/config.json it is persisted to.                                 *)
(*                                                                         *)
(* A configuration is abstracted to the set of Update calls whose mutation *)
(* it contains: that is what tells a lost or a phantom update from a       *)
(* correct one.  An Update call c allocates one draft, so its name doubles *)
(* as the draft's address in the heap; Boot is the call NewManager makes   *)
(* (the loaded or skeleton configuration lives at that address).           *)
(*                                                                         *)
(* The process may crash between any two steps.  A power loss may also     *)
(* undo renames the kernel has not flushed, and may reveal a torn file if  *)
(* data was renamed into place before it was synced.                       *)
(***************************************************************************)
EXTENDS Naturals, FiniteSets

CONSTANTS Updates,      \* the Update calls, one goroutine each
          Readers,      \* goroutines that keep the pointer Get() returned
          Boot,         \* NewManager's own use of the save path
          NoOne,        \* "the mutex is free"
          NoSnap,       \* the reader holds no pointer
          MaxCrashes    \* bound: crashes plus power losses

ASSUME StoreAssumption ==
  /\ Boot \notin Updates
  /\ NoOne \notin Updates \cup {Boot}
  /\ NoSnap \notin Updates \cup {Boot}
  /\ MaxCrashes \in Nat

VARIABLES proc,         \* the daemon process
          mu,           \* holder of Manager.mu (write lock)
          heap,         \* contents of each allocated RootConfig
          config,       \* Manager.config, a pointer into heap
          pc,           \* where each call is
          tmp,          \* each call's temp file
          file,         \* config.json as the file system shows it
          onDisk,       \* versions of config.json a power loss may reveal
          snap,         \* pointer each reader got from Get()
          seen,         \* what it pointed to at that moment (history)
          crashes,      \* crashes and power losses so far
          powerLosses

vars == <<proc, mu, heap, config, pc, tmp, file, onDisk, snap, seen, crashes,
          powerLosses>>

Callers == Updates \cup {Boot}
Content == SUBSET Updates

\* What config.json can hold.
Json(v) == [kind |-> "json", val |-> v]
NoFile  == [kind |-> "absent", val |-> {}]
Torn    == [kind |-> "torn", val |-> {}]
Version == [kind : {"json", "absent", "torn"}, val : Content]

\* A call between taking the lock and releasing it.
Saving == {"create", "write", "sync", "close", "rename", "publish"}
Returned == {"ok", "err", "crashed"}

acked  == {u \in Updates : pc[u] = "ok"}
failed == {u \in Updates : pc[u] = "err"}

TypeOK ==
  /\ proc \in {"down", "starting", "up"}
  /\ mu \in Callers \cup {NoOne}
  /\ heap \in [Callers -> Content]
  /\ config \in Callers
  /\ pc \in [Callers -> {"idle"} \cup Saving \cup Returned]
  /\ tmp \in [Callers -> {"none", "created", "written", "synced"}]
  /\ file \in Version
  /\ onDisk \in SUBSET Version
  /\ snap \in [Readers -> Callers \cup {NoSnap}]
  /\ seen \in [Readers -> Content]
  /\ crashes \in 0..MaxCrashes
  /\ powerLosses \in 0..MaxCrashes

Init ==
  /\ proc = "down" /\ mu = NoOne /\ config = Boot
  /\ heap = [c \in Callers |-> {}]
  /\ pc = [c \in Callers |-> "idle"]
  /\ tmp = [c \in Callers |-> "none"]
  /\ file = NoFile /\ onDisk = {NoFile}
  /\ snap = [r \in Readers |-> NoSnap]
  /\ seen = [r \in Readers |-> {}]
  /\ crashes = 0 /\ powerLosses = 0

--------------------------------------------------------------------------------
(* NewManager *)

\* Mutant: any Stat result is taken for a first run.
FirstRunAlways ==
  /\ proc = "down"
  /\ proc' = "starting" /\ mu' = Boot /\ config' = Boot
  /\ heap' = [heap EXCEPT ![Boot] = {}]
  /\ pc' = [pc EXCEPT ![Boot] = "create"]
  /\ UNCHANGED <<tmp, file, onDisk, snap, seen, crashes, powerLosses>>

\* First run: a skeleton goes through Save, under the lock like any other.
FirstRun ==
  /\ proc = "down" /\ file = NoFile
  /\ proc' = "starting" /\ mu' = Boot /\ config' = Boot
  /\ heap' = [heap EXCEPT ![Boot] = {}]
  /\ pc' = [pc EXCEPT ![Boot] = "create"]
  /\ UNCHANGED <<tmp, file, onDisk, snap, seen, crashes, powerLosses>>

\* Later runs: read and unmarshal.  A file that does not parse keeps the
\* daemon down (the action is disabled).
LoadExisting ==
  /\ proc = "down" /\ file.kind = "json"
  /\ proc' = "up" /\ config' = Boot
  /\ heap' = [heap EXCEPT ![Boot] = file.val]
  /\ pc' = [pc EXCEPT ![Boot] = "ok"]
  /\ UNCHANGED <<mu, tmp, file, onDisk, snap, seen, crashes, powerLosses>>

(* Get *)
Get(r) ==
  /\ proc = "up" /\ mu = NoOne
  /\ snap' = [snap EXCEPT ![r] = config]
  /\ seen' = [seen EXCEPT ![r] = heap[config]]
  /\ UNCHANGED <<proc, mu, heap, config, pc, tmp, file, onDisk, crashes,
                 powerLosses>>

\* Mutant: the callback edits the live configuration instead of a clone.
BeginUpdateInPlace(u) ==
  /\ proc = "up" /\ pc[u] = "idle" /\ mu = NoOne
  /\ mu' = u
  /\ heap' = [heap EXCEPT ![config] = @ \cup {u}, ![u] = heap[config] \cup {u}]
  /\ pc' = [pc EXCEPT ![u] = "create"]
  /\ UNCHANGED <<proc, config, tmp, file, onDisk, snap, seen, crashes,
                 powerLosses>>

\* Mutant: two Updates may clone the same configuration (no write lock).
BeginUpdateUnlocked(u) ==
  /\ proc = "up" /\ pc[u] = "idle"
  /\ mu' = u
  /\ heap' = [heap EXCEPT ![u] = heap[config] \cup {u}]
  /\ pc' = [pc EXCEPT ![u] = "create"]
  /\ UNCHANGED <<proc, config, tmp, file, onDisk, snap, seen, crashes,
                 powerLosses>>

(* Update: lock, clone, apply the callback to the clone *)
BeginUpdate(u) ==
  /\ proc = "up" /\ pc[u] = "idle" /\ mu = NoOne
  /\ mu' = u
  /\ heap' = [heap EXCEPT ![u] = heap[config] \cup {u}]
  /\ pc' = [pc EXCEPT ![u] = "create"]
  /\ UNCHANGED <<proc, config, tmp, file, onDisk, snap, seen, crashes,
                 powerLosses>>

--------------------------------------------------------------------------------
(* saveLocked, step by step; c is an Update or NewManager's Save *)

Advance(c, from, to, t) ==
  /\ pc[c] = from
  /\ pc' = [pc EXCEPT ![c] = to]
  /\ tmp' = [tmp EXCEPT ![c] = t]
  /\ UNCHANGED <<proc, mu, heap, config, file, onDisk, snap, seen, crashes,
                 powerLosses>>

\* Mutant: no fsync before the rename.
SyncTempSkipped(c) == Advance(c, "sync", "close", tmp[c])

\* Mutant: a short write is taken for a complete one.
WriteTempShort(c) == Advance(c, "write", "sync", "partial")

CreateTemp(c) == Advance(c, "create", "write", "created")
WriteTemp(c)  == Advance(c, "write", "sync", "written")
SyncTemp(c)   == Advance(c, "sync", "close", "synced")
CloseTemp(c)  == Advance(c, "close", "rename", tmp[c])

Rename(c) ==
  /\ pc[c] = "rename"
  /\ pc' = [pc EXCEPT ![c] = "publish"]
  /\ tmp' = [tmp EXCEPT ![c] = "none"]
  /\ file' = Json(heap[c])
  /\ onDisk' = onDisk \cup {Json(heap[c])} \cup (IF tmp[c] = "synced" THEN {} ELSE {Torn})
  /\ UNCHANGED <<proc, mu, heap, config, snap, seen, crashes, powerLosses>>

\* Any of the five file operations may fail: the temp file is removed, the
\* lock released, the error returned; NewManager's error ends the process.
SaveFails(c) ==
  /\ pc[c] \in Saving \ {"publish"}
  /\ pc' = [pc EXCEPT ![c] = IF c = Boot THEN "idle" ELSE "err"]
  /\ proc' = IF c = Boot THEN "down" ELSE proc
  /\ tmp' = [tmp EXCEPT ![c] = "none"]
  /\ mu' = NoOne
  /\ UNCHANGED <<heap, config, file, onDisk, snap, seen, crashes, powerLosses>>

\* m.config = draft; unlock; return nil.
Publish(c) ==
  /\ pc[c] = "publish"
  /\ config' = c /\ mu' = NoOne /\ proc' = "up"
  /\ pc' = [pc EXCEPT ![c] = "ok"]
  /\ UNCHANGED <<heap, tmp, file, onDisk, snap, seen, crashes, powerLosses>>

--------------------------------------------------------------------------------
(* The environment *)

\* The process dies: memory is gone, calls in progress never return.
Die ==
  /\ proc # "down" /\ crashes < MaxCrashes
  /\ crashes' = crashes + 1
  /\ proc' = "down" /\ mu' = NoOne
  /\ pc' = [c \in Callers |-> IF c = Boot THEN "idle"
                              ELSE IF pc[c] \in Saving THEN "crashed" ELSE pc[c]]
  /\ snap' = [r \in Readers |-> NoSnap]
  /\ UNCHANGED <<heap, config, tmp, seen>>

Crash == Die /\ UNCHANGED <<file, onDisk, powerLosses>>

PowerLoss ==
  /\ Die
  /\ file' \in onDisk /\ onDisk' = {file'}
  /\ powerLosses' = powerLosses + 1

\* The kernel writes its caches back (no directory fsync in saveLocked).
Writeback ==
  /\ onDisk # {file} /\ onDisk' = {file}
  /\ UNCHANGED <<proc, mu, heap, config, pc, tmp, file, snap, seen, crashes,
                 powerLosses>>

SaveStep(c) == CreateTemp(c) \/ WriteTemp(c) \/ SyncTemp(c) \/ CloseTemp(c)
                 \/ Rename(c) \/ Publish(c)

Next ==
  \/ FirstRun \/ LoadExisting \/ Crash \/ PowerLoss \/ Writeback
  \/ \E r \in Readers : Get(r)
  \/ \E u \in Updates : BeginUpdate(u)
  \/ \E c \in Callers : SaveStep(c) \/ SaveFails(c)

Spec == Init /\ [][Next]_vars

--------------------------------------------------------------------------------
(* Properties *)

\* An Update that returned nil is in config.json for good: no later Update,
\* failed save or process crash loses it.  Only a power loss may (saveLocked
\* does not sync the directory).
AcknowledgedSurvives ==
  powerLosses = 0 => acked \subseteq file.val

\* Whenever no save is in progress, memory and config.json agree: after an
\* error return of saveLocked, after a crash and reload, after a power loss.
MemoryIsDurable ==
  proc = "up" /\ mu = NoOne => file = Json(heap[config])

\* The pointer Get() returned keeps denoting the configuration it denoted
\* then, however many Updates run meanwhile: handlers read cfg.Tunnel,
\* cfg.DNS and cfg.ExposedPorts from it without a lock.
SnapshotStable ==
  \A r \in Readers : snap[r] # NoSnap => heap[snap[r]] = seen[r]

\* The mutation of an Update that returned an error is nowhere: not in
\* memory, not in config.json, not in a version a power loss may bring back.
FailedLeavesNoTrace ==
  /\ failed \cap heap[config] = {}
  /\ \A v \in onDisk \cup {file} : failed \cap v.val = {}

\* config.json always parses: neither a crash in the middle of saveLocked nor
\* a power loss leaves half a file, so NewManager can always start.
NeverTorn == file # Torn

\* The refinement mapping.  While the daemon is down the visible configuration
\* is the one its next start will load.
Durable == file.val
Visible == IF proc = "down" THEN file.val ELSE heap[config]
Outcome == [u \in Updates |-> IF pc[u] \in {"ok", "err"} THEN pc[u]
                              ELSE IF pc[u] = "crashed" THEN "unknown" ELSE "pending"]
Promise == INSTANCE ConfigPromise WITH durable <- Durable, visible <- Visible,
                                       outcome <- Outcome

\* config.Manager implements ConfigPromise: to its callers Update is atomic
\* and durable, whatever fails or crashes.
ImplementsPromise == Promise!Spec
================================================================================
