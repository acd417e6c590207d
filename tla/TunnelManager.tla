----------------------------- MODULE TunnelManager -----------------------------
(***************************************************************************)
(* tunnel.Manager (src/src/internal/tunnel/manager.go), the HTTP handlers  *)
(* that drive it (daemon/api_tunnel.go) and the daemon's start             *)
(* (cmd/unet/startup.go).                                                  *)
(*                                                                         *)
(* Connect and Disconnect are goroutines; the section each runs under m.mu *)
(* is one action, everything between two sections is another.  The         *)
(* watchdog a Connect starts is named after that Connect.  The interface   *)
(* and the server's peer list outlive the daemon.  cfgMgr.Update is one    *)
(* atomic step that either happens or returns an error (ConfigStore).      *)
(***************************************************************************)
EXTENDS Naturals, FiniteSets

CONSTANTS Connects,       \* POST /api/tunnel/connect requests
          Disconnects,    \* POST /api/tunnel/disconnect requests
          None,           \* nil: no watchdog, no key
          MaxConnecting,  \* bound: Connects in progress at the same time
          MaxDisconnecting,
          MaxFaults,      \* bound: failing commands, SSH calls, file writes
          MaxRestarts,    \* bound: daemon crashes or exits
          MaxLosses       \* bound: times the interface disappears

ASSUME TunnelAssumption ==
  /\ None \notin Connects /\ Connects \cap Disconnects = {}
  /\ {MaxConnecting, MaxDisconnecting, MaxFaults, MaxRestarts, MaxLosses} \subseteq Nat

VARIABLES up,             \* the daemon process runs
          running, status,\* Manager.running, Manager.status
          wdCancel,       \* whose context m.cancel cancels
          wdDone,         \* whose channel m.done is
          wd,             \* each watchdog goroutine
          cancelled,      \* watchdogs whose context is cancelled
          cfgStatus,      \* persisted Tunnel.Status
          cfgKey,         \* persisted Tunnel.PrivateKey / PublicKey / LocalIP
          iface,          \* the local awg interface exists
          peers,          \* keys of this machine among the server's peers
          pc,
          key,            \* the key a Connect works with
          waitOn,         \* the channel a Disconnect waits on
          crossed,        \* history: requests that were past their test of running
                          \* together with a Connect that was past its own
          faults, restarts, losses

mem  == <<running, status>>
dog  == <<wdCancel, wdDone, wd, cancelled>>
cfg  == <<cfgStatus, cfgKey>>
host == <<iface, peers>>
loc  == <<key, waitOn>>
env  == <<crossed, restarts, losses>>
vars == <<up, mem, dog, cfg, host, pc, loc, faults, env>>

Statuses == {"disconnected", "connecting", "connected", "error"}
Connecting == {"accepted", "fetch", "addpeer", "conf", "up", "persist", "watch",
               "finish", "fail", "failcfg"}
Working == Connecting \ {"accepted"}
Disconnecting == {"read", "wait", "down", "cfg", "end"}
Ended == {"refused", "already", "connected", "error", "noop", "done", "gone"}
Alive == {"wait", "mark", "persist"}

TypeOK ==
  /\ up \in BOOLEAN /\ running \in BOOLEAN /\ iface \in BOOLEAN
  /\ status \in Statuses /\ cfgStatus \in Statuses
  /\ {wdCancel, wdDone, cfgKey} \subseteq Connects \cup {None}
  /\ wd \in [Connects -> {"none", "exited"} \cup Alive]
  /\ cancelled \subseteq Connects /\ peers \subseteq Connects
  /\ pc \in [Connects \cup Disconnects ->
               {"idle"} \cup Connecting \cup Disconnecting \cup Ended]
  /\ key \in [Connects -> Connects \cup {None}]
  /\ waitOn \in [Disconnects -> Connects \cup {None}]
  /\ crossed \subseteq Connects \cup Disconnects
  /\ faults \in 0..MaxFaults
  /\ restarts \in 0..MaxRestarts
  /\ losses \in 0..MaxLosses

Init ==
  /\ up = TRUE /\ running = FALSE /\ status = "disconnected"
  /\ wdCancel = None /\ wdDone = None
  /\ wd = [c \in Connects |-> "none"] /\ cancelled = {}
  /\ cfgStatus = "disconnected" /\ cfgKey = None
  /\ iface = FALSE /\ peers = {}
  /\ pc = [r \in Connects \cup Disconnects |-> "idle"]
  /\ key = [c \in Connects |-> None]
  /\ waitOn = [d \in Disconnects |-> None]
  /\ crossed = {}
  /\ faults = 0 /\ restarts = 0 /\ losses = 0

Fault == faults < MaxFaults /\ faults' = faults + 1
NoFault == UNCHANGED faults

\* cfgMgr.Update; every caller here ignores its error.
SaveStatus(s) ==
  /\ UNCHANGED cfgKey
  /\ \/ cfgStatus' = s /\ NoFault
     \/ UNCHANGED cfgStatus /\ Fault

\* The requests past their test of running, under the names S; r joins them.
Past(S) == {q \in S : pc[q] \in Working \cup Disconnecting}
Meet(r, S) ==
  crossed' = IF Past(S) = {} THEN crossed ELSE crossed \cup Past(S) \cup {r}

Goto(r, from, to) ==
  /\ up
  /\ pc[r] = from
  /\ pc' = [pc EXCEPT ![r] = to]

--------------------------------------------------------------------------------
(* handleConnect, then Connect in a goroutine of its own *)

Accept(c) ==
  /\ Cardinality({d \in Connects : pc[d] \in Connecting}) < MaxConnecting
  /\ Goto(c, "idle", IF status \in {"connected", "connecting"} THEN "refused"
                     ELSE "accepted")
  /\ UNCHANGED <<up, mem, dog, cfg, host, loc, faults, env>>

\* The first section under m.mu.  Only running is tested.
Enter(c) ==
  /\ \/ /\ running /\ Goto(c, "accepted", "already")
        /\ UNCHANGED <<mem, cfg, faults, crossed>>
     \/ /\ ~running /\ Goto(c, "accepted", "fetch")
        /\ status' = "connecting" /\ SaveStatus("connecting")
        /\ Meet(c, Connects \cup Disconnects)
        /\ UNCHANGED running
  /\ UNCHANGED <<up, dog, host, loc, restarts, losses>>

\* The stored key pair, or one that GenerateKeyPair makes for this Connect.
KeyPair(c) == IF cfgKey = None THEN c ELSE cfgKey

\* Configuration checks, FetchAll, the key pair and the address.  When only the
\* peer dump fails, Connect goes on as if the server had no peers.
Fetch(c) ==
  /\ \/ /\ Goto(c, "fetch", IF KeyPair(c) \in peers THEN "conf" ELSE "addpeer")
        /\ key' = [key EXCEPT ![c] = KeyPair(c)] /\ NoFault
     \/ /\ Goto(c, "fetch", "addpeer") /\ Fault
        /\ key' = [key EXCEPT ![c] = KeyPair(c)]
     \/ Goto(c, "fetch", "fail") /\ Fault /\ UNCHANGED key
  /\ UNCHANGED <<up, mem, dog, cfg, host, waitOn, env>>

\* PeerManager.AddPeer; an error may come after the peer was added.
AddPeer(c) ==
  /\ \/ /\ Goto(c, "addpeer", "conf") /\ NoFault
        /\ peers' = peers \cup {key[c]}
     \/ /\ Goto(c, "addpeer", "fail") /\ Fault
        /\ peers' \in {peers, peers \cup {key[c]}}
  /\ UNCHANGED <<up, mem, dog, cfg, iface, loc, env>>

\* writeClientConf: awg0.conf in the configuration directory.
WriteClientConf(c) ==
  /\ \/ Goto(c, "conf", "up") /\ NoFault
     \/ Goto(c, "conf", "fail") /\ Fault
  /\ UNCHANGED <<up, mem, dog, cfg, host, loc, env>>

\* awg-quick up refuses an existing interface; one that fails or times out may
\* leave the interface behind.
AwgUp(ok) ==
  \/ ok /\ ~iface /\ iface' = TRUE /\ NoFault
  \/ ~ok /\ iface /\ UNCHANGED iface /\ NoFault
  \/ ~ok /\ iface' \in {iface, TRUE} /\ Fault

Up(c) ==
  /\ \E ok \in BOOLEAN : AwgUp(ok) /\ Goto(c, "up", IF ok THEN "persist" ELSE "fail")
  /\ UNCHANGED <<up, mem, dog, cfg, peers, loc, env>>

\* A failed save is logged and the connection goes on.
Persist(c) ==
  /\ Goto(c, "persist", "watch")
  /\ \/ cfgStatus' = "connected" /\ cfgKey' = key[c] /\ NoFault
     \/ UNCHANGED cfg /\ Fault
  /\ UNCHANGED <<up, mem, dog, host, loc, env>>

\* Mutant: m.done keeps the channel of an earlier watchdog.
StartWatchdogOldDone(c) ==
  /\ Goto(c, "watch", "finish")
  /\ wdCancel' = c
  /\ wd' = [wd EXCEPT ![c] = "wait"]
  /\ UNCHANGED <<up, mem, wdDone, cancelled, cfg, host, loc, faults, env>>

StartWatchdog(c) ==
  /\ Goto(c, "watch", "finish")
  /\ wdCancel' = c /\ wdDone' = c
  /\ wd' = [wd EXCEPT ![c] = "wait"]
  /\ UNCHANGED <<up, mem, cancelled, cfg, host, loc, faults, env>>

\* Mutant: a status the API does not know.
FinishMisnamed(c) ==
  /\ Goto(c, "finish", "connected")
  /\ running' = TRUE /\ status' = "up"
  /\ UNCHANGED <<up, dog, cfg, host, loc, faults, env>>

Finish(c) ==
  /\ Goto(c, "finish", "connected")
  /\ running' = TRUE /\ status' = "connected"
  /\ UNCHANGED <<up, dog, cfg, host, loc, faults, env>>

\* fail(): memory under m.mu, then the configuration.
FailMark(c) ==
  /\ Goto(c, "fail", "failcfg")
  /\ status' = "error"
  /\ UNCHANGED <<up, running, dog, cfg, host, loc, faults, env>>

FailSave(c) ==
  /\ Goto(c, "failcfg", "error")
  /\ SaveStatus("error")
  /\ UNCHANGED <<up, mem, dog, host, loc, env>>

--------------------------------------------------------------------------------
(* Disconnect *)


DisconnectEnter(d) ==
  /\ Cardinality({e \in Disconnects : pc[e] \in Disconnecting}) < MaxDisconnecting
  /\ Goto(d, "idle", IF running THEN "read" ELSE "noop")
  /\ cancelled' = IF running THEN cancelled \cup ({wdCancel} \ {None}) ELSE cancelled
  /\ Meet(d, IF running THEN Connects ELSE {})
  /\ UNCHANGED <<up, mem, wdCancel, wdDone, wd, cfg, host, loc, faults, restarts, losses>>

\* m.done is read after the unlock.
ReadDone(d) ==
  /\ Goto(d, "read", "wait")
  /\ waitOn' = [waitOn EXCEPT ![d] = wdDone]
  /\ UNCHANGED <<up, mem, dog, cfg, host, key, faults, env>>

\* Mutant: Disconnect does not wait for the watchdog.
NoWait(d) ==
  /\ Goto(d, "wait", "down")
  /\ UNCHANGED <<up, mem, dog, cfg, host, loc, faults, env>>

Wait(d) ==
  /\ Goto(d, "wait", "down")
  /\ waitOn[d] # None => wd[waitOn[d]] = "exited"
  /\ UNCHANGED <<up, mem, dog, cfg, host, loc, faults, env>>

\* awg-quick down.
AwgDown ==
  \/ iface' = FALSE /\ NoFault
  \/ UNCHANGED iface /\ Fault

\* A failure is only logged.
Down(d) ==
  /\ Goto(d, "down", "cfg")
  /\ AwgDown
  /\ UNCHANGED <<up, mem, dog, cfg, peers, loc, env>>

DisconnectSave(d) ==
  /\ Goto(d, "cfg", "end")
  /\ SaveStatus("disconnected")
  /\ UNCHANGED <<up, mem, dog, host, loc, env>>

DisconnectEnd(d) ==
  /\ Goto(d, "end", "done")
  /\ running' = FALSE /\ status' = "disconnected"
  /\ UNCHANGED <<up, dog, cfg, host, loc, faults, env>>

--------------------------------------------------------------------------------
(* The watchdog *)

Dog(w, from, to) == up /\ wd[w] = from /\ wd' = [wd EXCEPT ![w] = to]

WatchdogExit(w) ==
  /\ w \in cancelled
  /\ Dog(w, "wait", "exited")
  /\ UNCHANGED <<up, mem, wdCancel, wdDone, cancelled, cfg, host, pc, loc, faults, env>>

\* InterfaceExists is false when the interface is gone, when the context is
\* cancelled, and when awg show fails for any other reason.
InterfaceMissing(w) ==
  \/ (~iface \/ w \in cancelled) /\ NoFault
  \/ iface /\ w \notin cancelled /\ Fault

\* A tick that finds the interface changes nothing: drift is only logged.  The
\* first tick comes 30 seconds after the start, and all that Connect has left
\* to do by then is to take m.mu: it is assumed to have done so.
Tick(w) ==
  /\ Dog(w, "wait", "mark") /\ pc[w] # "finish"
  /\ InterfaceMissing(w)
  /\ UNCHANGED <<up, mem, wdCancel, wdDone, cancelled, cfg, host, pc, loc, env>>


TickMark(w) ==
  /\ Dog(w, "mark", "persist")
  /\ status' = "error"
  /\ UNCHANGED <<up, running, wdCancel, wdDone, cancelled, cfg, host, pc, loc,
                 faults, env>>

TickSave(w) ==
  /\ Dog(w, "persist", "wait")
  /\ SaveStatus("error")
  /\ UNCHANGED <<up, mem, wdCancel, wdDone, cancelled, host, pc, loc, env>>

--------------------------------------------------------------------------------
(* The machine *)

InterfaceLost ==
  /\ iface /\ losses < MaxLosses
  /\ iface' = FALSE /\ losses' = losses + 1
  /\ UNCHANGED <<up, mem, dog, cfg, peers, pc, loc, crossed, faults, restarts>>

\* The daemon exits or dies (main does not disconnect); a reboot also takes
\* the interface.
Stop ==
  /\ up /\ restarts < MaxRestarts
  /\ up' = FALSE /\ restarts' = restarts + 1
  /\ running' = FALSE /\ status' = "disconnected"
  /\ wdCancel' = None /\ wdDone' = None
  /\ wd' = [c \in Connects |-> "none"] /\ cancelled' = {} /\ crossed' = {}
  /\ pc' = [r \in DOMAIN pc |-> IF pc[r] \in Connecting \cup Disconnecting
                                THEN "gone" ELSE pc[r]]
  /\ iface' \in {iface, FALSE}
  /\ UNCHANGED <<cfg, peers, loc, faults, losses>>

\* main up to the HTTP server, with ReconcileStartupState.
Start ==
  /\ ~up /\ up' = TRUE
  /\ IF cfgStatus = "connected" /\ ~iface THEN SaveStatus("disconnected")
     ELSE UNCHANGED <<cfg, faults>>
  /\ UNCHANGED <<mem, dog, host, pc, loc, env>>

ConnectStep(c) ==
  \/ Enter(c) \/ Fetch(c) \/ AddPeer(c) \/ WriteClientConf(c) \/ Up(c) \/ Persist(c)
  \/ StartWatchdog(c) \/ Finish(c) \/ FailMark(c) \/ FailSave(c)
DisconnectStep(d) ==
  ReadDone(d) \/ Wait(d) \/ Down(d) \/ DisconnectSave(d) \/ DisconnectEnd(d)
HandleDisconnect(d) == DisconnectEnter(d) \/ DisconnectStep(d)
WatchdogStep(w) == Tick(w) \/ TickMark(w) \/ TickSave(w)

Next ==
  \/ \E c \in Connects : Accept(c) \/ ConnectStep(c) \/ WatchdogExit(c)
                           \/ WatchdogStep(c)
  \/ \E d \in Disconnects : HandleDisconnect(d)
  \/ InterfaceLost \/ Stop \/ Start

Spec == Init /\ [][Next]_vars

\* Goroutines keep running and every command has a timeout.  select may
\* prefer a pending tick to a cancelled context, but not for ever: after a
\* tick the ticker is silent for 30 seconds.
Fairness ==
  /\ \A c \in Connects : WF_vars(ConnectStep(c)) /\ WF_vars(WatchdogStep(c))
                           /\ SF_vars(WatchdogExit(c))
  /\ \A d \in Disconnects : WF_vars(DisconnectStep(d))
  /\ WF_vars(Start)
FairSpec == Spec /\ Fairness

--------------------------------------------------------------------------------
(* Properties *)

Live == {w \in Connects : wd[w] \in Alive}
NoDisconnect == \A d \in Disconnects : pc[d] \notin Disconnecting

\* While the manager says it is connected and nobody is disconnecting, exactly
\* one watchdog is alive, it is not cancelled, and it is the one that m.cancel
\* and m.done belong to: the next Disconnect will stop it and will not wait in
\* vain.  Disconnects may overlap; only after a Connect has been at work together
\* with another Connect or with a Disconnect (which one that overlaps with the
\* end of another can meet) may a second watchdog be left behind.
RunningIsWatched ==
  crossed = {} /\ running /\ NoDisconnect =>
    Live = {wdDone} /\ wdCancel = wdDone /\ wdDone \notin cancelled

\* A Disconnect that found the tunnel running is about to report success: the
\* interface is gone, no watchdog is left to overwrite the status, and the
\* configuration says "disconnected" (as long as no command or save failed),
\* also when several Disconnects overlap.
DisconnectEffective ==
  \A d \in Disconnects : pc[d] = "end" /\ faults = 0 /\ crossed = {} =>
    ~iface /\ Live = {} /\ cfgStatus = "disconnected"


================================================================================
