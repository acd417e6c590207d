-------------------------- MODULE TunnelManagerProofs --------------------------
(***************************************************************************)
(* What the two halves of tunnel/manager.go guarantee, for any number of   *)
(* requests, of failed commands, of losses and of restarts.                *)
(*                                                                         *)
(* TunnelManager, the client: its types and, as long as no Connect was at  *)
(* work together with another request, that a running tunnel has its one   *)
(* watchdog, that a Disconnect does what it reports and that it does not   *)
(* wait in vain.                                                           *)
(*                                                                         *)
(* ServerPeers, the peers of the server: its types, that a peer keeps its  *)
(* address, and that a removed peer does not come back where awg-quick     *)
(* save persists the removal.                                              *)
(***************************************************************************)
EXTENDS TunnelManager, ServerPeers, SequenceTheorems, FiniteSetTheorems,
        WellFoundedInduction, TLAPS

\* The key pair is chosen before the peer is added.
KeyInv ==
  \A c \in Connects : pc[c] \in {"addpeer", "conf", "up", "persist"} => key[c] \in Connects

\* A Connect past its test of running meets whoever else is past it.
Met ==
  \A c \in Connects : \A q \in Connects \cup Disconnects :
    c # q /\ pc[c] \in Working /\ pc[q] \in Working \cup Disconnecting =>
      c \in crossed /\ q \in crossed

\* m.cancel and m.done belong to one watchdog, which was started; a Connect has
\* none before it starts it.
Owned ==
  /\ wdCancel = wdDone
  /\ wdDone # None => wd[wdDone] # "none"
  /\ \A c \in Connects : pc[c] \in {"idle"} \cup (Connecting \ {"finish"}) => wd[c] = "none"
  /\ running \/ (\E q \in Connects \cup Disconnects : pc[q] \in {"finish"} \cup Disconnecting)
       => wdDone # None

\* A Disconnect that met no Connect reads, and waits on, a channel whose
\* watchdog is cancelled.
Waits ==
  \A d \in Disconnects : d \notin crossed =>
    /\ pc[d] = "read" => wdDone \in cancelled
    /\ pc[d] = "wait" => waitOn[d] \in cancelled

\* running is false while a Connect is at work, and a watchdog is not cancelled
\* before its Connect has returned.
Fresh ==
  \A c \in Connects :
    /\ pc[c] \in Working => ~running
    /\ pc[c] \in {"idle"} \cup Connecting => c \notin cancelled

NoWatchdog == \A w \in Connects : wd[w] \notin Alive

\* Which watchdog is alive, at every point of a Connect and a Disconnect.
Watched ==
  /\ \A w \in Connects : wd[w] \in Alive => w = wdDone
  /\ running /\ NoDisconnect => wd[wdDone] \in Alive /\ wdDone \notin cancelled
  /\ \A c \in Connects : pc[c] = "finish" => wd[c] \in Alive /\ wdDone = c
  /\ ~running /\ (\A c \in Connects : pc[c] # "finish") => NoWatchdog
  /\ \A d \in Disconnects :
       /\ pc[d] \in {"read", "wait"} => wdDone \in cancelled
       /\ pc[d] = "wait" => waitOn[d] = wdDone
       /\ pc[d] \in {"down", "cfg", "end"} => NoWatchdog

\* What a Disconnect has done, unless something failed.
Undone ==
  \A d \in Disconnects : faults = 0 =>
    /\ pc[d] \in {"cfg", "end"} => ~iface
    /\ pc[d] = "end" => cfgStatus = "disconnected"

\* The last three as long as no Connect has met anybody.
SInv == Fresh /\ Watched /\ Undone
CInv == Met /\ Owned /\ Waits /\ (crossed = {} => SInv)
TInv == TypeOK /\ KeyInv

\* A Disconnect that met no Connect waits only for a watchdog whose context is
\* cancelled.
WaitsForCancelled ==
  \A d \in Disconnects \ crossed : pc[d] = "wait" => waitOn[d] \in cancelled

--------------------------------------------------------------------------------
(* Types *)

LEMMA Bounds ==
  /\ MaxConnecting \in Nat /\ MaxDisconnecting \in Nat /\ MaxFaults \in Nat
  /\ MaxRestarts \in Nat /\ MaxLosses \in Nat
  BY TunnelAssumption

PCs == {"idle"} \cup Connecting \cup Disconnecting \cup Ended

\* The parts of TypeOK that the actions change together.
MemType == up \in BOOLEAN /\ running \in BOOLEAN /\ status \in Statuses
DogType ==
  /\ wdCancel \in Connects \cup {None} /\ wdDone \in Connects \cup {None}
  /\ wd \in [Connects -> {"none", "exited"} \cup Alive] /\ cancelled \subseteq Connects
CfgType == cfgStatus \in Statuses /\ cfgKey \in Connects \cup {None}
HostType == iface \in BOOLEAN /\ peers \subseteq Connects
PcType == pc \in [Connects \cup Disconnects -> PCs]
LocType == key \in [Connects -> Connects \cup {None}] /\ waitOn \in [Disconnects -> Connects \cup {None}]
EnvType == crossed \subseteq Connects \cup Disconnects /\ restarts \in 0..MaxRestarts /\ losses \in 0..MaxLosses
FaultType == faults \in 0..MaxFaults

LEMMA TypeParts ==
  TypeOK <=> MemType /\ DogType /\ CfgType /\ HostType /\ PcType /\ LocType /\ EnvType /\ FaultType
  BY DEF TypeOK, MemType, DogType, CfgType, HostType, PcType, LocType, EnvType, FaultType, PCs

LEMMA TypePartsNext ==
  TypeOK' <=> MemType' /\ DogType' /\ CfgType' /\ HostType' /\ PcType' /\ LocType' /\ EnvType'
              /\ FaultType'
  BY DEF TypeOK, MemType, DogType, CfgType, HostType, PcType, LocType, EnvType, FaultType, PCs

\* What no action touches keeps its type.
LEMMA Kept ==
  ASSUME TypeOK
  PROVE  /\ UNCHANGED <<up, mem>> => MemType'
         /\ UNCHANGED dog => DogType'
         /\ UNCHANGED cfg => CfgType'
         /\ UNCHANGED host => HostType'
         /\ UNCHANGED pc => PcType'
         /\ UNCHANGED loc => LocType'
         /\ UNCHANGED env => EnvType'
         /\ UNCHANGED faults => FaultType'
<1> USE TypeParts
<1>1. UNCHANGED <<up, mem>> => MemType'
  BY DEF MemType, mem
<1>2. UNCHANGED dog => DogType'
  BY DEF DogType, dog
<1>3. UNCHANGED cfg => CfgType'
  BY DEF CfgType, cfg
<1>4. UNCHANGED host => HostType'
  BY DEF HostType, host
<1>5. (UNCHANGED pc => PcType') /\ (UNCHANGED loc => LocType')
  BY DEF PcType, LocType, loc
<1>6. (UNCHANGED env => EnvType') /\ (UNCHANGED faults => FaultType')
  BY DEF EnvType, FaultType, env
<1> QED
  BY <1>1, <1>2, <1>3, <1>4, <1>5, <1>6

LEMMA GotoType ==
  ASSUME TypeOK, NEW r \in Connects \cup Disconnects, NEW from, NEW to \in PCs, Goto(r, from, to)
  PROVE  /\ PcType' /\ pc'[r] = to /\ pc[r] = from
         /\ \A q \in Connects \cup Disconnects : q # r => pc'[q] = pc[q]
  BY TypeParts DEF PcType, Goto

LEMMA FaultKept ==
  ASSUME TypeOK, Fault \/ NoFault
  PROVE  FaultType' /\ (faults' = 0 => faults = 0)
  BY TypeParts, Bounds DEF FaultType, Fault, NoFault

LEMMA SaveStatusType ==
  ASSUME TypeOK, NEW x \in Statuses, SaveStatus(x)
  PROVE  CfgType' /\ (Fault \/ NoFault)
  BY TypeParts DEF CfgType, SaveStatus

\* Every step of a Connect keeps the types and KeyInv.
LEMMA ConnectType ==
  ASSUME TInv, NEW c \in Connects, Accept(c) \/ ConnectStep(c)
  PROVE  TInv'
<1> USE DEF PCs, Connecting, Disconnecting, Ended
<1>0. TypeOK /\ KeyInv
  BY DEF TInv
<1>1. ASSUME NEW from \in PCs, NEW to \in PCs, Goto(c, from, to),
             to \in {"addpeer", "conf", "up", "persist"} => key'[c] \in Connects,
             \A e \in Connects \ {c} : key'[e] = key[e]
      PROVE  PcType' /\ KeyInv'
  <2>1. PcType' /\ pc'[c] = to /\ \A q \in Connects \cup Disconnects : q # c => pc'[q] = pc[q]
    BY <1>0, <1>1, GotoType
  <2> QED
    BY <1>0, <1>1, <2>1 DEF KeyInv
<1>2. CASE Accept(c)
  <2>1. PcType' /\ KeyInv'
    BY <1>0, <1>1, <1>2 DEF Accept, loc
  <2> QED
    BY <1>0, <1>2, <2>1, Kept, TypePartsNext DEF Accept, TInv
<1>3. CASE Enter(c)
  <2>1. PcType' /\ KeyInv'
    BY <1>0, <1>1, <1>3 DEF Enter, loc
  <2>2. MemType' /\ CfgType' /\ (Fault \/ NoFault)
    <3>1. CASE running /\ UNCHANGED <<mem, cfg, faults>>
      BY <1>0, <1>3, <3>1, Kept DEF Enter, NoFault
    <3>2. CASE status' = "connecting" /\ SaveStatus("connecting") /\ UNCHANGED running
      <4>1. CfgType' /\ (Fault \/ NoFault)
        BY <1>0, <3>2, SaveStatusType DEF Statuses
      <4>2. MemType'
        BY <1>0, <1>3, <3>2, TypeParts DEF MemType, Enter, Statuses
      <4> QED
        BY <4>1, <4>2
    <3> QED
      BY <1>3, <3>1, <3>2 DEF Enter
  <2>3. EnvType'
    BY <1>0, <1>3, TypeParts DEF Enter, EnvType, Meet, Past
  <2> QED
    BY <1>0, <1>3, <2>1, <2>2, <2>3, Kept, FaultKept, TypePartsNext DEF Enter, TInv
<1>4. CASE Fetch(c)
  <2>1. KeyPair(c) \in Connects
    BY <1>0, TypeParts DEF CfgType, KeyPair
  <2>2. LocType' /\ \A e \in Connects \ {c} : key'[e] = key[e]
    BY <1>0, <1>4, <2>1, TypeParts DEF Fetch, LocType
  <2>3. PcType' /\ KeyInv'
    <3>1. CASE Goto(c, "fetch", "fail")
      BY <1>1, <2>2, <3>1
    <3>2. CASE (\/ Goto(c, "fetch", IF KeyPair(c) \in peers THEN "conf" ELSE "addpeer")
                \/ Goto(c, "fetch", "addpeer")) /\ key' = [key EXCEPT ![c] = KeyPair(c)]
      <4>1. key'[c] \in Connects
        BY <1>0, <2>1, <3>2, TypeParts DEF LocType
      <4>2. CASE Goto(c, "fetch", "conf")
        BY <1>1, <2>2, <4>1, <4>2
      <4>3. CASE Goto(c, "fetch", "addpeer")
        BY <1>1, <2>2, <4>1, <4>3
      <4> QED
        BY <3>2, <4>2, <4>3
    <3> QED
      BY <1>4, <3>1, <3>2 DEF Fetch
  <2>4. Fault \/ NoFault
    BY <1>4 DEF Fetch
  <2> QED
    BY <1>0, <1>4, <2>2, <2>3, <2>4, Kept, FaultKept, TypePartsNext DEF Fetch, TInv
<1>5. CASE AddPeer(c)
  <2>1. key[c] \in Connects /\ key' = key
    BY <1>0, <1>5 DEF KeyInv, AddPeer, Goto, loc
  <2>2. PcType' /\ KeyInv'
    BY <1>1, <1>5, <2>1 DEF AddPeer
  <2>3. HostType'
    BY <1>0, <1>5, <2>1, TypeParts DEF HostType, AddPeer
  <2>4. Fault \/ NoFault
    BY <1>5 DEF AddPeer
  <2> QED
    BY <1>0, <1>5, <2>2, <2>3, <2>4, Kept, FaultKept, TypePartsNext DEF AddPeer, TInv
<1>6. CASE WriteClientConf(c)
  <2>1. key' = key /\ (pc[c] = "conf" => key[c] \in Connects)
    BY <1>0, <1>6 DEF KeyInv, WriteClientConf, loc
  <2>2. PcType' /\ KeyInv'
    BY <1>1, <1>6, <2>1 DEF WriteClientConf, Goto
  <2>3. Fault \/ NoFault
    BY <1>6 DEF WriteClientConf
  <2> QED
    BY <1>0, <1>6, <2>2, <2>3, Kept, FaultKept, TypePartsNext DEF WriteClientConf, TInv
<1>7. CASE Up(c)
  <2>0. PICK ok \in BOOLEAN : AwgUp(ok) /\ Goto(c, "up", IF ok THEN "persist" ELSE "fail")
    BY <1>7 DEF Up
  <2>1. key' = key /\ (pc[c] = "up" => key[c] \in Connects)
    BY <1>0, <1>7 DEF KeyInv, Up, loc
  <2>2. PcType' /\ KeyInv'
    BY <1>1, <2>0, <2>1 DEF Goto
  <2>3. iface' \in BOOLEAN /\ (Fault \/ NoFault)
    BY <1>0, <2>0, TypeParts DEF AwgUp, HostType
  <2>4. HostType'
    BY <1>0, <1>7, <2>3, TypeParts DEF HostType, Up
  <2> QED
    BY <1>0, <1>7, <2>2, <2>3, <2>4, Kept, FaultKept, TypePartsNext DEF Up, TInv
<1>8. CASE Persist(c)
  <2>1. PcType' /\ KeyInv'
    BY <1>1, <1>8 DEF Persist, loc
  <2>2. CfgType' /\ (Fault \/ NoFault)
    BY <1>0, <1>8, TypeParts DEF CfgType, LocType, Persist, cfg, Statuses
  <2> QED
    BY <1>0, <1>8, <2>1, <2>2, Kept, FaultKept, TypePartsNext DEF Persist, TInv
<1>9. CASE StartWatchdog(c)
  <2>1. PcType' /\ KeyInv'
    BY <1>1, <1>9 DEF StartWatchdog, loc
  <2>2. DogType'
    BY <1>0, <1>9, TypeParts DEF DogType, StartWatchdog, Alive
  <2> QED
    BY <1>0, <1>9, <2>1, <2>2, Kept, TypePartsNext DEF StartWatchdog, TInv
<1>10. CASE Finish(c) \/ FailMark(c)
  <2>1. PcType' /\ KeyInv'
    BY <1>1, <1>10 DEF Finish, FailMark, loc
  <2>2. MemType'
    BY <1>0, <1>10, TypeParts DEF MemType, Finish, FailMark, Statuses
  <2> QED
    BY <1>0, <1>10, <2>1, <2>2, Kept, TypePartsNext DEF Finish, FailMark, TInv
<1>11. CASE FailSave(c)
  <2>1. PcType' /\ KeyInv'
    BY <1>1, <1>11 DEF FailSave, loc
  <2>2. CfgType' /\ (Fault \/ NoFault)
    BY <1>0, <1>11, SaveStatusType DEF FailSave, Statuses
  <2> QED
    BY <1>0, <1>11, <2>1, <2>2, Kept, FaultKept, TypePartsNext DEF FailSave, TInv
<1> QED
  BY <1>2, <1>3, <1>4, <1>5, <1>6, <1>7, <1>8, <1>9, <1>10, <1>11 DEF ConnectStep

\* Every step of a Disconnect, a watchdog or the machine keeps them too.
LEMMA OtherType ==
  ASSUME TInv,
         \/ \E d \in Disconnects : HandleDisconnect(d)
         \/ \E w \in Connects : WatchdogExit(w) \/ WatchdogStep(w)
         \/ InterfaceLost \/ Stop \/ Start \/ UNCHANGED vars
  PROVE  TInv'
<1>0. TypeOK /\ KeyInv
  BY DEF TInv
<1>1. ASSUME NEW d \in Disconnects, NEW from, NEW to \in PCs, Goto(d, from, to), UNCHANGED key
      PROVE  PcType' /\ KeyInv'
  <2>1. PcType' /\ \A q \in Connects \cup Disconnects : q # d => pc'[q] = pc[q]
    BY <1>0, <1>1, GotoType
  <2> QED
    BY <1>0, <1>1, <2>1, TunnelAssumption DEF KeyInv
<1>2. ASSUME UNCHANGED <<pc, loc>> PROVE PcType' /\ KeyInv' /\ LocType'
  BY <1>0, <1>2, Kept DEF KeyInv, loc
<1>3. ASSUME NEW d \in Disconnects, HandleDisconnect(d) PROVE TInv'
  <2> USE DEF PCs, Disconnecting, Ended
  <2>1. CASE DisconnectEnter(d)
    <3>1. PcType' /\ KeyInv'
      BY <1>1, <2>1 DEF DisconnectEnter, loc
    <3>2. DogType'
      BY <1>0, <2>1, TypeParts DEF DogType, DisconnectEnter
    <3>3. EnvType'
      BY <1>0, <2>1, TypeParts DEF DisconnectEnter, EnvType, Meet, Past
    <3> QED
      BY <1>0, <2>1, <3>1, <3>2, <3>3, Kept, TypePartsNext DEF DisconnectEnter, TInv
  <2>2. CASE ReadDone(d)
    <3>1. PcType' /\ KeyInv'
      BY <1>1, <2>2 DEF ReadDone
    <3>2. LocType'
      BY <1>0, <2>2, TypeParts DEF LocType, DogType, ReadDone
    <3> QED
      BY <1>0, <2>2, <3>1, <3>2, Kept, TypePartsNext DEF ReadDone, TInv
  <2>3. CASE Wait(d)
    <3>1. PcType' /\ KeyInv'
      BY <1>1, <2>3 DEF Wait, loc
    <3> QED
      BY <1>0, <2>3, <3>1, Kept, TypePartsNext DEF Wait, TInv
  <2>4. CASE Down(d)
    <3>1. PcType' /\ KeyInv'
      BY <1>1, <2>4 DEF Down, loc
    <3>2. iface' \in BOOLEAN /\ (Fault \/ NoFault)
      BY <1>0, <2>4, TypeParts DEF HostType, Down, AwgDown
    <3>3. HostType'
      BY <1>0, <2>4, <3>2, TypeParts DEF HostType, Down
    <3> QED
      BY <1>0, <2>4, <3>1, <3>2, <3>3, Kept, FaultKept, TypePartsNext DEF Down, TInv
  <2>5. CASE DisconnectSave(d)
    <3>1. PcType' /\ KeyInv'
      BY <1>1, <2>5 DEF DisconnectSave, loc
    <3>2. CfgType' /\ (Fault \/ NoFault)
      BY <1>0, <2>5, SaveStatusType DEF DisconnectSave, Statuses
    <3> QED
      BY <1>0, <2>5, <3>1, <3>2, Kept, FaultKept, TypePartsNext DEF DisconnectSave, TInv
  <2>6. CASE DisconnectEnd(d)
    <3>1. PcType' /\ KeyInv'
      BY <1>1, <2>6 DEF DisconnectEnd, loc
    <3>2. MemType'
      BY <1>0, <2>6, TypeParts DEF MemType, DisconnectEnd, Statuses
    <3> QED
      BY <1>0, <2>6, <3>1, <3>2, Kept, TypePartsNext DEF DisconnectEnd, TInv
  <2> QED
    BY <1>3, <2>1, <2>2, <2>3, <2>4, <2>5, <2>6 DEF HandleDisconnect, DisconnectStep
<1>4. ASSUME NEW w \in Connects, WatchdogExit(w) \/ WatchdogStep(w) PROVE TInv'
  <2>1. DogType'
    BY <1>0, <1>4, TypeParts
    DEF DogType, WatchdogExit, WatchdogStep, Tick, TickMark, TickSave, Dog, Alive
  <2>2. PcType' /\ KeyInv' /\ LocType'
    BY <1>2, <1>4 DEF WatchdogExit, WatchdogStep, Tick, TickMark, TickSave
  <2>3. HostType' /\ EnvType'
    BY <1>0, <1>4, Kept DEF WatchdogExit, WatchdogStep, Tick, TickMark, TickSave
  <2>4. MemType'
    BY <1>0, <1>4, TypeParts
    DEF MemType, WatchdogExit, WatchdogStep, Tick, TickMark, TickSave, mem, Statuses
  <2>5. FaultType' /\ CfgType'
    <3>1. CASE TickSave(w)
      <4>1. CfgType' /\ (Fault \/ NoFault)
        BY <1>0, <3>1, SaveStatusType DEF TickSave, Statuses
      <4> QED
        BY <1>0, <4>1, FaultKept
    <3>2. CASE Tick(w)
      BY <1>0, <3>2, Kept, FaultKept DEF Tick, InterfaceMissing
    <3>3. CASE WatchdogExit(w) \/ TickMark(w)
      BY <1>0, <3>3, Kept DEF WatchdogExit, TickMark
    <3> QED
      BY <1>4, <3>1, <3>2, <3>3 DEF WatchdogStep
  <2> QED
    BY <2>1, <2>2, <2>3, <2>4, <2>5, TypePartsNext DEF TInv
<1>5. CASE InterfaceLost
  <2>1. PcType' /\ KeyInv' /\ LocType'
    BY <1>2, <1>5 DEF InterfaceLost
  <2>2. HostType'
    BY <1>0, <1>5, TypeParts DEF HostType, InterfaceLost
  <2>3. EnvType'
    BY <1>0, <1>5, TypeParts, Bounds DEF EnvType, InterfaceLost
  <2> QED
    BY <1>0, <1>5, <2>1, <2>2, <2>3, Kept, TypePartsNext DEF InterfaceLost, TInv
<1>6. CASE Stop
  <2>1. PcType' /\ \A c \in Connects : pc'[c] \notin {"addpeer", "conf", "up", "persist"}
    BY <1>0, <1>6, TypeParts DEF PcType, PCs, Stop, Connecting, Disconnecting, Ended
  <2>2. KeyInv'
    BY <2>1 DEF KeyInv
  <2>3. MemType'
    BY <1>6 DEF MemType, Stop, Statuses
  <2>4. DogType'
    BY <1>6 DEF DogType, Stop
  <2>5. HostType'
    BY <1>0, <1>6, TypeParts DEF HostType, Stop
  <2>6. EnvType'
    BY <1>0, <1>6, TypeParts, Bounds DEF EnvType, Stop
  <2> QED
    BY <1>0, <1>6, <2>1, <2>2, <2>3, <2>4, <2>5, <2>6, Kept, TypePartsNext DEF Stop, TInv
<1>7. CASE Start
  <2>1. PcType' /\ KeyInv' /\ LocType'
    BY <1>2, <1>7 DEF Start
  <2>2. FaultType' /\ CfgType'
    <3>1. CASE SaveStatus("disconnected")
      <4>1. CfgType' /\ (Fault \/ NoFault)
        BY <1>0, <3>1, SaveStatusType DEF Statuses
      <4> QED
        BY <1>0, <4>1, FaultKept
    <3>2. CASE UNCHANGED <<cfg, faults>>
      BY <1>0, <3>2, Kept
    <3> QED
      BY <1>7, <3>1, <3>2 DEF Start
  <2>3. MemType'
    BY <1>0, <1>7, TypeParts DEF MemType, Start, mem
  <2> QED
    BY <1>0, <1>7, <2>1, <2>2, <2>3, Kept, TypePartsNext DEF Start, TInv
<1>8. CASE UNCHANGED vars
  <2>1. PcType' /\ KeyInv' /\ LocType'
    BY <1>2, <1>8 DEF vars
  <2> QED
    BY <1>0, <1>8, <2>1, Kept, TypePartsNext DEF vars, TInv
<1> QED
  BY <1>3, <1>4, <1>5, <1>6, <1>7, <1>8

LEMMA TInvInit == Init => TInv
<1> SUFFICES ASSUME Init PROVE TInv
  OBVIOUS
<1>1. MemType /\ DogType /\ CfgType /\ HostType
  BY DEF Init, MemType, DogType, CfgType, HostType, Statuses
<1>2. PcType /\ LocType
  BY DEF Init, PcType, LocType, PCs
<1>3. EnvType /\ FaultType
  BY Bounds DEF Init, EnvType, FaultType
<1>4. KeyInv
  BY DEF Init, KeyInv
<1> QED
  BY <1>1, <1>2, <1>3, <1>4, TypeParts DEF TInv

LEMMA TInvariance == Spec => []TInv
<1>1. TInv /\ [Next]_vars => TInv'
  BY ConnectType, OtherType DEF Next
<1> QED
  BY TInvInit, <1>1, PTL DEF Spec

\* The manager's fields, the persisted configuration and the server's peers
\* keep their types, whatever requests run together; in particular AddPeer
\* never sends a key that Connect has not chosen.
THEOREM TypeCorrect == Spec => []TypeOK
<1>1. TInv => TypeOK
  BY DEF TInv
<1> QED
  BY <1>1, TInvariance, PTL

--------------------------------------------------------------------------------
(* Requests that overlap *)

Calls == Connects \cup Disconnects

LEMMA CallsApart ==
  /\ \A d \in Disconnects : d \in Calls /\ d \notin Connects
  /\ \A c \in Connects : c \in Calls /\ c \notin Disconnects /\ c # None
  BY TunnelAssumption DEF Calls

\* What a request leaves in crossed when it passes its test of running.
LEMMA MeetFacts ==
  ASSUME TypeOK, NEW r, NEW S \in SUBSET Calls, Meet(r, S)
  PROVE  /\ \A x : x \in crossed => x \in crossed'
         /\ \A q \in S : pc[q] \in Working \cup Disconnecting => q \in crossed' /\ r \in crossed'
         /\ crossed' = {} => crossed = {}
         /\ (\A q \in S : pc[q] \notin Working \cup Disconnecting) => crossed' = crossed
  BY DEF Meet, Past

\* A step of request r that changes neither what Met nor what Owned is about in
\* any other request.
LEMMA MoveFacts ==
  ASSUME TypeOK, NEW r \in Calls, NEW from, NEW to, Goto(r, from, to)
  PROVE  pc'[r] = to /\ pc[r] = from /\ \A q \in Calls : q # r => pc'[q] = pc[q]
  BY TypeParts DEF Goto, PcType, Calls

\* A Connect goes on, between its acceptance and the start of its watchdog, or
\* gives up: neither running nor a watchdog changes.
LEMMA ConnectMoves ==
  ASSUME TypeOK, CInv, NEW c \in Connects,
         NEW from \in {"idle"} \cup (Connecting \ {"finish"}),
         NEW to \in (Connecting \ {"finish"}) \cup Ended, Goto(c, from, to),
         UNCHANGED <<running, dog, waitOn>>, Fault \/ NoFault,
         \/ UNCHANGED crossed /\ (to \in Working => from \in Working)
         \/ ~running /\ from \notin Working /\ Meet(c, Calls),
         UNCHANGED <<iface, cfgStatus>> \/ from \in Working \/ to \in Working
  PROVE  CInv'
<1> USE DEF Connecting, Disconnecting, Ended, Working
<1>1. /\ pc'[c] = to /\ pc[c] = from
      /\ \A q \in Calls : q # c => pc'[q] = pc[q]
  BY MoveFacts, CallsApart
<1>2. \A d \in Disconnects : d # c /\ d \in Calls /\ pc'[d] = pc[d]
  BY <1>1, CallsApart
<1>3. /\ \A x : x \in crossed => x \in crossed'
      /\ crossed' = {} => crossed = {}
      /\ to \in Working /\ from \notin Working =>
           ~running /\ \A q \in Calls : pc[q] \in Working \cup Disconnecting =>
                                          q \in crossed' /\ c \in crossed'
  <2>1. CASE UNCHANGED crossed /\ (to \in Working => from \in Working)
    BY <2>1
  <2>2. CASE ~running /\ from \notin Working /\ Meet(c, Calls)
    BY <2>2, MeetFacts
  <2> QED
    BY <2>1, <2>2
<1>4. Met'
  <2> SUFFICES ASSUME NEW x \in Connects, NEW q \in Calls, x # q, pc'[x] \in Working,
                      pc'[q] \in Working \cup Disconnecting
               PROVE  x \in crossed' /\ q \in crossed'
    BY DEF Met, Calls
  <2>1. CASE from \in Working \/ (x # c /\ q # c)
    <3>1. pc[x] \in Working /\ pc[q] \in Working \cup Disconnecting
      BY <1>1, <2>1, CallsApart
    <3> QED
      BY <1>3, <3>1 DEF CInv, Met, Calls
  <2>2. CASE from \notin Working /\ (x = c \/ q = c)
    BY <1>1, <1>3, <2>2, CallsApart
  <2> QED
    BY <2>1, <2>2
<1>5. Owned'
  <2>1. \A e \in Connects : pc'[e] \in {"idle"} \cup (Connecting \ {"finish"}) =>
                            pc[e] \in {"idle"} \cup (Connecting \ {"finish"})
    BY <1>1, CallsApart
  <2>2. \A q \in Calls : pc'[q] \in {"finish"} \cup Disconnecting =>
                         pc[q] \in {"finish"} \cup Disconnecting
    BY <1>1
  <2>3. UNCHANGED <<running, wdCancel, wdDone, wd>>
    BY DEF dog
  <2> HIDE DEF Connecting, Disconnecting, Ended, Working
  <2> QED
    BY <2>1, <2>2, <2>3 DEF CInv, Owned, Calls
<1>6. Waits'
  BY <1>2, <1>3 DEF CInv, Waits, dog
<1>7. ASSUME crossed' = {} PROVE SInv'
  <2>0. crossed = {} /\ SInv
    BY <1>3, <1>7 DEF CInv
  <2>1. Fresh'
    BY <1>1, <1>3, <2>0, CallsApart DEF SInv, Fresh, dog
  <2>2. \A e \in Connects : pc'[e] = "finish" <=> pc[e] = "finish"
    BY <1>1, CallsApart
  <2>3. NoDisconnect' <=> NoDisconnect
    BY <1>2 DEF NoDisconnect
  <2>4. Watched'
    BY <1>2, <2>0, <2>2, <2>3 DEF SInv, Watched, NoWatchdog, dog
  <2>5. UNCHANGED <<iface, cfgStatus>> \/ \A d \in Disconnects : pc'[d] \notin Disconnecting
    <3>1. CASE from \in Working
      BY <1>1, <1>2, <2>0, <3>1 DEF CInv, Met, Calls
    <3>2. CASE to \in Working
      BY <1>1, <1>2, <1>4, <1>7, <3>2 DEF Met, Calls
    <3> QED
      BY <3>1, <3>2
  <2>6. faults' = 0 => faults = 0
    BY FaultKept
  <2>7. Undone'
    BY <1>2, <2>0, <2>5, <2>6 DEF SInv, Undone
  <2> QED
    BY <2>1, <2>4, <2>7 DEF SInv
<1> QED
  BY <1>4, <1>5, <1>6, <1>7 DEF CInv

\* The steps of a Connect.
LEMMA ConnectKeeps ==
  ASSUME TypeOK, CInv, NEW c \in Connects, Accept(c) \/ ConnectStep(c)
  PROVE  CInv'
<1> USE DEF Connecting, Disconnecting, Ended, Working
<1>2. CASE Accept(c)
  <2>2. /\ Goto(c, "idle", "refused") \/ Goto(c, "idle", "accepted")
        /\ UNCHANGED <<running, dog, waitOn, iface, cfgStatus, crossed>> /\ NoFault
    BY <1>2 DEF Accept, mem, loc, host, cfg, NoFault, env
  <2> QED
    BY <2>2, ConnectMoves
<1>3. CASE Enter(c)
  <2>1. CASE running /\ Goto(c, "accepted", "already") /\ UNCHANGED <<mem, cfg, faults, crossed>>
    <3>1. UNCHANGED <<running, dog, waitOn, iface, cfgStatus, crossed>> /\ NoFault
      BY <1>3, <2>1 DEF Enter, mem, loc, host, cfg, NoFault
    <3> QED
      BY <2>1, <3>1, ConnectMoves
  <2>2. CASE ~running /\ Goto(c, "accepted", "fetch") /\ SaveStatus("connecting")
             /\ UNCHANGED running /\ Meet(c, Calls)
    <3>1. UNCHANGED <<running, dog, waitOn>> /\ (Fault \/ NoFault)
      BY <1>3, <2>2 DEF Enter, loc, SaveStatus
    <3> QED
      BY <2>2, <3>1, ConnectMoves
  <2> QED
    BY <1>3, <2>1, <2>2 DEF Enter, Calls
<1>4. CASE Fetch(c)
  <2>1. /\ \/ Goto(c, "fetch", "conf") \/ Goto(c, "fetch", "addpeer") \/ Goto(c, "fetch", "fail")
        /\ UNCHANGED <<running, dog, waitOn, iface, cfgStatus, crossed>> /\ (Fault \/ NoFault)
    BY <1>4 DEF Fetch, mem, host, cfg, env
  <2> QED
    BY <2>1, ConnectMoves
<1>5. CASE AddPeer(c)
  <2>1. /\ Goto(c, "addpeer", "conf") \/ Goto(c, "addpeer", "fail")
        /\ UNCHANGED <<running, dog, waitOn, iface, cfgStatus, crossed>> /\ (Fault \/ NoFault)
    BY <1>5 DEF AddPeer, mem, loc, cfg, env
  <2> QED
    BY <2>1, ConnectMoves
<1>6. CASE WriteClientConf(c)
  <2>1. /\ Goto(c, "conf", "up") \/ Goto(c, "conf", "fail")
        /\ UNCHANGED <<running, dog, waitOn, iface, cfgStatus, crossed>> /\ (Fault \/ NoFault)
    BY <1>6 DEF WriteClientConf, mem, loc, cfg, host, env
  <2> QED
    BY <2>1, ConnectMoves
<1>7. CASE Up(c)
  <2>1. /\ Goto(c, "up", "persist") \/ Goto(c, "up", "fail")
        /\ UNCHANGED <<running, dog, waitOn, crossed>> /\ (Fault \/ NoFault)
    BY <1>7 DEF Up, AwgUp, mem, loc, env
  <2> QED
    BY <2>1, ConnectMoves
<1>8. CASE Persist(c)
  <2>1. /\ Goto(c, "persist", "watch")
        /\ UNCHANGED <<running, dog, waitOn, crossed>> /\ (Fault \/ NoFault)
    BY <1>8 DEF Persist, mem, loc, env
  <2> QED
    BY <2>1, ConnectMoves
<1>9. CASE FailMark(c)
  <2>1. /\ Goto(c, "fail", "failcfg")
        /\ UNCHANGED <<running, dog, waitOn, iface, cfgStatus, crossed>> /\ NoFault
    BY <1>9 DEF FailMark, host, loc, cfg, NoFault, env
  <2> QED
    BY <2>1, ConnectMoves
<1>10. CASE FailSave(c)
  <2>1. /\ Goto(c, "failcfg", "error")
        /\ UNCHANGED <<running, dog, waitOn, crossed>> /\ (Fault \/ NoFault)
    BY <1>10 DEF FailSave, SaveStatus, mem, loc, env
  <2> QED
    BY <2>1, ConnectMoves
<1>11. CASE StartWatchdog(c) \/ Finish(c)
  \* In both the Connect is at work and nobody else's place changes.
  <2>1. /\ pc[c] \in {"watch", "finish"} /\ pc'[c] \in {"finish", "connected"}
        /\ \A q \in Calls : q # c => pc'[q] = pc[q]
        /\ UNCHANGED <<cancelled, faults, crossed, waitOn>>
    BY <1>11, MoveFacts, CallsApart DEF StartWatchdog, Finish, env, loc, dog
  <2>2. \A d \in Disconnects : d # c /\ pc'[d] = pc[d]
    BY <2>1, CallsApart
  <2>3. \A q \in Calls : q # c /\ pc[q] \in Working \cup Disconnecting => q \in crossed
    BY <2>1 DEF CInv, Met, Calls
  <2>4. Met'
    <3>1. \A q \in Calls : pc'[q] \in Working \cup Disconnecting => pc[q] \in Working \cup Disconnecting
      BY <2>1
    <3>2. \A q \in Calls : pc'[q] \in Working => pc[q] \in Working
      BY <2>1
    <3> HIDE DEF Connecting, Disconnecting, Ended, Working
    <3> QED
      BY <2>1, <3>1, <3>2 DEF CInv, Met, Calls
  <2>5. CASE StartWatchdog(c)
    <3>1. /\ pc'[c] = "finish" /\ pc[c] = "watch" /\ UNCHANGED running
          /\ wdCancel' = c /\ wdDone' = c
          /\ \A w \in Connects : wd'[w] = IF w = c THEN "wait" ELSE wd[w]
      BY <2>1, <2>5, MoveFacts, CallsApart, TypeParts DEF StartWatchdog, DogType, mem
    <3>2. Owned'
      BY <2>1, <3>1, CallsApart DEF CInv, Owned
    <3>3. Waits'
      BY <2>1, <2>2, <2>3, CallsApart DEF CInv, Waits
    <3>4. ASSUME crossed' = {} PROVE SInv'
      <4>1. crossed = {} /\ SInv /\ ~running
        BY <2>1, <3>1, <3>4 DEF CInv, SInv, Fresh
      <4>2. \A d \in Disconnects : pc'[d] \notin Disconnecting
        BY <2>2, <2>3, <4>1, CallsApart
      <4>3. \A e \in Connects : e # c => pc[e] \notin Working /\ pc'[e] = pc[e]
        BY <2>1, <2>3, <4>1, CallsApart
      <4>4. NoWatchdog
        BY <3>1, <4>1, <4>3 DEF SInv, Watched
      <4>5. Fresh'
        BY <2>1, <3>1, <4>1, <4>3 DEF SInv, Fresh
      <4>6. Watched'
        BY <3>1, <4>1, <4>2, <4>3, <4>4 DEF Watched, NoWatchdog, Alive
      <4>7. Undone'
        BY <4>2 DEF Undone
      <4> QED
        BY <4>5, <4>6, <4>7 DEF SInv
    <3> QED
      BY <2>4, <3>2, <3>3, <3>4 DEF CInv
  <2>6. CASE Finish(c)
    <3>1. /\ pc'[c] = "connected" /\ pc[c] = "finish" /\ running'
          /\ UNCHANGED <<wdCancel, wdDone, wd>>
      BY <2>1, <2>6, MoveFacts, CallsApart DEF Finish, dog
    <3>2. wdDone # None
      BY <3>1, CallsApart DEF CInv, Owned
    <3>3. Owned'
      BY <2>1, <3>1, <3>2, CallsApart DEF CInv, Owned
    <3>4. Waits'
      BY <2>1, <2>2, <3>1 DEF CInv, Waits
    <3>5. ASSUME crossed' = {} PROVE SInv'
      <4>1. crossed = {} /\ SInv
        BY <2>1, <3>5 DEF CInv
      <4>2. \A d \in Disconnects : pc'[d] \notin Disconnecting
        BY <2>2, <2>3, <4>1, CallsApart
      <4>3. \A e \in Connects : e # c => pc[e] \notin Working /\ pc'[e] = pc[e]
        BY <2>1, <2>3, <4>1, CallsApart
      <4>4. wd[c] \in Alive /\ wdDone = c /\ c \notin cancelled
        BY <3>1, <4>1 DEF SInv, Watched, Fresh
      <4>5. Fresh'
        BY <2>1, <3>1, <4>1, <4>3 DEF SInv, Fresh
      <4>6. Watched'
        BY <2>1, <3>1, <4>1, <4>2, <4>3, <4>4 DEF SInv, Watched
      <4>7. Undone'
        BY <4>2 DEF Undone
      <4> QED
        BY <4>5, <4>6, <4>7 DEF SInv
    <3> QED
      BY <2>4, <3>3, <3>4, <3>5 DEF CInv
  <2> QED
    BY <1>11, <2>5, <2>6
<1> QED
  BY <1>2, <1>3, <1>4, <1>5, <1>6, <1>7, <1>8, <1>9, <1>10, <1>11 DEF ConnectStep

\* The steps of a Disconnect.
LEMMA DisconnectKeeps ==
  ASSUME TypeOK, CInv, NEW d \in Disconnects, HandleDisconnect(d)
  PROVE  CInv'
<1> USE DEF Connecting, Disconnecting, Ended, Working
<1>0. ASSUME NEW from, NEW to, Goto(d, from, to)
      PROVE  /\ pc'[d] = to /\ pc[d] = from
             /\ \A e \in Disconnects : e # d => pc'[e] = pc[e]
             /\ \A c \in Connects : c # d /\ pc'[c] = pc[c]
  BY <1>0, MoveFacts, CallsApart
\* Past its test of running a Disconnect leaves Met and Owned as they are.
<1>1. ASSUME NEW from \in Disconnecting, NEW to \in Disconnecting \cup {"done"}, Goto(d, from, to),
             UNCHANGED <<wdCancel, wdDone, wd, crossed>>, running' \in {running, FALSE}
      PROVE  Met' /\ Owned'
  <2>1. /\ pc'[d] = to /\ pc[d] = from
        /\ \A e \in Disconnects : e # d => pc'[e] = pc[e]
        /\ \A c \in Connects : pc'[c] = pc[c]
    BY <1>0, <1>1
  <2>2. \A q \in Connects \cup Disconnects :
          /\ pc'[q] \in Working \cup Disconnecting => pc[q] \in Working \cup Disconnecting
          /\ pc'[q] \in {"finish"} \cup Disconnecting => pc[q] \in {"finish"} \cup Disconnecting
    BY <1>1, <2>1
  <2> HIDE DEF Connecting, Disconnecting, Ended, Working
  <2> QED
    BY <1>1, <2>1, <2>2 DEF CInv, Met, Owned
<1>3. CASE DisconnectEnter(d)
  <2>0. /\ UNCHANGED <<running, wdCancel, wdDone, wd, waitOn, iface, cfgStatus, faults>>
        /\ pc[d] = "idle" /\ wdCancel = wdDone
    BY <1>3 DEF DisconnectEnter, mem, loc, host, cfg, Goto, CInv, Owned
  <2>2. CASE running
    <3>1. /\ pc'[d] = "read"
          /\ \A e \in Disconnects : e # d => pc'[e] = pc[e]
          /\ \A c \in Connects : c # d /\ pc'[c] = pc[c]
      BY <1>0, <1>3, <2>2 DEF DisconnectEnter
    <3>2. wdDone \in Connects /\ wd[wdDone] # "none"
      BY <2>2, TypeParts DEF CInv, Owned, DogType
    <3>3. cancelled' = cancelled \cup {wdDone}
      BY <1>3, <2>0, <2>2, <3>2, TunnelAssumption DEF DisconnectEnter
    <3>4. /\ \A x : x \in crossed => x \in crossed'
          /\ \A q \in Connects : pc[q] \in Working \cup Disconnecting => q \in crossed' /\ d \in crossed'
          /\ crossed' = {} => crossed = {}
      BY <1>3, <2>2, MeetFacts DEF DisconnectEnter, Calls
    <3>5. Met'
      <4> SUFFICES ASSUME NEW x \in Connects, NEW q \in Connects \cup Disconnects, x # q,
                          pc'[x] \in Working, pc'[q] \in Working \cup Disconnecting
                   PROVE  x \in crossed' /\ q \in crossed'
        BY DEF Met
      <4>1. pc[x] \in Working
        BY <3>1
      <4>2. CASE q = d
        BY <3>4, <4>1, <4>2
      <4>3. CASE q # d
        <5>1. pc[q] \in Working \cup Disconnecting
          BY <3>1, <4>3
        <5> QED
          BY <3>4, <4>1, <5>1 DEF CInv, Met
      <4> QED
        BY <4>2, <4>3
    <3>6. Owned'
      BY <2>0, <2>2, <3>1, <3>2, TunnelAssumption DEF CInv, Owned
    <3>7. Waits'
      BY <2>0, <3>1, <3>3, <3>4 DEF CInv, Waits
    <3>8. ASSUME crossed' = {} PROVE SInv'
      <4>1. SInv /\ \A c \in Connects : pc[c] \notin Working
        BY <3>4, <3>8 DEF CInv
      <4>2. Fresh'
        BY <2>0, <3>1, <3>2, <3>3, <4>1 DEF SInv, Fresh, CInv, Owned
      <4>3. Watched'
        BY <2>0, <2>2, <3>1, <3>2, <3>3, <4>1 DEF SInv, Watched, NoDisconnect, NoWatchdog
      <4>4. Undone'
        BY <2>0, <3>1, <4>1 DEF SInv, Undone
      <4> QED
        BY <4>2, <4>3, <4>4 DEF SInv
    <3> QED
      BY <3>5, <3>6, <3>7, <3>8 DEF CInv
  <2>3. CASE ~running
    <3>1. /\ pc'[d] = "noop"
          /\ \A e \in Disconnects : e # d => pc'[e] = pc[e]
          /\ \A c \in Connects : pc'[c] = pc[c]
          /\ cancelled' = cancelled
      BY <1>0, <1>3, <2>3 DEF DisconnectEnter
    <3>2. crossed' = crossed
      BY <1>3, <2>3, MeetFacts DEF DisconnectEnter
    <3>3. /\ \A q \in Connects \cup Disconnects :
               /\ pc'[q] \in Working \cup Disconnecting => pc[q] = pc'[q]
               /\ pc'[q] \in {"finish"} \cup Disconnecting => pc[q] = pc'[q]
          /\ NoDisconnect' => NoDisconnect
      BY <2>0, <3>1 DEF NoDisconnect
    <3>4. \A e \in Disconnects : pc'[e] \in Disconnecting => pc[e] = pc'[e]
      BY <3>3
    <3>5. Met' /\ Owned' /\ Waits'
      BY <2>0, <3>1, <3>2, <3>3, <3>4 DEF CInv, Met, Owned, Waits
    <3>6. SInv => SInv'
      BY <2>0, <2>3, <3>1, <3>3, <3>4 DEF SInv, Fresh, Watched, Undone, NoWatchdog
    <3> QED
      BY <3>2, <3>5, <3>6 DEF CInv
  <2> QED
    BY <2>2, <2>3
<1>4. CASE ReadDone(d)
  <2>1. /\ Goto(d, "read", "wait")
        /\ UNCHANGED <<running, wdCancel, wdDone, wd, cancelled, iface, cfgStatus, faults, crossed>>
        /\ waitOn'[d] = wdDone
        /\ \A e \in Disconnects : e # d => waitOn'[e] = waitOn[e]
    BY <1>4, TypeParts DEF ReadDone, mem, dog, host, cfg, env, LocType
  <2>2. /\ pc'[d] = "wait" /\ pc[d] = "read"
        /\ \A e \in Disconnects : e # d => pc'[e] = pc[e]
        /\ \A c \in Connects : pc'[c] = pc[c]
    BY <1>0, <2>1
  <2>3. Met' /\ Owned'
    BY <1>1, <2>1
  <2>4. Waits'
    BY <2>1, <2>2 DEF CInv, Waits
  <2>5. SInv => SInv'
    BY <2>1, <2>2 DEF SInv, Fresh, Watched, Undone, NoWatchdog, NoDisconnect
  <2> QED
    BY <2>1, <2>3, <2>4, <2>5 DEF CInv
<1>5. CASE Wait(d)
  <2>1. /\ Goto(d, "wait", "down")
        /\ UNCHANGED <<running, wdCancel, wdDone, wd, cancelled, iface, cfgStatus, faults, waitOn, crossed>>
        /\ waitOn[d] # None => wd[waitOn[d]] = "exited"
    BY <1>5 DEF Wait, mem, dog, host, cfg, loc, env
  <2>2. /\ pc'[d] = "down" /\ pc[d] = "wait"
        /\ \A e \in Disconnects : e # d => pc'[e] = pc[e]
        /\ \A c \in Connects : pc'[c] = pc[c]
    BY <1>0, <2>1
  <2>3. Met' /\ Owned'
    BY <1>1, <2>1
  <2>4. Waits'
    BY <2>1, <2>2 DEF CInv, Waits
  <2>5. SInv => NoWatchdog
    <3>1. wdDone # None
      BY <2>2 DEF CInv, Owned
    <3> QED
      BY <2>1, <2>2, <3>1 DEF SInv, Watched, NoWatchdog, Alive
  <2>6. SInv => SInv'
    BY <2>1, <2>2, <2>5 DEF SInv, Fresh, Watched, Undone, NoWatchdog, NoDisconnect
  <2> QED
    BY <2>1, <2>3, <2>4, <2>6 DEF CInv
<1>6. CASE Down(d) \/ DisconnectSave(d)
  <2>1. /\ \/ Goto(d, "down", "cfg") /\ AwgDown /\ UNCHANGED cfgStatus
           \/ Goto(d, "cfg", "end") /\ SaveStatus("disconnected") /\ UNCHANGED iface
        /\ UNCHANGED <<running, wdCancel, wdDone, wd, cancelled, waitOn, crossed>>
    BY <1>6 DEF Down, DisconnectSave, mem, dog, host, cfg, loc, env
  <2>2. /\ \/ pc'[d] = "cfg" /\ pc[d] = "down"
           \/ pc'[d] = "end" /\ pc[d] = "cfg"
        /\ \A e \in Disconnects : e # d => pc'[e] = pc[e]
        /\ \A c \in Connects : pc'[c] = pc[c]
    BY <1>0, <2>1
  <2>3. Met' /\ Owned'
    BY <1>1, <2>1
  <2>4. Waits'
    BY <2>1, <2>2 DEF CInv, Waits
  <2>5. SInv => Fresh' /\ Watched'
    BY <2>1, <2>2 DEF SInv, Fresh, Watched, NoWatchdog, NoDisconnect
  <2>6. ASSUME SInv PROVE Undone'
    <3>1. Fault \/ NoFault
      BY <2>1 DEF AwgDown, SaveStatus
    <3>2. faults' = 0 => faults = 0 /\ UNCHANGED faults
      BY <3>1, FaultKept, TypeParts DEF FaultType, Fault, NoFault
    <3>3. CASE Goto(d, "down", "cfg") /\ AwgDown /\ UNCHANGED cfgStatus
      <4>1. pc'[d] = "cfg"
        BY <1>0, <3>3
      <4>2. faults' = 0 => ~iface'
        BY <3>2, <3>3, TypeParts DEF AwgDown, Fault, FaultType
      <4> QED
        BY <2>2, <2>6, <3>2, <3>3, <4>1, <4>2 DEF SInv, Undone
    <3>4. CASE Goto(d, "cfg", "end") /\ SaveStatus("disconnected") /\ UNCHANGED iface
      <4>1. pc'[d] = "end" /\ pc[d] = "cfg"
        BY <1>0, <3>4
      <4>2. faults' = 0 => cfgStatus' = "disconnected"
        BY <3>2, <3>4, TypeParts DEF SaveStatus, Fault, FaultType
      <4> QED
        BY <2>2, <2>6, <3>2, <3>4, <4>1, <4>2 DEF SInv, Undone
    <3> QED
      BY <2>1, <3>3, <3>4
  <2> QED
    BY <2>1, <2>3, <2>4, <2>5, <2>6 DEF CInv, SInv
<1>8. CASE DisconnectEnd(d)
  <2>1. /\ Goto(d, "end", "done") /\ running' = FALSE
        /\ UNCHANGED <<wdCancel, wdDone, wd, cancelled, iface, cfgStatus, faults, waitOn, crossed>>
    BY <1>8 DEF DisconnectEnd, dog, host, cfg, loc, env
  <2>2. /\ pc'[d] = "done" /\ pc[d] = "end"
        /\ \A e \in Disconnects : e # d => pc'[e] = pc[e]
        /\ \A c \in Connects : pc'[c] = pc[c]
    BY <1>0, <2>1
  <2>3. Met' /\ Owned'
    BY <1>1, <2>1
  <2>4. Waits'
    BY <2>1, <2>2 DEF CInv, Waits
  <2>5. SInv => SInv'
    BY <2>1, <2>2 DEF SInv, Fresh, Watched, Undone, NoWatchdog
  <2> QED
    BY <2>1, <2>3, <2>4, <2>5 DEF CInv
<1> QED
  BY <1>3, <1>4, <1>5, <1>6, <1>8 DEF HandleDisconnect, DisconnectStep

\* The steps of a watchdog: only a cancelled one ends, and while a Disconnect is
\* past its wait there is none.
LEMMA WatchdogKeeps ==
  ASSUME TypeOK, CInv, NEW w \in Connects, WatchdogExit(w) \/ WatchdogStep(w)
  PROVE  CInv'
<1> USE DEF Connecting, Disconnecting, Ended, Working
<1>1. /\ UNCHANGED <<running, wdCancel, wdDone, cancelled, iface, pc, waitOn, crossed>>
      /\ wd[w] \in Alive /\ wd'[w] # "none"
      /\ \A x \in Connects : x # w => wd'[x] = wd[x]
      /\ wd'[w] \in Alive \/ w \in cancelled
      /\ Fault \/ NoFault
  BY TypeParts DEF WatchdogExit, WatchdogStep, Tick, TickMark, TickSave, Dog, DogType, mem, host,
     loc, env, Alive, SaveStatus, InterfaceMissing, NoFault
<1>2. Met' /\ Waits'
  BY <1>1 DEF CInv, Met, Waits
<1>3. Owned'
  <2>1. wdDone # None => wdDone \in Connects
    BY TypeParts DEF DogType
  <2>2. \A c \in Connects : wd'[c] # wd[c] => c = w
    BY <1>1
  <2> HIDE DEF Connecting, Disconnecting, Ended, Working
  <2> QED
    BY <1>1, <2>1, <2>2 DEF CInv, Owned, Alive
<1>4. ASSUME SInv PROVE SInv'
  <2>1. Fresh'
    BY <1>1, <1>4 DEF SInv, Fresh
  <2>2. Watched'
    <3>1. \A c \in Connects : pc[c] = "finish" => c \notin cancelled
      BY <1>4 DEF SInv, Fresh
    <3> QED
      BY <1>1, <1>4, <3>1 DEF SInv, Watched, NoWatchdog, NoDisconnect
  <2>3. faults' = 0 => faults = 0
    BY <1>1, FaultKept
  <2>4. \A d \in Disconnects : pc[d] # "end"
    BY <1>1, <1>4 DEF SInv, Watched, NoWatchdog
  <2>5. Undone'
    BY <1>1, <1>4, <2>3, <2>4 DEF SInv, Undone
  <2> QED
    BY <2>1, <2>2, <2>5 DEF SInv
<1> QED
  BY <1>1, <1>2, <1>3, <1>4 DEF CInv

\* The steps of the machine.
LEMMA MachineKeeps ==
  ASSUME TypeOK, CInv, InterfaceLost \/ Stop \/ Start \/ UNCHANGED vars
  PROVE  CInv'
<1> USE DEF Connecting, Disconnecting, Ended, Working
<1>1. CASE InterfaceLost \/ Start \/ UNCHANGED vars
  <2>1. /\ UNCHANGED <<running, wdCancel, wdDone, wd, cancelled, pc, waitOn, crossed>>
        /\ iface' = iface \/ ~iface'
        /\ Fault \/ NoFault
        /\ cfgStatus' = cfgStatus \/ cfgStatus' = "disconnected"
    BY <1>1 DEF InterfaceLost, Start, mem, dog, cfg, loc, vars, host, env, SaveStatus, NoFault
  <2>2. faults' = 0 => faults = 0
    BY <2>1, FaultKept
  <2>3. Met' /\ Owned' /\ Waits'
    BY <2>1 DEF CInv, Met, Owned, Waits
  <2>4. SInv => SInv'
    BY <2>1, <2>2 DEF SInv, Fresh, Watched, Undone, NoWatchdog, NoDisconnect
  <2> QED
    BY <2>1, <2>3, <2>4 DEF CInv
<1>2. CASE Stop
  <2>1. /\ running' = FALSE /\ cancelled' = {} /\ wdCancel' = None /\ wdDone' = None
        /\ \A w \in Connects : wd'[w] = "none"
        /\ \A r \in Calls : pc'[r] \notin Connecting \cup Disconnecting
    BY <1>2, TypeParts DEF Stop, PcType, Calls
  <2>2. /\ \A c \in Connects : pc'[c] \notin Connecting
        /\ \A d \in Disconnects : pc'[d] \notin Disconnecting
    BY <2>1 DEF Calls
  <2>3. Met' /\ Owned' /\ Waits'
    BY <2>1, <2>2 DEF Met, Owned, Waits, Calls
  <2>4. SInv'
    BY <2>1, <2>2 DEF SInv, Fresh, Watched, Undone, NoWatchdog, Alive
  <2> QED
    BY <2>3, <2>4 DEF CInv
<1> QED
  BY <1>1, <1>2

LEMMA CInvariance == Spec => []CInv
<1>1. Init => CInv
  <2> SUFFICES ASSUME Init PROVE CInv
    OBVIOUS
  <2> USE DEF Connecting, Disconnecting, Working
  <2>1. Met /\ Owned /\ Waits
    BY DEF Init, Met, Owned, Waits
  <2>2. SInv
    BY DEF Init, SInv, Fresh, Watched, Undone, NoWatchdog, Alive
  <2> QED
    BY <2>1, <2>2 DEF CInv
<1>2. TypeOK /\ CInv /\ [Next]_vars => CInv'
  BY ConnectKeeps, DisconnectKeeps, WatchdogKeeps, MachineKeeps DEF Next
<1> QED
  BY <1>1, <1>2, TypeCorrect, PTL DEF Spec

--------------------------------------------------------------------------------
(* The theorems about them *)

\* Until a Connect has been at work together with another request, a tunnel
\* that the manager calls running has exactly the watchdog that m.cancel and
\* m.done belong to, whatever failed, was lost or was restarted before, and
\* however many Disconnects overlap.
THEOREM RunningTunnelIsWatched == Spec => []RunningIsWatched
<1>1. TypeOK /\ CInv => RunningIsWatched
  <2> SUFFICES ASSUME TypeOK, CInv, crossed = {}, running, NoDisconnect
               PROVE  Live = {wdDone} /\ wdCancel = wdDone /\ wdDone \notin cancelled
    BY DEF RunningIsWatched
  <2>1. wdDone \in Connects /\ wdCancel = wdDone
    BY TypeParts DEF CInv, Owned, DogType
  <2> QED
    BY <2>1 DEF CInv, SInv, Watched, Live
<1> QED
  BY <1>1, CInvariance, TypeCorrect, PTL

\* Under the same condition a Disconnect about to report success has taken
\* the interface down, outlived the watchdog and, if no command or save has
\* failed, left "disconnected" in the configuration.
THEOREM DisconnectDoesItsWork == Spec => []DisconnectEffective
<1>1. CInv => DisconnectEffective
  BY DEF CInv, SInv, Watched, Undone, NoWatchdog, DisconnectEffective, Live
<1> QED
  BY <1>1, CInvariance, PTL

\* Whatever overlaps, a Disconnect blocks on m.done only after the context of
\* that very watchdog was cancelled, unless a Connect was at work while it was:
\* the safety half of DisconnectReturns.
THEOREM WaitIsForCancelled == Spec => []WaitsForCancelled
<1>1. CInv => WaitsForCancelled
  BY DEF CInv, Waits, WaitsForCancelled
<1> QED
  BY <1>1, CInvariance, PTL

--------------------------------------------------------------------------------
(* ServerPeers: the inductive invariant *)

\* A key has one block, an address one peer.
OneBlockPerKey(s) == \A i, j \in DOMAIN s : s[i].key = s[j].key => i = j
OneKeyPerAddress(s) == \A i, j \in DOMAIN s : s[i].ip = s[j].ip => i = j \/ s[i].ip = NoIP

\* A request that has not overlapped with another is at work alone.
Solo == \A r \in InFlight \ overlapped : InFlight = {r}

\* The flock is held by the request between strip and syncconf.
Flocked ==
  /\ \A a \in Adders : at[a] = "sync" <=> lock = a
  /\ lock = NoOne => strip = <<>>

\* Nobody's block is anywhere before its request has appended it.
Blocks ==
  /\ OneBlockPerKey(conf) /\ OneBlockPerKey(live) /\ OneBlockPerKey(strip)
  /\ OneKeyPerAddress(live)
  /\ \A a \in Adders : at[a] \in {"idle", "append"} =>
       a \notin Keys(conf) \cup Keys(live) \cup Keys(strip)

\* What a request sets when it begins, it has not set before.
Unbegun ==
  /\ \A b \in blind : at[b] # "idle"
  /\ \A r \in Removers : at[r] = "idle" => target[r] = NoOne

\* The peers that AddressKept is about, from the time their block is appended.
Steady(a) ==
  /\ a \notin overlapped /\ \A r \in Removers : target[r] # a
  /\ \A b \in blind : ip[b] # ip[a]

Synced   == {"verify", "readTable", "writeNew", "rename", "mirror", "added"}
Appended == {"strip", "sync"} \cup Synced
Its(a) == [key |-> a, ip |-> ip[a]]

\* Where their block is: in awg0.conf, in whatever syncconf is about to apply,
\* and on the interface.
Placed(a) ==
  /\ at[a] \in Appended => Its(a) \in ToSet(Applied(conf))
  /\ at[a] \in Appended /\ lock # NoOne => Its(a) \in ToSet(Applied(strip))
  /\ at[a] \in Synced => Its(a) \in ToSet(live)
Addressed == \A a \in Adders : Steady(a) => Placed(a)

\* An address that is about to be appended is not theirs.
Apart ==
  \A a, b \in Adders : Steady(a) /\ at[a] \in Appended /\ at[b] = "append" => ip[b] # ip[a]

\* While no command has failed, clientsTable.new has somebody to rename it.
Temporary == failures = 0 /\ tableNew # NoFile => \E r \in Requests : at[r] = "rename"

\* The table, or a write of it that is under way, has the key.
Listed(k) ==
  \/ k \in table
  \/ tableNew # NoFile /\ k \in tableNew
  \/ \E s \in Requests : at[s] = "writeNew" /\ k \in draft[s]

\* How far a removal that met nobody has come with key k.
Cleared == {"readTable", "writeNew", "rename", "mirror", "removed"}
GoneFor(r, k) ==
  /\ k \in Adders /\ at[k] \in Answered
  /\ at[r] \in {"save"} \cup Cleared => k \notin Keys(live)
  /\ at[r] \in Cleared => k \notin Keys(conf) \cup Keys(strip)
  /\ at[r] = "writeNew" => k \notin draft[r]
  /\ at[r] = "rename" => tableNew # NoFile /\ k \notin tableNew
  /\ at[r] = "mirror" => k \notin table
  /\ at[r] = "removed" => ~Listed(k)
Gone ==
  SaveConfig => \A r \in Removers \ overlapped :
    failures = 0 /\ at[r] \in Busy \cup {"removed"} => GoneFor(r, target[r])

--------------------------------------------------------------------------------
(* Naturals and sequences *)

\* A nonempty set of naturals has a least element, which is its Min.
LEMMA LeastOfNaturals ==
  ASSUME NEW S \in SUBSET Nat, S # {}
  PROVE  Min(S) \in S /\ \A y \in S : Min(S) <= y
<1> DEFINE R == {ss \in Nat \X Nat : ss[1] < ss[2]}
<1>1. IsWellFoundedOn(R, Nat)
  BY NatLessThanWellFounded, Zenon DEF OpToRel
<1>2. \A x, y \in Nat : y < x => <<y, x>> \in R
  OBVIOUS
<1> HIDE DEF R
<1>3. PICK x \in S : \A y \in S : ~(<<y, x>> \in R)
  BY <1>1, WFMin
<1>4. \A y \in S : ~(y < x)
  BY <1>2, <1>3, Zenon
<1>5. \A y \in S : x <= y
  BY <1>4
<1> QED
  BY <1>5 DEF Min

\* RemoveAt closes the gap.
LEMMA WithoutOne ==
  ASSUME NEW S, NEW s \in Seq(S), NEW k \in DOMAIN s
  PROVE  /\ RemoveAt(s, k) \in Seq(S) /\ DOMAIN RemoveAt(s, k) = 1..(Len(s) - 1)
         /\ \A i \in 1..(Len(s) - 1) : RemoveAt(s, k)[i] = s[IF i < k THEN i ELSE i + 1]
<1>1. Len(s) \in Nat /\ k \in 1..Len(s) /\ \A i \in 1..Len(s) : s[i] \in S
  OBVIOUS
<1> DEFINE a == SubSeq(s, 1, k - 1)
           b == SubSeq(s, k + 1, Len(s))
<1>2. a \in Seq(S) /\ Len(a) = k - 1 /\ \A i \in 1..(k - 1) : a[i] = s[i]
  BY <1>1, SubSeqProperties
<1>3. b \in Seq(S) /\ Len(b) = Len(s) - k /\ \A i \in 1..(Len(s) - k) : b[i] = s[k + i]
  BY <1>1, SubSeqProperties
<1>4. RemoveAt(s, k) = a \o b
  BY DEF RemoveAt
<1> HIDE DEF a, b
<1>5. a \o b \in Seq(S) /\ Len(a \o b) = Len(s) - 1 /\ DOMAIN (a \o b) = 1..(Len(s) - 1)
  BY <1>1, <1>2, <1>3, ConcatProperties
<1>6. \A i \in 1..(Len(a) + Len(b)) : (a \o b)[i] = IF i <= Len(a) THEN a[i] ELSE b[i - Len(a)]
  BY <1>2, <1>3, ConcatProperties, Zenon
<1>7. ASSUME NEW i \in 1..(Len(s) - 1)
      PROVE  (a \o b)[i] = s[IF i < k THEN i ELSE i + 1]
  <2>1. CASE i < k
    BY <1>1, <1>2, <1>3, <1>6, <2>1
  <2>2. CASE ~(i < k)
    <3>1. (a \o b)[i] = b[i - (k - 1)] /\ i - (k - 1) \in 1..(Len(s) - k)
      BY <1>1, <1>2, <1>3, <1>6, <2>2
    <3>2. b[i - (k - 1)] = s[k + (i - (k - 1))]
      BY <1>3, <3>1
    <3> QED
      BY <1>1, <2>2, <3>1, <3>2
  <2> QED
    BY <2>1, <2>2
<1> QED
  BY <1>4, <1>5, <1>7

--------------------------------------------------------------------------------
(* ServerPeers: blocks *)

LEMMA PeerConstants ==
  /\ Adders \cap Removers = {} /\ NoOne \notin Adders /\ NoOne \notin Removers
  /\ LastIP \in Nat /\ NoIP \notin IPs
  /\ \A keys \in SUBSET Adders : keys # NoFile
  /\ MaxInFlight \in Nat /\ MaxFailures \in Nat /\ MaxReboots \in Nat
BY PeersAssumption DEF IPs

\* An interface set up from blocks has the same keys, and an address once.
LEMMA AppliedBlocks ==
  ASSUME NEW s \in Seq(Block)
  PROVE  /\ Applied(s) \in Seq(Block) /\ Keys(Applied(s)) = Keys(s)
         /\ OneBlockPerKey(s) => OneBlockPerKey(Applied(s))
         /\ OneKeyPerAddress(Applied(s))
<1> DEFINE t == Applied(s)
<1>1. DOMAIN t = DOMAIN s /\ DOMAIN s = 1..Len(s) /\ Len(s) \in Nat
  BY DEF Applied
<1>2. ASSUME NEW i \in DOMAIN s
      PROVE  /\ s[i] \in Block /\ t[i] \in Block /\ t[i].key = s[i].key
             /\ t[i].ip \in {NoIP, s[i].ip}
             /\ (\E j \in DOMAIN s : j > i /\ s[j].ip = s[i].ip) => t[i].ip = NoIP
  <2>1. s[i] \in Block
    BY <1>1, <1>2
  <2>2. t[i] = IF \E j \in DOMAIN s : j > i /\ s[j].ip = s[i].ip
               THEN [s[i] EXCEPT !.ip = NoIP] ELSE s[i]
    BY <1>2 DEF Applied
  <2>3. [s[i] EXCEPT !.ip = NoIP] \in Block /\ [s[i] EXCEPT !.ip = NoIP].key = s[i].key
        /\ [s[i] EXCEPT !.ip = NoIP].ip = NoIP
    BY <2>1 DEF Block
  <2> QED
    BY <2>1, <2>2, <2>3
<1>3. t \in Seq(Block)
  <2>1. t = [i \in DOMAIN s |-> t[i]]
    BY DEF Applied
  <2> HIDE DEF t
  <2>2. t \in [1..Len(s) -> Block]
    BY <1>1, <1>2, <2>1
  <2> QED
    BY <1>1, <2>2
<1> HIDE DEF t
<1>4. Keys(t) = Keys(s)
  BY <1>1, <1>2 DEF Keys
<1>5. OneBlockPerKey(s) => OneBlockPerKey(t)
  BY <1>1, <1>2 DEF OneBlockPerKey
<1>6. OneKeyPerAddress(t)
  <2> SUFFICES ASSUME NEW i \in DOMAIN s, NEW j \in DOMAIN s, t[i].ip = t[j].ip,
                      t[i].ip # NoIP
               PROVE  i = j
    BY <1>1 DEF OneKeyPerAddress
  <2>1. s[i].ip = t[i].ip /\ s[j].ip = t[j].ip
    BY <1>2
  <2>2. ~(j > i) /\ ~(i > j)
    BY <1>2, <2>1
  <2> QED
    BY <1>1, <2>2
<1> QED
  BY <1>3, <1>4, <1>5, <1>6 DEF t

\* Blocks that share no address are taken as they are.
LEMMA AppliedAsIs ==
  ASSUME NEW s \in Seq(Block), OneKeyPerAddress(s)
  PROVE  ToSet(Applied(s)) = ToSet(s)
<1>1. DOMAIN Applied(s) = DOMAIN s /\ DOMAIN s = 1..Len(s) /\ Len(s) \in Nat
  BY DEF Applied
<1>2. ASSUME NEW i \in DOMAIN s
      PROVE  Applied(s)[i] = s[i]
  <2>1. Applied(s)[i] = IF \E j \in DOMAIN s : j > i /\ s[j].ip = s[i].ip
                        THEN [s[i] EXCEPT !.ip = NoIP] ELSE s[i]
    BY <1>2 DEF Applied
  <2>2. s[i] \in Block
    BY <1>1, <1>2
  <2>3. CASE \E j \in DOMAIN s : j > i /\ s[j].ip = s[i].ip
    <3>1. s[i].ip = NoIP
      BY <1>1, <1>2, <2>3 DEF OneKeyPerAddress
    <3>2. [s[i] EXCEPT !.ip = NoIP] = s[i]
      BY <2>2, <3>1 DEF Block
    <3> QED
      BY <2>1, <3>2
  <2> QED
    BY <2>1, <2>3
<1> QED
  BY <1>1, <1>2 DEF ToSet

\* A new block at the end takes its address over, and no other.
LEMMA AppliedAppend ==
  ASSUME NEW s \in Seq(Block), NEW b \in Block
  PROVE  /\ b \in ToSet(Applied(Append(s, b)))
         /\ \A x \in ToSet(Applied(s)) : x.ip # b.ip => x \in ToSet(Applied(Append(s, b)))
<1> DEFINE t == Append(s, b)
           n == Len(s) + 1
<1>1. /\ t \in Seq(Block) /\ Len(t) = n /\ n \in Nat /\ Len(s) \in Nat
      /\ DOMAIN t = 1..n /\ DOMAIN s = 1..Len(s)
      /\ t[n] = b /\ \A i \in DOMAIN s : t[i] = s[i] /\ i \in DOMAIN t
  BY AppendProperties
<1> HIDE DEF t
<1>2. DOMAIN Applied(t) = DOMAIN t /\ DOMAIN Applied(s) = DOMAIN s
  BY DEF Applied
<1>3. n \in DOMAIN t /\ \A j \in DOMAIN t : ~(j > n)
  BY <1>1
<1>4. Applied(t)[n] = b
  BY <1>1, <1>3 DEF Applied
<1>5. ASSUME NEW i \in DOMAIN s, Applied(s)[i].ip # b.ip
      PROVE  Applied(t)[i] = Applied(s)[i]
  <2>1. /\ Applied(s)[i] = IF \E j \in DOMAIN s : j > i /\ s[j].ip = s[i].ip
                           THEN [s[i] EXCEPT !.ip = NoIP] ELSE s[i]
        /\ Applied(t)[i] = IF \E j \in DOMAIN t : j > i /\ t[j].ip = t[i].ip
                           THEN [t[i] EXCEPT !.ip = NoIP] ELSE t[i]
    BY <1>1, <1>5 DEF Applied
  <2>2. t[i] = s[i] /\ s[i] \in Block
    BY <1>1, <1>5
  <2>3. CASE \E j \in DOMAIN s : j > i /\ s[j].ip = s[i].ip
    <3>1. \E j \in DOMAIN t : j > i /\ t[j].ip = t[i].ip
      BY <1>1, <2>2, <2>3
    <3> QED
      BY <2>1, <2>2, <2>3, <3>1
  <2>4. CASE ~\E j \in DOMAIN s : j > i /\ s[j].ip = s[i].ip
    <3>1. Applied(s)[i] = s[i] /\ s[i].ip # b.ip
      BY <1>5, <2>1, <2>4
    <3>2. \A j \in DOMAIN t : j \in DOMAIN s \/ j = n
      BY <1>1
    <3>3. ~\E j \in DOMAIN t : j > i /\ t[j].ip = t[i].ip
      BY <1>1, <2>2, <2>4, <3>1, <3>2
    <3> QED
      BY <2>1, <2>2, <3>1, <3>3
  <2> QED
    BY <2>3, <2>4
<1>6. b \in ToSet(Applied(t))
  BY <1>2, <1>3, <1>4 DEF ToSet
<1>7. ASSUME NEW x \in ToSet(Applied(s)), x.ip # b.ip
      PROVE  x \in ToSet(Applied(t))
  <2>1. PICK i \in DOMAIN s : x = Applied(s)[i]
    BY <1>2, <1>7 DEF ToSet
  <2>2. x = Applied(t)[i] /\ i \in DOMAIN Applied(t)
    BY <1>1, <1>2, <1>5, <1>7, <2>1
  <2> QED
    BY <2>2 DEF ToSet
<1> QED
  BY <1>6, <1>7 DEF t

LEMMA AppendBlock ==
  ASSUME NEW s \in Seq(Block), NEW b \in Block
  PROVE  /\ Append(s, b) \in Seq(Block) /\ Keys(Append(s, b)) = Keys(s) \cup {b.key}
         /\ OneBlockPerKey(s) /\ b.key \notin Keys(s) => OneBlockPerKey(Append(s, b))
<1> DEFINE t == Append(s, b)
           n == Len(s) + 1
<1>1. /\ t \in Seq(Block) /\ n \in Nat /\ Len(s) \in Nat
      /\ DOMAIN t = 1..n /\ DOMAIN s = 1..Len(s)
      /\ t[n] = b /\ \A i \in DOMAIN s : t[i] = s[i] /\ i \in DOMAIN t
  BY AppendProperties
<1> HIDE DEF t
<1>2. n \in DOMAIN t /\ \A i \in DOMAIN t : i \in DOMAIN s \/ i = n
  BY <1>1
<1>3. Keys(t) = Keys(s) \cup {b.key}
  BY <1>1, <1>2, Zenon DEF Keys
<1>4. ASSUME OneBlockPerKey(s), b.key \notin Keys(s)
      PROVE  OneBlockPerKey(t)
  <2>1. \A i \in DOMAIN s : s[i].key # b.key
    BY <1>4 DEF Keys
  <2> QED
    BY <1>1, <1>2, <1>4, <2>1, Zenon DEF OneBlockPerKey
<1> QED
  BY <1>1, <1>3, <1>4 DEF t

LEMMA NoBlocks ==
  /\ <<>> \in Seq(Block) /\ Keys(<<>>) = {} /\ OneBlockPerKey(<<>>) /\ OneKeyPerAddress(<<>>)
BY DEF Keys, OneBlockPerKey, OneKeyPerAddress

\* A block's key, and its place on the interface.
LEMMA BlockKeys ==
  ASSUME NEW s \in Seq(Block), NEW b \in ToSet(s)
  PROVE  b \in Block /\ b.key \in Keys(s)
BY DEF ToSet, Keys

\* The interface without the peer of a key.
LEMMA RemovedBlock ==
  ASSUME NEW s \in Seq(Block), NEW k, OneBlockPerKey(s), OneKeyPerAddress(s),
         NEW t, t = WithoutPeer(s, k)
  PROVE  /\ t \in Seq(Block) /\ Keys(t) = Keys(s) \ {k}
         /\ \A b \in ToSet(s) : b.key # k => b \in ToSet(t)
         /\ OneBlockPerKey(t) /\ OneKeyPerAddress(t)
<1> DEFINE I == {i \in 1..Len(s) : s[i].key = k}
<1>1. Len(s) \in Nat /\ DOMAIN s = 1..Len(s) /\ I \subseteq Nat
  OBVIOUS
<1>2. CASE I = {}
  <2>1. t = s
    BY <1>2 DEF WithoutPeer, RemoveFirstMatch
  <2>2. k \notin Keys(s)
    BY <1>1, <1>2 DEF Keys
  <2> QED
    BY <2>1, <2>2
<1>3. CASE I # {}
  <2> DEFINE m == Min(I)
  <2>1. t = RemoveAt(s, m)
    BY <1>3 DEF WithoutPeer, RemoveFirstMatch, SelectInSeq
  <2>2. m \in I
    BY <1>1, <1>3, LeastOfNaturals
  <2> HIDE DEF m
  <2>3. m \in DOMAIN s /\ s[m].key = k
    BY <1>1, <2>2
  <2>4. \A i \in DOMAIN s : i # m => s[i].key # k
    BY <2>3 DEF OneBlockPerKey
  <2> DEFINE old(i) == IF i < m THEN i ELSE i + 1
             new(i) == IF i < m THEN i ELSE i - 1
  <2>5. /\ t \in Seq(Block) /\ DOMAIN t = 1..(Len(s) - 1)
        /\ \A i \in DOMAIN t : t[i] = s[old(i)]
    BY <2>1, <2>3, WithoutOne
  <2>6. \A i \in DOMAIN t : old(i) \in DOMAIN s /\ old(i) # m
    BY <1>1, <2>3, <2>5
  <2>7. \A i, j \in DOMAIN t : old(i) = old(j) => i = j
    BY <1>1, <2>3, <2>5
  <2>8. \A i \in DOMAIN s : i # m => new(i) \in DOMAIN t /\ old(new(i)) = i
    BY <1>1, <2>3, <2>5
  <2> HIDE DEF old, new
  <2>9. Keys(t) = Keys(s) \ {k}
    <3>1. \A x \in Keys(t) : x \in Keys(s) /\ x # k
      BY <2>4, <2>5, <2>6 DEF Keys
    <3>2. \A x \in Keys(s) : x # k => x \in Keys(t)
      <4> SUFFICES ASSUME NEW i \in DOMAIN s, s[i].key # k PROVE s[i].key \in Keys(t)
        BY DEF Keys
      <4>1. new(i) \in DOMAIN t /\ t[new(i)] = s[i]
        BY <2>3, <2>5, <2>8
      <4> QED
        BY <4>1 DEF Keys
    <3> QED
      BY <3>1, <3>2
  <2>10. \A b \in ToSet(s) : b.key # k => b \in ToSet(t)
    <3> SUFFICES ASSUME NEW i \in DOMAIN s, s[i].key # k PROVE s[i] \in ToSet(t)
      BY DEF ToSet
    <3>1. new(i) \in DOMAIN t /\ t[new(i)] = s[i]
      BY <2>3, <2>5, <2>8
    <3> QED
      BY <3>1 DEF ToSet
  <2>11. OneBlockPerKey(t)
    <3> SUFFICES ASSUME NEW i \in DOMAIN t, NEW j \in DOMAIN t, t[i].key = t[j].key
                 PROVE  i = j
      BY DEF OneBlockPerKey
    <3>1. s[old(i)].key = s[old(j)].key /\ t[i] = s[old(i)]
      BY <2>5
    <3>2. old(i) = old(j)
      BY <2>6, <3>1 DEF OneBlockPerKey
    <3> QED
      BY <2>7, <3>1, <3>2
  <2>12. OneKeyPerAddress(t)
    <3> SUFFICES ASSUME NEW i \in DOMAIN t, NEW j \in DOMAIN t, t[i].ip = t[j].ip
                 PROVE  i = j \/ t[i].ip = NoIP
      BY DEF OneKeyPerAddress
    <3>1. s[old(i)].ip = s[old(j)].ip /\ t[i] = s[old(i)]
      BY <2>5
    <3>2. old(i) = old(j) \/ t[i].ip = NoIP
      BY <2>6, <3>1 DEF OneKeyPerAddress
    <3> QED
      BY <2>7, <3>1, <3>2
  <2> QED
    BY <2>5, <2>9, <2>10, <2>11, <2>12
<1> QED
  BY <1>2, <1>3

\* AllocateNextIP gives out an address that no dumped peer has.
LEMMA AllocatedIsFree ==
  ASSUME NEW s \in Seq(Block)
  PROVE  /\ AllocateNextIP(s) \in IPs \cup {NoIP}
         /\ \A b \in ToSet(s) : AllocateNextIP(s) # NoIP => b.ip # AllocateNextIP(s)
<1>1. CASE Free(s) = {}
  BY <1>1 DEF AllocateNextIP
<1>2. CASE Free(s) # {}
  <2>1. Free(s) \subseteq Nat
    BY PeerConstants DEF Free, IPs
  <2>2. Min(Free(s)) \in Free(s) /\ \A j \in Free(s) : Min(Free(s)) <= j
    BY <1>2, <2>1, LeastOfNaturals
  <2>3. AllocateNextIP(s) \in Free(s)
    BY <1>2, <2>2 DEF AllocateNextIP
  <2> QED
    BY <2>3 DEF Free, ToSet
<1> QED
  BY <1>1, <1>2

--------------------------------------------------------------------------------
(* ServerPeers: types *)

ServerTypes ==
  /\ conf \in Seq(Block) /\ live \in Seq(Block) /\ strip \in Seq(Block)
  /\ lock \in Adders \cup {NoOne}
TableTypes ==
  /\ table \subseteq Adders /\ mirror \subseteq Adders
  /\ tableNew = NoFile \/ tableNew \subseteq Adders
  /\ draft \in [Requests -> SUBSET Adders]
RequestTypes ==
  /\ at \in [Requests -> {"idle"} \cup Busy \cup Answered]
  /\ ip \in [Adders -> IPs \cup {NoIP}]
  /\ target \in [Removers -> Adders \cup {NoOne}]
  /\ blind \subseteq Adders /\ overlapped \subseteq Requests
  /\ failures \in 0..MaxFailures /\ reboots \in 0..MaxReboots

LEMMA PeerTypes == PeersTypeOK <=> ServerTypes /\ TableTypes /\ RequestTypes
BY DEF PeersTypeOK, ServerTypes, TableTypes, RequestTypes

LEMMA PeerTypesNext == ServerTypes' /\ TableTypes' /\ RequestTypes' => PeersTypeOK'
BY DEF PeersTypeOK, ServerTypes, TableTypes, RequestTypes

\* A request's step of the control, and the commands that failed.
LEMMA AdvanceTypes ==
  ASSUME RequestTypes, NEW r \in Requests, NEW to \in {"idle"} \cup Busy \cup Answered,
         at' = [at EXCEPT ![r] = to]
  PROVE  at' \in [Requests -> {"idle"} \cup Busy \cup Answered]
BY DEF RequestTypes

LEMMA FailureTypes ==
  ASSUME RequestTypes, Failure \/ NoFailure
  PROVE  /\ failures' \in 0..MaxFailures
         /\ failures' = 0 => failures = 0
BY PeerConstants DEF RequestTypes, Failure, NoFailure

LEMMA AddTypes ==
  ASSUME PeersTypeOK, NEW a \in Adders, AddStep(a)
  PROVE  PeersTypeOK'
<1> USE PeerTypes
<1>r. a \in Requests
  BY DEF Requests
<1>1. CASE FetchAndAllocate(a)
  <2>1. PICK ok \in BOOLEAN, dump \in {live, <<>>} :
          LET next == IF ok THEN AllocateNextIP(dump) ELSE NoIP
          IN /\ FetchAll(a, ok, dump)
             /\ Begin(a, IF next = NoIP THEN "failed" ELSE "append")
             /\ ip' = [ip EXCEPT ![a] = next]
    BY <1>1 DEF FetchAndAllocate
  <2> DEFINE next == IF ok THEN AllocateNextIP(dump) ELSE NoIP
  <2>2. dump \in Seq(Block)
    BY NoBlocks DEF ServerTypes
  <2>3. next \in IPs \cup {NoIP}
    BY <2>2, AllocatedIsFree
  <2>4. ip' \in [Adders -> IPs \cup {NoIP}]
    BY <2>1, <2>3 DEF RequestTypes
  <2>5. at' \in [Requests -> {"idle"} \cup Busy \cup Answered]
    BY <1>r, <2>1, AdvanceTypes DEF Begin, Busy, Answered
  <2>6. overlapped' \subseteq Requests
    BY <1>r, <2>1 DEF Begin, InFlight, RequestTypes
  <2>7. failures' \in 0..MaxFailures /\ blind' \subseteq Adders
    BY <2>1, FailureTypes DEF FetchAll, FetchPeerDump, RequestTypes
  <2> QED
    BY <1>1, <2>4, <2>5, <2>6, <2>7, PeerTypesNext
    DEF FetchAndAllocate, ServerTypes, TableTypes, RequestTypes, server, tables
<1>2. CASE AppendPeerBlock(a)
  <2>1. \E to \in {"strip", "failed"} : at' = [at EXCEPT ![a] = to]
    BY <1>2 DEF AppendPeerBlock, Advance
  <2>2. [key |-> a, ip |-> ip[a]] \in Block
    BY DEF RequestTypes, Block
  <2>3. conf' \in Seq(Block)
    <3>1. conf' \in {conf, Append(conf, [key |-> a, ip |-> ip[a]])}
      BY <1>2 DEF AppendPeerBlock
    <3>2. conf \in Seq(Block) /\ Append(conf, [key |-> a, ip |-> ip[a]]) \in Seq(Block)
      BY <2>2, AppendBlock DEF ServerTypes
    <3> QED
      BY <3>1, <3>2
  <2>4. at' \in [Requests -> {"idle"} \cup Busy \cup Answered] /\ failures' \in 0..MaxFailures
    BY <1>r, <1>2, <2>1, AdvanceTypes, FailureTypes DEF AppendPeerBlock, Busy, Answered
  <2> QED
    BY <1>2, <2>3, <2>4, PeerTypesNext
    DEF AppendPeerBlock, Advance, ServerTypes, TableTypes, RequestTypes, own, tables
<1>3. CASE Strip(a)
  <2>1. \E to \in {"sync", "failed"} : at' = [at EXCEPT ![a] = to]
    BY <1>3 DEF Strip, Advance
  <2>2. at' \in [Requests -> {"idle"} \cup Busy \cup Answered] /\ failures' \in 0..MaxFailures
    BY <1>r, <1>3, <2>1, AdvanceTypes, FailureTypes DEF Strip, Busy, Answered
  <2> QED
    BY <1>3, <2>2, PeerTypesNext
    DEF Strip, Advance, ServerTypes, TableTypes, RequestTypes, own, tables
<1>4. CASE SyncConf(a)
  <2>1. \E to \in {"verify", "failed"} : at' = [at EXCEPT ![a] = to]
    BY <1>4 DEF SyncConf, Advance
  <2>2. live' \in Seq(Block) /\ strip' \in Seq(Block)
    BY <1>4, AppliedBlocks, NoBlocks DEF SyncConf, ServerTypes
  <2>3. at' \in [Requests -> {"idle"} \cup Busy \cup Answered] /\ failures' \in 0..MaxFailures
    BY <1>r, <1>4, <2>1, AdvanceTypes, FailureTypes DEF SyncConf, Busy, Answered
  <2> QED
    BY <1>4, <2>2, <2>3, PeerTypesNext
    DEF SyncConf, Advance, ServerTypes, TableTypes, RequestTypes, own, tables
<1>5. CASE VerifyPeer(a)
  <2>1. \E to \in {"readTable", "failed"} : at' = [at EXCEPT ![a] = to]
    BY <1>5 DEF VerifyPeer, Advance
  <2>2. at' \in [Requests -> {"idle"} \cup Busy \cup Answered] /\ failures' \in 0..MaxFailures
    BY <1>r, <1>5, <2>1, AdvanceTypes, FailureTypes DEF VerifyPeer, Busy, Answered
  <2> QED
    BY <1>5, <2>2, PeerTypesNext
    DEF VerifyPeer, Advance, ServerTypes, TableTypes, RequestTypes, server, own, tables
<1> QED
  BY <1>1, <1>2, <1>3, <1>4, <1>5 DEF AddStep

LEMMA TableStepTypes ==
  ASSUME PeersTypeOK, NEW r \in Requests, TableStep(r) \/ Refuse(r)
  PROVE  PeersTypeOK'
<1> USE PeerTypes
<1>t. TableError(r) \in {"failed", "mirror"}
  BY DEF TableError
<1>1. CASE ReadClientsTable(r)
  <2>1. \E to \in {"writeNew", "mirror"} : at' = [at EXCEPT ![r] = to]
    BY <1>1 DEF ReadClientsTable, Advance
  <2>2. draft' \in [Requests -> SUBSET Adders]
    BY <1>1 DEF ReadClientsTable, TableTypes
  <2>3. at' \in [Requests -> {"idle"} \cup Busy \cup Answered] /\ failures' \in 0..MaxFailures
    BY <1>1, <2>1, AdvanceTypes, FailureTypes DEF ReadClientsTable, Busy
  <2> QED
    BY <1>1, <2>2, <2>3, PeerTypesNext
    DEF ReadClientsTable, Advance, ServerTypes, TableTypes, RequestTypes, server, tables
<1>2. CASE WriteNewTable(r)
  <2>1. \E to \in {"rename", "failed", "mirror"} : at' = [at EXCEPT ![r] = to]
    BY <1>t, <1>2 DEF WriteNewTable, Advance
  <2>2. at' \in [Requests -> {"idle"} \cup Busy \cup Answered] /\ failures' \in 0..MaxFailures
    BY <1>2, <2>1, AdvanceTypes, FailureTypes DEF WriteNewTable, Busy, Answered
  <2>3. tableNew' = NoFile \/ tableNew' \subseteq Adders
    BY <1>2 DEF WriteNewTable, TableTypes
  <2> QED
    BY <1>2, <2>2, <2>3, PeerTypesNext
    DEF WriteNewTable, Advance, ServerTypes, TableTypes, RequestTypes, server, own
<1>3. CASE RenameTable(r)
  <2>1. \E to \in {"failed", "mirror"} : at' = [at EXCEPT ![r] = to]
    BY <1>t, <1>3 DEF RenameTable, Advance
  <2>2. at' \in [Requests -> {"idle"} \cup Busy \cup Answered] /\ failures' \in 0..MaxFailures
    BY <1>3, <2>1, AdvanceTypes, FailureTypes DEF RenameTable, Busy, Answered
  <2>3. table' \subseteq Adders /\ (tableNew' = NoFile \/ tableNew' \subseteq Adders)
    BY <1>3 DEF RenameTable, TableTypes, tables
  <2> QED
    BY <1>3, <2>2, <2>3, PeerTypesNext
    DEF RenameTable, Advance, ServerTypes, TableTypes, RequestTypes, server, own
<1>4. CASE UpdateMirror(r)
  <2>1. \E to \in {"added", "removed"} : at' = [at EXCEPT ![r] = to]
    BY <1>4 DEF UpdateMirror, Advance
  <2>2. at' \in [Requests -> {"idle"} \cup Busy \cup Answered] /\ failures' \in 0..MaxFailures
    BY <1>4, <2>1, AdvanceTypes, FailureTypes DEF UpdateMirror, Answered
  <2>3. mirror' \subseteq Adders
    BY <1>4 DEF UpdateMirror, TableTypes
  <2> QED
    BY <1>4, <2>2, <2>3, PeerTypesNext
    DEF UpdateMirror, Advance, ServerTypes, TableTypes, RequestTypes, server, tables, own
<1>5. CASE Refuse(r)
  <2>1. at' \in [Requests -> {"idle"} \cup Busy \cup Answered]
    BY <1>5, AdvanceTypes DEF Refuse, Answered
  <2> QED
    BY <1>5, <2>1, PeerTypesNext
    DEF Refuse, ServerTypes, TableTypes, RequestTypes, server, tables, own
<1> QED
  BY <1>1, <1>2, <1>3, <1>4, <1>5 DEF TableStep

LEMMA RemoveTypes ==
  ASSUME PeersTypeOK, Blocks, NEW r \in Removers, RemoveStep(r)
  PROVE  PeersTypeOK'
<1> USE PeerTypes
<1>r. r \in Requests
  BY DEF Requests
<1>1. ASSUME NEW k \in Adders, StartRemove(r, k)
      PROVE  PeersTypeOK'
  <2>1. at' \in [Requests -> {"idle"} \cup Busy \cup Answered]
    BY <1>r, <1>1, AdvanceTypes DEF StartRemove, Begin, Busy
  <2>2. overlapped' \subseteq Requests
    BY <1>r, <1>1 DEF StartRemove, Begin, InFlight, RequestTypes
  <2>3. target' \in [Removers -> Adders \cup {NoOne}]
    BY <1>1 DEF StartRemove, RequestTypes
  <2> QED
    BY <1>1, <2>1, <2>2, <2>3, PeerTypesNext
    DEF StartRemove, ServerTypes, TableTypes, RequestTypes, server, tables
<1>2. CASE LiveRemove(r)
  <2>1. at' \in [Requests -> {"idle"} \cup Busy \cup Answered] /\ failures' \in 0..MaxFailures
    BY <1>r, <1>2, AdvanceTypes, FailureTypes DEF LiveRemove, Advance, Busy
  <2>2. live' \in Seq(Block)
    BY <1>2, RemovedBlock DEF LiveRemove, ServerTypes, Blocks
  <2> QED
    BY <1>2, <2>1, <2>2, PeerTypesNext
    DEF LiveRemove, Advance, ServerTypes, TableTypes, RequestTypes, own, tables
<1>3. CASE SaveConf(r)
  <2>1. at' \in [Requests -> {"idle"} \cup Busy \cup Answered] /\ failures' \in 0..MaxFailures
    BY <1>r, <1>3, AdvanceTypes, FailureTypes DEF SaveConf, Advance, Busy
  <2> QED
    BY <1>3, <2>1, PeerTypesNext
    DEF SaveConf, Advance, ServerTypes, TableTypes, RequestTypes, own, tables
<1> QED
  BY <1>1, <1>2, <1>3 DEF RemoveStep

LEMMA RebootTypes ==
  ASSUME PeersTypeOK, Reboot
  PROVE  PeersTypeOK'
<1> USE PeerTypes
<1>1. at' \in [Requests -> {"idle"} \cup Busy \cup Answered]
  BY DEF Reboot, RequestTypes, Answered
<1>2. live' \in Seq(Block) /\ strip' \in Seq(Block) /\ conf' \in Seq(Block)
      /\ lock' \in Adders \cup {NoOne}
  BY AppliedBlocks, NoBlocks DEF Reboot, ServerTypes
<1>3. reboots' \in 0..MaxReboots /\ overlapped' \subseteq Requests
  BY PeerConstants DEF Reboot, InFlight, RequestTypes
<1> QED
  BY <1>1, <1>2, <1>3, PeerTypesNext
  DEF Reboot, ServerTypes, TableTypes, RequestTypes, own, tables

LEMMA PeersTypesKept ==
  ASSUME PeersTypeOK, Blocks, PeersNext
  PROVE  PeersTypeOK'
BY AddTypes, TableStepTypes, RemoveTypes, RebootTypes DEF PeersNext

--------------------------------------------------------------------------------
(* ServerPeers: what no step takes back *)

LEMMA History ==
  ASSUME PeersTypeOK, Unbegun, PeersNext
  PROVE  /\ overlapped \subseteq overlapped' /\ blind \subseteq blind'
         /\ failures' = 0 => failures = 0
         /\ \A q \in Requests : at[q] # "idle" => at'[q] # "idle"
         /\ \A q \in Requests : at[q] \in Answered => at'[q] = at[q]
         /\ \A a \in Adders : at[a] # "idle" => ip'[a] = ip[a]
         /\ \A r \in Removers : target[r] # NoOne => target'[r] = target[r]
<1> USE PeerTypes, PeerConstants DEF RequestTypes, Unbegun, Requests
<1> DEFINE H == /\ overlapped \subseteq overlapped' /\ blind \subseteq blind'
                /\ failures' = 0 => failures = 0
                /\ \A q \in Requests : at[q] # "idle" => at'[q] # "idle"
                /\ \A q \in Requests : at[q] \in Answered => at'[q] = at[q]
                /\ \A a \in Adders : at[a] # "idle" => ip'[a] = ip[a]
                /\ \A r \in Removers : target[r] # NoOne => target'[r] = target[r]
<1>1. ASSUME NEW a \in Adders, FetchAndAllocate(a)
      PROVE  H
  BY <1>1, FailureTypes DEF FetchAndAllocate, FetchAll, FetchPeerDump, Begin, Answered
<1>2. ASSUME NEW a \in Adders, AppendPeerBlock(a) \/ Strip(a) \/ SyncConf(a) \/ VerifyPeer(a)
      PROVE  H
  BY <1>2, FailureTypes DEF AppendPeerBlock, Strip, SyncConf, VerifyPeer, Advance, own, Answered
<1>3. ASSUME NEW r \in Requests, TableStep(r) \/ Refuse(r)
      PROVE  H
  BY <1>3, FailureTypes DEF TableStep, ReadClientsTable, WriteNewTable, RenameTable,
     UpdateMirror, Refuse, TableError, Advance, own, Answered
<1>4. ASSUME NEW r \in Removers, NEW k \in Adders, StartRemove(r, k)
      PROVE  H
  BY <1>4 DEF StartRemove, Begin, Answered
<1>5. ASSUME NEW r \in Removers, LiveRemove(r) \/ SaveConf(r)
      PROVE  H
  BY <1>5, FailureTypes DEF LiveRemove, SaveConf, Advance, own, Answered
<1>6. CASE Reboot
  BY <1>6 DEF Reboot, own, Answered
<1> QED
  BY <1>1, <1>2, <1>3, <1>4, <1>5, <1>6 DEF PeersNext, AddStep, RemoveStep

\* A peer that AddressKept is about has been so from its first step on.
LEMMA SteadyBefore ==
  ASSUME PeersTypeOK, Unbegun, PeersNext, NEW a \in Adders, at[a] # "idle", Steady(a)'
  PROVE  Steady(a) /\ ip'[a] = ip[a] /\ Its(a)' = Its(a)
<1> USE History, PeerTypes DEF RequestTypes
<1>1. ip'[a] = ip[a] /\ a \notin overlapped
  BY DEF Steady
<1>2. \A r \in Removers : target[r] # a
  BY PeerConstants DEF Steady
<1>3. \A b \in blind : ip[b] # ip[a]
  BY <1>1 DEF Steady, Unbegun
<1> QED
  BY <1>1, <1>2, <1>3 DEF Steady, Its

--------------------------------------------------------------------------------
(* ServerPeers: who is at work, who holds the flock, and the blocks *)

LEMMA SoloKept ==
  ASSUME PeersTypeOK, Unbegun, Solo, PeersNext
  PROVE  Solo'
<1> USE PeerTypes, PeerConstants DEF RequestTypes, Requests
<1>1. ASSUME NEW r \in Requests, NEW to, Begin(r, to)
      PROVE  Solo'
  <2>1. InFlight' \subseteq InFlight \cup {r}
    BY <1>1 DEF Begin, InFlight
  <2>2. CASE InFlight = {}
    BY <2>1, <2>2 DEF Solo
  <2>3. CASE InFlight # {}
    BY <1>1, <2>1, <2>3 DEF Begin, Solo
  <2> QED
    BY <2>2, <2>3
<1>2. ASSUME InFlight' \subseteq InFlight
      PROVE  Solo'
  BY <1>2, History DEF Solo
<1>3. ASSUME NEW a \in Adders, FetchAndAllocate(a)
      PROVE  Solo'
  BY <1>1, <1>3 DEF FetchAndAllocate
<1>4. ASSUME NEW a \in Adders, AppendPeerBlock(a) \/ Strip(a) \/ SyncConf(a) \/ VerifyPeer(a)
      PROVE  InFlight' \subseteq InFlight
  BY <1>4 DEF AppendPeerBlock, Strip, SyncConf, VerifyPeer, Advance, InFlight, Busy
<1>5. ASSUME NEW r \in Requests, TableStep(r) \/ Refuse(r)
      PROVE  InFlight' \subseteq InFlight
  BY <1>5 DEF TableStep, ReadClientsTable, WriteNewTable, RenameTable,
     UpdateMirror, Refuse, TableError, Advance, InFlight, Busy
<1>6. ASSUME NEW r \in Removers, LiveRemove(r) \/ SaveConf(r)
      PROVE  InFlight' \subseteq InFlight
  BY <1>6 DEF LiveRemove, SaveConf, Advance, InFlight, Busy
<1>7. ASSUME Reboot
      PROVE  InFlight' \subseteq InFlight
  BY <1>7 DEF Reboot, InFlight, Busy
<1>8. ASSUME NEW r \in Removers, NEW k \in Adders, StartRemove(r, k)
      PROVE  Solo'
  BY <1>1, <1>8 DEF StartRemove
<1> QED
  BY <1>2, <1>3, <1>4, <1>5, <1>6, <1>7, <1>8 DEF PeersNext, AddStep, RemoveStep

LEMMA FlockedKept ==
  ASSUME PeersTypeOK, Flocked, PeersNext
  PROVE  Flocked'
<1> USE PeerTypes, PeerConstants DEF RequestTypes, ServerTypes, Requests, Flocked
<1>1. ASSUME NEW a \in Adders, FetchAndAllocate(a)
      PROVE  Flocked'
  BY <1>1 DEF FetchAndAllocate, Begin, server
<1>2. ASSUME NEW a \in Adders, AppendPeerBlock(a) \/ VerifyPeer(a)
      PROVE  Flocked'
  BY <1>2 DEF AppendPeerBlock, VerifyPeer, Advance, server
<1>3. ASSUME NEW a \in Adders, Strip(a) \/ SyncConf(a)
      PROVE  Flocked'
  BY <1>3 DEF Strip, SyncConf, Advance
<1>4. ASSUME NEW r \in Requests, TableStep(r) \/ Refuse(r)
      PROVE  Flocked'
  BY <1>4 DEF TableStep, ReadClientsTable, WriteNewTable, RenameTable,
     UpdateMirror, Refuse, TableError, Advance, server
<1>5. ASSUME NEW r \in Removers, NEW k \in Adders, StartRemove(r, k)
      PROVE  Flocked'
  BY <1>5 DEF StartRemove, Begin, server
<1>6. ASSUME NEW r \in Removers, LiveRemove(r) \/ SaveConf(r)
      PROVE  Flocked'
  BY <1>6 DEF LiveRemove, SaveConf, Advance
<1>7. CASE Reboot
  BY <1>7 DEF Reboot
<1> QED
  BY <1>1, <1>2, <1>3, <1>4, <1>5, <1>6, <1>7 DEF PeersNext, AddStep, RemoveStep

\* Nothing but the request's own step ends "idle" and "append".
LEMMA BlocksKept ==
  ASSUME PeersTypeOK, Blocks, PeersNext
  PROVE  Blocks'
<1> USE PeerTypes, PeerConstants DEF RequestTypes, ServerTypes, Requests
<1> DEFINE Early(q) == at[q] \in {"idle", "append"}
<1>1. ASSUME UNCHANGED <<conf, live, strip>>, \A a \in Adders : Early(a)' => Early(a)
      PROVE  Blocks'
  BY <1>1 DEF Blocks, OneBlockPerKey, OneKeyPerAddress, Keys
<1>2. ASSUME NEW a \in Adders, FetchAndAllocate(a) \/ VerifyPeer(a)
      PROVE  Blocks'
  BY <1>1, <1>2 DEF FetchAndAllocate, VerifyPeer, Begin, Advance, server
<1>3. ASSUME NEW a \in Adders, AppendPeerBlock(a)
      PROVE  Blocks'
  <2>1. /\ at[a] = "append" /\ ~Early(a)' /\ \A b \in Adders : Early(b)' => Early(b)
        /\ UNCHANGED <<live, strip>> /\ conf' \in {conf, Append(conf, Its(a))}
    BY <1>3 DEF AppendPeerBlock, Advance, Its
  <2>2. Its(a) \in Block /\ Its(a).key = a
    BY DEF Its, Block
  <2>3. a \notin Keys(conf)
    BY <2>1 DEF Blocks
  <2>4. /\ Keys(Append(conf, Its(a))) = Keys(conf) \cup {a}
        /\ OneBlockPerKey(Append(conf, Its(a)))
    BY <2>2, <2>3, AppendBlock DEF Blocks
  <2>5. Keys(conf') \subseteq Keys(conf) \cup {a} /\ OneBlockPerKey(conf')
    <3>1. CASE conf' = conf
      BY <3>1 DEF Blocks
    <3>2. CASE conf' = Append(conf, Its(a))
      BY <2>4, <3>2
    <3> QED
      BY <2>1, <3>1, <3>2
  <2> QED
    BY <2>1, <2>5 DEF Blocks
<1>4. ASSUME NEW a \in Adders, Strip(a)
      PROVE  Blocks'
  <2>1. /\ UNCHANGED <<conf, live>> /\ strip' \in {strip, conf}
        /\ \A b \in Adders : Early(b)' => Early(b)
    BY <1>4 DEF Strip, Advance
  <2> QED
    BY <2>1 DEF Blocks
<1>5. ASSUME NEW a \in Adders, SyncConf(a)
      PROVE  Blocks'
  <2>1. /\ UNCHANGED conf /\ live' \in {live, Applied(strip)} /\ strip' = <<>>
        /\ \A b \in Adders : Early(b)' => Early(b)
    BY <1>5 DEF SyncConf, Advance
  <2>2. OneBlockPerKey(live') /\ OneKeyPerAddress(live') /\ Keys(live') \subseteq Keys(live) \cup Keys(strip)
    BY <2>1, AppliedBlocks DEF Blocks
  <2> QED
    BY <2>1, <2>2, NoBlocks DEF Blocks
<1>6. ASSUME NEW r \in Requests, TableStep(r) \/ Refuse(r)
      PROVE  Blocks'
  BY <1>1, <1>6 DEF TableStep, ReadClientsTable, WriteNewTable, RenameTable,
     UpdateMirror, Refuse, TableError, Advance, server
<1>7. ASSUME NEW r \in Removers, NEW k \in Adders, StartRemove(r, k)
      PROVE  Blocks'
  BY <1>1, <1>7 DEF StartRemove, Begin, server
<1>8. ASSUME NEW r \in Removers, LiveRemove(r)
      PROVE  Blocks'
  <2>1. /\ UNCHANGED <<conf, strip>> /\ live' \in {live, WithoutPeer(live, target[r])}
        /\ \A b \in Adders : Early(b)' => Early(b)
    BY <1>8 DEF LiveRemove, Advance
  <2>2. OneBlockPerKey(live') /\ OneKeyPerAddress(live') /\ Keys(live') \subseteq Keys(live)
    BY <2>1, RemovedBlock DEF Blocks
  <2> QED
    BY <2>1, <2>2 DEF Blocks
<1>9. ASSUME NEW r \in Removers, SaveConf(r)
      PROVE  Blocks'
  <2>1. /\ UNCHANGED <<live, strip>> /\ conf' \in {live, conf}
        /\ \A b \in Adders : Early(b)' => Early(b)
    BY <1>9 DEF SaveConf, Advance
  <2> QED
    BY <2>1 DEF Blocks
<1>10. CASE Reboot
  <2>1. /\ UNCHANGED conf /\ live' = Applied(conf) /\ strip' = <<>>
        /\ \A b \in Adders : Early(b)' => Early(b)
    BY <1>10 DEF Reboot
  <2>2. OneBlockPerKey(live') /\ OneKeyPerAddress(live') /\ Keys(live') = Keys(conf)
    BY <2>1, AppliedBlocks DEF Blocks
  <2> QED
    BY <2>1, <2>2, NoBlocks DEF Blocks
<1> QED
  BY <1>2, <1>3, <1>4, <1>5, <1>6, <1>7, <1>8, <1>9, <1>10 DEF PeersNext, AddStep, RemoveStep

LEMMA UnbegunKept ==
  ASSUME PeersTypeOK, Unbegun, PeersNext
  PROVE  Unbegun'
<1> USE PeerTypes, PeerConstants DEF RequestTypes, Requests, Unbegun
<1>1. ASSUME NEW a \in Adders, FetchAndAllocate(a)
      PROVE  Unbegun'
  BY <1>1 DEF FetchAndAllocate, FetchAll, FetchPeerDump, Begin
<1>2. ASSUME NEW r \in Removers, NEW k \in Adders, StartRemove(r, k)
      PROVE  Unbegun'
  BY <1>2 DEF StartRemove, Begin
<1>3. ASSUME UNCHANGED <<blind, target>>
      PROVE  Unbegun'
  BY <1>3, History
<1> QED
  BY <1>1, <1>2, <1>3 DEF PeersNext, AddStep, RemoveStep, AppendPeerBlock, Strip, SyncConf,
     VerifyPeer, TableStep, ReadClientsTable, WriteNewTable, RenameTable, UpdateMirror, Refuse,
     LiveRemove, SaveConf, Reboot, own

--------------------------------------------------------------------------------
(* ServerPeers: the address of a peer *)

\* Where a request comes from.
LEMMA AppendedBy ==
  ASSUME PeersTypeOK, PeersNext, NEW a \in Adders, at'[a] \in Appended, at[a] \notin Appended
  PROVE  at[a] = "append" /\ AppendPeerBlock(a) /\ at'[a] = "strip"
<1> USE PeerTypes, PeerConstants DEF RequestTypes, Requests, Appended, Synced
<1>1. ASSUME NEW b \in Adders, FetchAndAllocate(b) PROVE FALSE
  BY <1>1 DEF FetchAndAllocate, Begin
<1>2. ASSUME NEW b \in Adders, AppendPeerBlock(b)
      PROVE at[a] = "append" /\ AppendPeerBlock(a) /\ at'[a] = "strip"
  BY <1>2 DEF AppendPeerBlock, Advance
<1>3. ASSUME NEW b \in Adders, Strip(b) \/ SyncConf(b) \/ VerifyPeer(b) PROVE FALSE
  BY <1>3 DEF Strip, SyncConf, VerifyPeer, Advance
<1>4. ASSUME NEW r \in Requests, TableStep(r) \/ Refuse(r) PROVE FALSE
  BY <1>4 DEF TableStep, ReadClientsTable, WriteNewTable, RenameTable, UpdateMirror,
     Refuse, TableError, Advance
<1>5. ASSUME NEW r \in Removers, RemoveStep(r) PROVE FALSE
  BY <1>5 DEF RemoveStep, StartRemove, Begin, LiveRemove, SaveConf, Advance
<1>6. CASE Reboot
  BY <1>6 DEF Reboot
<1> QED
  BY <1>1, <1>2, <1>3, <1>4, <1>5, <1>6 DEF PeersNext, AddStep

LEMMA SyncedBy ==
  ASSUME PeersTypeOK, PeersNext, NEW a \in Adders, at'[a] \in Synced, at[a] \notin Synced
  PROVE  SyncConf(a)
<1> USE PeerTypes, PeerConstants DEF RequestTypes, Requests, Synced
<1>1. ASSUME NEW b \in Adders, FetchAndAllocate(b) PROVE FALSE
  BY <1>1 DEF FetchAndAllocate, Begin
<1>2. ASSUME NEW b \in Adders, AppendPeerBlock(b) \/ Strip(b) \/ VerifyPeer(b) PROVE FALSE
  BY <1>2 DEF AppendPeerBlock, Strip, VerifyPeer, Advance
<1>3. ASSUME NEW b \in Adders, SyncConf(b) PROVE SyncConf(a)
  BY <1>3 DEF SyncConf, Advance
<1>4. ASSUME NEW r \in Requests, TableStep(r) \/ Refuse(r) PROVE FALSE
  BY <1>4 DEF TableStep, ReadClientsTable, WriteNewTable, RenameTable, UpdateMirror,
     Refuse, TableError, Advance
<1>5. ASSUME NEW r \in Removers, RemoveStep(r) PROVE FALSE
  BY <1>5 DEF RemoveStep, StartRemove, Begin, LiveRemove, SaveConf, Advance
<1>6. CASE Reboot
  BY <1>6 DEF Reboot
<1> QED
  BY <1>1, <1>2, <1>3, <1>4, <1>5, <1>6 DEF PeersNext, AddStep

\* Nobody strips while a request is alone and does not.
LEMMA AloneNoFlock ==
  ASSUME PeersTypeOK, Solo, Flocked, NEW r \in Requests \ overlapped, at[r] \in Busy,
         at[r] # "sync" \/ r \in Removers
  PROVE  InFlight = {r} /\ lock = NoOne /\ strip = <<>>
<1>1. InFlight = {r}
  BY DEF Solo, InFlight
<1>2. lock \in Adders => at[lock] = "sync"
  BY DEF Flocked
<1>3. lock \in Adders => lock \in InFlight
  BY <1>2 DEF InFlight, Requests, Busy
<1>4. lock = NoOne
  BY <1>1, <1>2, <1>3, PeerConstants DEF PeersTypeOK
<1> QED
  BY <1>1, <1>4 DEF Flocked

LEMMA AddressedKept ==
  ASSUME PeersTypeOK, Solo, Flocked, Blocks, Unbegun, Addressed, Apart, PeersNext
  PROVE  Addressed'
<1> USE PeerTypes, PeerConstants DEF RequestTypes, ServerTypes, Requests
<1> SUFFICES ASSUME NEW a \in Adders, Steady(a)', at'[a] \in Appended
             PROVE  Placed(a)'
  BY DEF Addressed, Placed, Appended
<1>1. at[a] # "idle"
  BY AppendedBy DEF Appended, Synced
<1>2. Steady(a) /\ Its(a)' = Its(a) /\ a \notin overlapped
  BY <1>1, SteadyBefore DEF Steady
<1>3. Its(a) \in Block /\ Its(a).ip = ip[a] /\ Its(a).key = a
  BY DEF Its, Block
<1>4. CASE at[a] \notin Appended
  <2>1. at[a] = "append" /\ AppendPeerBlock(a) /\ at'[a] = "strip"
    BY <1>4, AppendedBy
  <2>2. conf' = Append(conf, Its(a)) /\ lock' = lock
    BY <2>1 DEF AppendPeerBlock, Advance, Its
  <2>3. lock = NoOne
    BY <1>2, <2>1, AloneNoFlock DEF Busy
  <2>4. Its(a) \in ToSet(Applied(conf'))
    BY <1>3, <2>2, AppliedAppend
  <2> QED
    BY <1>2, <2>1, <2>2, <2>3, <2>4 DEF Placed, Synced
<1>5. CASE at[a] \in Appended
  <2>p. Placed(a)
    BY <1>2 DEF Addressed
  <2>1. ASSUME UNCHANGED server, at'[a] \in Synced => at[a] \in Synced
        PROVE  Placed(a)'
    BY <1>2, <1>5, <2>p, <2>1 DEF Placed, server
  <2>2. ASSUME NEW b \in Adders, FetchAndAllocate(b) \/ VerifyPeer(b)
        PROVE  Placed(a)'
    BY <2>1, <2>2, SyncedBy DEF FetchAndAllocate, Begin, VerifyPeer, SyncConf, Advance
  <2>3. ASSUME NEW b \in Adders, AppendPeerBlock(b)
        PROVE  Placed(a)'
    <3>1. /\ at[b] = "append" /\ conf' \in {conf, Append(conf, Its(b))}
          /\ UNCHANGED <<live, lock, strip>>
      BY <2>3 DEF AppendPeerBlock, Advance, Its
    <3>2. a # b /\ at'[a] = at[a]
      BY <1>5, <2>3, <3>1 DEF AppendPeerBlock, Advance, Appended, Synced
    <3>3. Its(b) \in Block /\ Its(b).ip # Its(a).ip
      BY <1>2, <1>5, <3>1 DEF Apart, Its, Block
    <3>4. Its(a) \in ToSet(Applied(conf))
      BY <1>5, <2>p DEF Placed
    <3>5. Its(a) \in ToSet(Applied(Append(conf, Its(b))))
      BY <3>3, <3>4, AppliedAppend
    <3>6. Its(a) \in ToSet(Applied(conf'))
      <4>1. CASE conf' = conf
        BY <3>4, <4>1
      <4>2. CASE conf' = Append(conf, Its(b))
        BY <3>5, <4>2
      <4> QED
        BY <3>1, <4>1, <4>2
    <3> QED
      BY <1>2, <1>5, <2>p, <3>1, <3>2, <3>6 DEF Placed
  <2>4. ASSUME NEW b \in Adders, Strip(b)
        PROVE  Placed(a)'
    <3>1. /\ UNCHANGED <<conf, live>>
          /\ strip' = conf \/ UNCHANGED <<lock, strip>>
          /\ at'[a] \in Synced => at[a] \in Synced
      BY <2>4 DEF Strip, Advance, Synced
    <3> QED
      BY <1>2, <1>5, <2>p, <3>1 DEF Placed
  <2>5. ASSUME NEW b \in Adders, SyncConf(b)
        PROVE  Placed(a)'
    <3>1. lock = b /\ lock' = NoOne /\ conf' = conf
      BY <2>5 DEF SyncConf, Advance, Flocked
    <3>2. \/ live' = Applied(strip)
          \/ live' = live /\ (at'[a] \in Synced => at[a] \in Synced)
      BY <2>5 DEF SyncConf, Advance, Synced
    <3> QED
      BY <1>2, <1>5, <2>p, <3>1, <3>2 DEF Placed
  <2>6. ASSUME NEW r \in Requests, TableStep(r) \/ Refuse(r)
        PROVE  Placed(a)'
    <3>1. UNCHANGED server
      BY <2>6 DEF TableStep, ReadClientsTable, WriteNewTable, RenameTable, UpdateMirror, Refuse
    <3>2. at'[a] \in Synced => at[a] \in Synced
      BY <2>6 DEF TableStep, ReadClientsTable, WriteNewTable, RenameTable, UpdateMirror,
         Refuse, TableError, Advance, Synced
    <3> QED
      BY <2>1, <3>1, <3>2
  <2>7. ASSUME NEW r \in Removers, NEW k \in Adders, StartRemove(r, k)
        PROVE  Placed(a)'
    BY <2>1, <2>7 DEF StartRemove, Begin
  <2>8. ASSUME NEW r \in Removers, LiveRemove(r)
        PROVE  Placed(a)'
    <3>1. /\ UNCHANGED <<conf, lock, strip>> /\ at'[a] = at[a]
          /\ live' \in {live, WithoutPeer(live, target[r])}
      BY <2>8 DEF LiveRemove, Advance
    <3>2. target[r] # a
      BY <1>2 DEF Steady
    <3>3. \A x \in ToSet(live) : x.key # target[r] => x \in ToSet(WithoutPeer(live, target[r]))
      BY RemovedBlock DEF Blocks
    <3> QED
      BY <1>2, <1>3, <1>5, <2>p, <3>1, <3>2, <3>3 DEF Placed
  <2>9. ASSUME NEW r \in Removers, SaveConf(r)
        PROVE  Placed(a)'
    <3>1. /\ UNCHANGED <<live, lock, strip>> /\ at'[a] = at[a] /\ conf' \in {conf, live}
          /\ at[r] = "save"
      BY <2>9 DEF SaveConf, Advance
    <3>2. at[a] \in Synced
      <4> SUFFICES ASSUME at[a] \in {"strip", "sync"} PROVE FALSE
        BY <1>5 DEF Appended
      <4>1. a \in InFlight /\ r \in InFlight
        BY <3>1 DEF InFlight, Busy
      <4> QED
        BY <1>2, <4>1 DEF Solo
    <3>3. Its(a) \in ToSet(live) /\ ToSet(Applied(live)) = ToSet(live)
      BY <2>p, <3>2, AppliedAsIs DEF Placed, Blocks
    <3> QED
      BY <1>2, <1>5, <2>p, <3>1, <3>3 DEF Placed
  <2>10. CASE Reboot
    <3>1. conf' = conf /\ live' = Applied(conf) /\ lock' = NoOne
      BY <2>10 DEF Reboot
    <3> QED
      BY <1>2, <1>5, <2>p, <3>1 DEF Placed
  <2> QED
    BY <2>2, <2>3, <2>4, <2>5, <2>6, <2>7, <2>8, <2>9, <2>10 DEF PeersNext, AddStep, RemoveStep
<1> QED
  BY <1>4, <1>5

LEMMA ApartKept ==
  ASSUME PeersTypeOK, Solo, Unbegun, Addressed, Apart, PeersNext
  PROVE  Apart'
<1> USE PeerTypes, PeerConstants DEF RequestTypes, ServerTypes, Requests
<1> SUFFICES ASSUME NEW a \in Adders, NEW b \in Adders, Steady(a)', at'[a] \in Appended,
                    at'[b] = "append"
             PROVE  ip'[b] # ip'[a]
  BY DEF Apart
<1>1. a # b
  BY DEF Appended, Synced
<1>2. at[a] # "idle"
  BY AppendedBy DEF Appended, Synced
<1>3. Steady(a) /\ ip'[a] = ip[a] /\ a \notin overlapped
  BY <1>2, SteadyBefore DEF Steady
<1>4. CASE at[b] = "append"
  <2>1. at[a] \in Appended
    <3> SUFFICES ASSUME at[a] \notin Appended PROVE FALSE
      OBVIOUS
    <3>1. at[a] = "append"
      BY AppendedBy
    <3> QED
      BY <1>1, <1>3, <1>4, <3>1 DEF Solo, InFlight, Busy
  <2> QED
    BY <1>3, <1>4, <2>1, History DEF Apart
<1>5. CASE at[b] # "append"
  <2>1. FetchAndAllocate(b)
    <3>1. ASSUME NEW c \in Adders, FetchAndAllocate(c) PROVE FetchAndAllocate(b)
      BY <1>5, <3>1 DEF FetchAndAllocate, Begin
    <3>2. ASSUME NEW c \in Adders,
                 AppendPeerBlock(c) \/ Strip(c) \/ SyncConf(c) \/ VerifyPeer(c)
          PROVE FALSE
      BY <1>5, <3>2 DEF AppendPeerBlock, Strip, SyncConf, VerifyPeer, Advance
    <3>3. ASSUME NEW r \in Requests, TableStep(r) \/ Refuse(r) PROVE FALSE
      BY <1>5, <3>3 DEF TableStep, ReadClientsTable, WriteNewTable, RenameTable, UpdateMirror,
         Refuse, TableError, Advance
    <3>4. ASSUME NEW r \in Removers, RemoveStep(r) PROVE FALSE
      BY <1>5, <3>4 DEF RemoveStep, StartRemove, Begin, LiveRemove, SaveConf, Advance
    <3>5. CASE Reboot
      BY <1>5, <3>5 DEF Reboot
    <3> QED
      BY <3>1, <3>2, <3>3, <3>4, <3>5 DEF PeersNext, AddStep
  <2>2. PICK ok \in BOOLEAN, dump \in {live, <<>>} :
          LET next == IF ok THEN AllocateNextIP(dump) ELSE NoIP
          IN /\ FetchAll(b, ok, dump)
             /\ Begin(b, IF next = NoIP THEN "failed" ELSE "append")
             /\ ip' = [ip EXCEPT ![b] = next]
    BY <2>1 DEF FetchAndAllocate
  <2>3. ok /\ ip'[b] = AllocateNextIP(dump) /\ ip'[b] # NoIP /\ FetchPeerDump(b, dump)
    BY <2>2 DEF Begin, FetchAll
  <2>4. CASE b \in blind'
    BY <2>4 DEF Steady
  <2>5. CASE b \notin blind'
    <3>1. dump = live
      BY <2>3, <2>5 DEF FetchPeerDump
    <3>2. a \notin InFlight
      BY <2>2 DEF Begin, Steady
    <3>3. at[a] \in Synced
      BY <1>2, <3>2, AppendedBy DEF InFlight, Busy, Appended, Synced
    <3>4. Its(a) \in ToSet(live) /\ Its(a).ip = ip[a]
      BY <1>3, <3>3 DEF Addressed, Placed, Its
    <3> QED
      BY <1>3, <2>3, <3>1, <3>4, AllocatedIsFree
  <2> QED
    BY <2>4, <2>5
<1> QED
  BY <1>4, <1>5

--------------------------------------------------------------------------------
(* ServerPeers: a removed peer *)

LEMMA TemporaryKept ==
  ASSUME PeersTypeOK, Unbegun, Temporary, PeersNext
  PROVE  Temporary'
<1> USE PeerTypes, PeerConstants, FailureTypes DEF RequestTypes, Requests, Temporary
<1>1. ASSUME UNCHANGED tableNew, \A q \in Requests : at[q] = "rename" => at'[q] = "rename"
      PROVE  Temporary'
  BY <1>1, History
<1>2. ASSUME NEW a \in Adders, FetchAndAllocate(a)
      PROVE  Temporary'
  BY <1>1, <1>2 DEF FetchAndAllocate, Begin, tables
<1>3. ASSUME NEW a \in Adders, AppendPeerBlock(a) \/ Strip(a) \/ SyncConf(a) \/ VerifyPeer(a)
      PROVE  Temporary'
  BY <1>1, <1>3 DEF AppendPeerBlock, Strip, SyncConf, VerifyPeer, Advance, tables
<1>4. ASSUME NEW r \in Requests, ReadClientsTable(r) \/ UpdateMirror(r) \/ Refuse(r)
      PROVE  Temporary'
  BY <1>1, <1>4 DEF ReadClientsTable, UpdateMirror, Refuse, Advance, tables
<1>5. ASSUME NEW r \in Requests, WriteNewTable(r)
      PROVE  Temporary'
  <2>1. failures' = 0 => at'[r] = "rename"
    BY <1>5 DEF WriteNewTable, Advance, Failure
  <2> QED
    BY <2>1
<1>6. ASSUME NEW r \in Requests, RenameTable(r)
      PROVE  Temporary'
  <2>1. failures' = 0 => tableNew' = NoFile
    BY <1>6 DEF RenameTable, Failure, tables
  <2> QED
    BY <2>1
<1>7. ASSUME NEW r \in Removers, NEW k \in Adders, StartRemove(r, k)
      PROVE  Temporary'
  BY <1>1, <1>7 DEF StartRemove, Begin, tables
<1>8. ASSUME NEW r \in Removers, LiveRemove(r) \/ SaveConf(r)
      PROVE  Temporary'
  BY <1>1, <1>8 DEF LiveRemove, SaveConf, Advance, tables
<1>9. CASE Reboot
  BY <1>1, <1>9 DEF Reboot, tables
<1> QED
  BY <1>2, <1>3, <1>4, <1>5, <1>6, <1>7, <1>8, <1>9
  DEF PeersNext, AddStep, TableStep, RemoveStep

\* A key whose request has been answered gets no block any more.
LEMMA NoBlockAgain ==
  ASSUME PeersTypeOK, Blocks, PeersNext, NEW k \in Adders, at[k] \in Answered,
         k \notin Keys(conf) \cup Keys(live) \cup Keys(strip)
  PROVE  k \notin Keys(conf') \cup Keys(live') \cup Keys(strip')
<1> USE PeerTypes, PeerConstants DEF RequestTypes, ServerTypes, Requests
<1> DEFINE N == k \notin Keys(conf') \cup Keys(live') \cup Keys(strip')
<1>1. ASSUME UNCHANGED server
      PROVE  N
  BY <1>1 DEF server
<1>2. ASSUME NEW a \in Adders, FetchAndAllocate(a) \/ VerifyPeer(a)
      PROVE  N
  BY <1>1, <1>2 DEF FetchAndAllocate, VerifyPeer
<1>3. ASSUME NEW a \in Adders, AppendPeerBlock(a)
      PROVE  N
  <2>1. /\ at[a] = "append" /\ UNCHANGED <<live, strip>>
        /\ conf' \in {conf, Append(conf, Its(a))}
    BY <1>3 DEF AppendPeerBlock, Advance, Its
  <2>2. a # k /\ Its(a) \in Block /\ Its(a).key = a
    BY <2>1 DEF Its, Block, Answered
  <2>3. k \notin Keys(Append(conf, Its(a)))
    BY <2>2, AppendBlock
  <2>4. CASE conf' = conf
    BY <2>1, <2>4
  <2>5. CASE conf' = Append(conf, Its(a))
    BY <2>1, <2>3, <2>5
  <2> QED
    BY <2>1, <2>4, <2>5
<1>4. ASSUME NEW a \in Adders, Strip(a)
      PROVE  N
  BY <1>4 DEF Strip
<1>5. ASSUME NEW a \in Adders, SyncConf(a)
      PROVE  N
  <2>1. conf' = conf /\ live' \in {live, Applied(strip)} /\ strip' = <<>>
    BY <1>5 DEF SyncConf
  <2>2. k \notin Keys(Applied(strip))
    BY AppliedBlocks
  <2> QED
    BY <2>1, <2>2, NoBlocks
<1>6. ASSUME NEW r \in Requests, TableStep(r) \/ Refuse(r)
      PROVE  N
  BY <1>1, <1>6 DEF TableStep, ReadClientsTable, WriteNewTable, RenameTable, UpdateMirror, Refuse
<1>7. ASSUME NEW r \in Removers, NEW j \in Adders, StartRemove(r, j)
      PROVE  N
  BY <1>1, <1>7 DEF StartRemove
<1>8. ASSUME NEW r \in Removers, LiveRemove(r)
      PROVE  N
  <2>1. UNCHANGED <<conf, strip>> /\ live' \in {live, WithoutPeer(live, target[r])}
    BY <1>8 DEF LiveRemove
  <2>2. k \notin Keys(WithoutPeer(live, target[r]))
    BY RemovedBlock DEF Blocks
  <2> QED
    BY <2>1, <2>2
<1>9. ASSUME NEW r \in Removers, SaveConf(r)
      PROVE  N
  BY <1>9 DEF SaveConf
<1>10. CASE Reboot
  <2>1. conf' = conf /\ live' = Applied(conf) /\ strip' = <<>>
    BY <1>10 DEF Reboot
  <2> QED
    BY <2>1, AppliedBlocks, NoBlocks
<1> QED
  BY <1>2, <1>3, <1>4, <1>5, <1>6, <1>7, <1>8, <1>9, <1>10 DEF PeersNext, AddStep, RemoveStep

\* Nor an entry of the table, if it has none.
LEMMA NoEntryAgain ==
  ASSUME PeersTypeOK, PeersNext, NEW k \in Adders, at[k] \in Answered, ~Listed(k)
  PROVE  ~Listed(k)'
<1> USE PeerTypes, PeerConstants DEF RequestTypes, TableTypes, Requests
<1>1. ASSUME UNCHANGED <<tables, draft>>,
             \A q \in Requests : at'[q] = "writeNew" => at[q] = "writeNew"
      PROVE  ~Listed(k)'
  BY <1>1 DEF Listed, tables
<1>2. ASSUME NEW a \in Adders, FetchAndAllocate(a)
      PROVE  ~Listed(k)'
  BY <1>1, <1>2 DEF FetchAndAllocate, Begin
<1>3. ASSUME NEW a \in Adders, AppendPeerBlock(a) \/ Strip(a) \/ SyncConf(a) \/ VerifyPeer(a)
      PROVE  ~Listed(k)'
  BY <1>1, <1>3 DEF AppendPeerBlock, Strip, SyncConf, VerifyPeer, Advance, own
<1>4. ASSUME NEW r \in Requests, UpdateMirror(r) \/ Refuse(r)
      PROVE  ~Listed(k)'
  BY <1>1, <1>4 DEF UpdateMirror, Refuse, Advance, own
<1>5. ASSUME NEW r \in Requests, ReadClientsTable(r)
      PROVE  ~Listed(k)'
  <2>1. /\ UNCHANGED tables /\ at[r] = "readTable" /\ k # r
        /\ \A q \in Requests : q # r => at'[q] = at[q] /\ draft'[q] = draft[q]
    BY <1>5 DEF ReadClientsTable, Advance, Answered
  <2>2. at'[r] = "writeNew" => k \notin draft'[r]
    BY <1>5, <2>1 DEF ReadClientsTable, Advance, Listed
  <2> QED
    BY <2>1, <2>2 DEF Listed, tables
<1>6. ASSUME NEW r \in Requests, WriteNewTable(r)
      PROVE  ~Listed(k)'
  BY <1>6 DEF WriteNewTable, TableError, Advance, Listed, own
<1>7. ASSUME NEW r \in Requests, RenameTable(r)
      PROVE  ~Listed(k)'
  BY <1>7 DEF RenameTable, TableError, Advance, Listed, own, tables
<1>8. ASSUME NEW r \in Removers, NEW j \in Adders, StartRemove(r, j)
      PROVE  ~Listed(k)'
  BY <1>1, <1>8 DEF StartRemove, Begin
<1>9. ASSUME NEW r \in Removers, LiveRemove(r) \/ SaveConf(r)
      PROVE  ~Listed(k)'
  BY <1>1, <1>9 DEF LiveRemove, SaveConf, Advance, own
<1>10. CASE Reboot
  BY <1>1, <1>10 DEF Reboot, own
<1> QED
  BY <1>2, <1>3, <1>4, <1>5, <1>6, <1>7, <1>8, <1>9, <1>10
  DEF PeersNext, AddStep, TableStep, RemoveStep

\* A request alone at work that stays alone takes the next step itself.
LEMMA OwnStep ==
  ASSUME PeersTypeOK, Unbegun, PeersNext, NEW r \in Removers, InFlight = {r},
         r \notin overlapped'
  PROVE  \/ LiveRemove(r) \/ SaveConf(r) \/ TableStep(r)
         \/ \E q \in Requests : q # r /\ Refuse(q)
<1> USE PeerTypes, PeerConstants DEF RequestTypes, Requests
<1>1. \A q \in Requests : at[q] \in Busy => q = r
  BY DEF InFlight
<1>2. ASSUME NEW q, NEW to, Begin(q, to) PROVE FALSE
  BY <1>2 DEF Begin
<1>3. ASSUME NEW a \in Adders, AddStep(a) PROVE FALSE
  BY <1>1, <1>2, <1>3
  DEF AddStep, FetchAndAllocate, AppendPeerBlock, Strip, SyncConf, VerifyPeer, Advance, Busy
<1>4. ASSUME NEW s \in Removers, RemoveStep(s) PROVE LiveRemove(r) \/ SaveConf(r)
  BY <1>1, <1>2, <1>4 DEF RemoveStep, StartRemove, LiveRemove, SaveConf, Advance, Busy
<1>5. ASSUME NEW q \in Requests, TableStep(q) PROVE TableStep(r)
  <2>1. at[q] \in Busy
    BY <1>5 DEF TableStep, ReadClientsTable, WriteNewTable, RenameTable, UpdateMirror,
       Advance, Busy
  <2> QED
    BY <1>1, <1>5, <2>1
<1>6. ASSUME NEW q \in Requests, Refuse(q) PROVE q # r
  BY <1>6 DEF Refuse, InFlight, Busy
<1>7. CASE Reboot
  BY <1>7 DEF Reboot
<1> QED
  BY <1>3, <1>4, <1>5, <1>6, <1>7 DEF PeersNext


LEMMA GoneKept ==
  ASSUME PeersTypeOK, Solo, Flocked, Blocks, Unbegun, Temporary, Gone, PeersNext
  PROVE  Gone'
<1> USE PeerTypes, PeerConstants DEF RequestTypes, ServerTypes, TableTypes, Requests
<1> SUFFICES ASSUME SaveConfig, NEW r \in Removers, r \notin overlapped', failures' = 0,
                    at'[r] \in Busy \cup {"removed"}
             PROVE  GoneFor(r, target[r])'
  BY DEF Gone
<1>1. r \notin overlapped /\ failures = 0
  BY History
<1>2. CASE at[r] = "idle"
  <2>1. PICK k \in Adders : StartRemove(r, k)
    <3>1. ASSUME NEW a \in Adders, AddStep(a) PROVE FALSE
      BY <1>2, <3>1 DEF AddStep, FetchAndAllocate, Begin, AppendPeerBlock, Strip, SyncConf,
         VerifyPeer, Advance, Busy
    <3>2. ASSUME NEW s \in Removers, RemoveStep(s) PROVE \E k \in Adders : StartRemove(r, k)
      BY <1>2, <3>2 DEF RemoveStep, StartRemove, Begin, LiveRemove, SaveConf, Advance, Busy
    <3>3. ASSUME NEW q \in Requests, TableStep(q) \/ Refuse(q) PROVE FALSE
      BY <1>2, <3>3 DEF TableStep, ReadClientsTable, WriteNewTable, RenameTable, UpdateMirror,
         Refuse, Advance, Busy
    <3>4. CASE Reboot
      BY <1>2, <3>4 DEF Reboot, Busy
    <3> QED
      BY <3>1, <3>2, <3>3, <3>4 DEF PeersNext
  <2>2. InFlight = {} /\ at[k] # "idle" /\ at' = [at EXCEPT ![r] = "remove"] /\ target'[r] = k
    BY <2>1 DEF StartRemove, Begin
  <2>3. at[k] \in Answered /\ at'[k] = at[k] /\ at'[r] = "remove"
    BY <2>2 DEF InFlight
  <2> QED
    BY <2>2, <2>3 DEF GoneFor, Cleared
<1>3. CASE at[r] # "idle"
  <2>1. at[r] \in Busy \cup {"removed"}
    BY <1>3, History DEF Answered, Busy
  <2>k. PICK k \in Adders : k = target[r]
    BY <1>1, <2>1 DEF Gone, GoneFor
  <2>2. GoneFor(r, k)
    BY <1>1, <2>1, <2>k DEF Gone
  <2>3. k \in Adders /\ at[k] \in Answered
    BY <2>2 DEF GoneFor
  <2>4. target'[r] = k /\ at'[k] = at[k]
    BY <2>3, <2>k, History
  <2>5. CASE at[r] = "removed"
    <3>1. at'[r] = "removed"
      BY <2>5, History DEF Answered
    <3>2. k \notin Keys(conf') \cup Keys(live') \cup Keys(strip')
      BY <2>2, <2>3, <2>5, NoBlockAgain DEF GoneFor, Cleared
    <3>3. ~Listed(k)'
      BY <2>2, <2>3, <2>5, NoEntryAgain DEF GoneFor
    <3> QED
      BY <2>3, <2>4, <3>1, <3>2, <3>3 DEF GoneFor, Cleared, Keys
  <2>6. CASE at[r] \in Busy
    <3>1. InFlight = {r} /\ strip = <<>>
      BY <1>1, <2>6, AloneNoFlock
    <3>2. k \notin Keys(strip) /\ \A q \in Requests : q # r => at[q] \notin Busy
      BY <3>1, NoBlocks DEF InFlight
    <3>3. CASE LiveRemove(r)
      <4>1. at'[r] = "save" /\ live' = WithoutPeer(live, k)
        BY <1>1, <2>k, <3>3 DEF LiveRemove, Advance, Failure
      <4>2. k \notin Keys(live')
        BY <4>1, RemovedBlock DEF Blocks
      <4> QED
        BY <2>3, <2>4, <4>1, <4>2 DEF GoneFor, Cleared, Keys
    <3>4. CASE SaveConf(r)
      <4>1. at[r] = "save" /\ at'[r] = "readTable" /\ conf' = live /\ live' = live /\ strip' = strip
        BY <1>1, <3>4 DEF SaveConf, Advance, Failure
      <4>2. k \notin Keys(conf') \cup Keys(live') \cup Keys(strip')
        BY <2>2, <3>2, <4>1 DEF GoneFor
      <4> QED
        BY <2>3, <2>4, <4>1, <4>2 DEF GoneFor, Cleared, Keys
    <3>5. CASE TableStep(r)
      <4>1. UNCHANGED <<conf, live, strip>> /\ at[r] \in Cleared
        BY <3>5 DEF TableStep, ReadClientsTable, WriteNewTable, RenameTable, UpdateMirror,
           Advance, server, Cleared
      <4>2. k \notin Keys(conf') \cup Keys(live') \cup Keys(strip')
        BY <2>2, <4>1 DEF GoneFor
      <4>3. CASE ReadClientsTable(r)
        <5>1. at'[r] = "writeNew" /\ k \notin draft'[r]
          BY <1>1, <2>k, <4>3 DEF ReadClientsTable, Advance, Failure
        <5> QED
          BY <2>3, <2>4, <4>2, <5>1 DEF GoneFor, Cleared, Keys
      <4>4. CASE WriteNewTable(r)
        <5>1. at[r] = "writeNew" /\ at'[r] = "rename" /\ tableNew' = draft[r]
          BY <1>1, <4>4 DEF WriteNewTable, Advance, Failure
        <5>2. tableNew' # NoFile /\ k \notin tableNew'
          BY <2>2, <5>1 DEF GoneFor
        <5> QED
          BY <2>3, <2>4, <4>2, <5>1, <5>2 DEF GoneFor, Cleared, Keys
      <4>5. CASE RenameTable(r)
        <5>1. tableNew # NoFile /\ k \notin tableNew
          BY <2>2, <4>5 DEF GoneFor, RenameTable, Advance
        <5>2. at'[r] = "mirror" /\ table' = tableNew
          BY <1>1, <4>5, <5>1 DEF RenameTable, Advance, Failure
        <5> QED
          BY <2>3, <2>4, <4>2, <5>1, <5>2 DEF GoneFor, Cleared, Keys
      <4>6. CASE UpdateMirror(r)
        <5>1. at[r] = "mirror" /\ at' = [at EXCEPT ![r] = "removed"] /\ UNCHANGED tables
          BY <4>6 DEF UpdateMirror, Advance
        <5>2. k \notin table' /\ at'[r] = "removed"
          BY <2>2, <5>1 DEF GoneFor, tables
        <5>3. tableNew' = NoFile
          BY <1>1, <3>2, <5>1 DEF Temporary, Busy, tables
        <5>4. \A s \in Requests : at'[s] # "writeNew"
          BY <3>2, <5>1 DEF Busy
        <5>5. ~Listed(k)'
          BY <5>2, <5>3, <5>4 DEF Listed
        <5> QED
          BY <2>3, <2>4, <4>2, <5>2, <5>5 DEF GoneFor, Cleared, Keys
      <4> QED
        BY <3>5, <4>3, <4>4, <4>5, <4>6 DEF TableStep
    <3>6. ASSUME NEW q \in Requests, q # r, Refuse(q)
          PROVE  GoneFor(r, target[r])'
      <4>1. UNCHANGED <<conf, live, strip, table, tableNew, draft>> /\ at'[r] = at[r]
        BY <3>6 DEF Refuse, server, tables, own
      <4> QED
        BY <2>2, <2>3, <2>4, <2>6, <4>1 DEF GoneFor, Cleared, Keys, Busy
    <3> QED
      BY <3>1, <3>3, <3>4, <3>5, <3>6, OwnStep
  <2> QED
    BY <2>1, <2>5, <2>6
<1> QED
  BY <1>2, <1>3

--------------------------------------------------------------------------------
(* ServerPeers: the theorems *)

PeersInv ==
  /\ PeersTypeOK /\ Solo /\ Flocked /\ Blocks /\ Unbegun
  /\ Addressed /\ Apart /\ Temporary /\ Gone

LEMMA PeersInvInit == PeersInit => PeersInv
<1> SUFFICES ASSUME PeersInit PROVE PeersInv
  OBVIOUS
<1> USE PeerConstants, NoBlocks DEF PeersInit
<1>1. \A q \in Requests : at[q] = "idle"
  OBVIOUS
<1>2. PeersTypeOK
  BY DEF PeersTypeOK
<1>3. Solo /\ Temporary
  BY <1>1 DEF Solo, InFlight, Busy, Temporary
<1>4. Flocked /\ Blocks /\ Unbegun
  BY DEF Flocked, Blocks, Unbegun, Requests
<1>5. Addressed /\ Apart /\ Gone
  BY <1>1 DEF Addressed, Placed, Apart, Gone, Appended, Synced, Busy, Requests
<1> QED
  BY <1>2, <1>3, <1>4, <1>5 DEF PeersInv

LEMMA PeersInvKept == PeersInv /\ [PeersNext]_peersVars => PeersInv'
<1>1. ASSUME PeersInv, PeersNext PROVE PeersInv'
  BY <1>1, PeersTypesKept, SoloKept, FlockedKept, BlocksKept, UnbegunKept, AddressedKept,
     ApartKept, TemporaryKept, GoneKept DEF PeersInv
<1>2. ASSUME PeersInv, UNCHANGED peersVars PROVE PeersInv'
  <2> USE <1>2 DEF PeersInv, peersVars
  <2>1. PeersTypeOK'
    BY DEF PeersTypeOK
  <2>2. Solo' /\ Temporary' /\ Flocked' /\ Unbegun'
    BY DEF Solo, InFlight, Temporary, Flocked, Unbegun
  <2>3. Blocks'
    BY DEF Blocks
  <2>4. Addressed' /\ Apart'
    BY DEF Addressed, Steady, Placed, Its, Apart
  <2>5. Gone'
    BY DEF Gone, GoneFor, Listed
  <2> QED
    BY <2>1, <2>2, <2>3, <2>4, <2>5
<1> QED
  BY <1>1, <1>2

LEMMA PeersInvariant == PeersSpec => []PeersInv
BY PeersInvInit, PeersInvKept, PTL DEF PeersSpec

\* The types of the peers' state, for any number of requests at work at once,
\* any number of failed commands and of restarts: AllocateNextIP stays within
\* the subnet (peer.go).
THEOREM PeersTypeCorrect == PeersSpec => []PeersTypeOK
<1>1. PeersInv => PeersTypeOK
  BY DEF PeersInv
<1> QED
  BY <1>1, PeersInvariant, PTL

\* A peer that was added by a request that met no other keeps its address on
\* the interface and in awg0.conf (AddPeer and RemovePeer of peer.go), for any
\* number of requests at work at once, of failed commands and of restarts.
THEOREM AddressIsKept == PeersSpec => []AddressKept
<1>1. PeersInv => AddressKept
  <2> SUFFICES ASSUME PeersInv, NEW a \in Adders \ overlapped, Wanted(a),
                      \A b \in blind : ip[b] # ip[a]
               PROVE  Its(a) \in ToSet(live) /\ Its(a) \in ToSet(Applied(conf))
    BY DEF AddressKept, Its
  <2>1. Steady(a)
    BY DEF Steady, Wanted
  <2>2. Placed(a)
    BY <2>1 DEF PeersInv, Addressed
  <2> QED
    BY <2>2 DEF Placed, Wanted, Appended, Synced
<1> QED
  BY <1>1, PeersInvariant, PTL

\* Where awg-quick save rewrites awg0.conf (SaveConfig = true), a peer that was
\* removed by a request that met no other, and whose commands succeeded, is on
\* the interface, in awg0.conf and in the clientsTable never again (RemovePeer
\* of peer.go).
THEOREM RemovalIsFinal == PeersSpec => []RemovedIsGone
<1>1. PeersInv => RemovedIsGone
  <2> SUFFICES ASSUME PeersInv, SaveConfig, NEW r \in Removers \ overlapped, at[r] = "removed",
                      failures = 0
               PROVE  target[r] \notin Keys(live) \cup Keys(conf) \cup table
    BY DEF RemovedIsGone
  <2>1. GoneFor(r, target[r])
    BY DEF PeersInv, Gone
  <2> QED
    BY <2>1 DEF GoneFor, Cleared, Listed
<1> QED
  BY <1>1, PeersInvariant, PTL
================================================================================
