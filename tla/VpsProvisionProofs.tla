------------------------- MODULE VpsProvisionProofs -------------------------
(***************************************************************************)
(* Proofs about VpsProvision for every number of requests, hosts, polls    *)
(* and faults: its types, that a task shown as provisioning has a run      *)
(* that will report (TaskHasRun), and that a stored provisioning is the    *)
(* one the server runs (ServerMatches).                                    *)
(*                                                                         *)
(* ServerMatches says nothing of a run that is not stored yet, so it is    *)
(* not inductive.  PInv adds what a run has already put on its server at   *)
(* each of its steps (Reached), that without an overlap there is one run   *)
(* (Single), and that a run at work has found nothing provisioned and      *)
(* works on the configured host (Fresh).                                   *)
(***************************************************************************)
EXTENDS VpsProvision, TLAPS

\* The types of VPSHandler.task and of what is on a VPS.
Tasks == [of : Runs, status : {"provisioning", "completed", "failed"}]
Server == [files : [Files -> Gens], up : [Files -> Gens], conf : Gens, iface : Gens]
Config == [host : Hosts \cup {None}, prov : BOOLEAN, key : Gens,
           endpoint : (Hosts \X Gens) \cup {None}]

\* The steps of Provision between NewClient and the stored result.
Working == {"dir", "files", "start.sh", "compose.yml", "up", "wait", "write", "quick", "save"}

\* What generation g has left on server v by the time its run is at step s.
Reached(s, v, g) ==
  /\ s = "start.sh" => v.files["compose.yml"] = g
  /\ s = "compose.yml" => v.files["start.sh"] = g
  /\ s = "up" => v.files = [f \in Files |-> g]
  /\ s \in {"wait", "write", "quick", "save"} => v.up = [f \in Files |-> g]
  /\ s \in {"quick", "save"} => v.conf = g
  /\ s = "save" => v.iface = g

\* A run has a host, and the configuration has had one since it was asked for.
Hosted == \A r \in Runs : Active(r) => host[r] \in Hosts /\ cfg.host \in Hosts

\* A run that was accepted has a task to report to.
Tasked == \A r \in Runs : pc[r] \notin {"idle", "accept"} => task \in Tasks

\* What is stored as provisioned has an endpoint.
Stored == cfg.prov => cfg.endpoint \in Hosts \X Gens

\* Runs that never overlapped are one at a time.
Single == ~mixed => \A q, r \in Runs : Active(q) /\ Active(r) => q = r

\* The check that Provision begins with still holds while the run works.
Fresh ==
  ~mixed => \A r \in Runs : pc[r] \in Working => ~cfg.prov /\ cfg.host = host[r]

\* A run finds on its server what its earlier steps have put there.
Progress ==
  ~mixed => \A r \in Runs : pc[r] \in Working => Reached(pc[r], vps[host[r]], gen[r])

Inv == Hosted /\ Tasked /\ Stored /\ TaskHasRun /\ Single /\ Fresh /\ Progress /\ ServerMatches
PInv == TypeOK /\ Inv

--------------------------------------------------------------------------------
(* Types, part by part *)

LEMMA Bounds == MaxPolls \in Nat /\ MaxGen \in Nat /\ MaxFaults \in Nat
BY ProvisionAssumption

\* TypeOK as facts about each variable.
LEMMA TypeParts ==
  ASSUME TypeOK
  PROVE  /\ cfg \in Config /\ task \in Tasks \cup {None}
         /\ pc \in [Runs -> Steps \cup {"idle"}] /\ host \in [Runs -> Hosts \cup {None}]
         /\ gen \in [Runs -> Gens] /\ polls \in [Runs -> 0..MaxPolls]
         /\ conn \in [Runs -> BOOLEAN] /\ vps \in [Hosts -> Server] /\ keys \subseteq Hosts
         /\ made \in Gens /\ faults \in 0..MaxFaults /\ mixed \in BOOLEAN
BY DEF TypeOK, Config, Tasks, Server

\* The same of the next state, to conclude TypeOK'.
LEMMA TypePartsNext ==
  ASSUME cfg' \in Config, task' \in Tasks \cup {None},
         pc' \in [Runs -> Steps \cup {"idle"}], host' \in [Runs -> Hosts \cup {None}],
         gen' \in [Runs -> Gens], polls' \in [Runs -> 0..MaxPolls],
         conn' \in [Runs -> BOOLEAN], vps' \in [Hosts -> Server], keys' \subseteq Hosts,
         made' \in Gens, faults' \in 0..MaxFaults, mixed' \in BOOLEAN
  PROVE  TypeOK'
BY DEF TypeOK, Config, Tasks, Server

\* What the invariant says of the run r.
LEMMA OfRun ==
  ASSUME PInv, NEW r \in Runs
  PROVE  /\ Active(r) => host[r] \in Hosts /\ cfg.host \in Hosts
         /\ pc[r] \notin {"idle", "accept"} => task \in Tasks
         /\ ~mixed /\ pc[r] \in Working =>
              ~cfg.prov /\ cfg.host = host[r] /\ Reached(pc[r], vps[host[r]], gen[r])
BY DEF PInv, Inv, Hosted, Tasked, Fresh, Progress

\* A failed command or update, and one that is not.
LEMMA Faults ==
  ASSUME TypeOK, Fault \/ UNCHANGED faults
  PROVE  faults' \in 0..MaxFaults
BY Bounds, TypeParts DEF Fault

--------------------------------------------------------------------------------
(* A run at work *)

\* Every step between NewClient and the stored result takes the run to step s
\* and leaves v on its server.
Moves(r, s, v) ==
  /\ pc' = [pc EXCEPT ![r] = s] /\ vps' = [vps EXCEPT ![host[r]] = v]
  /\ cfg' = cfg /\ task' = task /\ host' = host /\ gen' = gen
  /\ made' = made /\ mixed' = mixed

\* The variables that a move leaves to the action.
Rest ==
  /\ conn' \in [Runs -> BOOLEAN] /\ keys' \subseteq Hosts
  /\ polls' \in [Runs -> 0..MaxPolls] /\ faults' \in 0..MaxFaults

LEMMA MoveTypes ==
  ASSUME PInv, NEW r \in Runs, NEW s \in Steps, NEW v \in Server,
         pc[r] \in Working, Moves(r, s, v), Rest
  PROVE  TypeOK'
<1>1. host[r] \in Hosts
  BY OfRun DEF Active, Working
<1>2. /\ cfg \in Config /\ task \in Tasks \cup {None}
      /\ pc \in [Runs -> Steps \cup {"idle"}] /\ host \in [Runs -> Hosts \cup {None}]
      /\ gen \in [Runs -> Gens] /\ vps \in [Hosts -> Server] /\ made \in Gens
  BY TypeParts DEF PInv
<1>3. mixed' \in BOOLEAN
  BY TypeParts, Zenon DEF PInv, Moves
<1>4. pc' \in [Runs -> Steps \cup {"idle"}] /\ vps' \in [Hosts -> Server]
  BY <1>1, <1>2 DEF Moves
<1>5. /\ cfg' \in Config /\ task' \in Tasks \cup {None} /\ host' \in [Runs -> Hosts \cup {None}]
      /\ gen' \in [Runs -> Gens] /\ made' \in Gens
  BY <1>2, Zenon DEF Moves
<1> QED
  BY <1>3, <1>4, <1>5, TypePartsNext DEF Rest

\* A move keeps the invariant when the run has left behind what step s expects.
LEMMA MoveInv ==
  ASSUME PInv, NEW r \in Runs, NEW s \in Steps, NEW v \in Server,
         pc[r] \in Working, Moves(r, s, v), Rest,
         s \in Working => (mixed \/ Reached(s, v, gen[r]))
  PROVE  PInv'
<1> USE DEF Active
<1>1. /\ pc \in [Runs -> Steps \cup {"idle"}] /\ vps \in [Hosts -> Server]
      /\ host[r] \in Hosts /\ task \in Tasks
  BY OfRun, TypeParts DEF PInv, Working
<1>2. /\ pc' = [pc EXCEPT ![r] = s] /\ vps' = [vps EXCEPT ![host[r]] = v]
      /\ cfg' = cfg /\ task' = task /\ host' = host /\ gen' = gen /\ mixed' = mixed
  BY DEF Moves
<1>3. pc[r] # "idle" /\ s # "idle"
  BY DEF Working, Steps
<1>4. pc'[r] = s /\ \A q \in Runs : q # r => pc'[q] = pc[q]
  BY <1>1, <1>2
<1>5. Hosted' /\ Tasked'
  BY <1>1, <1>2, <1>3, <1>4 DEF PInv, Inv, Hosted, Tasked
<1>6. Stored'
  BY <1>2 DEF PInv, Inv, Stored
<1>7. TaskHasRun'
  BY <1>2, <1>3, <1>4 DEF TaskHasRun
<1>8. Single'
  BY <1>2, <1>3, <1>4 DEF PInv, Inv, Single
<1>9. ~mixed => \A q \in Runs : q # r => pc[q] = "idle"
  BY <1>3 DEF PInv, Inv, Single
<1>10. Fresh'
  BY <1>2, <1>4, <1>9 DEF PInv, Inv, Fresh, Working
<1>11. Progress'
  <2> SUFFICES ASSUME ~mixed, NEW q \in Runs, pc'[q] \in Working
               PROVE  Reached(pc'[q], vps'[host'[q]], gen'[q])
    BY <1>2 DEF Progress
  <2>1. q = r
    BY <1>4, <1>9 DEF Working
  <2>2. pc'[q] = s /\ vps'[host'[q]] = v /\ gen'[q] = gen[r]
    BY <2>1, <1>1, <1>2, <1>4
  <2> QED
    BY <2>1, <2>2, <1>4
<1>12. ServerMatches'
  BY <1>2, OfRun DEF ServerMatches
<1> QED
  BY <1>5, <1>6, <1>7, <1>8, <1>10, <1>11, <1>12, MoveTypes DEF PInv, Inv

\* Session keeps its types.
LEMMA SessionRest ==
  ASSUME PInv, NEW r \in Runs, host[r] \in Hosts, Session(r)
  PROVE  conn' \in [Runs -> BOOLEAN] /\ keys' \subseteq Hosts
<1>1. conn' \in [Runs -> BOOLEAN]
  BY TypeParts, Zenon DEF PInv, Session
<1>2. keys' \subseteq Hosts
  BY TypeParts, Zenon DEF PInv, Session, HostKey
<1> QED
  BY <1>1, <1>2

\* A command is a move, to its own step with its effect or to the failure.
LEMMA CommandInv ==
  ASSUME PInv, NEW r \in Runs, NEW from \in Working, NEW to \in Steps, NEW effect \in Server,
         Command(r, from, to, effect), UNCHANGED polls,
         to \in Working => (mixed \/ Reached(to, effect, gen[r]))
  PROVE  PInv'
<1>1. pc[r] = from /\ pc[r] \in Working /\ host[r] \in Hosts
  BY OfRun DEF Command, Active, Working
<1>2. polls' \in [Runs -> 0..MaxPolls] /\ vps[host[r]] \in Server
  BY <1>1, TypeParts DEF PInv
<1>3. faults' \in 0..MaxFaults
  BY Faults DEF PInv, Command
<1>4. CASE /\ Session(r) /\ vps' = [vps EXCEPT ![host[r]] = effect]
           /\ To(r, to)
  <2>1. Moves(r, to, effect)
    BY <1>4 DEF Moves, Command, To
  <2>2. Rest
    BY <1>1, <1>2, <1>3, <1>4, SessionRest DEF Rest
  <2> QED
    BY <1>1, <2>1, <2>2, MoveInv
<1>5. CASE /\ \E v \in {vps[host[r]], effect} : vps' = [vps EXCEPT ![host[r]] = v]
           /\ To(r, "fail") /\ UNCHANGED <<conn, keys>>
  <2>1. PICK v \in {vps[host[r]], effect} : vps' = [vps EXCEPT ![host[r]] = v]
    BY <1>5
  <2>2. v \in Server
    BY <1>2, <2>1
  <2>3. Moves(r, "fail", v)
    BY <1>5, <2>1 DEF Moves, Command, To
  <2>4. conn' \in [Runs -> BOOLEAN] /\ keys' \subseteq Hosts
    BY <1>5, TypeParts, Zenon DEF PInv
  <2>5. Rest
    BY <1>2, <1>3, <2>4 DEF Rest
  <2>6. "fail" \in Steps /\ "fail" \notin Working
    BY DEF Steps, Working
  <2> QED
    BY <1>1, <2>2, <2>3, <2>5, <2>6, MoveInv
<1> QED
  BY <1>4, <1>5 DEF Command

\* A move to the failure that leaves v on the server.
LEMMA FailInv ==
  ASSUME PInv, NEW r \in Runs, NEW v \in Server, pc[r] \in Working,
         Moves(r, "fail", v), UNCHANGED <<polls, conn, keys>>, Fault \/ UNCHANGED faults
  PROVE  PInv'
<1>1. polls' \in [Runs -> 0..MaxPolls] /\ keys' \subseteq Hosts
  BY TypeParts DEF PInv
<1>2. conn' \in [Runs -> BOOLEAN]
  BY TypeParts, Zenon DEF PInv
<1>3. Rest
  BY <1>1, <1>2, Faults DEF Rest, PInv
<1>4. "fail" \in Steps /\ "fail" \notin Working
  BY DEF Steps, Working
<1> QED
  BY <1>3, <1>4, MoveInv

LEMMA MakeDirInv ==
  ASSUME PInv, NEW r \in Runs, MakeDir(r)
  PROVE  PInv'
<1>1. pc[r] = "dir" /\ "dir" \in Working /\ "files" \in Steps
  BY DEF MakeDir, Working, Steps
<1>2. vps[host[r]] \in Server
  BY <1>1, OfRun, TypeParts DEF PInv, Active
<1>3. Reached("files", vps[host[r]], gen[r])
  BY DEF Reached
<1> QED
  BY <1>1, <1>2, <1>3, CommandInv DEF MakeDir

\* One upload, given what the step after it expects.
LEMMA UploadFileInv ==
  ASSUME PInv, NEW r \in Runs, NEW f \in Files, NEW from \in Working, NEW to \in Steps,
         UploadFile(r, f, from, to),
         mixed \/ Reached(to, [vps[host[r]] EXCEPT !.files[f] = gen[r]], gen[r])
  PROVE  PInv'
<1> DEFINE With(g) == [vps[host[r]] EXCEPT !.files[f] = g]
<1>1. pc[r] = from /\ pc[r] \in Working /\ host[r] \in Hosts
  BY OfRun DEF UploadFile, Active, Working
<1>2. vps \in [Hosts -> Server] /\ vps[host[r]] \in Server /\ gen[r] \in Gens /\ 0 \in Gens
  BY <1>1, TypeParts, Bounds DEF PInv, Gens
<1>3. \A g \in Gens : With(g) \in Server
  BY <1>2 DEF Server
<1>4. CASE Command(r, from, to, With(gen[r]))
  <2>1. With(gen[r]) \in Server
    BY <1>2, <1>3
  <2>2. UNCHANGED polls
    BY DEF UploadFile
  <2> QED
    BY <1>4, <2>1, <2>2, CommandInv
<1>5. CASE /\ To(r, "fail") /\ Fault
           /\ vps' = [vps EXCEPT ![host[r]].files[f] = 0]
           /\ UNCHANGED <<cfg, task, host, gen, conn, keys, made, mixed>>
  <2>1. vps' = [vps EXCEPT ![host[r]] = With(0)]
    BY <1>1, <1>2, <1>5
  <2>2. Moves(r, "fail", With(0))
    BY <1>5, <2>1 DEF Moves, To
  <2>3. UNCHANGED <<polls, conn, keys>> /\ Fault
    BY <1>5 DEF UploadFile
  <2>4. With(0) \in Server
    BY <1>2, <1>3
  <2> QED
    BY <1>1, <2>2, <2>3, <2>4, FailInv
<1> QED
  BY <1>4, <1>5 DEF UploadFile

LEMMA UploadInv ==
  ASSUME PInv, NEW r \in Runs, Upload(r)
  PROVE  PInv'
<1> USE DEF Files
<1>1. host[r] \in Hosts /\ vps[host[r]] \in Server /\ pc[r] \in Working
  <2>1. pc[r] \in Working
    BY DEF Upload, UploadFile, Working
  <2> QED
    BY <2>1, OfRun, TypeParts DEF PInv, Active, Working
<1>2. CASE \E f, g \in Files : f # g /\ UploadFile(r, f, "files", g)
  <2>1. PICK f \in Files, g \in Files : f # g /\ UploadFile(r, f, "files", g)
    BY <1>2
  <2>2. "files" \in Working /\ g \in Steps
    BY DEF Working, Steps
  <2>3. Reached(g, [vps[host[r]] EXCEPT !.files[f] = gen[r]], gen[r])
    BY <1>1, <2>1 DEF Reached, Server
  <2> QED
    BY <2>1, <2>2, <2>3, UploadFileInv
<1>3. CASE \E f \in Files : UploadFile(r, f, f, "up")
  <2>1. PICK f \in Files : UploadFile(r, f, f, "up")
    BY <1>3
  <2>2. f \in Working /\ "up" \in Steps
    BY DEF Working, Steps
  <2>3. pc[r] = f
    BY <2>1 DEF UploadFile
  <2>4. mixed \/ Reached("up", [vps[host[r]] EXCEPT !.files[f] = gen[r]], gen[r])
    <3> SUFFICES ASSUME ~mixed
                 PROVE  Reached("up", [vps[host[r]] EXCEPT !.files[f] = gen[r]], gen[r])
      OBVIOUS
    <3>1. Reached(f, vps[host[r]], gen[r])
      BY <1>1, <2>3, OfRun
    <3>2. \A g \in Files : g # f => vps[host[r]].files[g] = gen[r]
      BY <3>1 DEF Reached
    <3>3. [vps[host[r]].files EXCEPT ![f] = gen[r]] = [g \in Files |-> gen[r]]
      BY <1>1, <3>2 DEF Server
    <3> QED
      BY <1>1, <3>3 DEF Reached, Server
  <2> QED
    BY <2>1, <2>2, <2>4, UploadFileInv
<1> QED
  BY <1>2, <1>3 DEF Upload

\* docker compose leaves the uploaded files in use, whatever ran before.
LEMMA ComposeUpRuns ==
  ASSUME NEW v \in Server
  PROVE  ComposeUp(v) \in Server /\ ComposeUp(v).up = v.files
BY DEF ComposeUp, StartSh, Server

LEMMA ContainersUpInv ==
  ASSUME PInv, NEW r \in Runs, ContainersUp(r)
  PROVE  PInv'
<1>1. pc[r] = "up" /\ pc[r] \in Working /\ "wait" \in Steps
  BY DEF ContainersUp, Working, Steps
<1>2. vps[host[r]] \in Server
  BY <1>1, OfRun, TypeParts DEF PInv, Active
<1>3. mixed \/ Reached("wait", ComposeUp(vps[host[r]]), gen[r])
  BY <1>1, <1>2, OfRun, ComposeUpRuns DEF Reached
<1> QED
  BY <1>1, <1>2, <1>3, CommandInv, ComposeUpRuns DEF ContainersUp

LEMMA WaitInv ==
  ASSUME PInv, NEW r \in Runs, Wait(r)
  PROVE  PInv'
<1>1. pc[r] = "wait" /\ pc[r] \in Working
  BY DEF Wait, Working
<1>2. host[r] \in Hosts /\ vps[host[r]] \in Server /\ vps \in [Hosts -> Server]
  BY <1>1, OfRun, TypeParts DEF PInv, Active
<1>3. vps' = [vps EXCEPT ![host[r]] = vps[host[r]]]
  BY <1>2 DEF Wait
<1>4. polls \in [Runs -> 0..MaxPolls]
  BY TypeParts DEF PInv
<1>5. CASE \E a \in Answers : /\ polls[r] < MaxPolls
                              /\ To(r, IF a = "healthy" THEN "write" ELSE "wait")
                              /\ polls' = [polls EXCEPT ![r] = @ + 1]
                              /\ Session(r) /\ UNCHANGED faults
  <2>1. PICK s \in {"write", "wait"} : pc' = [pc EXCEPT ![r] = s]
    BY <1>5 DEF To
  <2>2. Moves(r, s, vps[host[r]])
    BY <1>3, <2>1 DEF Moves, Wait
  <2>3. polls' \in [Runs -> 0..MaxPolls]
    BY <1>4, <1>5, Bounds
  <2>4. Rest
    BY <1>2, <1>5, <2>3, SessionRest, Faults DEF Rest, PInv
  <2>5. mixed \/ Reached(s, vps[host[r]], gen[r])
    BY <1>1, OfRun DEF Reached
  <2>6. s \in Steps
    BY DEF Steps
  <2> QED
    BY <1>1, <1>2, <2>2, <2>4, <2>5, <2>6, MoveInv
<1>6. CASE To(r, "fail") /\ UNCHANGED <<polls, conn, keys>> /\ (Fault \/ UNCHANGED faults)
  <2>1. Moves(r, "fail", vps[host[r]])
    BY <1>3, <1>6 DEF Moves, Wait, To
  <2> QED
    BY <1>1, <1>2, <1>6, <2>1, FailInv
<1> QED
  BY <1>5, <1>6 DEF Wait

LEMMA WriteConfInv ==
  ASSUME PInv, NEW r \in Runs, WriteConf(r)
  PROVE  PInv'
<1> DEFINE v == [vps[host[r]] EXCEPT !.conf = gen[r]]
<1>1. pc[r] = "write" /\ pc[r] \in Working /\ "quick" \in Steps
  BY DEF WriteConf, Working, Steps
<1>2. vps[host[r]] \in Server /\ gen[r] \in Gens
  BY <1>1, OfRun, TypeParts DEF PInv, Active
<1>3. v \in Server
  BY <1>2 DEF Server
<1>4. mixed \/ Reached("quick", v, gen[r])
  BY <1>1, <1>2, OfRun DEF Reached, Server
<1>5. Command(r, "write", "quick", v) /\ UNCHANGED polls
  BY DEF WriteConf
<1> QED
  BY <1>1, <1>3, <1>4, <1>5, CommandInv

LEMMA QuickUpInv ==
  ASSUME PInv, NEW r \in Runs, QuickUp(r)
  PROVE  PInv'
<1> DEFINE v == [vps[host[r]] EXCEPT !.iface = vps[host[r]].conf]
<1>1. pc[r] = "quick" /\ pc[r] \in Working /\ "save" \in Steps
  BY DEF QuickUp, Working, Steps
<1>2. host[r] \in Hosts /\ vps[host[r]] \in Server /\ vps \in [Hosts -> Server]
  BY <1>1, OfRun, TypeParts DEF PInv, Active
<1>3. v \in Server
  BY <1>2 DEF Server
<1>4. mixed \/ Reached("save", v, gen[r])
  BY <1>1, <1>2, OfRun DEF Reached, Server
<1>5. CASE Command(r, "quick", "save", v)
  BY <1>1, <1>3, <1>4, <1>5, CommandInv DEF QuickUp
<1>6. CASE /\ To(r, "fail")
           /\ UNCHANGED <<cfg, task, host, gen, conn, vps, keys, made, faults, mixed>>
  <2>1. vps' = [vps EXCEPT ![host[r]] = vps[host[r]]]
    BY <1>2, <1>6
  <2>2. Moves(r, "fail", vps[host[r]])
    BY <1>6, <2>1 DEF Moves, To
  <2>3. UNCHANGED <<polls, conn, keys>> /\ UNCHANGED faults
    BY <1>6 DEF QuickUp
  <2> QED
    BY <1>1, <1>2, <2>2, <2>3, FailInv
<1> QED
  BY <1>5, <1>6 DEF QuickUp

--------------------------------------------------------------------------------
(* The other steps *)

\* Nothing is changed that the invariant is about, but for the types.
LEMMA QuietInv ==
  ASSUME PInv, UNCHANGED <<cfg, task, pc, host, gen, vps, made, mixed>>,
         polls' \in [Runs -> 0..MaxPolls], conn' \in [Runs -> BOOLEAN],
         keys' \subseteq Hosts, faults' \in 0..MaxFaults
  PROVE  PInv'
<1>1. mixed' \in BOOLEAN
  BY TypeParts, Zenon DEF PInv
<1>2. TypeOK'
  BY <1>1, TypeParts, TypePartsNext DEF PInv
<1>3. Hosted' /\ Tasked' /\ Stored' /\ TaskHasRun' /\ Single'
  BY DEF PInv, Inv, Hosted, Tasked, Stored, TaskHasRun, Single, Active
<1>4. Fresh' /\ Progress'
  BY DEF PInv, Inv, Fresh, Progress, Reached
<1>5. ServerMatches'
  BY DEF PInv, Inv, ServerMatches
<1> QED
  BY <1>2, <1>3, <1>4, <1>5 DEF PInv, Inv

LEMMA ConfigureInv ==
  ASSUME PInv, NEW r \in Runs, Configure(r)
  PROVE  PInv'
<1> USE DEF Active
<1>1. CASE Fault /\ UNCHANGED <<cfg, pc, host, mixed>>
  <2>1. /\ polls' \in [Runs -> 0..MaxPolls] /\ keys' \subseteq Hosts
        /\ faults' \in 0..MaxFaults
    BY <1>1, Faults, TypeParts DEF PInv, Configure
  <2>2. conn' \in [Runs -> BOOLEAN]
    BY TypeParts, Zenon DEF PInv, Configure
  <2> QED
    BY <1>1, <2>1, <2>2, QuietInv DEF Configure
<1>2. CASE \E h \in Hosts : /\ cfg' = [cfg EXCEPT !.host = h]
                            /\ To(r, "accept") /\ host' = [host EXCEPT ![r] = h]
                            /\ mixed' = (mixed \/ \E q \in Runs : Active(q))
                            /\ UNCHANGED faults
  <2>1. PICK h \in Hosts : /\ cfg' = [cfg EXCEPT !.host = h]
                           /\ pc' = [pc EXCEPT ![r] = "accept"]
                           /\ host' = [host EXCEPT ![r] = h]
                           /\ mixed' = (mixed \/ \E q \in Runs : pc[q] # "idle")
                           /\ faults' = faults
    BY <1>2 DEF To
  <2>2. /\ pc[r] = "idle"
        /\ task' = task /\ gen' = gen /\ polls' = polls /\ conn' = conn
        /\ vps' = vps /\ keys' = keys /\ made' = made
    BY DEF Configure
  <2>3. /\ cfg \in Config /\ task \in Tasks \cup {None}
        /\ pc \in [Runs -> Steps \cup {"idle"}] /\ host \in [Runs -> Hosts \cup {None}]
        /\ gen \in [Runs -> Gens] /\ polls \in [Runs -> 0..MaxPolls]
        /\ vps \in [Hosts -> Server] /\ keys \subseteq Hosts
        /\ made \in Gens /\ faults \in 0..MaxFaults
    BY TypeParts DEF PInv
  <2>4. conn' \in [Runs -> BOOLEAN] /\ mixed' \in BOOLEAN
    BY <2>1, <2>2, TypeParts, Zenon DEF PInv
  <2>5. /\ cfg' \in Config /\ cfg'.host = h /\ cfg'.prov = cfg.prov /\ cfg'.key = cfg.key
        /\ cfg'.endpoint = cfg.endpoint
    BY <2>1, <2>3 DEF Config
  <2>6. pc' \in [Runs -> Steps \cup {"idle"}] /\ host' \in [Runs -> Hosts \cup {None}]
    BY <2>1, <2>3 DEF Steps
  <2>7. TypeOK'
    BY <2>1, <2>2, <2>3, <2>4, <2>5, <2>6, TypePartsNext
  <2>8. /\ pc'[r] = "accept" /\ host'[r] = h
        /\ \A q \in Runs : q # r => pc'[q] = pc[q] /\ host'[q] = host[q]
    BY <2>1, <2>3
  <2>9. ~mixed' => ~mixed /\ \A q \in Runs : pc[q] = "idle"
    BY <2>1
  <2>10. Hosted'
    BY <2>5, <2>8 DEF PInv, Inv, Hosted
  <2>11. Tasked'
    BY <2>2, <2>8 DEF PInv, Inv, Tasked
  <2>12. Stored'
    BY <2>5 DEF PInv, Inv, Stored
  <2>13. TaskHasRun'
    BY <2>8 DEF TaskHasRun
  <2>14. Single'
    BY <2>8, <2>9 DEF Single
  <2>15. ~mixed' => \A q \in Runs : pc'[q] \notin Working
    BY <2>8, <2>9 DEF Working
  <2>16. Fresh' /\ Progress'
    BY <2>15 DEF Fresh, Progress
  <2>17. ServerMatches'
    BY <2>2, <2>5, <2>9 DEF PInv, Inv, ServerMatches
  <2> QED
    BY <2>7, <2>10, <2>11, <2>12, <2>13, <2>14, <2>16, <2>17 DEF PInv, Inv
<1> QED
  BY <1>1, <1>2 DEF Configure

LEMMA AcceptInv ==
  ASSUME PInv, NEW r \in Runs, Accept(r)
  PROVE  PInv'
<1> USE DEF Active
<1>1. /\ pc[r] = "accept" /\ pc' = [pc EXCEPT ![r] = "begin"]
      /\ task' = [of |-> r, status |-> "provisioning"]
      /\ cfg' = cfg /\ host' = host /\ gen' = gen /\ polls' = polls /\ conn' = conn
      /\ vps' = vps /\ keys' = keys /\ made' = made /\ faults' = faults /\ mixed' = mixed
  BY DEF Accept, To
<1>2. pc \in [Runs -> Steps \cup {"idle"}]
  BY TypeParts DEF PInv
<1>3. pc' \in [Runs -> Steps \cup {"idle"}] /\ task' \in Tasks
  BY <1>1, <1>2 DEF Steps, Tasks
<1>4. conn' \in [Runs -> BOOLEAN] /\ mixed' \in BOOLEAN
  BY <1>1, TypeParts, Zenon DEF PInv
<1>5. TypeOK'
  BY <1>1, <1>3, <1>4, TypeParts, TypePartsNext DEF PInv
<1>6. pc'[r] = "begin" /\ \A q \in Runs : q # r => pc'[q] = pc[q]
  BY <1>1, <1>2
<1>7. Hosted' /\ Tasked' /\ Stored' /\ TaskHasRun' /\ Single'
  BY <1>1, <1>3, <1>6 DEF PInv, Inv, Hosted, Tasked, Stored, TaskHasRun, Single
<1>8. \A q \in Runs : pc'[q] \in Working => pc'[q] = pc[q]
  BY <1>6 DEF Working
<1>9. Fresh' /\ Progress'
  BY <1>1, <1>8 DEF PInv, Inv, Fresh, Progress, Reached
<1>10. ServerMatches'
  BY <1>1 DEF PInv, Inv, ServerMatches
<1> QED
  BY <1>5, <1>7, <1>9, <1>10 DEF PInv, Inv

LEMMA BeginInv ==
  ASSUME PInv, NEW r \in Runs, Begin(r)
  PROVE  PInv'
<1> USE DEF Active
<1>1. /\ pc[r] = "begin"
      /\ cfg' = cfg /\ task' = task /\ polls' = polls /\ conn' = conn
      /\ vps' = vps /\ keys' = keys /\ faults' = faults /\ mixed' = mixed
  BY DEF Begin
<1>2. /\ pc \in [Runs -> Steps \cup {"idle"}] /\ host \in [Runs -> Hosts \cup {None}]
      /\ gen \in [Runs -> Gens] /\ made \in Gens /\ cfg \in Config
  BY TypeParts DEF PInv
<1>3. PICK s \in {"done", "dir"} :
        /\ pc' = [pc EXCEPT ![r] = s] /\ (s = "dir" => ~cfg.prov)
        /\ host' = IF s = "dir" THEN [host EXCEPT ![r] = cfg.host] ELSE host
        /\ gen' \in [Runs -> Gens] /\ made' \in Gens
        /\ \A q \in Runs : q # r => gen'[q] = gen[q]
  <2>1. CASE cfg.prov /\ To(r, "done") /\ UNCHANGED <<host, gen, made>>
    BY <1>2, <2>1 DEF To
  <2>2. CASE ~cfg.prov /\ NewClient(r) /\ Generate(r) /\ To(r, "dir")
    <3>1. made' \in Gens /\ gen' = [gen EXCEPT ![r] = made']
      BY <1>2, <2>2, Bounds DEF Generate, Gens
    <3>2. gen' \in [Runs -> Gens] /\ \A q \in Runs : q # r => gen'[q] = gen[q]
      BY <1>2, <3>1
    <3> QED
      BY <2>2, <3>1, <3>2 DEF To, NewClient
  <2> QED
    BY <2>1, <2>2 DEF Begin
<1>4. pc'[r] = s /\ \A q \in Runs : q # r => pc'[q] = pc[q]
  BY <1>2, <1>3
<1>5. cfg.host \in Hosts /\ host[r] \in Hosts /\ task \in Tasks
  BY <1>1, OfRun
<1>6. /\ pc' \in [Runs -> Steps \cup {"idle"}] /\ host' \in [Runs -> Hosts \cup {None}]
      /\ host'[r] \in Hosts /\ (s = "dir" => host'[r] = cfg.host)
      /\ \A q \in Runs : q # r => host'[q] = host[q]
  BY <1>2, <1>3, <1>5 DEF Steps
<1>7. conn' \in [Runs -> BOOLEAN] /\ mixed' \in BOOLEAN
  BY <1>1, TypeParts, Zenon DEF PInv
<1>8. TypeOK'
  BY <1>1, <1>3, <1>6, <1>7, TypeParts, TypePartsNext DEF PInv
<1>9. Hosted'
  BY <1>1, <1>3, <1>4, <1>5, <1>6 DEF PInv, Inv, Hosted
<1>10. Tasked' /\ Stored'
  BY <1>1, <1>5 DEF PInv, Inv, Tasked, Stored
<1>11. TaskHasRun' /\ Single'
  BY <1>1, <1>3, <1>4 DEF PInv, Inv, TaskHasRun, Single
<1>12. Fresh'
  BY <1>1, <1>3, <1>4, <1>6 DEF PInv, Inv, Fresh, Working
<1>13. Progress'
  <2> SUFFICES ASSUME ~mixed, NEW q \in Runs, pc'[q] \in Working
               PROVE  Reached(pc'[q], vps'[host'[q]], gen'[q])
    BY <1>1 DEF Progress
  <2>1. CASE q = r
    BY <2>1, <1>3, <1>4 DEF Reached
  <2>2. CASE q # r
    BY <2>2, <1>1, <1>3, <1>4, <1>6 DEF PInv, Inv, Progress
  <2> QED
    BY <2>1, <2>2
<1>14. ServerMatches'
  BY <1>1 DEF PInv, Inv, ServerMatches
<1> QED
  BY <1>8, <1>9, <1>10, <1>11, <1>12, <1>13, <1>14 DEF PInv, Inv

\* A run that has stored its result or failed to.
LEMMA SaveInv ==
  ASSUME PInv, NEW r \in Runs, Save(r)
  PROVE  PInv'
<1> USE DEF Active
<1>1. /\ pc[r] = "save" /\ pc[r] \in Working
      /\ task' = task /\ host' = host /\ gen' = gen /\ polls' = polls /\ conn' = conn
      /\ vps' = vps /\ keys' = keys /\ made' = made /\ mixed' = mixed
  BY DEF Save, Working
<1>2. /\ cfg \in Config /\ pc \in [Runs -> Steps \cup {"idle"}] /\ gen[r] \in Gens
      /\ vps \in [Hosts -> Server]
  BY TypeParts DEF PInv
<1>3. host[r] \in Hosts /\ cfg.host \in Hosts /\ task \in Tasks
  BY <1>1, OfRun
<1>4. CASE UNCHANGED cfg /\ To(r, "fail") /\ Fault
  <2>1. vps' = [vps EXCEPT ![host[r]] = vps[host[r]]] /\ vps[host[r]] \in Server
    BY <1>1, <1>2, <1>3
  <2>2. Moves(r, "fail", vps[host[r]])
    BY <1>1, <1>4, <2>1 DEF Moves, To
  <2> QED
    BY <1>1, <1>4, <2>1, <2>2, FailInv
<1>5. CASE /\ cfg' = [cfg EXCEPT !.prov = TRUE, !.key = gen[r],
                                 !.endpoint = <<cfg.host, gen[r]>>]
           /\ To(r, "done") /\ UNCHANGED faults
  <2>1. /\ cfg' \in Config /\ cfg'.host = cfg.host /\ cfg'.key = gen[r]
        /\ cfg'.endpoint = <<cfg.host, gen[r]>> /\ cfg'.endpoint \in Hosts \X Gens
    BY <1>2, <1>3, <1>5 DEF Config
  <2>2. /\ pc' = [pc EXCEPT ![r] = "done"] /\ pc' \in [Runs -> Steps \cup {"idle"}]
        /\ faults' = faults
    BY <1>2, <1>5 DEF To, Steps
  <2>3. conn' \in [Runs -> BOOLEAN] /\ mixed' \in BOOLEAN
    BY <1>1, TypeParts, Zenon DEF PInv
  <2>4. TypeOK'
    BY <1>1, <2>1, <2>2, <2>3, TypeParts, TypePartsNext DEF PInv
  <2>5. pc'[r] = "done" /\ \A q \in Runs : q # r => pc'[q] = pc[q]
    BY <1>2, <2>2
  <2>6. Hosted' /\ Tasked' /\ Stored'
    BY <1>1, <1>3, <2>1, <2>5 DEF PInv, Inv, Hosted, Tasked, Stored
  <2>7. TaskHasRun' /\ Single'
    BY <1>1, <2>5 DEF PInv, Inv, TaskHasRun, Single
  <2>8. ~mixed' => \A q \in Runs : pc'[q] \notin Working
    BY <1>1, <2>5 DEF PInv, Inv, Single, Working
  <2>9. Fresh' /\ Progress'
    BY <2>8 DEF Fresh, Progress
  <2>10. ServerMatches'
    <3> SUFFICES ASSUME ~mixed
                 PROVE  LET v == vps[cfg.host]
                        IN  v.iface = gen[r] /\ v.conf = gen[r] /\ v.up = [f \in Files |-> gen[r]]
      BY <1>1, <2>1 DEF ServerMatches
    <3>1. cfg.host = host[r] /\ Reached("save", vps[host[r]], gen[r])
      BY <1>1, OfRun
    <3> QED
      BY <3>1 DEF Reached
  <2> QED
    BY <2>4, <2>6, <2>7, <2>9, <2>10 DEF PInv, Inv
<1> QED
  BY <1>4, <1>5 DEF Save

LEMMA ReportInv ==
  ASSUME PInv, NEW r \in Runs, Report(r)
  PROVE  PInv'
<1> USE DEF Active
<1>1. /\ pc[r] \in {"done", "fail"}
      /\ task' = [task EXCEPT !.status = IF pc[r] = "done" THEN "completed" ELSE "failed"]
      /\ pc' = [pc EXCEPT ![r] = "idle"]
      /\ host' = [host EXCEPT ![r] = None] /\ gen' = [gen EXCEPT ![r] = 0]
      /\ polls' = [polls EXCEPT ![r] = 0] /\ conn' = [conn EXCEPT ![r] = FALSE]
      /\ cfg' = cfg /\ vps' = vps /\ keys' = keys /\ made' = made
      /\ faults' = faults /\ mixed' = mixed
  BY DEF Report, To
<1>2. /\ pc \in [Runs -> Steps \cup {"idle"}] /\ host \in [Runs -> Hosts \cup {None}]
      /\ gen \in [Runs -> Gens] /\ polls \in [Runs -> 0..MaxPolls] /\ task \in Tasks
  BY <1>1, OfRun, TypeParts DEF PInv
<1>3. task' \in Tasks /\ task'.status # "provisioning"
  BY <1>1, <1>2 DEF Tasks
<1>4. /\ pc' \in [Runs -> Steps \cup {"idle"}] /\ host' \in [Runs -> Hosts \cup {None}]
      /\ gen' \in [Runs -> Gens] /\ polls' \in [Runs -> 0..MaxPolls]
  BY <1>1, <1>2, Bounds DEF Gens
<1>5. conn' \in [Runs -> BOOLEAN] /\ mixed' \in BOOLEAN
  BY <1>1, TypeParts, Zenon DEF PInv
<1>6. TypeOK'
  BY <1>1, <1>3, <1>4, <1>5, TypeParts, TypePartsNext DEF PInv
<1>7. /\ pc'[r] = "idle"
      /\ \A q \in Runs : q # r => pc'[q] = pc[q] /\ host'[q] = host[q] /\ gen'[q] = gen[q]
  BY <1>1, <1>2
<1>8. Hosted' /\ Tasked' /\ Stored'
  BY <1>1, <1>3, <1>7 DEF PInv, Inv, Hosted, Tasked, Stored
<1>9. TaskHasRun' /\ Single'
  BY <1>1, <1>3, <1>7 DEF PInv, Inv, TaskHasRun, Single
<1>10. \A q \in Runs : pc'[q] \in Working => q # r
  BY <1>7 DEF Working
<1>11. Fresh'
  BY <1>1, <1>7, <1>10 DEF PInv, Inv, Fresh
<1>12. Progress'
  BY <1>1, <1>7, <1>10 DEF PInv, Inv, Progress
<1>13. ServerMatches'
  BY <1>1 DEF PInv, Inv, ServerMatches
<1> QED
  BY <1>6, <1>8, <1>9, <1>11, <1>12, <1>13 DEF PInv, Inv

LEMMA DropInv ==
  ASSUME PInv, NEW r \in Runs, Drop(r)
  PROVE  PInv'
<1>1. conn' \in [Runs -> BOOLEAN]
  BY TypeParts, Zenon DEF PInv, Drop
<1> QED
  BY <1>1, TypeParts, QuietInv DEF PInv, Drop

LEMMA RestartInv ==
  ASSUME PInv, Restart
  PROVE  PInv'
<1>1. /\ task' = None /\ pc' = [r \in Runs |-> "idle"] /\ host' = [r \in Runs |-> None]
      /\ gen' = [r \in Runs |-> 0] /\ polls' = [r \in Runs |-> 0]
      /\ conn' = [r \in Runs |-> FALSE]
      /\ cfg' = cfg /\ vps' = vps /\ keys' = keys /\ made' = made /\ mixed' = mixed
  BY DEF Restart
<1>2. /\ pc' \in [Runs -> Steps \cup {"idle"}] /\ host' \in [Runs -> Hosts \cup {None}]
      /\ gen' \in [Runs -> Gens] /\ polls' \in [Runs -> 0..MaxPolls]
      /\ faults' \in 0..MaxFaults
  BY <1>1, Bounds, Faults DEF PInv, Restart, Gens
<1>3. conn' \in [Runs -> BOOLEAN] /\ mixed' \in BOOLEAN
  BY <1>1, TypeParts, Zenon DEF PInv
<1>4. TypeOK'
  BY <1>1, <1>2, <1>3, TypeParts, TypePartsNext DEF PInv
<1>5. \A r \in Runs : pc'[r] = "idle"
  BY <1>1
<1>6. Hosted' /\ Tasked' /\ Stored' /\ TaskHasRun' /\ Single' /\ Fresh' /\ Progress'
  BY <1>1, <1>5
  DEF PInv, Inv, Hosted, Tasked, Stored, TaskHasRun, Single, Fresh, Progress, Active, Working
<1>7. ServerMatches'
  BY <1>1 DEF PInv, Inv, ServerMatches
<1> QED
  BY <1>4, <1>6, <1>7 DEF PInv, Inv

\* A reboot brings the interface up from the configuration that was written:
\* it changes a server that is provisioned, or nearly, in no way.
LEMMA RebootInv ==
  ASSUME PInv, NEW h \in Hosts, Reboot(h)
  PROVE  PInv'
<1>1. /\ vps' = [vps EXCEPT ![h] = StartSh(vps[h])]
      /\ cfg' = cfg /\ task' = task /\ pc' = pc /\ host' = host /\ gen' = gen
      /\ polls' = polls /\ conn' = conn /\ keys' = keys /\ made' = made /\ mixed' = mixed
  BY DEF Reboot, run
<1>2. vps \in [Hosts -> Server]
  BY TypeParts DEF PInv
<1>3. StartSh(vps[h]) \in Server
  BY <1>2 DEF StartSh, Server
<1>4. vps' \in [Hosts -> Server] /\ faults' \in 0..MaxFaults
  BY <1>1, <1>2, <1>3, Faults DEF Reboot, PInv
<1>5. conn' \in [Runs -> BOOLEAN] /\ mixed' \in BOOLEAN
  BY <1>1, TypeParts, Zenon DEF PInv
<1>6. TypeOK'
  BY <1>1, <1>4, <1>5, TypeParts, TypePartsNext DEF PInv
<1>7. \A k \in Hosts : /\ vps'[k].files = vps[k].files /\ vps'[k].up = vps[k].up
                       /\ vps'[k].conf = vps[k].conf
                       /\ vps'[k].iface \in {vps[k].iface, vps[k].conf}
  BY <1>1, <1>2 DEF StartSh, Server
<1>8. Hosted' /\ Tasked' /\ Stored' /\ TaskHasRun' /\ Single' /\ Fresh'
  BY <1>1 DEF PInv, Inv, Hosted, Tasked, Stored, TaskHasRun, Single, Fresh, Active
<1>9. Progress'
  <2> SUFFICES ASSUME ~mixed, NEW q \in Runs, pc[q] \in Working
               PROVE  Reached(pc[q], vps'[host[q]], gen[q])
    BY <1>1 DEF Progress
  <2>1. host[q] \in Hosts /\ Reached(pc[q], vps[host[q]], gen[q])
    BY OfRun DEF Active, Working
  <2> QED
    BY <1>7, <2>1 DEF Reached
<1>10. ServerMatches'
  <2> SUFFICES ASSUME cfg.prov, ~mixed
               PROVE  LET v == vps'[cfg.endpoint[1]]
                      IN /\ v.iface = cfg.key /\ v.conf = cfg.key
                         /\ v.up = [f \in Files |-> cfg.endpoint[2]]
    BY <1>1 DEF ServerMatches
  <2>1. cfg.endpoint[1] \in Hosts
    BY DEF PInv, Inv, Stored
  <2> QED
    BY <1>7, <2>1 DEF PInv, Inv, ServerMatches
<1> QED
  BY <1>6, <1>8, <1>9, <1>10 DEF PInv, Inv

--------------------------------------------------------------------------------
(* Theorems *)

LEMMA InitInv == Init => PInv
<1> SUFFICES ASSUME Init PROVE PInv
  OBVIOUS
<1>1. NoFiles \in [Files -> Gens] /\ 0 \in Gens
  BY Bounds DEF NoFiles, Gens
<1>2. cfg \in Config /\ cfg.prov = FALSE /\ vps \in [Hosts -> Server]
  BY <1>1 DEF Init, Config, Server
<1>3. conn \in [Runs -> BOOLEAN] /\ mixed \in BOOLEAN
  BY Zenon DEF Init
<1>4. TypeOK
  BY <1>1, <1>2, <1>3, Bounds DEF Init, TypeOK, Config, Server
<1>5. Inv
  BY <1>2 DEF Init, Inv, Hosted, Tasked, Stored, TaskHasRun, Single, Fresh, Progress,
     ServerMatches, Active, Working
<1> QED
  BY <1>4, <1>5 DEF PInv

LEMMA NextInv == PInv /\ [Next]_vars => PInv'
<1> SUFFICES ASSUME PInv, [Next]_vars PROVE PInv'
  OBVIOUS
<1>1. ASSUME NEW r \in Runs, RunStep(r) PROVE PInv'
  BY <1>1, AcceptInv, BeginInv, MakeDirInv, UploadInv, ContainersUpInv, WaitInv,
     WriteConfInv, QuickUpInv, SaveInv, ReportInv DEF RunStep
<1>2. ASSUME NEW r \in Runs, Configure(r) \/ Drop(r) PROVE PInv'
  BY <1>2, ConfigureInv, DropInv
<1>3. CASE UNCHANGED vars
  <2>1. UNCHANGED <<cfg, task, pc, host, gen, vps, made, mixed>>
    BY <1>3 DEF vars, run
  <2>2. conn' \in [Runs -> BOOLEAN]
    BY <1>3, TypeParts, Zenon DEF PInv, vars, run
  <2>3. polls' \in [Runs -> 0..MaxPolls] /\ keys' \subseteq Hosts /\ faults' \in 0..MaxFaults
    BY <1>3, TypeParts DEF PInv, vars, run
  <2> QED
    BY <2>1, <2>2, <2>3, QuietInv
<1> QED
  BY <1>1, <1>2, <1>3, RebootInv, RestartInv DEF Next

\* The provisioning state is always well formed: no run reports to a missing
\* task, connects to an empty host, or polls past the deadline of
\* waitForContainerHealthy.
THEOREM TypeCorrect == Spec => []TypeOK
<1>1. PInv => TypeOK
  BY DEF PInv
<1> QED
  BY <1>1, InitInv, NextInv, PTL DEF Spec

\* A task that GET /api/vps/status shows as provisioning has a runProvision
\* that has still to report, however requests overwrite each other's task.
THEOREM ShownTaskHasRun == Spec => []TaskHasRun
<1>1. PInv => TaskHasRun
  BY DEF PInv, Inv
<1> QED
  BY <1>1, InitInv, NextInv, PTL DEF Spec

\* What Provision stores is what the server on the stored endpoint runs: key,
\* containers and interface, after any failed attempts, restarts and reboots,
\* unless two runs overlapped.
THEOREM StoredIsServed == Spec => []ServerMatches
<1>1. PInv => ServerMatches
  BY DEF PInv, Inv
<1> QED
  BY <1>1, InitInv, NextInv, PTL DEF Spec
================================================================================
