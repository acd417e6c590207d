---------------------------- MODULE VpsProvision ----------------------------
(***************************************************************************)
(* Setting up the VPS (src/src/internal/provisioner, daemon/api_vps.go):   *)
(* POST /api/vps/configure stores the credentials and starts a detached    *)
(* runProvision, which generates keys, port and subnet, uploads the files, *)
(* starts the containers, brings the interface up inside and stores the    *)
(* result.  Nothing keeps two of them apart, and VPSHandler.task is one    *)
(* field without a lock.                                                   *)
(*                                                                         *)
(* What GenerateAWGConfig draws is a generation number, one for each run:  *)
(* the key, the port in compose.yml and the subnet in start.sh are told    *)
(* apart by it.  The Dockerfile is the same in each run.  A stored file,   *)
(* container or interface is the generation it was made from, 0 for none.  *)
(***************************************************************************)
EXTENDS Naturals, FiniteSets

CONSTANTS Runs,         \* configure requests with the provisioning they start
          Hosts,        \* VPS addresses
          None,         \* nil
          Answers,      \* what docker inspect may print for the health status
          MaxPolls,     \* polls within the 120 s of waitForContainerHealthy
          MaxGen,       \* bound: generations
          MaxFaults     \* bound: failed commands and updates, crashes, reboots

ASSUME ProvisionAssumption ==
  /\ {MaxPolls, MaxGen, MaxFaults} \subseteq Nat
  /\ None \notin Hosts

VARIABLES cfg,          \* the VPS and server part of the configuration
          task,         \* VPSHandler.task
          pc,           \* per run: what it does next
          host,         \* per run: the host of its request, then of its copy of cfg
          gen,          \* per run: what it generated
          polls,        \* per run: polls made
          conn,         \* per run: its SSH client is connected, or not
          vps,          \* per host: what is on the VPS
          keys,         \* ssh_known_hosts: hosts whose key is noted
          made, faults,
          mixed         \* history: two runs have overlapped

run  == <<pc, host, gen, polls, conn>>
vars == <<cfg, task, run, vps, keys, made, faults, mixed>>

Files == {"start.sh", "compose.yml"}
Gens == 0..MaxGen
Steps == {"accept", "begin", "dir", "files", "start.sh", "compose.yml", "up", "wait",
          "write", "quick", "save", "done", "fail"}

TypeOK ==
  /\ cfg \in [host : Hosts \cup {None}, prov : BOOLEAN, key : Gens,
              endpoint : (Hosts \X Gens) \cup {None}]
  /\ task \in [of : Runs, status : {"provisioning", "completed", "failed"}] \cup {None}
  /\ pc \in [Runs -> Steps \cup {"idle"}]
  /\ host \in [Runs -> Hosts \cup {None}]
  /\ gen \in [Runs -> Gens] /\ polls \in [Runs -> 0..MaxPolls]
  /\ conn \in [Runs -> BOOLEAN]
  /\ vps \in [Hosts -> [files : [Files -> Gens], up : [Files -> Gens],
                        conf : Gens, iface : Gens]]
  /\ keys \subseteq Hosts
  /\ made \in Gens /\ faults \in 0..MaxFaults /\ mixed \in BOOLEAN

NoFiles == [f \in Files |-> 0]

Init ==
  /\ cfg = [host |-> None, prov |-> FALSE, key |-> 0, endpoint |-> None]
  /\ task = None
  /\ pc = [r \in Runs |-> "idle"] /\ host = [r \in Runs |-> None]
  /\ gen = [r \in Runs |-> 0] /\ polls = [r \in Runs |-> 0]
  /\ conn = [r \in Runs |-> FALSE]
  /\ vps = [h \in Hosts |-> [files |-> NoFiles, up |-> NoFiles, conf |-> 0, iface |-> 0]]
  /\ keys = {} /\ made = 0 /\ faults = 0 /\ mixed = FALSE

Fault == faults < MaxFaults /\ faults' = faults + 1
Active(r) == pc[r] # "idle"
To(r, s) == pc' = [pc EXCEPT ![r] = s]

--------------------------------------------------------------------------------
(* handleVPSConfigure *)

\* The credentials are stored; the configuration manager refuses or keeps them.
Configure(r) ==
  /\ ~Active(r)
  /\ \E h \in Hosts :
       \/ /\ cfg' = [cfg EXCEPT !.host = h]
          /\ To(r, "accept") /\ host' = [host EXCEPT ![r] = h]
          /\ mixed' = (mixed \/ \E q \in Runs : Active(q))
          /\ UNCHANGED faults
       \/ Fault /\ UNCHANGED <<cfg, pc, host, mixed>>
  /\ UNCHANGED <<task, gen, polls, conn, vps, keys, made>>

\* The task is replaced, whatever it was, and the goroutine started.
Accept(r) ==
  /\ pc[r] = "accept" /\ To(r, "begin")
  /\ task' = [of |-> r, status |-> "provisioning"]
  /\ UNCHANGED <<cfg, host, gen, polls, conn, vps, keys, made, faults, mixed>>

--------------------------------------------------------------------------------
(* Provision *)

\* Mutant: the skipped run does not report.
BeginSilent(r) ==
  /\ pc[r] = "begin"
  /\ \/ /\ cfg.prov /\ To(r, "idle") /\ UNCHANGED <<host, gen, made>>
     \/ /\ ~cfg.prov /\ made < MaxGen /\ made' = made + 1
        /\ To(r, "dir")
        /\ gen' = [gen EXCEPT ![r] = made']
        /\ host' = [host EXCEPT ![r] = cfg.host]
  /\ UNCHANGED <<cfg, task, polls, conn, vps, keys, faults, mixed>>

\* GenerateAWGConfig: keys, port, subnet and obfuscation parameters, all of
\* them random.  (That two draws agree in one of them is left out.)
Generate(r) ==
  /\ made < MaxGen /\ made' = made + 1
  /\ gen' = [gen EXCEPT ![r] = made']

\* NewClient: a client for the host, not connected yet.
NewClient(r) == host' = [host EXCEPT ![r] = cfg.host]

\* The copy of the configuration, the check that nothing is to be done, and
\* what is generated.  The container name is stored together with prov.
Begin(r) ==
  /\ pc[r] = "begin"
  /\ \/ cfg.prov /\ To(r, "done") /\ UNCHANGED <<host, gen, made>>
     \/ ~cfg.prov /\ NewClient(r) /\ Generate(r) /\ To(r, "dir")
  /\ UNCHANGED <<cfg, task, polls, conn, vps, keys, faults, mixed>>

\* The host-key callback notes a key it has not seen; a key that differs from
\* the noted one is noted too.
HostKey(h) == keys' = keys \cup {h}

\* getSession and connect before a command: an existing connection, or a new
\* one in the place of one that was dropped.
Session(r) ==
  /\ conn' = [conn EXCEPT ![r] = TRUE]
  /\ HostKey(host[r])

\* One of ExecuteCommand, ExecuteScript and UploadFile with the effect that
\* the command has on the VPS.  A command may fail, with its effect or
\* without, and the run then returns the error.
Command(r, from, to, effect) ==
  /\ pc[r] = from
  /\ \/ /\ Session(r) /\ vps' = [vps EXCEPT ![host[r]] = effect]
        /\ To(r, to) /\ UNCHANGED faults
     \/ /\ \E v \in {vps[host[r]], effect} : vps' = [vps EXCEPT ![host[r]] = v]
        /\ To(r, "fail") /\ Fault /\ UNCHANGED <<conn, keys>>
  /\ UNCHANGED <<cfg, task, host, gen, made, mixed>>

MakeDir(r) ==
  /\ pc[r] = "dir" /\ Command(r, "dir", "files", vps[host[r]])
  /\ UNCHANGED polls

\* UploadFile.  One that fails may also leave a truncated file.
UploadFile(r, f, from, to) ==
  /\ pc[r] = from
  /\ \/ Command(r, from, to, [vps[host[r]] EXCEPT !.files[f] = gen[r]])
     \/ /\ To(r, "fail") /\ Fault
        /\ vps' = [vps EXCEPT ![host[r]].files[f] = 0]
        /\ UNCHANGED <<cfg, task, host, gen, conn, keys, made, mixed>>
  /\ UNCHANGED polls

\* The files are uploaded in the order of a Go map: any one first, then the
\* one that is left.
Upload(r) ==
  \/ \E f, g \in Files : f # g /\ UploadFile(r, f, "files", g)
  \/ \E f \in Files : UploadFile(r, f, f, "up")

\* start.sh, in the image of the container: it brings up whatever awg0.conf is
\* on the volume, if there is one.
StartSh(v) == [v EXCEPT !.iface = v.conf]

\* docker compose up --build: the containers are replaced when the image or
\* the service changed, and keep their volume.
ComposeUp(v) ==
  IF v.up = v.files THEN v ELSE StartSh([v EXCEPT !.up = v.files])

ContainersUp(r) ==
  /\ pc[r] = "up"
  /\ Command(r, "up", "wait", ComposeUp(vps[host[r]]))
  /\ UNCHANGED polls

\* Mutant: the deadline is looked at after the sleep.
WaitOnceMore(r) ==
  /\ pc[r] = "wait"
  /\ \/ \E a \in Answers : /\ To(r, IF a = "healthy" THEN "write" ELSE "wait")
                           /\ polls' = [polls EXCEPT ![r] = @ + 1]
     \/ polls[r] > MaxPolls /\ To(r, "fail") /\ UNCHANGED polls
  /\ Session(r)
  /\ UNCHANGED <<cfg, task, host, gen, vps, made, faults, mixed>>

\* waitForContainerHealthy
Wait(r) ==
  /\ pc[r] = "wait"
  /\ \/ \E a \in Answers : /\ polls[r] < MaxPolls
                           /\ To(r, IF a = "healthy" THEN "write" ELSE "wait")
                           /\ polls' = [polls EXCEPT ![r] = @ + 1]
                           /\ Session(r) /\ UNCHANGED faults
     \/ polls[r] = MaxPolls /\ To(r, "fail") /\ UNCHANGED <<polls, conn, keys, faults>>
     \/ Fault /\ To(r, "fail") /\ UNCHANGED <<polls, conn, keys>>
  /\ UNCHANGED <<cfg, task, host, gen, vps, made, mixed>>

\* writeAWGConfigToContainer
WriteConf(r) ==
  /\ pc[r] = "write"
  /\ Command(r, "write", "quick", [vps[host[r]] EXCEPT !.conf = gen[r]])
  /\ UNCHANGED polls

\* Mutant: an interface that is up is as good.
QuickUpAnyway(r) ==
  /\ pc[r] = "quick"
  /\ LET v == vps[host[r]]
     IN Command(r, "quick", "save", IF v.iface = 0 THEN [v EXCEPT !.iface = v.conf] ELSE v)
  /\ UNCHANGED polls

\* awg-quick up awg0 fails when the interface exists.
QuickUp(r) ==
  /\ pc[r] = "quick"
  /\ LET v == vps[host[r]]
     IN \/ v.iface = 0 /\ Command(r, "quick", "save", [v EXCEPT !.iface = v.conf])
        \/ /\ v.iface # 0 /\ To(r, "fail")
           /\ UNCHANGED <<cfg, task, host, gen, conn, vps, keys, made, faults, mixed>>
  /\ UNCHANGED polls

\* The result is stored; the endpoint has the host that is configured by then.
Save(r) ==
  /\ pc[r] = "save"
  /\ \/ /\ cfg' = [cfg EXCEPT !.prov = TRUE, !.key = gen[r],
                              !.endpoint = <<cfg.host, gen[r]>>]
        /\ To(r, "done") /\ UNCHANGED faults
     \/ UNCHANGED cfg /\ To(r, "fail") /\ Fault
  /\ UNCHANGED <<task, host, gen, polls, conn, vps, keys, made, mixed>>

\* The end of runProvision: the client is closed, and the status goes to the
\* task that is current now.
Report(r) ==
  /\ pc[r] \in {"done", "fail"}
  /\ task' = [task EXCEPT !.status = IF pc[r] = "done" THEN "completed" ELSE "failed"]
  /\ To(r, "idle")
  /\ host' = [host EXCEPT ![r] = None] /\ gen' = [gen EXCEPT ![r] = 0]
  /\ polls' = [polls EXCEPT ![r] = 0] /\ conn' = [conn EXCEPT ![r] = FALSE]
  /\ UNCHANGED <<cfg, vps, keys, made, faults, mixed>>

--------------------------------------------------------------------------------
(* The surroundings *)

\* A connection is lost between two commands.
Drop(r) ==
  /\ conn[r] /\ conn' = [conn EXCEPT ![r] = FALSE]
  /\ UNCHANGED <<cfg, task, pc, host, gen, polls, vps, keys, made, faults, mixed>>

\* The daemon exits and starts again.
Restart ==
  /\ Fault /\ task' = None
  /\ pc' = [r \in Runs |-> "idle"] /\ host' = [r \in Runs |-> None]
  /\ gen' = [r \in Runs |-> 0] /\ polls' = [r \in Runs |-> 0]
  /\ conn' = [r \in Runs |-> FALSE]
  /\ UNCHANGED <<cfg, vps, keys, made, mixed>>

\* The VPS reboots: its containers start again, and start.sh with them.
Reboot(h) ==
  /\ Fault /\ vps[h].up # NoFiles
  /\ vps' = [vps EXCEPT ![h] = StartSh(@)]
  /\ UNCHANGED <<cfg, task, run, keys, made, mixed>>

RunStep(r) ==
  \/ Accept(r) \/ Begin(r) \/ MakeDir(r) \/ Upload(r)
  \/ ContainersUp(r) \/ Wait(r) \/ WriteConf(r) \/ QuickUp(r) \/ Save(r) \/ Report(r)

Next ==
  \/ \E r \in Runs : Configure(r) \/ RunStep(r) \/ Drop(r)
  \/ \E h \in Hosts : Reboot(h)
  \/ Restart

Spec == Init /\ [][Next]_vars

--------------------------------------------------------------------------------
(* Properties *)

\* Once a provisioning is stored, the server that the peers are told of is the
\* one that answers: the interface that is up on the endpoint's host has the
\* stored key, and its containers publish the stored port and subnet.  This
\* outlives failed attempts before it, later requests, restarts of the daemon
\* and reboots of the VPS, as long as no two runs have overlapped.
ServerMatches ==
  cfg.prov /\ ~mixed =>
    LET v == vps[cfg.endpoint[1]]
    IN /\ v.iface = cfg.key /\ v.conf = cfg.key
       /\ v.up = [f \in Files |-> cfg.endpoint[2]]

\* The task that the status handler shows as provisioning has a run that will
\* still report; the overwriting of the task by a second request and the
\* reports to a task of another run do not leave it at provisioning for ever.
TaskHasRun ==
  task # None /\ task.status = "provisioning" => \E r \in Runs : Active(r)
================================================================================
