---------------------------- MODULE WizardSession ----------------------------
(***************************************************************************)
(* The setup wizard (src/src/internal/wizard): one session, kept in one    *)
(* JSON file that every handler loads, runs through the reducer and        *)
(* replaces; nothing is locked in between.  POST commit starts a detached  *)
(* goroutine that sets the VPS up and then loads and replaces the file     *)
(* again, whichever session it holds by then.                              *)
(*                                                                         *)
(* The pool, the bootstrapper, the peer creator and the route exposer are  *)
(* interfaces of the package; they answer or fail.  A handler is one of    *)
(* Workers: what it does up to its SaveState or DeleteState is local, so   *)
(* loading is one action and saving another.                               *)
(***************************************************************************)
EXTENDS Naturals, FiniteSets

CONSTANTS Workers,      \* handlers being served at the same time
          Boots,        \* runBootstrap goroutines
          Hosts,        \* VPS addresses a user may enter
          Vps,          \* per host: what the preflight commands may find there
          None,         \* nil
          Torn,         \* a state file that is empty or does not parse
          MaxSessions,  \* bound: sessions created
          MaxFaults     \* bound: failed saves and calls, exits and power losses

\* What the commands of preflight.Run may find.
Findings ==
  [distro : [id : {"ubuntu", "debian", "other", "unreadable"},
             major : {11, 12, 22, 24}, minor : {0, 4}],
   disk   : {"enough", "short", "unparsed", "malformed", "error"},
   sudo   : BOOLEAN,
   ports  : SUBSET {"80", "443"} \cup {{"unreadable"}}]

ASSUME WizardAssumption ==
  /\ Vps \in [Hosts -> SUBSET Findings]
  /\ None \notin Hosts /\ Torn # None
  /\ {MaxSessions, MaxFaults} \subseteq Nat

VARIABLES file,         \* wizard-state.json
          op, draft,    \* per worker: what it will do to the file
          bpc,          \* per bootstrap: what it does next
          job,          \* per bootstrap: the session it was started for
          out,          \* per bootstrap: what it will save
          due,          \* history: sessions whose commit was accepted, whose end
                        \* is not lost and that no handler has saved since
          sessions, faults

work == <<op, draft>>
boot == <<bpc, job, out>>
env  == <<due, sessions, faults>>
vars == <<file, work, boot, env>>

Steps == {"welcome", "ssh", "preflight", "domain_mode", "domain_check",
          "cloudflare", "create_peer", "commit", "success", "error"}
PreflightResult == [target : Hosts, compatible : BOOLEAN, port80 : BOOLEAN]
DomainCheckResult == [cloudflare : BOOLEAN, tls : BOOLEAN]
Session == [id : Nat, step : Steps, status : {"in_progress", "committed"},
            host : Hosts \cup {None}, mode : {"none", "byo", "nipio"},
            pre : PreflightResult \cup {None}, dom : DomainCheckResult \cup {None},
            token : BOOLEAN, peer : BOOLEAN, expose : BOOLEAN]
\* Nothing stored looks like nil or like a torn file.
ASSUME NilAssumption ==
  /\ None \notin Session \cup PreflightResult \cup DomainCheckResult
  /\ Torn \notin Session

BootSteps == {"run", "peer", "route", "load", "save", "fail", "failsave"}

TypeOK ==
  /\ file \in Session \cup {None, Torn}
  /\ op \in [Workers -> {"idle", "save", "commit", "delete"}]
  /\ draft \in [Workers -> Session \cup {None}]
  /\ bpc \in [Boots -> {"idle"} \cup BootSteps]
  /\ job \in [Boots -> Session \cup {None}]
  /\ out \in [Boots -> Session \cup {None}]
  /\ due \subseteq Nat /\ sessions \in 0..MaxSessions
  /\ faults \in 0..MaxFaults

NewState(i) ==
  [id |-> i, step |-> "welcome", status |-> "in_progress", host |-> None,
   mode |-> "none", pre |-> None, dom |-> None,
   token |-> FALSE, peer |-> FALSE, expose |-> FALSE]

Init ==
  /\ file = None
  /\ op = [w \in Workers |-> "idle"] /\ draft = [w \in Workers |-> None]
  /\ bpc = [b \in Boots |-> "idle"]
  /\ job = [b \in Boots |-> None] /\ out = [b \in Boots |-> None]
  /\ due = {} /\ sessions = 0 /\ faults = 0

\* A failure, one that keeps the end of some sessions off the disk, or none.
Fault == faults < MaxFaults /\ faults' = faults + 1 /\ UNCHANGED due
LostEnd(ids) == faults < MaxFaults /\ faults' = faults + 1 /\ due' = due \ ids
NoFault == UNCHANGED <<faults, due>>

--------------------------------------------------------------------------------
(* The reducer and the checks it relies on *)

\* Mutant: an infeasible domain may be passed.
GuardNoTLS(from, to, s) ==
  CASE <<from, to>> = <<"ssh", "preflight">>            -> s.host # None
    [] <<from, to>> = <<"create_peer", "commit">>       -> s.peer
    [] OTHER                                            -> TRUE

\* isTransitionAllowed over the table of transitions, as far as handlers ask:
\* the first entry for a pair decides.
Guard(from, to, s) ==
  CASE <<from, to>> = <<"welcome", "ssh">>              -> TRUE
    [] <<from, to>> = <<"ssh", "preflight">>            -> s.host # None
    [] <<from, to>> = <<"domain_mode", "domain_check">> -> s.mode = "byo"
    [] <<from, to>> = <<"domain_mode", "create_peer">>  -> s.mode = "nipio"
    [] <<from, to>> = <<"domain_check", "cloudflare">>  ->
         s.dom # None /\ s.dom.cloudflare /\ s.dom.tls
    [] <<from, to>> = <<"domain_check", "create_peer">> ->
         s.dom # None /\ s.dom.tls /\ ~s.dom.cloudflare
    [] <<from, to>> = <<"cloudflare", "create_peer">>   -> s.token
    [] <<from, to>> = <<"create_peer", "commit">>       -> s.peer
    [] OTHER                                            -> FALSE

\* resolveNextStep
NextStep(s) ==
  CASE s.step = "welcome"      -> "ssh"
    [] s.step = "ssh"          -> "preflight"
    [] s.step = "domain_mode"  -> IF s.mode = "nipio" THEN "create_peer"
                                  ELSE "domain_check"
    [] s.step = "domain_check" -> IF s.dom # None /\ s.dom.cloudflare /\ s.dom.tls
                                  THEN "cloudflare" ELSE "create_peer"
    [] s.step = "cloudflare"   -> "create_peer"
    [] s.step = "create_peer"  -> "commit"
    [] OTHER                   -> "none"

\* dnscheck.Validate: CloudflareTokenValid is never set, so that the strategy
\* is always http-01 and feasible exactly when port 80 is free.
Validate(s, nsCloudflare) ==
  [cloudflare |-> nsCloudflare, tls |-> s.pre = None \/ s.pre.port80]

\* applyStepInput for a body that passes its checks, with the domain check.
\* The other steps take no input.
Inputs(s) ==
  CASE s.step = "welcome"      -> {s}
    [] s.step = "ssh"          -> {[s EXCEPT !.host = h] : h \in Hosts}
    [] s.step = "domain_mode"  -> {[s EXCEPT !.mode = m] : m \in {"byo", "nipio"}}
    [] s.step = "domain_check" -> {[s EXCEPT !.dom = Validate(s, c)] : c \in BOOLEAN}
    [] s.step = "cloudflare"   -> {[s EXCEPT !.token = t] : t \in BOOLEAN}
    [] s.step = "create_peer"  -> {[s EXCEPT !.peer = TRUE, !.expose = e] : e \in BOOLEAN}
    [] OTHER                   -> {}

\* handleStepComplete: the next step, if the input just applied passes the guard.
StepComplete(s) ==
  {[t EXCEPT !.step = NextStep(t)] :
     t \in {i \in Inputs(s) : Guard(i.step, NextStep(i), i)}}

\* preflight.CheckDistro on what parseVersion makes of VERSION_ID; os-release
\* that cannot be read blocks as an unknown distribution does.
DistroOK(d) ==
  \/ d.id = "ubuntu" /\ (d.major > 22 \/ (d.major = 22 /\ d.minor >= 4))
  \/ d.id = "debian" /\ d.major >= 12

\* checkDisk: a size that parseDiskSize refuses is only a warning.
DiskOK(d) == d \in {"enough", "unparsed"}

\* checkPorts: a list that cannot be read counts as no port in use.
PortFree(p, list) == list = {"unreadable"} \/ p \notin list

\* Compatible: no blocking failure.  Docker, port 80 and memory only warn.
PreflightOf(f) ==
  [compatible |-> /\ DistroOK(f.distro)
                  /\ DiskOK(f.disk)
                  /\ f.sudo
                  /\ PortFree("443", f.ports),
   port80 |-> PortFree("80", f.ports)]

\* handlePreflightResult
WithPreflight(s, h, r) ==
  [s EXCEPT !.pre = [target |-> h, compatible |-> r.compatible, port80 |-> r.port80],
            !.step = IF r.compatible THEN "domain_mode" ELSE @]

\* handleCommitSuccess and handleCommitFailure: refused unless at commit; a
\* nil state is refused too.
AtCommit(s) == s \in Session /\ s.step = "commit"
Succeeded(s) == [s EXCEPT !.step = "success", !.status = "committed"]
\* Mutant: a failed commit gets a status of its own.
FailedStatus(s) == [s EXCEPT !.step = "error", !.status = "failed"]
Failed(s) == [s EXCEPT !.step = "error"]

--------------------------------------------------------------------------------
(* Handlers, up to the save.  A refused request changes nothing. *)

Plan(w, what, s) ==
  /\ op[w] = "idle"
  /\ op' = [op EXCEPT ![w] = what]
  /\ draft' = [draft EXCEPT ![w] = s]
  /\ UNCHANGED <<file, boot, due, faults>>

\* handleCreateSession: the check and the save are two steps.
CreateSession(w) ==
  /\ file = None
  /\ sessions < MaxSessions /\ sessions' = sessions + 1
  /\ Plan(w, "save", NewState(sessions + 1))

\* handleStepSubmit: the step named must be the current one.
StepSubmit(w) ==
  /\ file \in Session
  /\ \E s \in StepComplete(file) : Plan(w, "save", s)
  /\ UNCHANGED sessions

\* handlePreflight: connect and check, for up to 30 seconds, on the state
\* that was loaded before.  A failed connection is answered 502.
Preflight(w) ==
  /\ file \in Session /\ file.step = "preflight" /\ file.host # None
  /\ \E f \in Vps[file.host] :
       Plan(w, "save", WithPreflight(file, file.host, PreflightOf(f)))
  /\ UNCHANGED sessions

\* handleCommit
CommitStart(w) ==
  /\ AtCommit(file) /\ file.status = "in_progress"
  /\ Plan(w, "commit", file)
  /\ UNCHANGED sessions

\* handleDeleteSession: the abandoned status is never stored.
DeleteSession(w) ==
  /\ file \in Session
  /\ Plan(w, "delete", file)
  /\ UNCHANGED sessions

Answer(w) ==
  /\ op' = [op EXCEPT ![w] = "idle"]
  /\ draft' = [draft EXCEPT ![w] = None]

\* SaveState: a temporary file of its own, then rename.
Save(w) ==
  /\ op[w] = "save"
  /\ \/ file' = draft[w] /\ due' = due \ {draft[w].id} /\ UNCHANGED faults
     \/ UNCHANGED file /\ Fault
  /\ Answer(w)
  /\ UNCHANGED <<boot, sessions>>

\* handleCommit's save; only then the goroutine is started.
SaveCommit(w) ==
  /\ op[w] = "commit"
  /\ \/ /\ file' = draft[w] /\ due' = due \cup {draft[w].id} /\ UNCHANGED faults
        /\ \E b \in Boots : /\ bpc[b] = "idle"
                            /\ bpc' = [bpc EXCEPT ![b] = "run"]
                            /\ job' = [job EXCEPT ![b] = draft[w]]
                            /\ UNCHANGED out
     \/ UNCHANGED <<file, boot>> /\ Fault
  /\ Answer(w)
  /\ UNCHANGED sessions

\* DeleteState: no file is no error.
Delete(w) ==
  /\ op[w] = "delete"
  /\ \/ file' = None /\ NoFault
     \/ UNCHANGED file /\ Fault
  /\ Answer(w)
  /\ UNCHANGED <<boot, sessions>>

--------------------------------------------------------------------------------
(* runBootstrap *)

Boot(b, from, to) == bpc[b] = from /\ bpc' = [bpc EXCEPT ![b] = to]

\* Bootstrapper.Run, CreatePeer and ExposeRoute: done, or the end of it.
BootRun(b) ==
  /\ \/ Boot(b, "run", "peer") /\ NoFault
     \/ Boot(b, "run", "fail") /\ Fault
  /\ UNCHANGED <<file, work, job, out, sessions>>

BootPeer(b) ==
  /\ \/ Boot(b, "peer", IF job[b].expose THEN "route" ELSE "load") /\ NoFault
     \/ Boot(b, "peer", "fail") /\ Fault
  /\ UNCHANGED <<file, work, job, out, sessions>>

BootRoute(b) ==
  /\ \/ Boot(b, "route", "load") /\ NoFault
     \/ Boot(b, "route", "fail") /\ Fault
  /\ UNCHANGED <<file, work, job, out, sessions>>

\* A bootstrap that ends forgets its variables.
EndBoot(b) ==
  /\ bpc' = [bpc EXCEPT ![b] = "idle"]
  /\ job' = [job EXCEPT ![b] = None] /\ out' = [out EXCEPT ![b] = None]

\* The session on disk is loaded again and taken through commit_success.
BootLoad(b) ==
  /\ \/ /\ AtCommit(file) /\ Boot(b, "load", "save")
        /\ out' = [out EXCEPT ![b] = Succeeded(file)] /\ UNCHANGED job
     \/ /\ file # Torn /\ ~AtCommit(file) /\ bpc[b] = "load"
        /\ EndBoot(b)
     \/ file = Torn /\ Boot(b, "load", "fail") /\ UNCHANGED <<job, out>>
  /\ UNCHANGED <<file, work, env>>

\* A crash ends every goroutine; what was renamed without fsync may be lost
\* with the power.
Die ==
  /\ op' = [w \in Workers |-> "idle"] /\ draft' = [w \in Workers |-> None]
  /\ bpc' = [b \in Boots |-> "idle"]
  /\ job' = [b \in Boots |-> None] /\ out' = [b \in Boots |-> None]

\* The success is saved.  The log line that follows reads routeResult.URL:
\* without an exposed port routeResult is nil and the daemon panics.
BootSave(b) ==
  /\ bpc[b] = "save"
  /\ \/ /\ file' = out[b] /\ NoFault
        /\ IF job[b].expose THEN EndBoot(b) /\ UNCHANGED work ELSE Die
     \/ UNCHANGED <<file, work>> /\ LostEnd({job[b].id, out[b].id}) /\ EndBoot(b)
  /\ UNCHANGED sessions

\* Mutant: a failed bootstrap is only logged.
BootFailLogged(b) ==
  /\ bpc[b] = "fail" /\ EndBoot(b)
  /\ UNCHANGED <<file, work, env>>

\* commitFailure: load, reduce, save.
BootFail(b) ==
  /\ \/ /\ AtCommit(file) /\ Boot(b, "fail", "failsave")
        /\ out' = [out EXCEPT ![b] = Failed(file)] /\ UNCHANGED job
     \/ ~AtCommit(file) /\ bpc[b] = "fail" /\ EndBoot(b)
  /\ UNCHANGED <<file, work, env>>

BootFailSave(b) ==
  /\ bpc[b] = "failsave" /\ EndBoot(b)
  /\ \/ file' = out[b] /\ NoFault
     \/ UNCHANGED file /\ LostEnd({job[b].id, out[b].id})
  /\ UNCHANGED <<work, sessions>>

BootStep(b) ==
  \/ BootRun(b) \/ BootPeer(b) \/ BootRoute(b) \/ BootLoad(b) \/ BootSave(b)
  \/ BootFail(b) \/ BootFailSave(b)

--------------------------------------------------------------------------------
\* The daemon exits, or the machine loses power.
Crash ==
  /\ LostEnd(due) /\ Die
  /\ file' \in {file} \cup (IF file = None THEN {} ELSE {Torn})
  /\ UNCHANGED sessions

WorkerStep(w) == Save(w) \/ SaveCommit(w) \/ Delete(w)

Next ==
  \/ \E w \in Workers : \/ CreateSession(w) \/ StepSubmit(w) \/ Preflight(w)
                        \/ CommitStart(w) \/ DeleteSession(w) \/ WorkerStep(w)
  \/ \E b \in Boots : BootStep(b)
  \/ Crash

Spec == Init /\ [][Next]_vars

--------------------------------------------------------------------------------
(* Properties *)

\* A stored session that has reached commit was taken through every step before
\* it: it has SSH data, the checks found this very host compatible, it has a
\* domain mode, for an own domain a feasible certificate, and a peer name.  The
\* checks run on a state loaded up to 30 seconds before it is saved, and other
\* requests change the host meanwhile; whole sessions are overwritten, but the
\* parts of two sessions are never mixed.
CommitIsPrepared ==
  file \in Session =>
    /\ file.pre # None => file.pre.target = file.host
    /\ file.step \in {"commit", "success", "error"} =>
         /\ file.host # None /\ file.peer
         /\ file.pre # None /\ file.pre.compatible
         /\ \/ file.mode = "nipio"
            \/ file.mode = "byo" /\ file.dom # None /\ file.dom.tls

\* A commit that was answered with 202 is not forgotten: as long as its session
\* is stored, it shows success or error, or a bootstrap is at work for it and
\* it shows commit.  A bootstrap gives up without a trace when it finds another
\* step (bootstrap.go:146), and it loads and saves whatever is stored by then:
\* its own session deleted, a later one in its place, or one that a second
\* commit has brought back.  What is excused is taken out of due: a handler
\* that saves the session as it had loaded it before (Save), and an end lost
\* with a failed save or with a crash (LostEnd).
CommitCarried ==
  file \in Session /\ file.id \in due =>
    \/ file.step \in {"success", "error"}
    \/ AtCommit(file) /\ \E b \in Boots : bpc[b] # "idle" /\ job[b].id = file.id
================================================================================
