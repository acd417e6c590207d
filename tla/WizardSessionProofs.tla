-------------------------- MODULE WizardSessionProofs --------------------------
(***************************************************************************)
(* What WizardSession guarantees for any number of handlers, bootstraps,   *)
(* hosts, sessions and crashes: whatever is stored, or about to be stored  *)
(* by anybody, has been prepared as far as its step says, and a commit     *)
(* that was accepted has a bootstrap or its end.                           *)
(***************************************************************************)
EXTENDS WizardSession, TLAPS

AfterPreflight == {"domain_mode", "domain_check", "cloudflare", "create_peer", "commit",
                   "success", "error"}
AfterDomain == {"create_peer", "commit", "success", "error"}

Certified(s) == s.dom # None /\ s.dom.tls

\* What the steps before its current one have put into a session.
Prepared(s) ==
  /\ s.step \in {"welcome", "ssh"} => s.pre = None
  /\ s.step = "preflight" => s.host # None
  /\ s.pre # None => s.pre.target = s.host /\ s.host # None
  /\ s.step \in AfterPreflight => s.pre # None /\ s.pre.compatible
  /\ s.step \in {"domain_check", "cloudflare"} => s.mode = "byo"
  /\ s.step = "cloudflare" => Certified(s)
  /\ s.step \in AfterDomain => s.mode = "nipio" \/ (s.mode = "byo" /\ Certified(s))
  /\ s.step \in {"commit", "success", "error"} => s.peer

Ready(s) == s \in Session /\ Prepared(s)

\* Stored, in the hands of a handler, or in those of a bootstrap.
WInv ==
  /\ TypeOK
  /\ file \in Session => Prepared(file)
  /\ \A w \in Workers : op[w] \in {"save", "commit"} => Ready(draft[w])
  /\ \A b \in Boots : bpc[b] \in {"save", "failsave"} => Ready(out[b])

\* The end of a commit that is about to be stored, and the session of a
\* handler that is about to accept one.
Ends ==
  /\ \A b \in Boots : bpc[b] \in {"save", "failsave"} => out[b].step \in {"success", "error"}
  /\ \A w \in Workers : op[w] = "commit" => AtCommit(draft[w])

DInv == WInv /\ Ends /\ CommitCarried

--------------------------------------------------------------------------------
(* The reducer *)

\* The fields of a session have their types.
LEMMA SessionFields ==
  ASSUME NEW s \in Session
  PROVE  /\ s.id \in Nat /\ s.step \in Steps /\ s.status \in {"in_progress", "committed"}
         /\ s.host \in Hosts \cup {None} /\ s.mode \in {"none", "byo", "nipio"}
         /\ s.pre \in PreflightResult \cup {None} /\ s.dom \in DomainCheckResult \cup {None}
         /\ s.token \in BOOLEAN /\ s.peer \in BOOLEAN /\ s.expose \in BOOLEAN
  BY DEF Session

\* NewSession: nothing has been entered.
LEMMA NewStateReady ==
  ASSUME NEW i \in Nat
  PROVE  Ready(NewState(i))
<1>1. NewState(i) \in Session
  BY DEF NewState, Session, Steps
<1>2. Prepared(NewState(i))
  BY DEF NewState, Prepared, AfterPreflight, AfterDomain
<1> QED
  BY <1>1, <1>2 DEF Ready

\* dnscheck.Validate answers with a result.
LEMMA ValidateType ==
  ASSUME NEW s \in Session, NEW c \in BOOLEAN
  PROVE  Validate(s, c) \in DomainCheckResult
<1>1. (s.pre = None \/ s.pre.port80) \in BOOLEAN
  OBVIOUS
<1> QED
  BY <1>1 DEF Validate, DomainCheckResult

\* handleStepComplete: a step that its guard lets pass leaves behind what the
\* next one needs.
LEMMA StepCompleteReady ==
  ASSUME NEW s, Ready(s), NEW t \in StepComplete(s)
  PROVE  Ready(t)
<1>0. s \in Session /\ Prepared(s)
  BY DEF Ready
<1>1. PICK i \in Inputs(s) : Guard(i.step, NextStep(i), i) /\ t = [i EXCEPT !.step = NextStep(i)]
  BY DEF StepComplete
<1>2. CASE s.step = "welcome"
  <2>1. i = s /\ NextStep(i) = "ssh"
    BY <1>1, <1>2 DEF Inputs, NextStep
  <2>2. t \in Session /\ t.step = "ssh" /\ t.pre = None
    BY <1>0, <1>1, <1>2, <2>1 DEF Session, Steps, Prepared
  <2> QED
    BY <2>2 DEF Ready, Prepared, AfterPreflight, AfterDomain
<1>3. CASE s.step = "ssh"
  <2>1. PICK h \in Hosts : i = [s EXCEPT !.host = h]
    BY <1>1, <1>3 DEF Inputs
  <2>2. i \in Session /\ i.step = "ssh" /\ i.pre = None /\ i.host = h
    BY <1>0, <1>3, <2>1 DEF Session, Prepared
  <2>3. NextStep(i) = "preflight"
    BY <2>2 DEF NextStep
  <2>4. t \in Session /\ t.step = "preflight" /\ t.pre = None /\ t.host = h
    BY <1>1, <2>2, <2>3 DEF Session, Steps
  <2> QED
    BY <2>4, WizardAssumption DEF Ready, Prepared, AfterPreflight, AfterDomain
<1>4. CASE s.step = "domain_mode"
  <2>1. PICK m \in {"byo", "nipio"} : i = [s EXCEPT !.mode = m]
    BY <1>1, <1>4 DEF Inputs
  <2>2. /\ i \in Session /\ i.step = "domain_mode" /\ i.mode = m
        /\ i.pre = s.pre /\ i.host = s.host
    BY <1>0, <1>4, <2>1 DEF Session
  <2>3. NextStep(i) = IF m = "nipio" THEN "create_peer" ELSE "domain_check"
    BY <2>2 DEF NextStep
  <2>4. /\ t \in Session /\ t.mode = m /\ t.pre = s.pre /\ t.host = s.host
        /\ t.step = IF m = "nipio" THEN "create_peer" ELSE "domain_check"
    BY <1>1, <2>2, <2>3 DEF Session, Steps
  <2>5. s.pre # None /\ s.pre.compatible /\ s.pre.target = s.host /\ s.host # None
    BY <1>0, <1>4 DEF Prepared, AfterPreflight
  <2> QED
    BY <2>1, <2>4, <2>5 DEF Ready, Prepared, AfterPreflight, AfterDomain
<1>5. CASE s.step = "domain_check"
  <2>1. PICK c \in BOOLEAN : i = [s EXCEPT !.dom = Validate(s, c)]
    BY <1>1, <1>5 DEF Inputs
  <2>2. Validate(s, c) \in DomainCheckResult /\ Validate(s, c) # None
    BY <1>0, ValidateType, NilAssumption
  <2>3. /\ i \in Session /\ i.step = "domain_check" /\ i.mode = s.mode
        /\ i.pre = s.pre /\ i.host = s.host /\ i.dom = Validate(s, c)
    BY <1>0, <1>5, <2>1, <2>2 DEF Session
  <2>4. NextStep(i) \in {"cloudflare", "create_peer"}
    BY <2>3 DEF NextStep
  <2>5. Certified(i)
    BY <1>1, <2>3, <2>4 DEF Guard, Certified
  <2>6. /\ t \in Session /\ t.mode = s.mode /\ t.pre = s.pre /\ t.host = s.host
        /\ t.dom = i.dom /\ t.step \in {"cloudflare", "create_peer"}
    BY <1>1, <2>3, <2>4 DEF Session, Steps
  <2>7. /\ s.pre # None /\ s.pre.compatible /\ s.pre.target = s.host /\ s.host # None
        /\ s.mode = "byo"
    BY <1>0, <1>5 DEF Prepared, AfterPreflight
  <2> QED
    BY <2>5, <2>6, <2>7 DEF Ready, Prepared, Certified, AfterPreflight, AfterDomain
<1>6. CASE s.step = "cloudflare"
  <2>1. PICK k \in BOOLEAN : i = [s EXCEPT !.token = k]
    BY <1>1, <1>6 DEF Inputs
  <2>2. /\ i \in Session /\ i.step = "cloudflare" /\ i.mode = s.mode
        /\ i.pre = s.pre /\ i.host = s.host /\ i.dom = s.dom
    BY <1>0, <1>6, <2>1 DEF Session
  <2>3. NextStep(i) = "create_peer"
    BY <2>2 DEF NextStep
  <2>4. /\ t \in Session /\ t.mode = s.mode /\ t.pre = s.pre /\ t.host = s.host
        /\ t.dom = s.dom /\ t.step = "create_peer"
    BY <1>1, <2>2, <2>3 DEF Session, Steps
  <2>5. /\ s.pre # None /\ s.pre.compatible /\ s.pre.target = s.host /\ s.host # None
        /\ s.mode = "byo" /\ Certified(s)
    BY <1>0, <1>6 DEF Prepared, AfterPreflight
  <2> QED
    BY <2>4, <2>5 DEF Ready, Prepared, Certified, AfterPreflight, AfterDomain
<1>7. CASE s.step = "create_peer"
  <2>1. PICK e \in BOOLEAN : i = [s EXCEPT !.peer = TRUE, !.expose = e]
    BY <1>1, <1>7 DEF Inputs
  <2>2. /\ i \in Session /\ i.step = "create_peer" /\ i.mode = s.mode
        /\ i.pre = s.pre /\ i.host = s.host /\ i.dom = s.dom /\ i.peer
    BY <1>0, <1>7, <2>1 DEF Session
  <2>3. NextStep(i) = "commit"
    BY <2>2 DEF NextStep
  <2>4. /\ t \in Session /\ t.mode = s.mode /\ t.pre = s.pre /\ t.host = s.host
        /\ t.dom = s.dom /\ t.step = "commit" /\ t.peer
    BY <1>1, <2>2, <2>3 DEF Session, Steps
  <2>5. /\ s.pre # None /\ s.pre.compatible /\ s.pre.target = s.host /\ s.host # None
        /\ s.mode = "nipio" \/ (s.mode = "byo" /\ Certified(s))
    BY <1>0, <1>7 DEF Prepared, AfterPreflight, AfterDomain
  <2> QED
    BY <2>4, <2>5 DEF Ready, Prepared, Certified, AfterPreflight, AfterDomain
<1> QED
  <2>1. s.step \in {"welcome", "ssh", "domain_mode", "domain_check", "cloudflare", "create_peer"}
    BY <1>1 DEF Inputs
  <2> QED
    BY <1>2, <1>3, <1>4, <1>5, <1>6, <1>7, <2>1

\* preflight.Run gives a verdict on everything it may find.
LEMMA PreflightOfType ==
  ASSUME NEW f \in Findings
  PROVE  PreflightOf(f).compatible \in BOOLEAN /\ PreflightOf(f).port80 \in BOOLEAN
  BY DEF PreflightOf, PortFree

\* handlePreflightResult: only a compatible host goes on to the domain.
LEMMA WithPreflightReady ==
  ASSUME NEW s, Ready(s), s.step = "preflight", NEW f \in Findings
  PROVE  Ready(WithPreflight(s, s.host, PreflightOf(f)))
<1> DEFINE r == PreflightOf(f)
           p == [target |-> s.host, compatible |-> r.compatible, port80 |-> r.port80]
           t == WithPreflight(s, s.host, r)
<1>1. s \in Session /\ s.host # None /\ s.host \in Hosts
  BY DEF Ready, Prepared, Session
<1>2. p \in PreflightResult /\ p # None /\ p.target = s.host /\ p.compatible = r.compatible
      /\ r.compatible \in BOOLEAN
  BY <1>1, PreflightOfType, NilAssumption DEF PreflightResult
<1> HIDE DEF p, r
<1>3. t = [s EXCEPT !.pre = p, !.step = IF r.compatible THEN "domain_mode" ELSE s.step]
  BY <1>1 DEF WithPreflight, Session, p, r
<1> HIDE DEF t
<1>4. /\ t \in Session /\ t.host = s.host /\ t.pre = p
      /\ t.step = IF r.compatible THEN "domain_mode" ELSE "preflight"
  BY <1>1, <1>2, <1>3 DEF Session, Steps
<1>5. Ready(t)
  BY <1>1, <1>2, <1>4 DEF Ready, Prepared, AfterPreflight, AfterDomain
<1> QED
  BY <1>5 DEF t, r

\* handleCommitSuccess and handleCommitFailure change the step only.
LEMMA EndsReady ==
  ASSUME NEW s, Ready(s), AtCommit(s)
  PROVE  Ready(Succeeded(s)) /\ Ready(Failed(s))
<1>1. s \in Session /\ Prepared(s) /\ s.step = "commit"
  BY DEF Ready, AtCommit
<1>2. ASSUME NEW t, t = Succeeded(s) \/ t = Failed(s) PROVE Ready(t)
  <2>1. /\ t \in Session /\ t.mode = s.mode /\ t.pre = s.pre /\ t.host = s.host
        /\ t.dom = s.dom /\ t.step \in {"success", "error"} /\ t.peer = s.peer
    BY <1>1, <1>2 DEF Session, Steps, Succeeded, Failed
  <2>2. /\ s.pre # None /\ s.pre.compatible /\ s.pre.target = s.host /\ s.host # None
        /\ s.mode = "nipio" \/ (s.mode = "byo" /\ Certified(s))
    BY <1>1 DEF Prepared, AfterPreflight, AfterDomain
  <2>3. s.peer
    BY <1>1 DEF Prepared
  <2> QED
    BY <2>1, <2>2, <2>3 DEF Ready, Prepared, Certified, AfterPreflight, AfterDomain
<1> QED
  BY <1>2

--------------------------------------------------------------------------------
(* The actions *)

LEMMA Bounds == MaxSessions \in Nat /\ MaxFaults \in Nat
  BY WizardAssumption

EnvType == due \subseteq Nat /\ sessions \in 0..MaxSessions /\ faults \in 0..MaxFaults
FileInv == file \in Session \cup {None, Torn} /\ (file \in Session => Prepared(file))
WorkInv ==
  /\ op \in [Workers -> {"idle", "save", "commit", "delete"}]
  /\ draft \in [Workers -> Session \cup {None}]
  /\ \A w \in Workers : op[w] \in {"save", "commit"} => Ready(draft[w])
BootInv ==
  /\ bpc \in [Boots -> {"idle"} \cup BootSteps]
  /\ job \in [Boots -> Session \cup {None}]
  /\ out \in [Boots -> Session \cup {None}]
  /\ \A b \in Boots : bpc[b] \in {"save", "failsave"} => Ready(out[b])

LEMMA Parts == WInv <=> EnvType /\ FileInv /\ WorkInv /\ BootInv
  BY DEF WInv, TypeOK, EnvType, FileInv, WorkInv, BootInv

LEMMA PartsNext == WInv' <=> EnvType' /\ FileInv' /\ WorkInv' /\ BootInv'
  BY DEF WInv, TypeOK, EnvType, FileInv, WorkInv, BootInv

\* What an action does not touch stays as it is.
LEMMA Kept ==
  ASSUME WInv
  PROVE  /\ UNCHANGED env => EnvType'
         /\ UNCHANGED file => FileInv'
         /\ UNCHANGED work => WorkInv'
         /\ UNCHANGED boot => BootInv'
<1> USE Parts
<1>1. UNCHANGED env => EnvType'
  BY DEF EnvType, env
<1>2. UNCHANGED file => FileInv'
  BY DEF FileInv
<1>3. UNCHANGED work => WorkInv'
  BY DEF WorkInv, work
<1>4. UNCHANGED boot => BootInv'
  BY DEF BootInv, boot
<1> QED
  BY <1>1, <1>2, <1>3, <1>4

LEMMA FaultKept ==
  ASSUME WInv, NoFault \/ Fault \/ (\E S : LostEnd(S)), UNCHANGED sessions
  PROVE  EnvType'
<1>1. CASE NoFault
  BY <1>1, Parts DEF EnvType, NoFault
<1>2. CASE Fault
  BY <1>2, Parts, Bounds DEF EnvType, Fault
<1>3. CASE \E S : LostEnd(S)
  <2>1. due' \subseteq Nat
    BY <1>3, Parts DEF LostEnd, EnvType
  <2>2. faults' \in 0..MaxFaults
    BY <1>3, Parts, Bounds DEF EnvType, LostEnd
  <2> QED
    BY <2>1, <2>2, Parts DEF EnvType
<1> QED
  BY <1>1, <1>2, <1>3

\* A session that was prepared may replace the file.
LEMMA FileReady ==
  ASSUME NEW s, Ready(s), file' = s
  PROVE  FileInv'
  BY DEF FileInv, Ready

\* A handler has decided what to do.
LEMMA PlanReady ==
  ASSUME WInv, NEW w \in Workers, NEW what \in {"save", "commit", "delete"}, NEW s,
         Ready(s), Plan(w, what, s), sessions' \in 0..MaxSessions
  PROVE  WInv'
<1>1. WorkInv'
  BY Parts DEF WorkInv, Plan, Ready
<1>2. FileInv' /\ BootInv'
  BY Kept DEF Plan
<1>3. EnvType'
  BY Parts DEF EnvType, Plan
<1> QED
  BY <1>1, <1>2, <1>3, PartsNext

LEMMA AnswerKeeps ==
  ASSUME WInv, NEW w \in Workers, Answer(w)
  PROVE  WorkInv'
  BY Parts DEF WorkInv, Answer

\* The handlers, up to the save.
LEMMA HandlerStep ==
  ASSUME WInv, NEW w \in Workers,
         \/ CreateSession(w) \/ StepSubmit(w) \/ Preflight(w)
         \/ CommitStart(w) \/ DeleteSession(w)
  PROVE  WInv'
<1>0. /\ file \in Session => Ready(file)
      /\ sessions \in 0..MaxSessions
  BY Parts DEF FileInv, Ready, EnvType
<1>1. CASE CreateSession(w)
  <2>1. Ready(NewState(sessions + 1)) /\ sessions' \in 0..MaxSessions
    BY <1>0, <1>1, NewStateReady, Bounds DEF CreateSession
  <2> QED
    BY <1>1, <2>1, PlanReady DEF CreateSession
<1>2. CASE StepSubmit(w)
  <2>1. PICK s \in StepComplete(file) : Plan(w, "save", s)
    BY <1>2 DEF StepSubmit
  <2>2. Ready(s)
    BY <1>0, <1>2, StepCompleteReady DEF StepSubmit
  <2> QED
    BY <1>0, <1>2, <2>1, <2>2, PlanReady DEF StepSubmit
<1>3. CASE Preflight(w)
  <2>1. PICK f \in Vps[file.host] : Plan(w, "save", WithPreflight(file, file.host, PreflightOf(f)))
    BY <1>3 DEF Preflight
  <2>2. f \in Findings
    <3>1. file.host \in Hosts
      BY <1>3, SessionFields DEF Preflight
    <3> QED
      BY <3>1, WizardAssumption
  <2>3. Ready(WithPreflight(file, file.host, PreflightOf(f)))
    BY <1>0, <1>3, <2>2, WithPreflightReady DEF Preflight
  <2> QED
    BY <1>0, <1>3, <2>1, <2>3, PlanReady DEF Preflight
<1>4. CASE CommitStart(w)
  BY <1>0, <1>4, PlanReady DEF CommitStart, AtCommit
<1>5. CASE DeleteSession(w)
  BY <1>0, <1>5, PlanReady DEF DeleteSession
<1> QED
  BY <1>1, <1>2, <1>3, <1>4, <1>5

\* The handlers' saves.
LEMMA SaveStep ==
  ASSUME WInv, NEW w \in Workers, WorkerStep(w)
  PROVE  WInv'
<1>0. WorkInv'
  BY AnswerKeeps DEF WorkerStep, Save, SaveCommit, Delete
<1>2. op[w] \in {"save", "commit"} => Ready(draft[w])
  BY Parts DEF WorkInv
<1>1. EnvType'
  <2>1. CASE NoFault \/ Fault
    BY <2>1, FaultKept DEF WorkerStep, Save, SaveCommit, Delete
  <2>2. CASE /\ op[w] \in {"save", "commit"} /\ UNCHANGED <<sessions, faults>>
             /\ due' \in {due \ {draft[w].id}, due \cup {draft[w].id}}
    <3>1. draft[w].id \in Nat
      BY <1>2, <2>2, SessionFields DEF Ready
    <3> QED
      BY <2>2, <3>1, Parts DEF EnvType
  <2> QED
    BY <2>1, <2>2 DEF WorkerStep, Save, SaveCommit, Delete
<1>3. CASE Save(w)
  <2>1. FileInv' /\ BootInv'
    BY <1>2, <1>3, FileReady, Kept DEF Save
  <2> QED
    BY <1>0, <1>1, <2>1, PartsNext
<1>4. CASE SaveCommit(w)
  <2>1. FileInv'
    BY <1>2, <1>4, FileReady, Kept DEF SaveCommit
  <2>2. BootInv'
    <3>1. CASE UNCHANGED boot
      BY <3>1, Kept
    <3>2. CASE \E b \in Boots : /\ bpc[b] = "idle"
                                /\ bpc' = [bpc EXCEPT ![b] = "run"]
                                /\ job' = [job EXCEPT ![b] = draft[w]]
                                /\ UNCHANGED out
      <4>1. draft[w] \in Session
        BY <1>2, <1>4 DEF SaveCommit, Ready
      <4> QED
        BY <3>2, <4>1, Parts DEF BootInv, BootSteps
    <3> QED
      BY <1>4, <3>1, <3>2 DEF SaveCommit
  <2> QED
    BY <1>0, <1>1, <2>1, <2>2, PartsNext
<1>5. CASE Delete(w)
  <2>1. FileInv'
    BY <1>5, Kept, NilAssumption DEF Delete, FileInv
  <2>2. BootInv'
    BY <1>5, Kept DEF Delete
  <2> QED
    BY <1>0, <1>1, <2>1, <2>2, PartsNext
<1> QED
  BY <1>3, <1>4, <1>5 DEF WorkerStep

\* A bootstrap moves on without a session in its hands.
LEMMA BootMoves ==
  ASSUME WInv, NEW b \in Boots, NEW from,
         NEW to \in {"run", "peer", "route", "load", "fail"}, Boot(b, from, to),
         UNCHANGED <<job, out>>
  PROVE  BootInv'
  BY Parts DEF BootInv, BootSteps, Boot

LEMMA EndBootKeeps ==
  ASSUME WInv, NEW b \in Boots, EndBoot(b)
  PROVE  BootInv'
  BY Parts DEF BootInv, EndBoot

\* A bootstrap has loaded the session and reduced it.
LEMMA BootHolds ==
  ASSUME WInv, NEW b \in Boots, NEW from, NEW to \in {"save", "failsave"}, Boot(b, from, to),
         NEW s, Ready(s), out' = [out EXCEPT ![b] = s], UNCHANGED job
  PROVE  BootInv'
  BY Parts DEF BootInv, BootSteps, Boot, Ready

LEMMA DieKeeps ==
  ASSUME Die
  PROVE  WorkInv' /\ BootInv'
<1>1. WorkInv'
  BY DEF Die, WorkInv
<1>2. BootInv'
  BY DEF Die, BootInv
<1> QED
  BY <1>1, <1>2

\* The steps of runBootstrap, which loads and replaces whatever session is
\* stored by then.
LEMMA BootStepKeeps ==
  ASSUME WInv, NEW b \in Boots, BootStep(b)
  PROVE  WInv'
<1>0. /\ file \in Session => Ready(file)
      /\ bpc[b] \in {"save", "failsave"} => Ready(out[b])
  BY Parts DEF FileInv, Ready, BootInv
<1>1. CASE BootRun(b) \/ BootPeer(b) \/ BootRoute(b)
  <2>1. BootInv'
    <3>1. CASE BootRun(b)
      BY <3>1, BootMoves DEF BootRun
    <3>2. CASE BootPeer(b)
      BY <3>2, BootMoves DEF BootPeer
    <3>3. CASE BootRoute(b)
      BY <3>3, BootMoves DEF BootRoute
    <3> QED
      BY <1>1, <3>1, <3>2, <3>3
  <2>2. EnvType'
    BY <1>1, FaultKept DEF BootRun, BootPeer, BootRoute
  <2>3. FileInv' /\ WorkInv'
    BY <1>1, Kept DEF BootRun, BootPeer, BootRoute
  <2> QED
    BY <2>1, <2>2, <2>3, PartsNext
<1>2. CASE BootLoad(b) \/ BootFail(b)
  <2>1. EnvType' /\ FileInv' /\ WorkInv'
    BY <1>2, Kept DEF BootLoad, BootFail
  <2>2. CASE EndBoot(b)
    BY <2>1, <2>2, EndBootKeeps, PartsNext
  <2>3. CASE Boot(b, "load", "fail") /\ UNCHANGED <<job, out>>
    BY <2>1, <2>3, BootMoves, PartsNext
  <2>4. CASE AtCommit(file) /\ Boot(b, "load", "save")
             /\ out' = [out EXCEPT ![b] = Succeeded(file)] /\ UNCHANGED job
    <3>1. Ready(Succeeded(file))
      BY <1>0, <2>4, EndsReady DEF AtCommit
    <3> QED
      BY <2>1, <2>4, <3>1, BootHolds, PartsNext
  <2>5. CASE AtCommit(file) /\ Boot(b, "fail", "failsave")
             /\ out' = [out EXCEPT ![b] = Failed(file)] /\ UNCHANGED job
    <3>1. Ready(Failed(file))
      BY <1>0, <2>5, EndsReady DEF AtCommit
    <3> QED
      BY <2>1, <2>5, <3>1, BootHolds, PartsNext
  <2> QED
    BY <1>2, <2>2, <2>3, <2>4, <2>5 DEF BootLoad, BootFail
<1>3. CASE BootSave(b)
  <2>1. EnvType'
    BY <1>3, FaultKept DEF BootSave
  <2>2. FileInv'
    BY <1>0, <1>3, FileReady, Kept DEF BootSave
  <2>3. CASE EndBoot(b) /\ UNCHANGED work
    BY <2>1, <2>2, <2>3, EndBootKeeps, Kept, PartsNext
  <2>4. CASE Die
    BY <2>1, <2>2, <2>4, DieKeeps, PartsNext
  <2> QED
    BY <1>3, <2>3, <2>4 DEF BootSave
<1>4. CASE BootFailSave(b)
  <2>1. EnvType'
    BY <1>4, FaultKept DEF BootFailSave
  <2>2. FileInv'
    BY <1>0, <1>4, FileReady, Kept DEF BootFailSave
  <2> QED
    BY <1>4, <2>1, <2>2, EndBootKeeps, Kept, PartsNext DEF BootFailSave
<1> QED
  BY <1>1, <1>2, <1>3, <1>4 DEF BootStep

LEMMA WInvInit == Init => WInv
<1> SUFFICES ASSUME Init PROVE WInv
  OBVIOUS
<1>1. EnvType
  BY Bounds DEF Init, EnvType
<1>2. FileInv
  BY NilAssumption DEF Init, FileInv
<1>3. WorkInv
  BY DEF Init, WorkInv
<1>4. BootInv
  BY DEF Init, BootInv
<1> QED
  BY <1>1, <1>2, <1>3, <1>4, Parts

LEMMA WInvStep == WInv /\ [Next]_vars => WInv'
<1> SUFFICES ASSUME WInv, [Next]_vars PROVE WInv'
  OBVIOUS
<1>1. CASE Crash
  <2>1. WorkInv' /\ BootInv'
    BY <1>1, DieKeeps DEF Crash
  <2>2. FileInv'
    <3>1. CASE file' = file
      BY <3>1, Kept
    <3>2. CASE file' = Torn
      BY <3>2, NilAssumption DEF FileInv
    <3> QED
      BY <1>1, <3>1, <3>2 DEF Crash
  <2>3. EnvType'
    BY <1>1, FaultKept DEF Crash
  <2> QED
    BY <2>1, <2>2, <2>3, PartsNext
<1>2. CASE UNCHANGED vars
  BY <1>2, Kept, PartsNext DEF vars
<1> QED
  BY <1>1, <1>2, HandlerStep, SaveStep, BootStepKeeps DEF Next

LEMMA WInvariance == Spec => []WInv
  BY WInvInit, WInvStep, PTL DEF Spec

--------------------------------------------------------------------------------
(* A commit that was accepted *)

\* The ends that the reducer makes.
LEMMA EndSteps ==
  ASSUME NEW s \in Session
  PROVE  Succeeded(s).step = "success" /\ Failed(s).step = "error"
  BY DEF Succeeded, Failed, Session

\* What a bootstrap will store is an end, and what is accepted is at commit.
LEMMA EndsStep == DInv /\ [Next]_vars => Ends'
<1> SUFFICES ASSUME DInv, [Next]_vars PROVE Ends'
  OBVIOUS
<1>1. /\ op \in [Workers -> {"idle", "save", "commit", "delete"}]
      /\ draft \in [Workers -> Session \cup {None}]
      /\ bpc \in [Boots -> {"idle"} \cup BootSteps]
      /\ out \in [Boots -> Session \cup {None}]
      /\ Ends
  BY DEF DInv, WInv, TypeOK
<1>2. ASSUME UNCHANGED <<bpc, out>>,
             \A w \in Workers : op'[w] = "commit" => AtCommit(draft'[w])
      PROVE  Ends'
  BY <1>1, <1>2 DEF Ends, AtCommit
<1>3. ASSUME UNCHANGED <<op, draft>>,
             \A b \in Boots : bpc'[b] \in {"save", "failsave"} =>
                                out'[b].step \in {"success", "error"}
      PROVE  Ends'
  BY <1>1, <1>3 DEF Ends, AtCommit
<1>4. ASSUME NEW w \in Workers,
             \/ CreateSession(w) \/ StepSubmit(w) \/ Preflight(w)
             \/ CommitStart(w) \/ DeleteSession(w)
      PROVE  Ends'
  <2>1. UNCHANGED <<bpc, out>>
    BY <1>4 DEF CreateSession, StepSubmit, Preflight, CommitStart, DeleteSession, Plan, boot
  <2>2. PICK what \in {"save", "commit", "delete"} : \E s : Plan(w, what, s)
    BY <1>4 DEF CreateSession, StepSubmit, Preflight, CommitStart, DeleteSession
  <2>3. \A v \in Workers \ {w} : op'[v] = op[v] /\ draft'[v] = draft[v]
    BY <1>1, <2>2 DEF Plan
  <2>4. op'[w] = "commit" => AtCommit(draft'[w])
    <3>1. CASE CommitStart(w)
      BY <1>1, <3>1 DEF CommitStart, Plan
    <3>2. CASE CreateSession(w) \/ StepSubmit(w) \/ Preflight(w) \/ DeleteSession(w)
      BY <1>1, <3>2 DEF CreateSession, StepSubmit, Preflight, DeleteSession, Plan
    <3> QED
      BY <1>4, <3>1, <3>2
  <2> QED
    BY <1>1, <1>2, <2>1, <2>3, <2>4 DEF Ends
<1>5. ASSUME NEW w \in Workers, WorkerStep(w)
      PROVE  Ends'
  <2>1. Answer(w)
    BY <1>5 DEF WorkerStep, Save, SaveCommit, Delete
  <2>2. \A v \in Workers : op'[v] = "commit" => op[v] = "commit" /\ draft'[v] = draft[v]
    BY <1>1, <2>1 DEF Answer
  <2>3. \A b \in Boots : bpc'[b] \in {"save", "failsave"} => bpc[b] = bpc'[b] /\ out'[b] = out[b]
    <3>1. CASE UNCHANGED boot
      BY <1>1, <3>1 DEF boot
    <3>2. CASE \E b \in Boots : bpc' = [bpc EXCEPT ![b] = "run"] /\ UNCHANGED out
      BY <1>1, <3>2
    <3> QED
      BY <1>5, <3>1, <3>2 DEF WorkerStep, Save, SaveCommit, Delete
  <2> QED
    BY <1>1, <2>2, <2>3 DEF Ends
<1>6. CASE Die
  BY <1>6 DEF Die, Ends
<1>7. ASSUME NEW b \in Boots, BootStep(b)
      PROVE  Ends'
  <2>1. CASE UNCHANGED work /\ EndBoot(b)
    BY <1>1, <1>3, <2>1 DEF EndBoot, Ends, work
  <2>2. CASE /\ UNCHANGED work /\ UNCHANGED out
             /\ \E from : \E to \in {"peer", "route", "load", "fail"} : Boot(b, from, to)
    BY <1>1, <1>3, <2>2 DEF Boot, Ends, work
  <2>3. CASE /\ UNCHANGED work /\ AtCommit(file)
             /\ \E from, to : Boot(b, from, to)
             /\ \E s \in {Succeeded(file), Failed(file)} : out' = [out EXCEPT ![b] = s]
    <3>1. \A s \in {Succeeded(file), Failed(file)} : s.step \in {"success", "error"}
      BY <2>3, EndSteps DEF AtCommit
    <3> QED
      BY <1>1, <1>3, <2>3, <3>1 DEF Boot, Ends, work
  <2>4. BootRun(b) \/ BootPeer(b) \/ BootRoute(b)
          => /\ UNCHANGED work /\ UNCHANGED out
             /\ \E from : \E to \in {"peer", "route", "load", "fail"} : Boot(b, from, to)
    BY DEF BootRun, BootPeer, BootRoute
  <2> QED
    BY <1>6, <1>7, <2>1, <2>2, <2>3, <2>4
    DEF BootStep, BootLoad, BootFail, BootSave, BootFailSave
<1>8. CASE UNCHANGED vars
  BY <1>1, <1>2, <1>8 DEF vars, work, boot, Ends
<1> QED
  BY <1>4, <1>5, <1>6, <1>7, <1>8 DEF Next, Crash

\* A step that stores nothing, accepts nothing and ends no bootstrap.
LEMMA CarriedOn ==
  ASSUME DInv, UNCHANGED file, due' \subseteq due,
         \A b \in Boots : bpc[b] # "idle" => bpc'[b] # "idle" /\ job'[b] = job[b]
  PROVE  CommitCarried'
  BY DEF DInv, CommitCarried, AtCommit

\* Every step keeps the end of an accepted commit, or a bootstrap for it.
LEMMA CarriedStep == DInv /\ [Next]_vars => CommitCarried'
<1> SUFFICES ASSUME DInv, [Next]_vars PROVE CommitCarried'
  OBVIOUS
<1>1. /\ bpc \in [Boots -> {"idle"} \cup BootSteps]
      /\ job \in [Boots -> Session \cup {None}]
      /\ out \in [Boots -> Session \cup {None}]
      /\ Ends /\ CommitCarried
  BY DEF DInv, WInv, TypeOK
<1>2. CASE \/ \E w \in Workers : \/ CreateSession(w) \/ StepSubmit(w) \/ Preflight(w)
                                 \/ CommitStart(w) \/ DeleteSession(w)
           \/ UNCHANGED vars
  <2>1. UNCHANGED <<file, due, bpc, job>>
    BY <1>2 DEF CreateSession, StepSubmit, Preflight, CommitStart, DeleteSession, Plan,
                boot, env, vars
  <2> QED
    BY <2>1, CarriedOn
<1>3. ASSUME NEW w \in Workers, Save(w)
      PROVE  CommitCarried'
  <2>1. UNCHANGED <<bpc, job>>
    BY <1>3 DEF Save, boot
  <2>2. CASE UNCHANGED file /\ Fault
    BY <2>1, <2>2, CarriedOn DEF Fault
  <2>3. CASE file' = draft[w] /\ due' = due \ {draft[w].id}
    BY <2>3 DEF CommitCarried
  <2> QED
    BY <1>3, <2>2, <2>3 DEF Save
<1>4. ASSUME NEW w \in Workers, SaveCommit(w)
      PROVE  CommitCarried'
  <2>1. CASE UNCHANGED <<file, boot>> /\ Fault
    BY <2>1, CarriedOn DEF Fault, boot
  <2>2. CASE /\ file' = draft[w]
             /\ \E b \in Boots : /\ bpc[b] = "idle"
                                 /\ bpc' = [bpc EXCEPT ![b] = "run"]
                                 /\ job' = [job EXCEPT ![b] = draft[w]]
    <3>1. AtCommit(draft[w])
      BY <1>1, <1>4 DEF Ends, SaveCommit
    <3>2. PICK b \in Boots : bpc'[b] = "run" /\ job'[b] = draft[w]
      BY <1>1, <2>2
    <3> QED
      BY <2>2, <3>1, <3>2 DEF CommitCarried, AtCommit
  <2> QED
    BY <1>4, <2>1, <2>2 DEF SaveCommit
<1>5. ASSUME NEW w \in Workers, Delete(w)
      PROVE  CommitCarried'
  <2>1. UNCHANGED <<bpc, job, due>>
    BY <1>5 DEF Delete, boot, NoFault, Fault
  <2>2. CASE UNCHANGED file
    BY <2>1, <2>2, CarriedOn
  <2>3. CASE file' = None
    BY <2>3, NilAssumption DEF CommitCarried
  <2> QED
    BY <1>5, <2>2, <2>3 DEF Delete
<1>6. ASSUME NEW b \in Boots, BootRun(b) \/ BootPeer(b) \/ BootRoute(b)
      PROVE  CommitCarried'
  <2>1. UNCHANGED <<file, due, job>>
    BY <1>6 DEF BootRun, BootPeer, BootRoute, NoFault, Fault
  <2>2. \A k \in Boots : bpc[k] # "idle" => bpc'[k] # "idle"
    BY <1>1, <1>6 DEF BootRun, BootPeer, BootRoute, Boot
  <2> QED
    BY <2>1, <2>2, CarriedOn
<1>7. ASSUME NEW b \in Boots, BootLoad(b) \/ BootFail(b)
      PROVE  CommitCarried'
  <2>1. UNCHANGED <<file, due>>
    BY <1>7 DEF BootLoad, BootFail, env
  <2>2. CASE ~AtCommit(file)
    BY <1>1, <2>1, <2>2 DEF CommitCarried, AtCommit
  <2>3. CASE AtCommit(file)
    <3>1. job' = job /\ \A k \in Boots : bpc[k] # "idle" => bpc'[k] # "idle"
      <4>1. AtCommit(file) => file # Torn
        BY NilAssumption DEF AtCommit
      <4> QED
        BY <1>1, <1>7, <2>3, <4>1 DEF BootLoad, BootFail, Boot
    <3> QED
      BY <2>1, <3>1, CarriedOn
  <2> QED
    BY <2>2, <2>3
<1>8. ASSUME NEW b \in Boots, BootSave(b) \/ BootFailSave(b)
      PROVE  CommitCarried'
  <2>1. CASE file' = out[b]
    <3>1. out[b].step \in {"success", "error"}
      BY <1>1, <1>8 DEF Ends, BootSave, BootFailSave
    <3> QED
      BY <2>1, <3>1 DEF CommitCarried
  <2>2. CASE UNCHANGED file /\ LostEnd({job[b].id, out[b].id}) /\ EndBoot(b)
    <3>1. \A k \in Boots \ {b} : bpc'[k] = bpc[k] /\ job'[k] = job[k]
      BY <1>1, <2>2 DEF EndBoot
    <3>2. due' \subseteq due /\ job[b].id \notin due'
      BY <2>2 DEF LostEnd
    <3> QED
      BY <1>1, <2>2, <3>1, <3>2 DEF CommitCarried, AtCommit
  <2> QED
    BY <1>8, <2>1, <2>2 DEF BootSave, BootFailSave
<1>9. CASE Crash
  <2>1. due' = {}
    BY <1>9 DEF Crash, LostEnd
  <2> QED
    BY <2>1 DEF CommitCarried
<1> QED
  BY <1>2, <1>3, <1>4, <1>5, <1>6, <1>7, <1>8, <1>9 DEF Next, WorkerStep, BootStep

LEMMA DInvariance == Spec => []DInv
<1>1. Init => DInv
  <2>1. Init => Ends /\ CommitCarried
    BY DEF Init, Ends, CommitCarried
  <2> QED
    BY <2>1, WInvInit DEF DInv
<1>2. DInv /\ [Next]_vars => DInv'
  <2>1. DInv => WInv
    BY DEF DInv
  <2> QED
    BY <2>1, WInvStep, EndsStep, CarriedStep DEF DInv
<1> QED
  BY <1>1, <1>2, PTL DEF Spec

--------------------------------------------------------------------------------
(* The theorems *)

\* The state file holds a session, nothing or what a power loss left of it;
\* handlers and bootstraps hold sessions of the same type.
THEOREM TypeCorrect == Spec => []TypeOK
<1>1. WInv => TypeOK
  BY DEF WInv
<1> QED
  BY <1>1, WInvariance, PTL

\* LoadState, the reducer and SaveState are not one step, and runBootstrap
\* replaces whatever session it finds: still no stored session is at commit or
\* beyond without having been taken through every step before, on the host
\* that the checks found compatible.
THEOREM StoredCommitIsPrepared == Spec => []CommitIsPrepared
<1>1. WInv => CommitIsPrepared
  BY DEF WInv, Prepared, Certified, CommitIsPrepared, AfterPreflight, AfterDomain
<1> QED
  BY <1>1, WInvariance, PTL

\* A handler that saves, and a bootstrap that ends, hold a session prepared as
\* far as its step says: this is what makes the theorem above inductive.
THEOREM DraftsArePrepared ==
  Spec => [](/\ \A w \in Workers : op[w] \in {"save", "commit"} => Ready(draft[w])
             /\ \A b \in Boots : bpc[b] \in {"save", "failsave"} => Ready(out[b]))
<1>1. WInv => /\ \A w \in Workers : op[w] \in {"save", "commit"} => Ready(draft[w])
              /\ \A b \in Boots : bpc[b] \in {"save", "failsave"} => Ready(out[b])
  BY DEF WInv
<1> QED
  BY <1>1, WInvariance, PTL

\* handleCommit's 202 is kept: whichever sessions are deleted, created and
\* committed meanwhile, and however many bootstraps load and replace the one
\* file, the session whose commit was accepted shows its end or has a
\* bootstrap at work for it, but for stale saves, failed saves and crashes.
THEOREM AcceptedCommitIsCarried == Spec => []CommitCarried
<1>1. DInv => CommitCarried
  BY DEF DInv
<1> QED
  BY <1>1, DInvariance, PTL
================================================================================
