---------------------------- MODULE VpsHealthProofs ----------------------------
(***************************************************************************)
(* What VpsHealth guarantees for any number of chains, users, contexts,    *)
(* attempts and faults: the pool's sessions are bounded and returned, none *)
(* is lost but to something that fails outside, and the prober's mutex is  *)
(* held by the one prober whose attempt has not come back.                 *)
(***************************************************************************)
EXTENDS VpsHealth, FiniteSetTheorems, TLAPS

\* Only a context that Start has made has a goroutine.
MadeInv == \A g \in Contexts : prober[g] # "none" => g <= made

\* Prober.mu is held over OnReconnect: by a prober that is reconnecting, for
\* the single attempt that it has called and that has not returned.
MutexHeld ==
  /\ \A g \in Contexts : prober[g] = "reconnect" <=> lock = g
  /\ \A c \in Chains : chain[c].sync =>
       /\ lock # 0 /\ chain[c].ctx = lock
       /\ chain[c].pc \in {"begin", "session", "docker", "verify"}
  /\ \A c, d \in Chains : chain[c].sync /\ chain[d].sync => c = d
  /\ lock # 0 => \E c \in Chains : chain[c].sync

FiniteSlots == IsFiniteSet(Slots)

\* Every session that works is one of the connection that the pool has.
Connected == client # "ok" => \A h \in Holders : sess[h] # "ok"

HInv == TypeOK /\ FiniteSlots /\ MadeInv /\ MutexHeld /\ SlotsReturned /\ Connected

--------------------------------------------------------------------------------
(* The slots of the pool *)

LEMMA Bounds ==
  /\ Threshold \in Nat /\ Threshold >= 1 /\ MaxSessions \in Nat
  /\ MaxStarts \in Nat /\ MaxAttempts \in Nat /\ MaxFaults \in Nat
  BY HealthAssumption

\* Slots that no step adds to stay finite and within the bound.
LEMMA FewerSlots ==
  ASSUME TypeOK, FiniteSlots, Slots' \subseteq Slots
  PROVE  FiniteSlots' /\ Cardinality(Slots') <= MaxSessions
<1>1. Cardinality(Slots) <= MaxSessions
  BY DEF TypeOK, Slots
<1>2. IsFiniteSet(Slots') /\ Cardinality(Slots') <= Cardinality(Slots)
  BY FS_Subset DEF FiniteSlots
<1>3. Cardinality(Slots) \in Nat /\ Cardinality(Slots') \in Nat /\ MaxSessions \in Nat
  BY <1>2, FS_CardinalityType, HealthAssumption DEF FiniteSlots
<1> QED
  BY <1>1, <1>2, <1>3 DEF FiniteSlots

\* Session checks the limit before it adds one.
LEMMA OneMoreSlot ==
  ASSUME TypeOK, FiniteSlots, NEW h, Slots' \subseteq Slots \cup {h},
         Cardinality(Slots) < MaxSessions
  PROVE  FiniteSlots' /\ Cardinality(Slots') <= MaxSessions
<1> DEFINE S == Slots \cup {h}
<1>1. IsFiniteSet(S) /\ Cardinality(S) <= Cardinality(Slots) + 1
  <2>1. Cardinality(Slots) \in Nat
    BY FS_CardinalityType DEF FiniteSlots
  <2>2. IsFiniteSet(S)
        /\ Cardinality(S) = IF h \in Slots THEN Cardinality(Slots) ELSE Cardinality(Slots) + 1
    BY FS_AddElement DEF FiniteSlots
  <2> QED
    BY <2>1, <2>2
<1> HIDE DEF S
<1>2. IsFiniteSet(Slots') /\ Cardinality(Slots') <= Cardinality(S)
  <2>1. Slots' \subseteq S
    BY DEF S
  <2> QED
    BY <1>1, <2>1, FS_Subset
<1>3. Cardinality(Slots) \in Nat /\ Cardinality(S) \in Nat /\ Cardinality(Slots') \in Nat
      /\ MaxSessions \in Nat
  BY <1>1, <1>2, FS_CardinalityType, HealthAssumption DEF FiniteSlots
<1> QED
  BY <1>1, <1>2, <1>3 DEF FiniteSlots

\* What the pool's fields are, together with the limit and Connected.
PoolInv ==
  /\ client \in {"nil", "ok", "broken"} /\ idle \in BOOLEAN /\ closed \in BOOLEAN
  /\ inside \in SUBSET Holders
  /\ sess \in [Holders -> {"none", "ok", "dead"}]
  /\ FiniteSlots /\ Cardinality(Slots) <= MaxSessions
  /\ Connected

\* No slot is added, and a session that ends does so in a step that fails.
NoMore == \A i \in Holders : sess'[i] # "none" => sess[i] # "none"

LEMMA PoolFacts ==
  ASSUME HInv
  PROVE  /\ client \in {"nil", "ok", "broken"} /\ idle \in BOOLEAN /\ closed \in BOOLEAN
         /\ inside \in SUBSET Holders
         /\ sess \in [Holders -> {"none", "ok", "dead"}]
         /\ client # "ok" => \A i \in Holders : sess[i] # "ok"
  BY DEF HInv, TypeOK, Connected

\* closeClient keeps the slots, and leaves no session that works.
LEMMA CutFacts ==
  ASSUME sess \in [Holders -> {"none", "ok", "dead"}]
  PROVE  /\ Cut \in [Holders -> {"none", "ok", "dead"}]
         /\ \A i \in Holders : Cut[i] # "ok" /\ (Cut[i] # "none" <=> sess[i] # "none")
         /\ \A i \in Holders : sess[i] # "ok" => Cut[i] = sess[i]
  BY DEF Cut

\* Session: one slot more, for the caller; the others lose theirs with a
\* connection that the host does not let him use.
LEMMA SessionOKStep ==
  ASSUME HInv, NEW h \in Holders, NEW ctx, SessionOK(h, ctx)
  PROVE  /\ PoolInv' /\ KeepSessions
         /\ \A i \in Holders \ {h} : sess'[i] # "none" => sess[i] # "none"
<1>1. /\ sess \in [Holders -> {"none", "ok", "dead"}] /\ closed \in BOOLEAN
      /\ client # "ok" => \A i \in Holders : sess[i] # "ok"
  BY PoolFacts
<1>2. /\ client' = "ok" /\ idle' \in BOOLEAN /\ closed' \in BOOLEAN
      /\ inside' \in SUBSET Holders
  BY <1>1 DEF SessionOK
<1>3. /\ sess' \in [Holders -> {"none", "ok", "dead"}]
      /\ \A i \in Holders \ {h} : sess'[i] # "none" => sess[i] # "none"
      /\ \A i \in Holders : sess[i] = "ok" /\ sess'[i] = "dead" => faults' = faults + 1
  <2>1. CASE sess' = [sess EXCEPT ![h] = "ok"]
    BY <1>1, <2>1
  <2>2. CASE /\ sess' = [Cut EXCEPT ![h] = "ok"]
             /\ IF client = "ok" THEN Fault ELSE UNCHANGED faults
    BY <1>1, <2>2, CutFacts DEF Fault
  <2> QED
    BY <2>1, <2>2 DEF SessionOK
<1>4. Slots' \subseteq Slots \cup {h}
  BY <1>3 DEF Slots, Holders
<1>5. FiniteSlots' /\ Cardinality(Slots') <= MaxSessions
  BY <1>4, OneMoreSlot DEF HInv, SessionOK, HasSlot
<1> QED
  BY <1>2, <1>3, <1>5 DEF PoolInv, Connected, KeepSessions, Holders

\* The pool keeps its sessions when no slot is added.
LEMMA PoolKept ==
  ASSUME HInv,
         client' \in {"nil", "ok", "broken"}, idle' \in BOOLEAN, closed' \in BOOLEAN,
         inside' \in SUBSET Holders,
         sess' \in [Holders -> {"none", "ok", "dead"}],
         NoMore,
         client' # "ok" => \A i \in Holders : sess'[i] # "ok"
  PROVE  PoolInv'
<1>1. Slots' \subseteq Slots
  BY DEF Slots, Holders, NoMore
<1>2. FiniteSlots' /\ Cardinality(Slots') <= MaxSessions
  BY <1>1, FewerSlots DEF HInv
<1> QED
  BY <1>2 DEF PoolInv, Connected, Holders

\* A session that cannot be had leaves the others their slots; they lose their
\* sessions only with a call that fails on a connection that works.
LEMMA SessionFailsStep ==
  ASSUME HInv, NEW h \in Holders, NEW ctx, SessionFails(h, ctx)
  PROVE  PoolInv' /\ NoMore /\ KeepSessions
<1>1. /\ client \in {"nil", "ok", "broken"} /\ idle \in BOOLEAN /\ closed \in BOOLEAN
      /\ sess \in [Holders -> {"none", "ok", "dead"}]
      /\ client # "ok" => \A i \in Holders : sess[i] # "ok"
  BY PoolFacts
<1>2. idle' \in BOOLEAN /\ closed' \in BOOLEAN /\ inside' \in SUBSET Holders
  BY <1>1 DEF SessionFails
<1>3. CASE UNCHANGED <<client, sess, faults>>
  <2>1. /\ client' \in {"nil", "ok", "broken"}
        /\ sess' \in [Holders -> {"none", "ok", "dead"}]
        /\ NoMore /\ KeepSessions
        /\ client' # "ok" => \A i \in Holders : sess'[i] # "ok"
    BY <1>1, <1>3 DEF NoMore, KeepSessions
  <2> QED
    BY <1>2, <2>1, PoolKept
<1>4. CASE /\ client' \in {"nil", "ok", "broken"} /\ sess' = Cut
           /\ client # "ok" \/ Fault
  <2>1. sess' \in [Holders -> {"none", "ok", "dead"}] /\ NoMore
        /\ \A i \in Holders : sess'[i] # "ok"
    BY <1>1, <1>4, CutFacts DEF NoMore
  <2>2. KeepSessions
    <3>1. CASE Fault
      BY <3>1 DEF Fault, KeepSessions
    <3>2. CASE client # "ok"
      BY <1>1, <3>2 DEF KeepSessions
    <3> QED
      BY <1>4, <3>1, <3>2
  <2> QED
    BY <1>2, <1>4, <2>1, <2>2, PoolKept
<1> QED
  BY <1>3, <1>4 DEF SessionFails

\* A caller whom a silent host keeps waiting changes nobody's session.
LEMMA SessionHangsStep ==
  ASSUME HInv, NEW h \in Holders, NEW ctx, SessionHangs(h, ctx)
  PROVE  PoolInv' /\ sess' = sess
<1>1. /\ client \in {"nil", "ok", "broken"} /\ idle \in BOOLEAN /\ closed \in BOOLEAN
      /\ sess \in [Holders -> {"none", "ok", "dead"}]
      /\ client # "ok" => \A i \in Holders : sess[i] # "ok"
  BY PoolFacts
<1>2. /\ client' \in {"nil", "ok", "broken"} /\ idle' \in BOOLEAN /\ closed' \in BOOLEAN
      /\ inside' \in SUBSET Holders /\ sess' = sess
      /\ client' # "ok" => client # "ok"
  BY <1>1 DEF SessionHangs
<1>3. NoMore
  BY <1>2 DEF NoMore
<1> QED
  BY <1>1, <1>2, <1>3, PoolKept

\* PutSession frees the slot.
LEMMA PutStep ==
  ASSUME HInv, NEW h \in Holders, Put(h)
  PROVE  PoolInv' /\ NoMore /\ KeepSessions /\ sess'[h] = "none"
<1>1. /\ client \in {"nil", "ok", "broken"} /\ idle \in BOOLEAN /\ closed \in BOOLEAN
      /\ inside \in SUBSET Holders
      /\ sess \in [Holders -> {"none", "ok", "dead"}]
      /\ client # "ok" => \A i \in Holders : sess[i] # "ok"
  BY PoolFacts
<1>2. /\ client' \in {"nil", "ok", "broken"} /\ idle' \in BOOLEAN /\ closed' \in BOOLEAN
      /\ inside' \in SUBSET Holders
      /\ sess' \in [Holders -> {"none", "ok", "dead"}]
      /\ sess'[h] = "none"
      /\ client' # "ok" => \A i \in Holders : sess'[i] # "ok"
      /\ NoMore /\ KeepSessions
  BY <1>1 DEF Put, NoMore, KeepSessions
<1> QED
  BY <1>2, PoolKept

--------------------------------------------------------------------------------
(* Every step of the pool *)

\* No step exceeds the limit, leaves a chain's slot behind, or ends a session
\* without anything having failed.
LEMMA PoolStep ==
  ASSUME HInv, [Next]_vars
  PROVE  PoolInv' /\ SlotsReturned' /\ KeepSessions
<1> USE DEF Holders
<1>1. /\ client \in {"nil", "ok", "broken"} /\ idle \in BOOLEAN /\ closed \in BOOLEAN
      /\ inside \in SUBSET Holders
      /\ sess \in [Holders -> {"none", "ok", "dead"}]
      /\ client # "ok" => \A i \in Holders : sess[i] # "ok"
  BY PoolFacts
<1>0. /\ chain \in [Chains -> [pc : {"idle", "begin", "session", "docker", "verify", "wait"},
                               ctx : 0..made, sync : BOOLEAN]]
      /\ \A c \in Chains : sess[c] # "none" => chain[c].pc \in {"docker", "verify"}
      /\ Chains \cap Users = {}
  BY HealthAssumption DEF HInv, TypeOK, SlotsReturned
<1>2. ASSUME UNCHANGED <<client, sess, idle, closed, inside>>
      PROVE  PoolInv' /\ KeepSessions
  <2>1. NoMore /\ KeepSessions
    BY <1>1, <1>2 DEF NoMore, KeepSessions
  <2> QED
    BY <1>1, <1>2, <2>1, PoolKept
<1>3. ASSUME UNCHANGED <<client, sess, idle, closed, inside>>,
             \A c \in Chains : chain[c].pc \in {"docker", "verify"}
                                 => chain'[c].pc \in {"docker", "verify"}
      PROVE  PoolInv' /\ SlotsReturned' /\ KeepSessions
  BY <1>0, <1>2, <1>3 DEF SlotsReturned
<1>4. CASE Start \/ Stop \/ Return \/ Silence \/ Pass \/ UNCHANGED vars
  <2>1. CASE Pass
    <3>1. /\ client' = client /\ sess' = sess /\ closed' = closed /\ inside' = inside
          /\ chain' = chain /\ idle' = TRUE
      BY <2>1 DEF Pass
    <3>2. NoMore /\ KeepSessions
      BY <1>1, <3>1 DEF NoMore, KeepSessions
    <3>3. PoolInv'
      BY <1>1, <3>1, <3>2, PoolKept
    <3> QED
      BY <1>0, <3>1, <3>2, <3>3 DEF SlotsReturned
  <2>2. CASE Start \/ Stop \/ Return \/ Silence \/ UNCHANGED vars
    BY <1>3, <2>2 DEF Start, Stop, Return, Silence, vars, pool, mgr
  <2> QED
    BY <1>4, <2>1, <2>2
<1>5. ASSUME NEW g \in Contexts, RunEnds(g) \/ GoroutineEnds(g) \/ ProbeOK(g) \/ ProbeFails(g)
      PROVE  PoolInv' /\ SlotsReturned' /\ KeepSessions
  BY <1>3, <1>5 DEF RunEnds, GoroutineEnds, ProbeOK, ProbeFails, pool
<1>6. ASSUME NEW g \in Contexts, NEW c \in Chains, Trigger(g, c)
      PROVE  PoolInv' /\ SlotsReturned' /\ KeepSessions
  <2>1. \A d \in Chains : chain[d].pc \in {"docker", "verify"}
                            => chain'[d].pc \in {"docker", "verify"}
    BY <1>0, <1>6 DEF Trigger
  <2> QED
    BY <1>3, <1>6, <2>1 DEF Trigger, pool
<1>7. ASSUME NEW c \in Chains, Begin(c) \/ Retry(c) \/ ChainEnds(c)
      PROVE  PoolInv' /\ SlotsReturned' /\ KeepSessions
  <2>1. \A d \in Chains : chain[d].pc \in {"docker", "verify"}
                            => chain'[d].pc \in {"docker", "verify"}
    BY <1>0, <1>7 DEF Begin, Retry, ChainEnds, At, Goto
  <2> QED
    BY <1>3, <1>7, <2>1 DEF Begin, Retry, ChainEnds, pool
<1>8. ASSUME NEW c \in Chains, GetSession(c)
      PROVE  PoolInv' /\ SlotsReturned' /\ KeepSessions
  <2>1. CASE SessionOK(c, chain[c].ctx) /\ Goto(c, "docker")
    <3>1. /\ PoolInv' /\ KeepSessions
          /\ \A i \in Holders \ {c} : sess'[i] # "none" => sess[i] # "none"
      BY <2>1, SessionOKStep
    <3> QED
      BY <1>0, <2>1, <3>1 DEF SlotsReturned, Goto
  <2>2. CASE SessionFails(c, chain[c].ctx) /\ Failed(c)
    <3>1. PoolInv' /\ NoMore /\ KeepSessions
      BY <2>2, SessionFailsStep
    <3> QED
      BY <1>0, <1>8, <2>2, <3>1 DEF SlotsReturned, Failed, GetSession, At, NoMore
  <2>3. CASE SessionHangs(c, chain[c].ctx) /\ UNCHANGED <<chain, rs, prober, lock>>
    <3>1. PoolInv' /\ sess' = sess /\ chain' = chain
      BY <2>3, SessionHangsStep
    <3> QED
      BY <1>0, <1>1, <3>1 DEF SlotsReturned, KeepSessions
  <2> QED
    BY <1>8, <2>1, <2>2, <2>3 DEF GetSession
<1>9. ASSUME NEW c \in Chains, CheckDocker(c) \/ CheckContainers(c)
      PROVE  PoolInv' /\ SlotsReturned' /\ KeepSessions
  <2>1. CASE Failed(c) /\ Put(c)
    <3>1. PoolInv' /\ NoMore /\ KeepSessions /\ sess'[c] = "none"
      BY <2>1, PutStep
    <3> QED
      BY <1>0, <2>1, <3>1 DEF SlotsReturned, Failed, NoMore
  <2>2. CASE Goto(c, "verify") /\ UNCHANGED pool
    BY <1>0, <1>3, <2>2 DEF Goto, pool
  <2> QED
    BY <1>9, <2>1, <2>2 DEF CheckDocker, CheckContainers
<1>10. ASSUME NEW u \in Users, UserAsks(u)
       PROVE  PoolInv' /\ SlotsReturned' /\ KeepSessions
  <2>0. chain' = chain
    BY <1>10 DEF UserAsks
  <2>1. CASE SessionOK(u, 0)
    <3>1. /\ PoolInv' /\ KeepSessions
          /\ \A i \in Holders \ {u} : sess'[i] # "none" => sess[i] # "none"
      BY <2>1, SessionOKStep
    <3> QED
      BY <1>0, <2>0, <3>1 DEF SlotsReturned
  <2>2. CASE SessionFails(u, 0)
    <3>1. PoolInv' /\ NoMore /\ KeepSessions
      BY <2>2, SessionFailsStep
    <3> QED
      BY <1>0, <2>0, <3>1 DEF SlotsReturned, NoMore
  <2>3. CASE SessionHangs(u, 0)
    <3>1. PoolInv' /\ sess' = sess
      BY <2>3, SessionHangsStep
    <3> QED
      BY <1>0, <1>1, <2>0, <3>1 DEF SlotsReturned, KeepSessions
  <2> QED
    BY <1>10, <2>1, <2>2, <2>3 DEF UserAsks
<1>11. ASSUME NEW u \in Users, UserPuts(u)
       PROVE  PoolInv' /\ SlotsReturned' /\ KeepSessions
  <2>1. PoolInv' /\ NoMore /\ KeepSessions
    BY <1>11, PutStep DEF UserPuts
  <2> QED
    BY <1>0, <1>11, <2>1 DEF SlotsReturned, UserPuts, NoMore
<1>12. CASE Sweep \/ PoolClose \/ Outage
  <2>1. /\ idle' \in BOOLEAN /\ closed' \in BOOLEAN /\ inside' \in SUBSET Holders
        /\ chain' = chain
    BY <1>1, <1>12 DEF Sweep, PoolClose, Outage
  <2>2. /\ client' \in {"nil", "broken"}
        /\ sess' \in [Holders -> {"none", "ok", "dead"}]
        /\ \A i \in Holders : sess'[i] # "ok"
        /\ NoMore /\ KeepSessions
    <3>1. CASE Sweep
      <4>1. client' = "nil" /\ sess' = Cut /\ \A i \in Holders : sess[i] = "none"
        BY <3>1 DEF Sweep, Slots
      <4> QED
        BY <1>1, <4>1, CutFacts DEF NoMore, KeepSessions
    <3>2. CASE PoolClose
      BY <1>1, <3>2 DEF PoolClose, NoMore, KeepSessions
    <3>3. CASE Outage
      <4>1. client' \in {"nil", "broken"} /\ sess' = Cut /\ faults' = faults + 1
        BY <1>1, <3>3 DEF Outage, Fault
      <4> QED
        BY <1>1, <4>1, CutFacts DEF NoMore, KeepSessions
    <3> QED
      BY <1>12, <3>1, <3>2, <3>3
  <2>3. PoolInv'
    BY <2>1, <2>2, PoolKept
  <2> QED
    BY <1>0, <2>1, <2>2, <2>3 DEF SlotsReturned, NoMore
<1> QED
  BY <1>4, <1>5, <1>6, <1>7, <1>8, <1>9, <1>10, <1>11, <1>12 DEF Next, ChainStep

--------------------------------------------------------------------------------
(* The manager, the prober and its mutex *)

PCs == {"idle", "begin", "session", "docker", "verify", "wait"}

\* The rest of TypeOK.
CoreType ==
  /\ running \in BOOLEAN /\ cancelFunc \in 0..made /\ made \in 0..MaxStarts
  /\ cancelled \subseteq 1..made
  /\ prober \in [Contexts -> {"none", "loop", "reconnect", "exit", "done"}]
  /\ lock \in 0..made /\ fails \in 0..(Threshold - 1)
  /\ chain \in [Chains -> [pc : PCs, ctx : 0..made, sync : BOOLEAN]]
  /\ rs \in [attempts : 0..MaxAttempts,
             phase : {"none", "probing", "reconnecting", "verifying", "failed"}]
  /\ host \in {"up", "down", "silent"} /\ faults \in 0..MaxFaults

LEMMA TypeFromParts == CoreType /\ PoolInv => TypeOK
  BY DEF CoreType, PoolInv, TypeOK, PCs, Slots

LEMMA CoreFromType == TypeOK => CoreType
  BY DEF CoreType, TypeOK, PCs

\* An attempt that fails releases the mutex if it was called under it.
LEMMA FailedStep ==
  ASSUME CoreType, MadeInv, MutexHeld, NEW c \in Chains, Failed(c),
         chain[c].pc \in {"session", "docker", "verify"},
         UNCHANGED <<mgr, fails, host>>, faults' \in 0..MaxFaults
  PROVE  CoreType' /\ MadeInv' /\ MutexHeld'
<1>1. chain' \in [Chains -> [pc : PCs, ctx : 0..made, sync : BOOLEAN]]
  <2>1. chain[c] \in [pc : PCs, ctx : 0..made, sync : BOOLEAN]
    BY DEF CoreType
  <2>2. [chain[c] EXCEPT !.pc = "wait", !.sync = FALSE]
          \in [pc : PCs, ctx : 0..made, sync : BOOLEAN]
    BY <2>1 DEF PCs
  <2>3. chain' = [chain EXCEPT ![c] = [chain[c] EXCEPT !.pc = "wait", !.sync = FALSE]]
    BY DEF CoreType, Failed
  <2> QED
    BY <2>2, <2>3 DEF CoreType
<1>2. \A d \in Chains : /\ d # c => chain'[d] = chain[d]
                        /\ d = c => ~chain'[d].sync
  BY DEF CoreType, Failed
<1>3. CASE chain[c].sync
  <2>0. lock \in 1..made /\ made \in 0..MaxStarts /\ chain[c].ctx = lock
    BY <1>3 DEF CoreType, MutexHeld
  <2>1. lock' = 0 /\ prober' = [prober EXCEPT ![lock] = "loop"] /\ lock \in Contexts
    BY <1>3, <2>0, Bounds DEF Failed, Contexts
  <2>2. CoreType'
    <3>1. rs' \in [attempts : 0..MaxAttempts,
                   phase : {"none", "probing", "reconnecting", "verifying", "failed"}]
      BY DEF CoreType, Failed
    <3>2. prober' \in [Contexts -> {"none", "loop", "reconnect", "exit", "done"}]
      BY <2>1 DEF CoreType
    <3> QED
      BY <1>1, <2>0, <2>1, <3>1, <3>2 DEF CoreType, mgr
  <2>3. MadeInv'
    BY <2>1 DEF CoreType, MadeInv, MutexHeld, mgr, Contexts
  <2>4. MutexHeld'
    BY <1>2, <1>3, <2>1 DEF CoreType, MutexHeld, Contexts
  <2> QED
    BY <2>2, <2>3, <2>4
<1>4. CASE ~chain[c].sync
  <2>1. lock' = lock /\ prober' = prober
    BY <1>4 DEF Failed
  <2>2. CoreType'
    BY <1>1, <2>1 DEF CoreType, Failed, mgr
  <2>3. MadeInv'
    BY <2>1 DEF MadeInv, mgr
  <2>4. MutexHeld'
    BY <1>2, <1>4, <2>1 DEF CoreType, MutexHeld, Contexts
  <2> QED
    BY <2>2, <2>3, <2>4
<1> QED
  BY <1>3, <1>4

\* A step of a chain that stays called, or stays on its own.
LEMMA GotoStep ==
  ASSUME CoreType, MadeInv, MutexHeld, NEW c \in Chains,
         NEW to \in {"begin", "session", "docker", "verify"}, Goto(c, to),
         UNCHANGED <<mgr, prober, lock, fails, host>>,
         rs' \in [attempts : 0..MaxAttempts,
                  phase : {"none", "probing", "reconnecting", "verifying", "failed"}],
         faults' \in 0..MaxFaults
  PROVE  CoreType' /\ MadeInv' /\ MutexHeld'
<1>1. chain' \in [Chains -> [pc : PCs, ctx : 0..made, sync : BOOLEAN]]
  BY DEF CoreType, Goto, PCs
<1>2. CoreType'
  BY <1>1 DEF CoreType, mgr
<1>3. MadeInv'
  BY DEF MadeInv, mgr
<1>4. \A d \in Chains : /\ chain'[d].sync = chain[d].sync /\ chain'[d].ctx = chain[d].ctx
                        /\ chain'[d].pc = IF d = c THEN to ELSE chain[d].pc
  BY DEF CoreType, Goto
<1>5. MutexHeld'
  BY <1>4 DEF MutexHeld
<1> QED
  BY <1>2, <1>3, <1>5

\* Every step keeps the types, and the mutex with its holder.
LEMMA CoreStep ==
  ASSUME HInv, [Next]_vars
  PROVE  CoreType' /\ MadeInv' /\ MutexHeld'
<1>0. CoreType /\ MadeInv /\ MutexHeld
  BY CoreFromType DEF HInv
<1> USE DEF Contexts
<1>1. CASE Start
  <2>1. /\ made' = made + 1 /\ made' \in Contexts /\ made' \in 0..MaxStarts
        /\ UNCHANGED <<cancelled, lock, fails, chain, rs, host, faults>>
        /\ cancelFunc' = made' /\ running' = TRUE
        /\ prober' = [prober EXCEPT ![made'] = "loop"]
    BY <1>0, <1>1, HealthAssumption DEF Start, CoreType
  <2>2. lock # made'
    BY <1>0, <2>1 DEF CoreType
  <2>3. CoreType'
    BY <1>0, <2>1 DEF CoreType
  <2>4. MadeInv'
    BY <1>0, <2>1 DEF MadeInv, CoreType
  <2>5. MutexHeld'
    <3>1. prober[made'] # "reconnect"
      BY <1>0, <2>1, <2>2 DEF MutexHeld
    <3> QED
      BY <1>0, <2>1, <2>2, <3>1 DEF MutexHeld, CoreType
  <2> QED
    BY <2>3, <2>4, <2>5
<1>2. CASE Stop
  <2>1. CoreType'
    <3>1. cancelFunc \in 1..made /\ cancelled' \subseteq 1..made
      BY <1>0, <1>2, Bounds DEF CoreType, Stop
    <3>2. running' \in BOOLEAN /\ cancelFunc' = 0
      BY <1>2 DEF Stop
    <3>3. 0 \in 0..made
      BY <1>0, Bounds DEF CoreType
    <3> QED
      BY <1>0, <1>2, <3>1, <3>2, <3>3 DEF CoreType, Stop
  <2>2. MadeInv' /\ MutexHeld'
    BY <1>0, <1>2 DEF MadeInv, MutexHeld, Stop
  <2> QED
    BY <2>1, <2>2
<1>3. ASSUME NEW g \in Contexts, RunEnds(g) \/ GoroutineEnds(g)
      PROVE  CoreType' /\ MadeInv' /\ MutexHeld'
  <2>1. CoreType'
    BY <1>0, <1>3 DEF CoreType, RunEnds, GoroutineEnds, mgr
  <2>2. MadeInv'
    <3>1. made' = made /\ \A k \in Contexts : prober'[k] # "none" => prober[k] # "none"
      BY <1>0, <1>3 DEF CoreType, RunEnds, GoroutineEnds, mgr
    <3> QED
      BY <1>0, <3>1 DEF MadeInv
  <2>3. /\ lock' = lock /\ chain' = chain /\ prober[g] # "reconnect" /\ prober'[g] # "reconnect"
        /\ \A k \in Contexts \ {g} : prober'[k] = prober[k]
    BY <1>0, <1>3 DEF CoreType, RunEnds, GoroutineEnds
  <2>4. MutexHeld'
    BY <1>0, <2>3 DEF MutexHeld
  <2> QED
    BY <2>1, <2>2, <2>4
<1>4. ASSUME NEW g \in Contexts, ProbeOK(g) \/ ProbeFails(g)
      PROVE  CoreType' /\ MadeInv' /\ MutexHeld'
  <2>1. CoreType'
    <3>1. fails' \in 0..(Threshold - 1)
      BY <1>0, <1>4, Bounds DEF CoreType, ProbeOK, ProbeFails
    <3> QED
      BY <1>0, <1>4, <3>1 DEF CoreType, ProbeOK, ProbeFails, mgr
  <2>2. MadeInv' /\ MutexHeld'
    BY <1>0, <1>4 DEF MadeInv, MutexHeld, ProbeOK, ProbeFails, mgr
  <2> QED
    BY <2>1, <2>2
<1>5. ASSUME NEW g \in Contexts, NEW c \in Chains, Trigger(g, c)
      PROVE  CoreType' /\ MadeInv' /\ MutexHeld'
  <2>1. g \in 1..made /\ lock = 0 /\ lock' = g /\ made' = made
    BY <1>0, <1>5 DEF CoreType, MadeInv, Trigger, mgr
  <2>2. chain' \in [Chains -> [pc : PCs, ctx : 0..made, sync : BOOLEAN]]
    BY <1>0, <1>5, <2>1 DEF CoreType, Trigger, PCs
  <2>3. CoreType'
    BY <1>0, <1>5, <2>1, <2>2, Bounds DEF CoreType, Trigger, mgr
  <2>4. MadeInv'
    BY <1>0, <1>5, <2>1 DEF CoreType, MadeInv, Trigger
  <2>5. \A d \in Chains : ~chain[d].sync
    BY <1>0, <2>1 DEF MutexHeld
  <2>6. /\ chain'[c] = [pc |-> "begin", ctx |-> g, sync |-> TRUE]
        /\ \A d \in Chains \ {c} : ~chain'[d].sync
    BY <1>0, <1>5, <2>5 DEF CoreType, Trigger
  <2>7. \A k \in Contexts : prober'[k] = "reconnect" <=> k = g
    BY <1>0, <1>5, <2>1 DEF CoreType, MutexHeld, Trigger
  <2>8. MutexHeld'
    BY <2>1, <2>6, <2>7 DEF MutexHeld
  <2> QED
    BY <2>3, <2>4, <2>8
<1>6. ASSUME NEW c \in Chains, Begin(c)
      PROVE  CoreType' /\ MadeInv' /\ MutexHeld'
  <2>1. rs' \in [attempts : 0..MaxAttempts,
                 phase : {"none", "probing", "reconnecting", "verifying", "failed"}]
    BY <1>0, <1>6, Bounds DEF CoreType, Begin
  <2>2. faults' \in 0..MaxFaults
    BY <1>0, <1>6 DEF CoreType, Begin
  <2> QED
    BY <1>0, <1>6, <2>1, <2>2, GotoStep DEF Begin
<1>7. ASSUME NEW c \in Chains, GetSession(c)
      PROVE  CoreType' /\ MadeInv' /\ MutexHeld'
  <2>1. faults' \in 0..MaxFaults /\ host' = host
    BY <1>0, <1>7, Bounds DEF CoreType, GetSession, SessionOK, SessionFails, SessionHangs, Fault
  <2>2. CASE Goto(c, "docker") /\ rs' = [rs EXCEPT !.phase = "reconnecting"] /\ UNCHANGED <<prober, lock>>
    <3>1. rs' \in [attempts : 0..MaxAttempts,
                   phase : {"none", "probing", "reconnecting", "verifying", "failed"}]
      BY <1>0, <2>2 DEF CoreType
    <3> QED
      BY <1>0, <1>7, <2>1, <2>2, <3>1, GotoStep DEF GetSession
  <2>3. CASE Failed(c)
    BY <1>0, <1>7, <2>1, <2>3, FailedStep DEF GetSession, At
  <2>4. CASE UNCHANGED <<chain, rs, prober, lock>>
    <3>1. UNCHANGED <<mgr, fails>>
      BY <1>7 DEF GetSession
    <3>2. CoreType'
      BY <1>0, <2>1, <2>4, <3>1 DEF CoreType, mgr
    <3>3. MadeInv' /\ MutexHeld'
      BY <1>0, <2>4, <3>1 DEF MadeInv, MutexHeld, mgr
    <3> QED
      BY <3>2, <3>3
  <2> QED
    BY <1>7, <2>2, <2>3, <2>4 DEF GetSession
<1>8. ASSUME NEW c \in Chains, CheckDocker(c)
      PROVE  CoreType' /\ MadeInv' /\ MutexHeld'
  <2>1. faults' \in 0..MaxFaults /\ host' = host
    BY <1>0, <1>8, Bounds DEF CoreType, CheckDocker, Fault
  <2>2. CASE Goto(c, "verify") /\ rs' = [rs EXCEPT !.phase = "verifying"] /\ UNCHANGED <<prober, lock>>
    <3>1. rs' \in [attempts : 0..MaxAttempts,
                   phase : {"none", "probing", "reconnecting", "verifying", "failed"}]
      BY <1>0, <2>2 DEF CoreType
    <3> QED
      BY <1>0, <1>8, <2>1, <2>2, <3>1, GotoStep DEF CheckDocker
  <2>3. CASE Failed(c)
    BY <1>0, <1>8, <2>1, <2>3, FailedStep DEF CheckDocker, At
  <2> QED
    BY <1>8, <2>2, <2>3 DEF CheckDocker
<1>9. ASSUME NEW c \in Chains, CheckContainers(c)
      PROVE  CoreType' /\ MadeInv' /\ MutexHeld'
  <2>1. faults' \in 0..MaxFaults
    BY <1>0, <1>9 DEF CoreType, CheckContainers
  <2> QED
    BY <1>0, <1>9, <2>1, FailedStep DEF CheckContainers, At
<1>10. ASSUME NEW c \in Chains, Retry(c)
       PROVE  CoreType' /\ MadeInv' /\ MutexHeld'
  <2>1. /\ rs' \in [attempts : 0..MaxAttempts,
                    phase : {"none", "probing", "reconnecting", "verifying", "failed"}]
        /\ faults' \in 0..MaxFaults
    BY <1>0, <1>10 DEF CoreType, Retry
  <2> QED
    BY <1>0, <1>10, <2>1, GotoStep DEF Retry
<1>11. ASSUME NEW c \in Chains, ChainEnds(c)
       PROVE  CoreType' /\ MadeInv' /\ MutexHeld'
  <2>1. chain' \in [Chains -> [pc : PCs, ctx : 0..made, sync : BOOLEAN]]
    BY <1>0, <1>11 DEF CoreType, ChainEnds, Rest, PCs
  <2>2. CoreType'
    BY <1>0, <1>11, <2>1 DEF CoreType, ChainEnds, mgr
  <2>3. MadeInv'
    BY <1>0, <1>11 DEF MadeInv, ChainEnds, mgr
  <2>4. ~chain[c].sync /\ ~chain'[c].sync /\ \A d \in Chains \ {c} : chain'[d] = chain[d]
    BY <1>0, <1>11 DEF CoreType, MutexHeld, ChainEnds, At, Rest
  <2>5. MutexHeld'
    BY <1>0, <1>11, <2>4 DEF MutexHeld, ChainEnds
  <2> QED
    BY <2>2, <2>3, <2>5
<1>12. CASE \/ \E u \in Users : UserAsks(u) \/ UserPuts(u)
            \/ Sweep \/ PoolClose \/ Outage \/ Silence \/ Return \/ Pass \/ UNCHANGED vars
  <2>1. UNCHANGED <<mgr, prober, lock, fails, chain, rs>>
    BY <1>12 DEF UserAsks, UserPuts, Sweep, PoolClose, Outage, Silence, Return, Pass, vars
  <2>2. host' \in {"up", "down", "silent"} /\ faults' \in 0..MaxFaults
    <3>1. CASE Outage \/ Silence
      <4>1. host' \in {"up", "down", "silent"}
        BY <3>1 DEF Outage, Silence
      <4>2. faults' \in 0..MaxFaults
        BY <1>0, <3>1, Bounds DEF CoreType, Outage, Silence, Fault
      <4> QED
        BY <4>1, <4>2
    <3>2. CASE Return
      BY <1>0, <3>2 DEF CoreType, Return
    <3>3. CASE host' = host /\ (faults' = faults \/ Fault)
      BY <1>0, <3>3, Bounds DEF CoreType, Fault
    <3>4. ASSUME NEW u \in Users, UserAsks(u)
          PROVE  host' = host /\ (faults' = faults \/ Fault)
      BY <3>4 DEF UserAsks, SessionOK, SessionFails, SessionHangs
    <3> QED
      BY <1>12, <3>1, <3>2, <3>3, <3>4
      DEF UserPuts, Sweep, PoolClose, Pass, vars
  <2>3. CoreType'
    BY <1>0, <2>1, <2>2 DEF CoreType, mgr
  <2>4. MadeInv' /\ MutexHeld'
    BY <1>0, <2>1 DEF MadeInv, MutexHeld, mgr
  <2> QED
    BY <2>3, <2>4
<1> QED
  BY <1>1, <1>2, <1>3, <1>4, <1>5, <1>6, <1>7, <1>8, <1>9, <1>10, <1>11, <1>12
  DEF Next, ChainStep

--------------------------------------------------------------------------------
(* The theorems *)

LEMMA HInvInit == Init => HInv
<1> SUFFICES ASSUME Init PROVE HInv
  OBVIOUS
<1>1. Slots = {}
  BY DEF Init, Slots
<1>2. FiniteSlots /\ Cardinality(Slots) = 0
  BY <1>1, FS_EmptySet DEF FiniteSlots
<1>3. CoreType
  <2>1. chain \in [Chains -> [pc : PCs, ctx : 0..made, sync : BOOLEAN]]
    BY DEF Init, PCs, Rest
  <2>2. running \in BOOLEAN /\ host \in {"up", "down", "silent"}
    BY DEF Init
  <2>3. /\ cancelFunc \in 0..made /\ made \in 0..MaxStarts /\ lock \in 0..made
        /\ cancelled \subseteq 1..made
        /\ fails \in 0..(Threshold - 1) /\ faults \in 0..MaxFaults
    BY Bounds DEF Init
  <2>4. /\ prober \in [Contexts -> {"none", "loop", "reconnect", "exit", "done"}]
        /\ rs \in [attempts : 0..MaxAttempts,
                   phase : {"none", "probing", "reconnecting", "verifying", "failed"}]
    BY Bounds DEF Init
  <2> QED
    BY <2>1, <2>2, <2>3, <2>4 DEF CoreType
<1>4. PoolInv
  <2>1. Cardinality(Slots) <= MaxSessions
    BY <1>2, Bounds
  <2> QED
    BY <1>2, <2>1 DEF Init, PoolInv, Connected
<1>5. MadeInv /\ MutexHeld /\ SlotsReturned
  BY DEF Init, MadeInv, MutexHeld, SlotsReturned, Rest, Contexts, Holders
<1> QED
  BY <1>2, <1>3, <1>4, <1>5, TypeFromParts DEF HInv, PoolInv

LEMMA HInvStep == HInv /\ [Next]_vars => HInv'
<1> SUFFICES ASSUME HInv, [Next]_vars PROVE HInv'
  OBVIOUS
<1>1. PoolInv' /\ SlotsReturned'
  BY PoolStep
<1>2. CoreType' /\ MadeInv' /\ MutexHeld'
  BY CoreStep
<1>3. TypeOK'
  BY <1>1, <1>2 DEF CoreType, PoolInv, TypeOK, PCs, Slots
<1> QED
  BY <1>1, <1>2, <1>3 DEF HInv, PoolInv

LEMMA HInvariance == Spec => []HInv
  BY HInvInit, HInvStep, PTL DEF Spec

\* Every field of the manager, the prober, the reconnector and the pool keeps
\* its type, and Pool.Session never hands out more than maxSessionsPerHost
\* sessions, however many chains and users ask for one.
THEOREM TypeCorrect == Spec => []TypeOK
<1>1. HInv => TypeOK
  BY DEF HInv
<1> QED
  BY <1>1, HInvariance, PTL

\* Reconnector.Execute gives its session back on every way out: a chain that
\* is not between its Session and its PutSession has no slot.
THEOREM SlotsComeBack == Spec => []SlotsReturned
<1>1. HInv => SlotsReturned
  BY DEF HInv
<1> QED
  BY <1>1, HInvariance, PTL

\* A session that works and that its user still holds ends only in a step in
\* which something outside fails: sweepIdle, and Session where it replaces a
\* connection that is gone, take none.  The step that fails may be a channel
\* that the host refuses to another caller, for whom Session closes the
\* connection of all.
THEOREM NoSessionKilled == Spec => SessionsKept
<1>1. HInv /\ [Next]_vars => [KeepSessions]_vars
  BY PoolStep
<1> QED
  BY <1>1, HInvariance, PTL DEF Spec, SessionsKept

\* Prober.mu is held exactly while one prober waits in OnReconnect for the one
\* attempt that it has called: no two probers are reconnecting together, also
\* not one of a stopped context beside its successor's, and every failed
\* attempt that was called releases the mutex.
THEOREM MutexIsHeldByOne == Spec => []MutexHeld
<1>1. HInv => MutexHeld
  BY DEF HInv
<1> QED
  BY <1>1, HInvariance, PTL
================================================================================
