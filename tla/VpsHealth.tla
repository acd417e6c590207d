------------------------------ MODULE VpsHealth ------------------------------
(***************************************************************************)
(* Watching a VPS (src/src/internal/lifecycle/health): a manager starts    *)
(* and stops a prober, which after a number of failed probes calls the     *)
(* reconnector, and a failed attempt is repeated in a goroutine of its     *)
(* own.  Attempts and other users share the SSH pool (src/src/internal/    *)
(* ssh): one connection, a few sessions, eviction when idle.               *)
(*                                                                         *)
(* The context that Start makes is numbered.  A chain is an attempt with   *)
(* its repetitions; they all share r.state, without a lock.  The pool's    *)
(* mutex is held over dialling and validation, so Session is one action,   *)
(* and two where the host keeps it waiting.  The host is silent when it    *)
(* accepts connections or keeps them open, and answers nothing.            *)
(***************************************************************************)
EXTENDS Naturals, FiniteSets

CONSTANTS Chains,       \* sequences of attempts going on at the same time
          Users,        \* other users of the pool
          Threshold,    \* FailureThreshold
          MaxSessions,  \* maxSessionsPerHost
          MaxStarts,    \* bound: contexts made by Start
          MaxAttempts,  \* bound: the attempt counter stays there
          MaxFaults     \* bound: outages, silences, calls and commands that fail

ASSUME HealthAssumption ==
  /\ {Threshold, MaxSessions} \subseteq Nat \ {0}
  /\ {MaxStarts, MaxAttempts, MaxFaults} \subseteq Nat
  /\ Chains \cap Users = {}

VARIABLES running, cancelFunc,  \* Manager: the context that Stop cancels, 0 for none
          made, cancelled,      \* contexts made, and those that are cancelled
          prober,               \* per context: the goroutine that Start starts
          lock,                 \* Prober.mu: the prober that is reconnecting
          fails,                \* Prober.consecutiveFail
          chain,                \* per chain: step, context, called by the prober
          rs,                   \* Reconnector.state: attempts and phase
          client, sess, idle, closed,  \* the pool; sess per holder of a session
          inside,               \* who waits in Session for an answer, with Pool.mu
          host, faults          \* the VPS and its sshd

mgr  == <<running, cancelFunc, made, cancelled>>
pool == <<client, sess, idle, closed, inside>>
vars == <<mgr, prober, lock, fails, chain, rs, pool, host, faults>>

Contexts == 1..MaxStarts
Holders == Chains \cup Users

TypeOK ==
  /\ running \in BOOLEAN /\ cancelFunc \in 0..made /\ made \in 0..MaxStarts
  /\ cancelled \subseteq 1..made
  /\ prober \in [Contexts -> {"none", "loop", "reconnect", "exit", "done"}]
  /\ lock \in 0..made /\ fails \in 0..(Threshold - 1)
  /\ chain \in [Chains -> [pc : {"idle", "begin", "session", "docker", "verify", "wait"},
                           ctx : 0..made, sync : BOOLEAN]]
  /\ rs \in [attempts : 0..MaxAttempts,
             phase : {"none", "probing", "reconnecting", "verifying", "failed"}]
  /\ client \in {"nil", "ok", "broken"}
  /\ sess \in [Holders -> {"none", "ok", "dead"}]
  /\ Cardinality({h \in Holders : sess[h] # "none"}) <= MaxSessions
  /\ {idle, closed} \subseteq BOOLEAN /\ inside \in SUBSET Holders
  /\ host \in {"up", "down", "silent"} /\ faults \in 0..MaxFaults

Rest == [pc |-> "idle", ctx |-> 0, sync |-> FALSE]

\* NewManager, NewProber, NewReconnector, NewPool
Init ==
  /\ running = FALSE /\ cancelFunc = 0 /\ made = 0 /\ cancelled = {}
  /\ prober = [g \in Contexts |-> "none"]
  /\ lock = 0 /\ fails = 0
  /\ chain = [c \in Chains |-> Rest]
  /\ rs = [attempts |-> 0, phase |-> "none"]
  /\ client = "nil" /\ sess = [h \in Holders |-> "none"]
  /\ idle = FALSE /\ closed = FALSE /\ inside = {}
  /\ host = "up" /\ faults = 0

Fault == faults < MaxFaults /\ faults' = faults + 1

--------------------------------------------------------------------------------
(* Manager *)

Start ==
  /\ ~running /\ made < MaxStarts
  /\ made' = made + 1 /\ cancelFunc' = made' /\ running' = TRUE
  /\ prober' = [prober EXCEPT ![made'] = "loop"]
  /\ UNCHANGED <<cancelled, lock, fails, chain, rs, pool, host, faults>>

Stop ==
  /\ cancelFunc # 0
  /\ cancelled' = cancelled \cup {cancelFunc}
  /\ cancelFunc' = 0 /\ running' = FALSE
  /\ UNCHANGED <<made, prober, lock, fails, chain, rs, pool, host, faults>>

\* Run returns, which takes the prober's mutex once more.
RunEnds(g) ==
  /\ prober[g] = "loop" /\ g \in cancelled /\ lock = 0
  /\ prober' = [prober EXCEPT ![g] = "exit"]
  /\ UNCHANGED <<mgr, lock, fails, chain, rs, pool, host, faults>>

\* The end of Start's goroutine, whatever has been started meanwhile.
GoroutineEnds(g) ==
  /\ prober[g] = "exit"
  /\ prober' = [prober EXCEPT ![g] = "done"]
  /\ running' = FALSE
  /\ UNCHANGED <<cancelFunc, made, cancelled, lock, fails, chain, rs, pool, host, faults>>

--------------------------------------------------------------------------------
(* Prober *)

\* Neither ICMP nor HTTP gets an answer; a cancelled context ends the second.
\* A silent host may answer them or not.
Unreachable(g) == host # "up" \/ g \in cancelled

\* A tick: probe, processSnapshot.
ProbeOK(g) ==
  /\ prober[g] = "loop" /\ lock = 0 /\ host # "down"
  /\ fails' = 0
  /\ UNCHANGED <<mgr, prober, lock, chain, rs, pool, host, faults>>

ProbeFails(g) ==
  /\ prober[g] = "loop" /\ lock = 0
  /\ Unreachable(g)
  /\ fails + 1 < Threshold /\ fails' = fails + 1
  /\ UNCHANGED <<mgr, prober, lock, chain, rs, pool, host, faults>>

\* Mutant: the counter is not reset.
TriggerNoReset(g, c) ==
  /\ prober[g] = "loop" /\ lock = 0
  /\ Unreachable(g)
  /\ fails + 1 >= Threshold /\ fails' = fails + 1
  /\ chain[c].pc = "idle"
  /\ prober' = [prober EXCEPT ![g] = "reconnect"] /\ lock' = g
  /\ chain' = [chain EXCEPT ![c] = [pc |-> "begin", ctx |-> g, sync |-> TRUE]]
  /\ UNCHANGED <<mgr, rs, pool, host, faults>>

\* The threshold is reached: OnReconnect is called with the mutex held.
Trigger(g, c) ==
  /\ prober[g] = "loop" /\ lock = 0
  /\ Unreachable(g)
  /\ fails + 1 >= Threshold /\ fails' = 0
  /\ chain[c].pc = "idle"
  /\ prober' = [prober EXCEPT ![g] = "reconnect"] /\ lock' = g
  /\ chain' = [chain EXCEPT ![c] = [pc |-> "begin", ctx |-> g, sync |-> TRUE]]
  /\ UNCHANGED <<mgr, rs, pool, host, faults>>

--------------------------------------------------------------------------------
(* Pool *)

\* closeClient ends every session of the connection.
Cut == [h \in Holders |-> IF sess[h] = "ok" THEN "dead" ELSE sess[h]]

Slots == {h \in Holders : sess[h] # "none"}
HasSlot == ~closed /\ Cardinality(Slots) < MaxSessions

\* Who may take Pool.mu: anybody, or the one who has it and waits.
Free(h) == inside \subseteq {h}

\* DialContext looks at the context; the handshake that follows does not.
Expired(h, ctx) == ctx \in cancelled /\ ~(h \in inside /\ client = "nil")

\* Session, past its checks: a channel on the connection there is; or, when
\* there is none, when it is broken, or when the host refuses a channel on a
\* connection that works, a channel on a new one that replaces it.
SessionOK(h, ctx) ==
  /\ HasSlot /\ Free(h) /\ host = "up" /\ client' = "ok"
  /\ \/ client = "ok" /\ sess' = [sess EXCEPT ![h] = "ok"] /\ UNCHANGED faults
     \/ /\ ~Expired(h, ctx) /\ sess' = [Cut EXCEPT ![h] = "ok"]
        /\ IF client = "ok" THEN Fault ELSE UNCHANGED faults
  /\ idle' = FALSE /\ inside' = {}
  /\ UNCHANGED <<closed, host>>

\* ErrPoolClosed and ErrPoolExhausted; a host that is away, or a context that
\* was cancelled before the dial; and a call that fails with the host there:
\* the handshake or the login, or once more the channel or the keepalive after
\* a repair, which leaves the new connection in its place.
SessionFails(h, ctx) ==
  /\ Free(h) /\ inside' = {}
  /\ \/ ~HasSlot /\ UNCHANGED <<client, sess, faults>>
     \/ /\ HasSlot /\ client # "ok" /\ (host = "down" \/ Expired(h, ctx))
        /\ client' = "nil" /\ sess' = Cut /\ UNCHANGED faults
     \/ /\ HasSlot /\ host = "up" /\ Fault
        /\ client' \in {"nil"} \cup IF Expired(h, ctx) THEN {} ELSE {"ok", "broken"}
        /\ sess' = Cut
  /\ UNCHANGED <<idle, closed, host>>

\* NewClientConn, NewSession and SendRequest have no deadline and do not look
\* at the context: the caller waits for a silent host, with the mutex.
SessionHangs(h, ctx) ==
  /\ HasSlot /\ inside = {} /\ host = "silent"
  /\ client = "ok" \/ ctx \notin cancelled
  /\ inside' = {h}
  /\ client' = (IF client = "ok" THEN "ok" ELSE "nil")
  /\ UNCHANGED <<sess, idle, closed, host, faults>>

\* Mutant: the user closes the session himself, and the pool keeps the slot.
PutClosed(h) ==
  /\ inside = {}
  /\ UNCHANGED <<client, sess, idle, closed, inside>>

Put(h) ==
  /\ inside = {}
  /\ sess' = [sess EXCEPT ![h] = "none"]
  /\ UNCHANGED <<client, idle, closed, inside>>

\* Mutant: sessions in use are not looked at.
SweepAlways ==
  /\ inside = {} /\ ~closed /\ client # "nil" /\ idle
  /\ client' = "nil" /\ sess' = Cut
  /\ UNCHANGED <<mgr, prober, lock, fails, chain, rs, idle, closed, inside, host, faults>>

\* sweepIdle, with the lock held.
Sweep ==
  /\ inside = {} /\ ~closed /\ client # "nil" /\ Slots = {} /\ idle
  /\ client' = "nil" /\ sess' = Cut
  /\ UNCHANGED <<mgr, prober, lock, fails, chain, rs, idle, closed, inside, host, faults>>

\* Pool.Close forgets the sessions.
PoolClose ==
  /\ inside = {} /\ ~closed /\ closed' = TRUE
  /\ client' = "nil" /\ sess' = [h \in Holders |-> "none"]
  /\ UNCHANGED <<mgr, prober, lock, fails, chain, rs, idle, inside, host, faults>>

\* Another operation asks for a session, with a context of its own that is not
\* cancelled, and gives it back after its command.
UserAsks(u) ==
  /\ sess[u] = "none"
  /\ SessionOK(u, 0) \/ SessionFails(u, 0) \/ SessionHangs(u, 0)
  /\ UNCHANGED <<mgr, prober, lock, fails, chain, rs>>

UserPuts(u) ==
  /\ sess[u] # "none" /\ Put(u)
  /\ UNCHANGED <<mgr, prober, lock, fails, chain, rs, host, faults>>

--------------------------------------------------------------------------------
(* Reconnector.Execute and handleReconnect *)

At(c, from) == chain[c].pc = from
Goto(c, to) == chain' = [chain EXCEPT ![c].pc = to]

Begin(c) ==
  /\ At(c, "begin") /\ Goto(c, "session")
  /\ rs' = [attempts |-> IF rs.attempts < MaxAttempts THEN rs.attempts + 1 ELSE MaxAttempts,
            phase |-> "probing"]
  /\ UNCHANGED <<mgr, prober, lock, fails, pool, host, faults>>

\* The attempt has failed: the state says so, the prober goes on, and the
\* attempt is repeated after the delay, in its own goroutine.
Failed(c) ==
  /\ rs' = [rs EXCEPT !.phase = "failed"]
  /\ chain' = [chain EXCEPT ![c] = [@ EXCEPT !.pc = "wait", !.sync = FALSE]]
  /\ lock' = IF chain[c].sync THEN 0 ELSE lock
  /\ prober' = IF chain[c].sync THEN [prober EXCEPT ![chain[c].ctx] = "loop"] ELSE prober

GetSession(c) ==
  /\ At(c, "session")
  /\ \/ /\ SessionOK(c, chain[c].ctx) /\ Goto(c, "docker")
        /\ rs' = [rs EXCEPT !.phase = "reconnecting"]
        /\ UNCHANGED <<prober, lock>>
     \/ SessionFails(c, chain[c].ctx) /\ Failed(c)
     \/ SessionHangs(c, chain[c].ctx) /\ UNCHANGED <<chain, rs, prober, lock>>
  /\ UNCHANGED <<mgr, fails>>

\* A command fails with its session or its context.
CommandFails(c) == sess[c] # "ok" \/ chain[c].ctx \in cancelled

\* The first command, which may also fail by itself.  A silent host does not
\* let Start return; once it has returned, the context ends the wait.
CheckDocker(c) ==
  /\ At(c, "docker")
  /\ \/ /\ sess[c] = "ok" /\ host # "silent" /\ Goto(c, "verify")
        /\ rs' = [rs EXCEPT !.phase = "verifying"]
        /\ UNCHANGED <<prober, lock, pool, faults>>
     \/ /\ Failed(c) /\ Put(c)
        /\ \/ CommandFails(c) /\ UNCHANGED faults
           \/ sess[c] = "ok" /\ host # "silent" /\ Fault
  /\ UNCHANGED <<mgr, fails, host>>

\* The second command, in the same session, which accepts only one: it always
\* fails to start, and what follows in Execute is never reached.
CheckContainers(c) ==
  /\ At(c, "verify") /\ Failed(c) /\ Put(c)
  /\ UNCHANGED <<mgr, fails, host, faults>>

\* Mutant: the context is looked at by the prober only.
RetryAlways(c) ==
  /\ At(c, "wait") /\ Goto(c, "begin")
  /\ UNCHANGED <<mgr, prober, lock, fails, rs, pool, host, faults>>

\* The delay is over and the context is not, or the context is.
Retry(c) ==
  /\ At(c, "wait") /\ chain[c].ctx \notin cancelled /\ Goto(c, "begin")
  /\ UNCHANGED <<mgr, prober, lock, fails, rs, pool, host, faults>>

ChainEnds(c) ==
  /\ At(c, "wait") /\ chain[c].ctx \in cancelled
  /\ chain' = [chain EXCEPT ![c] = Rest]
  /\ UNCHANGED <<mgr, prober, lock, fails, rs, pool, host, faults>>

--------------------------------------------------------------------------------
(* The surroundings *)

Outage ==
  /\ host # "down" /\ Fault /\ host' = "down"
  /\ client' = IF client = "ok" THEN "broken" ELSE client
  /\ sess' = Cut
  /\ UNCHANGED <<mgr, prober, lock, fails, chain, rs, idle, closed, inside>>

Silence ==
  /\ host = "up" /\ Fault /\ host' = "silent"
  /\ UNCHANGED <<mgr, prober, lock, fails, chain, rs, pool>>

Return ==
  /\ host # "up" /\ host' = "up"
  /\ UNCHANGED <<mgr, prober, lock, fails, chain, rs, pool, faults>>

\* The pool has not been used for idleTimeout.
Pass ==
  /\ ~idle /\ idle' = TRUE
  /\ UNCHANGED <<mgr, prober, lock, fails, chain, rs, client, sess, closed, inside, host, faults>>

ChainStep(c) == Begin(c) \/ GetSession(c) \/ CheckDocker(c) \/ CheckContainers(c)

Next ==
  \/ Start \/ Stop
  \/ \E g \in Contexts : RunEnds(g) \/ GoroutineEnds(g) \/ ProbeOK(g) \/ ProbeFails(g)
  \/ \E g \in Contexts, c \in Chains : Trigger(g, c)
  \/ \E c \in Chains : ChainStep(c) \/ Retry(c) \/ ChainEnds(c)
  \/ \E u \in Users : UserAsks(u) \/ UserPuts(u)
  \/ Sweep \/ PoolClose \/ Outage \/ Silence \/ Return \/ Pass

Spec == Init /\ [][Next]_vars

\* Goroutines run, and a select that often finds the context done takes it.  Of
\* a host that is not silent it is assumed that it answers or refuses, and that
\* its commands end; the code bounds only the TCP connection, and the context
\* only that and the wait for a command.  Nothing is assumed of a silence.
Answered(A) == host # "silent" /\ A
Fairness ==
  /\ \A g \in Contexts : SF_vars(RunEnds(g)) /\ WF_vars(GoroutineEnds(g))
  /\ \A c \in Chains : WF_vars(Answered(ChainStep(c))) /\ WF_vars(ChainEnds(c))
  /\ \A u \in Users : WF_vars(Answered(u \in inside /\ UserAsks(u)))
FairSpec == Spec /\ Fairness

--------------------------------------------------------------------------------
(* Properties *)

\* A slot is in use only while its user is: every way out of Execute gives the
\* session back, so that the pool is never exhausted for good.
SlotsReturned ==
  \A c \in Chains : sess[c] # "none" => chain[c].pc \in {"docker", "verify"}

\* A session that works ends before its user returns it only in a step in
\* which something outside fails: an outage, or a channel that the host
\* refuses to somebody else, for which Session closes the connection of all
\* (pool.go:98).  The sweeper, the replacement of a connection that is gone
\* and a caller whose dial fails cost nobody a session.
KeepSessions ==
  \A h \in Holders : sess[h] = "ok" /\ sess'[h] = "dead" => faults' = faults + 1
SessionsKept == [][KeepSessions]_vars

\* What Stop cancels ends: the prober, and every chain of repetitions that it
\* has started, at whatever point of an attempt they are, unless the host has
\* fallen silent: then an attempt waits for it, with Pool.mu and, when the
\* prober has called it, with Prober.mu, for as long as the silence lasts.
StopEnds ==
  \A g \in Contexts :
    g \in cancelled ~> \/ prober[g] = "done" /\ \A c \in Chains : chain[c].ctx # g
                       \/ host = "silent"
================================================================================
