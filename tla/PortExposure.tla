------------------------------ MODULE PortExposure ------------------------------
(***************************************************************************)
(* Exposing a local service under a public subdomain.  Three entry points  *)
(* create an ExposedPort and two remove one; each is a straight-line       *)
(* request handler whose steps interleave with those of other requests:    *)
(*                                                                         *)
(*   PortCreators  POST   /api/ports         daemon/api_ports.go           *)
(*   ApiCreators   POST   /v1/routes         api/adapters/adapters.go      *)
(*   Exposers      POST   /v1/routes/expose  routes/expose.go              *)
(*   PortRemovers  DELETE /api/ports/{id}    daemon/api_ports.go           *)
(*   ApiRemovers   DELETE /v1/routes/{id}    api/adapters/adapters.go      *)
(*                                                                         *)
(* They share the configuration's ExposedPorts (one atomic cfgMgr.Update   *)
(* per change, see ConfigStore), Caddy's route list on the VPS, the DNS    *)
(* zone and the local TCP proxies.  A request is named by an element of    *)
(* the set of its entry point; the UUID a creator draws is its own name.   *)
(***************************************************************************)
EXTENDS Naturals, Sequences, FiniteSets, SequencesExt

CONSTANTS PortCreators, ApiCreators, Exposers, PortRemovers, ApiRemovers,
          Subs,         \* requested subdomains (HostHeader)
          Hosts,        \* public host names
          Fqdn,         \* the host built from a subdomain and the DNS zone
          NoHost,       \* a Caddy route without a host matcher
          NoSub,        \* a request that has not named a subdomain yet
          NoId,         \* the id of nothing
          ForeignRoutes,\* host-less routes Caddy already had, first in its list
          MaxInFlight,  \* bound: requests being served at the same time
          MaxFaults,    \* bound: failed file writes and remote calls
          MaxRestarts   \* bound: exits of the daemon

Creators == PortCreators \cup ApiCreators \cup Exposers
Removers == PortRemovers \cup ApiRemovers
Requests == Creators \cup Removers

ASSUME ExposureAssumption ==
  /\ Creators \cap Removers = {}
  /\ PortCreators \cap ApiCreators = {}
  /\ Exposers \cap (PortCreators \cup ApiCreators) = {}
  /\ PortRemovers \cap ApiRemovers = {}
  /\ Fqdn \in [Subs -> Hosts]
  /\ NoHost \notin Hosts /\ NoSub \notin Subs /\ NoId \notin Requests
  /\ {ForeignRoutes, MaxInFlight, MaxFaults, MaxRestarts} \subseteq Nat

VARIABLES ports,        \* cfg.ExposedPorts
          caddy,        \* routes of Caddy's srv0, in order
          dns,          \* hosts with a record in the zone
          listening,    \* ids whose LocalTCPProxy runs
          proxies,      \* keys of PortsHandler.proxies
          tunnelUp,     \* cfg.Tunnel.Status = "connected"
          pc,
          sub,          \* the subdomain a request works on
          status,       \* "active" or "error"
          dnsMade,      \* dnsRecordCreated
          dup,          \* Update's callback found the subdomain taken
          target,       \* a remover's port: id, snapshot index, named by id?
          faults, restarts

vars == <<ports, caddy, dns, listening, proxies, tunnelUp, pc, sub, status,
          dnsMade, dup, target, faults, restarts>>

\* Variables by the part of the system that owns them.
remote == <<caddy, dns>>
local  == <<listening, proxies>>
env    == <<tunnelUp, restarts>>
req    == <<sub, status, dnsMade, dup, target>>

Port  == [id : Creators, sub : Subs, status : {"active", "error"}]
Route == [host : Hosts \cup {NoHost}, id : Creators \cup {NoId}]
Target == [id : Creators \cup {NoId}, idx : Nat, named : BOOLEAN]
NoTarget == [id |-> NoId, idx |-> 0, named |-> TRUE]

\* A handler that has answered, and with what.
Answered == {"created", "partial", "conflict", "failed", "removed", "gone"}
Busy == {"route", "dns", "commit", "upsert", "undoRoute", "undoDns",
         "unroute", "undns", "stop", "uncommit"}

TypeOK ==
  /\ ports \in Seq(Port)
  /\ caddy \in Seq(Route)
  /\ dns \subseteq Hosts
  /\ listening \subseteq Creators
  /\ proxies \subseteq Creators
  /\ tunnelUp \in BOOLEAN
  /\ pc \in [Requests -> {"idle"} \cup Busy \cup Answered]
  /\ sub \in [Requests -> Subs \cup {NoSub}]
  /\ status \in [Requests -> {"active", "error"}]
  /\ dnsMade \in [Requests -> BOOLEAN]
  /\ dup \in [Requests -> BOOLEAN]
  /\ target \in [Requests -> Target]
  /\ faults \in 0..MaxFaults
  /\ restarts \in 0..MaxRestarts

Init ==
  /\ ports = <<>>
  /\ caddy = [i \in 1..ForeignRoutes |-> [host |-> NoHost, id |-> NoId]]
  /\ dns = {} /\ listening = {} /\ proxies = {}
  /\ tunnelUp = TRUE
  /\ pc = [r \in Requests |-> "idle"]
  /\ sub = [r \in Requests |-> NoSub]
  /\ status = [r \in Requests |-> "active"]
  /\ dnsMade = [r \in Requests |-> FALSE]
  /\ dup = [r \in Requests |-> FALSE]
  /\ target = [r \in Requests |-> NoTarget]
  /\ faults = 0 /\ restarts = 0

--------------------------------------------------------------------------------
(* Helpers *)

\* The subdomain is taken, in the configuration at hand.
Taken(s) == \E i \in DOMAIN ports : ports[i].sub = s

\* Position of the port with this id, 0 if there is none.
IndexOf(id) == SelectInSeq(ports, LAMBDA p : p.id = id)

\* CaddyClient.RemoveRoute: listRoutesLocked keeps only the routes with a host;
\* the position of the first match in that list is the index that is deleted.
RouteIndex(h) ==
  LET first == SelectInSeq(caddy, LAMBDA e : e.host = h)
  IN  Cardinality({j \in 1..first : caddy[j].host # NoHost})
RemoveRoute(h) ==
  caddy' = IF RouteIndex(h) = 0 THEN caddy ELSE RemoveAt(caddy, RouteIndex(h))

Fault == faults < MaxFaults /\ faults' = faults + 1
NoFault == UNCHANGED faults

InFlight == {r \in Requests : pc[r] \in Busy}

Begin(r, to) ==
  /\ pc[r] = "idle"
  /\ Cardinality(InFlight) < MaxInFlight
  /\ pc' = [pc EXCEPT ![r] = to]

Goto(r, from, to) == pc[r] = from /\ pc' = [pc EXCEPT ![r] = to]

--------------------------------------------------------------------------------
(* Creating *)

\* The guards and early returns before anything is touched: such a request
\* leaves no trace, and its name may serve another one.
Refuse(r) ==
  /\ \/ r \in Creators /\ ~tunnelUp
     \/ r \in ApiCreators \cup Exposers /\ \E s \in Subs : Taken(s)
  /\ pc[r] = "idle"
  /\ UNCHANGED <<ports, remote, local, env, pc, req, faults>>

\* LocalTCPProxy.Start: a listener that lives until Stop, not until the end of
\* the request.  Only handleCreate keeps the proxy.
StartProxy(r) ==
  /\ listening' = listening \cup {r}
  /\ proxies' = IF r \in PortCreators THEN proxies \cup {r} ELSE proxies

\* handleCreate and RouteAdapter.Create start the local proxy; only the
\* latter looks for the subdomain first.
StartCreate(r, s) ==
  /\ r \in PortCreators \cup ApiCreators
  /\ tunnelUp
  /\ r \in ApiCreators => ~Taken(s)
  /\ sub' = [sub EXCEPT ![r] = s]
  /\ \/ Begin(r, "route") /\ NoFault /\ StartProxy(r)
     \/ Begin(r, "failed") /\ Fault /\ UNCHANGED local   \* px.Start failed
  /\ UNCHANGED <<ports, remote, env, status, dnsMade, dup, target>>

\* HandleExpose: no proxy, no Caddy route; the configuration comes first.
StartExpose(r, s) ==
  /\ r \in Exposers
  /\ tunnelUp /\ ~Taken(s)
  /\ Begin(r, "commit")
  /\ sub' = [sub EXCEPT ![r] = s]
  /\ UNCHANGED <<ports, remote, local, env, status, dnsMade, dup, target, faults>>

\* CaddyClient.AddRoute.  An error may also be the loss of a good answer.
AddRoute(r) ==
  /\ pc[r] = "route"
  /\ LET new == Append(caddy, [host |-> Fqdn[sub[r]], id |-> r])
     IN \/ caddy' = new /\ NoFault /\ Goto(r, "route", "dns") /\ UNCHANGED status
        \/ /\ caddy' \in {caddy, new} /\ Fault /\ Goto(r, "route", "commit")
           /\ status' = [status EXCEPT ![r] = "error"]
  /\ UNCHANGED <<ports, dns, local, env, sub, dnsMade, dup, target>>

\* Mutant: the record is created under the bare subdomain.
CreateRecordBare(r) ==
  /\ Goto(r, "dns", "commit")
  /\ dns' = dns \cup {sub[r]} /\ NoFault
  /\ dnsMade' = [dnsMade EXCEPT ![r] = TRUE]
  /\ UNCHANGED <<ports, caddy, local, env, sub, status, dup, target>>

\* DNSManager.CreateRecord: idempotent, an existing record is a success.
CreateRecord(r) ==
  /\ Goto(r, "dns", "commit")
  /\ LET new == dns \cup {Fqdn[sub[r]]}
     IN \/ /\ dns' = new /\ NoFault /\ UNCHANGED status
           /\ dnsMade' = [dnsMade EXCEPT ![r] = TRUE]
        \/ /\ dns' \in {dns, new} /\ Fault /\ UNCHANGED dnsMade
           /\ status' = [status EXCEPT ![r] = "error"]
  /\ UNCHANGED <<ports, caddy, local, env, sub, dup, target>>

NewPort(r) == [id |-> r, sub |-> sub[r], status |-> status[r]]

Stored(r) == IF status[r] = "active" THEN "created" ELSE "partial"

\* Mutant: no duplicate check inside the lock.
CommitUnchecked(r) ==
  /\ r \in PortCreators \cup ApiCreators
  /\ \/ /\ NoFault /\ Goto(r, "commit", Stored(r))
        /\ ports' = Append(ports, NewPort(r))
     \/ Fault /\ Goto(r, "commit", "undoRoute") /\ UNCHANGED ports
  /\ UNCHANGED <<remote, local, env, req>>

\* Mutant: the callback returns without telling the handler of the duplicate.
CommitSilentDup(r) ==
  /\ r \in PortCreators \cup ApiCreators
  /\ \/ /\ NoFault /\ Goto(r, "commit", Stored(r))
        /\ ports' = IF Taken(sub[r]) THEN ports ELSE Append(ports, NewPort(r))
     \/ Fault /\ Goto(r, "commit", "undoRoute") /\ UNCHANGED ports
  /\ UNCHANGED <<remote, local, env, req>>

\* cfgMgr.Update with the duplicate check inside the write lock.
Commit(r) ==
  /\ r \in PortCreators \cup ApiCreators
  /\ \/ /\ ~Taken(sub[r]) /\ NoFault /\ Goto(r, "commit", Stored(r))
        /\ ports' = Append(ports, NewPort(r))
        /\ UNCHANGED dup
     \/ /\ Taken(sub[r]) /\ NoFault /\ Goto(r, "commit", "undoRoute")
        /\ dup' = [dup EXCEPT ![r] = TRUE]
        /\ UNCHANGED ports
     \/ Fault /\ Goto(r, "commit", "undoRoute") /\ UNCHANGED <<ports, dup>>
  /\ UNCHANGED <<remote, local, env, sub, status, dnsMade, target>>

\* The rollback of a lost race or a failed save; errors are ignored.
UndoRoute(r) ==
  /\ Goto(r, "undoRoute", "undoDns")
  /\ \/ RemoveRoute(Fqdn[sub[r]]) /\ NoFault
     \/ UNCHANGED caddy /\ Fault
  /\ UNCHANGED <<ports, dns, local, env, req>>

UndoDns(r) ==
  /\ Goto(r, "undoDns", IF dup[r] THEN "conflict" ELSE "failed")
  /\ \/ dns' = (IF dnsMade[r] THEN dns \ {Fqdn[sub[r]]} ELSE dns) /\ NoFault
     \/ dnsMade[r] /\ UNCHANGED dns /\ Fault
  /\ UNCHANGED <<ports, caddy, local, env, req>>

\* HandleExpose: a duplicate found inside the lock is skipped in silence.
CommitExpose(r) ==
  /\ r \in Exposers
  /\ \/ /\ ~Taken(sub[r]) /\ NoFault /\ Goto(r, "commit", "upsert")
        /\ ports' = Append(ports, NewPort(r))
     \/ Taken(sub[r]) /\ NoFault /\ Goto(r, "commit", "upsert") /\ UNCHANGED ports
     \/ Fault /\ Goto(r, "commit", "failed") /\ UNCHANGED ports
  /\ UNCHANGED <<remote, local, env, req>>

\* The daemon's dnsAdapter only logs.  An error of another DNSCreator rolls
\* the entry back by id.
UpsertRecord(r) ==
  /\ \/ Goto(r, "upsert", "created") /\ NoFault /\ UNCHANGED ports
     \/ /\ Goto(r, "upsert", "failed") /\ Fault
        /\ \/ ports' = IF IndexOf(r) = 0 THEN ports ELSE RemoveAt(ports, IndexOf(r))
           \/ UNCHANGED ports              \* the rollback's save failed too
  /\ UNCHANGED <<remote, local, env, req>>

--------------------------------------------------------------------------------
(* Removing *)

\* Find the target in the snapshot Get() returned: by id, or for the daemon's
\* own API also by position ("port-N").
StartRemove(r, i, named) ==
  /\ r \in Removers /\ i \in DOMAIN ports
  /\ named \/ r \in PortRemovers
  /\ Begin(r, "unroute")
  /\ target' = [target EXCEPT ![r] = [id |-> ports[i].id, idx |-> i, named |-> named]]
  /\ sub' = [sub EXCEPT ![r] = ports[i].sub]
  /\ UNCHANGED <<ports, remote, local, env, status, dnsMade, dup, faults>>

NotFound(r) ==
  /\ r \in Removers
  /\ pc[r] = "idle"
  /\ UNCHANGED <<ports, remote, local, env, pc, req, faults>>

Unroute(r) ==
  /\ Goto(r, "unroute", "undns")
  /\ \/ RemoveRoute(Fqdn[sub[r]]) /\ NoFault
     \/ UNCHANGED caddy /\ Fault
  /\ UNCHANGED <<ports, dns, local, env, req>>

DeleteRecord(r) ==
  /\ Goto(r, "undns", IF r \in PortRemovers THEN "stop" ELSE "uncommit")
  /\ \/ dns' = dns \ {Fqdn[sub[r]]} /\ NoFault
     \/ UNCHANGED dns /\ Fault
  /\ UNCHANGED <<ports, caddy, local, env, req>>

\* proxies is keyed by the id in the URL: "port-N" is never a key.
StopProxy(r) ==
  /\ Goto(r, "stop", "uncommit")
  /\ LET gone == IF target[r].named THEN {target[r].id} \cap proxies ELSE {}
     IN  listening' = listening \ gone /\ proxies' = proxies \ gone
  /\ UNCHANGED <<ports, remote, env, req, faults>>

\* Mutant: every remover falls back to the index of its snapshot.
RemovalIndexByPosition(r) ==
  LET found == IndexOf(target[r].id)
  IN  IF found # 0 THEN found
      ELSE IF target[r].idx \in DOMAIN ports THEN target[r].idx ELSE 0

\* The index that Update's callback removes: found again by id, else (only in
\* handleRemove) the index of the snapshot.
RemovalIndex(r) ==
  LET found == IF target[r].named THEN IndexOf(target[r].id) ELSE 0
  IN  IF found # 0 THEN found
      ELSE IF r \in PortRemovers /\ target[r].idx \in DOMAIN ports
           THEN target[r].idx ELSE 0

Uncommit(r) ==
  /\ r \in Removers
  /\ \/ /\ Goto(r, "uncommit", "removed") /\ NoFault
        /\ ports' = IF RemovalIndex(r) = 0 THEN ports
                    ELSE RemoveAt(ports, RemovalIndex(r))
     \/ Goto(r, "uncommit", "failed") /\ Fault /\ UNCHANGED ports
  /\ UNCHANGED <<remote, local, env, req>>

--------------------------------------------------------------------------------
\* Connect, Disconnect and the watchdog change the status at any time.
TunnelChange ==
  /\ tunnelUp' = ~tunnelUp
  /\ UNCHANGED <<ports, remote, local, pc, req, faults, restarts>>

\* The daemon exits or dies and starts again: requests in progress, with all
\* they had, and the proxies are gone, and nothing that runs at the start brings
\* them back.
Cleared(f, v) == [r \in Requests |-> IF pc[r] \in Busy THEN v ELSE f[r]]
Restart ==
  /\ restarts < MaxRestarts /\ restarts' = restarts + 1
  /\ listening' = {} /\ proxies' = {}
  /\ pc' = Cleared(pc, "gone")
  /\ sub' = Cleared(sub, NoSub) /\ status' = Cleared(status, "active")
  /\ dnsMade' = Cleared(dnsMade, FALSE) /\ dup' = Cleared(dup, FALSE)
  /\ target' = Cleared(target, NoTarget)
  /\ UNCHANGED <<ports, remote, tunnelUp, faults>>

\* The steps of a create, in the order of pc.
CreateStep(r) ==
  \/ Refuse(r)
  \/ \E s \in Subs : StartCreate(r, s) \/ StartExpose(r, s)
  \/ AddRoute(r) \/ CreateRecord(r) \/ Commit(r) \/ UndoRoute(r) \/ UndoDns(r)
  \/ CommitExpose(r) \/ UpsertRecord(r)

\* The steps of a delete.
RemoveStep(r) ==
  \/ \E i \in DOMAIN ports, named \in BOOLEAN : StartRemove(r, i, named)
  \/ NotFound(r) \/ Unroute(r) \/ DeleteRecord(r) \/ StopProxy(r) \/ Uncommit(r)

Next ==
  \/ TunnelChange \/ Restart
  \/ \E r \in Creators : CreateStep(r)
  \/ \E r \in Removers : RemoveStep(r)

Spec == Init /\ [][Next]_vars

--------------------------------------------------------------------------------
(* Properties *)

Ids(ps) == {ps[i].id : i \in DOMAIN ps}

\* No two ExposedPorts carry the same HostHeader, whichever entry points the
\* creating requests came through and however their steps interleave: each
\* Update repeats the duplicate check on the configuration it is changing.
UniqueSubdomains ==
  \A i, j \in DOMAIN ports : ports[i].sub = ports[j].sub => i = j

\* DELETE /api/ports falls back to the index of its snapshot: the request was
\* for a position, or the id it was for is not stored any more.
Guesses(r) ==
  r \in PortRemovers /\ (target[r].named => target[r].id \notin Ids(ports))

\* A port leaves the configuration only through its own rollback, a delete that
\* found it by its id, or a DELETE /api/ports that has lost its port and takes
\* what stands at the index it remembers.
OnlyTargetsLeave ==
  [][\A id \in Ids(ports) \ Ids(ports') :
        \E r \in Requests :
          /\ pc'[r] # pc[r]
          /\ \/ r = id
             \/ r \in Removers /\ target[r].id = id
             \/ Guesses(r) /\ ports[target[r].idx].id = id]_vars

\* Another request has taken the port r is for: a delete, or the port's own
\* rollback in HandleExpose.
Beaten(r) ==
  \/ target[r].id \in Exposers /\ pc[target[r].id] = "failed"
  \/ \E q \in Removers \ {r} : pc[q] = "removed"

\* A create through handleCreate or RouteAdapter.Create that was answered 201 is
\* in the configuration until a delete for it succeeds, or a DELETE /api/ports
\* that was for a position, or was beaten to its own port, takes it instead.
\* (HandleExpose also answers 201 when Update's callback found the subdomain
\* taken.)
AcceptedStored ==
  \A c \in Creators \ Exposers : pc[c] = "created" =>
     \/ c \in Ids(ports)
     \/ \E r \in Removers :
          /\ pc[r] = "removed"
          /\ \/ target[r].id = c
             \/ r \in PortRemovers /\ (target[r].named => Beaten(r))
================================================================================
