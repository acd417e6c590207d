--------------------------- MODULE PortExposureProofs ---------------------------
(***************************************************************************)
(* What PortExposure guarantees for every set of requests and every number *)
(* of failing calls.  For every interleaving: no two exposed ports share a *)
(* subdomain; a port leaves the configuration only through its own         *)
(* rollback, a delete that found it by id, or a DELETE /api/ports that has *)
(* lost its own port; and an accepted create stays stored until then.  For *)
(* requests served one at a time: an active port has its route, its record *)
(* and its proxy, or a failure to blame; and no route dials a stopped      *)
(* proxy until a call fails.                                               *)
(***************************************************************************)
EXTENDS PortExposure, SequenceTheorems, FiniteSetTheorems, WellFoundedInduction, TLAPS

--------------------------------------------------------------------------------
(* Sequences *)

\* Min of a nonempty set of naturals is its least member.
LEMMA MinIsLeast ==
  ASSUME NEW S \in SUBSET Nat, S # {}
  PROVE  Min(S) \in S /\ \A y \in S : Min(S) <= y
<1> DEFINE R == {ss \in Nat \X Nat : ss[1] < ss[2]}
<1>1. IsWellFoundedOn(R, Nat)
  BY NatLessThanWellFounded, Zenon DEF OpToRel
<1>2. \A x, y \in Nat : y < x => <<y, x>> \in R
  OBVIOUS
<1> HIDE DEF R
<1>3. PICK x \in S : \A y \in S : ~(<<y, x>> \in R)
  BY <1>1, WFMin
<1>4. \A y \in S : ~(y < x)
  BY <1>2, <1>3, Zenon
<1>5. \A y \in S : x <= y
  BY <1>4
<1> QED
  BY <1>5 DEF Min

\* IndexOf finds a port with the id, if it does not return 0.
LEMMA IndexOfProperties ==
  ASSUME NEW id, ports \in Seq(Port)
  PROVE  IndexOf(id) = 0 \/ (IndexOf(id) \in DOMAIN ports /\ ports[IndexOf(id)].id = id)
<1> DEFINE I == {i \in 1..Len(ports) : ports[i].id = id}
<1>1. IndexOf(id) = IF I # {} THEN Min(I) ELSE 0
  BY DEF IndexOf, SelectInSeq
<1>2. I \in SUBSET Nat /\ \A i \in I : i \in DOMAIN ports /\ ports[i].id = id
  OBVIOUS
<1> HIDE DEF I
<1> QED
  BY <1>1, <1>2, MinIsLeast

\* If some port has the id, IndexOf does not return 0.
LEMMA IndexOfFinds ==
  ASSUME NEW id, ports \in Seq(Port), NEW i \in DOMAIN ports, ports[i].id = id
  PROVE  IndexOf(id) \in DOMAIN ports
<1> DEFINE I == {j \in 1..Len(ports) : ports[j].id = id}
<1>1. IndexOf(id) = IF I # {} THEN Min(I) ELSE 0
  BY DEF IndexOf, SelectInSeq
<1>2. I \in SUBSET Nat /\ i \in I /\ I \subseteq DOMAIN ports
  OBVIOUS
<1> HIDE DEF I
<1> QED
  BY <1>1, <1>2, MinIsLeast

\* The index that CaddyClient.RemoveRoute deletes exists.
LEMMA RouteIndexProperties ==
  ASSUME NEW h, caddy \in Seq(Route)
  PROVE  RouteIndex(h) \in {0} \cup DOMAIN caddy
<1> DEFINE I == {i \in 1..Len(caddy) : caddy[i].host = h}
           first == IF I # {} THEN Min(I) ELSE 0
           J == {j \in 1..first : caddy[j].host # NoHost}
<1>1. RouteIndex(h) = Cardinality(J)
  BY DEF RouteIndex, SelectInSeq
<1>2. I \in SUBSET Nat /\ \A i \in I : i <= Len(caddy)
  OBVIOUS
<1>3. first \in Nat /\ first <= Len(caddy)
  <2> HIDE DEF I
  <2>1. Len(caddy) \in Nat
    OBVIOUS
  <2>2. CASE I # {}
    <3>1. Min(I) \in I
      BY <1>2, <2>2, MinIsLeast
    <3>2. Min(I) \in Nat /\ Min(I) <= Len(caddy)
      BY <1>2, <3>1, Zenon
    <3> QED
      BY <2>2, <3>2
  <2>3. CASE I = {}
    BY <2>1, <2>3
  <2> QED
    BY <2>2, <2>3
<1>4. J \subseteq 1..first
  OBVIOUS
<1> HIDE DEF first, J
<1>5. IsFiniteSet(1..first) /\ Cardinality(1..first) = first
  BY <1>3, FS_Interval
<1>6. Cardinality(J) \in Nat /\ Cardinality(J) <= first
  BY <1>4, <1>5, FS_Subset, FS_CardinalityType
<1> QED
  BY <1>1, <1>3, <1>6

\* RemoveAt keeps the other elements, in order.
LEMMA RemoveAtProperties ==
  ASSUME NEW S, NEW s \in Seq(S), NEW k \in DOMAIN s
  PROVE  /\ RemoveAt(s, k) \in Seq(S)
         /\ Len(RemoveAt(s, k)) = Len(s) - 1
         /\ \A i \in 1..(Len(s) - 1) : RemoveAt(s, k)[i] = s[IF i < k THEN i ELSE i + 1]
<1>1. k \in 1..Len(s) /\ \A i \in 1..Len(s) : s[i] \in S
  OBVIOUS
<1> DEFINE a == SubSeq(s, 1, k - 1)
           b == SubSeq(s, k + 1, Len(s))
<1>2. a \in Seq(S) /\ Len(a) = k - 1 /\ \A i \in 1..(k - 1) : a[i] = s[i]
  BY <1>1, SubSeqProperties
<1>3. b \in Seq(S) /\ Len(b) = Len(s) - k /\ \A i \in 1..(Len(s) - k) : b[i] = s[k + i]
  BY <1>1, SubSeqProperties
<1>4. RemoveAt(s, k) = a \o b
  BY DEF RemoveAt
<1> HIDE DEF a, b
<1>5. Len(a) + Len(b) = Len(s) - 1
  BY <1>1, <1>2, <1>3
<1>6. a \o b \in Seq(S) /\ Len(a \o b) = Len(a) + Len(b)
  BY <1>2, <1>3, ConcatProperties
<1>7. \A i \in 1..(Len(a) + Len(b)) : (a \o b)[i] = IF i <= Len(a) THEN a[i] ELSE b[i - Len(a)]
  BY <1>2, <1>3, ConcatProperties, Zenon
<1>8. \A i \in 1..(Len(s) - 1) : (a \o b)[i] = s[IF i < k THEN i ELSE i + 1]
  <2> SUFFICES ASSUME NEW i \in 1..(Len(s) - 1)
               PROVE  (a \o b)[i] = s[IF i < k THEN i ELSE i + 1]
    OBVIOUS
  <2>1. CASE i < k
    BY <1>1, <1>2, <1>5, <1>7, <2>1
  <2>2. CASE ~(i < k)
    <3>1. (a \o b)[i] = b[i - (k - 1)]
      <4>1. i \in 1..(Len(a) + Len(b)) /\ ~(i <= Len(a)) /\ Len(a) = k - 1
        BY <1>1, <1>2, <1>5, <2>2
      <4> QED
        BY <1>7, <4>1
    <3>2. i - (k - 1) \in 1..(Len(s) - k)
      BY <1>1, <2>2
    <3>3. b[i - (k - 1)] = s[k + (i - (k - 1))]
      BY <1>3, <3>2
    <3> QED
      BY <1>1, <2>2, <3>1, <3>3
  <2> QED
    BY <2>1, <2>2
<1> QED
  BY <1>4, <1>5, <1>6, <1>8
--------------------------------------------------------------------------------
(* The inductive invariant *)

\* A request that is being served works on a subdomain.
NamedInv == \A r \in Requests : pc[r] \in Busy => sub[r] \in Subs

Inv == TypeOK /\ NamedInv /\ UniqueSubdomains

LEMMA InitInv == Init => Inv
<1> SUFFICES ASSUME Init PROVE Inv
  OBVIOUS
<1>1. caddy \in Seq(Route)
  <2>1. ForeignRoutes \in Nat
    BY ExposureAssumption
  <2> QED
    BY <2>1 DEF Init, Route
<1>2. target \in [Requests -> Target] /\ faults \in 0..MaxFaults /\ restarts \in 0..MaxRestarts
  BY ExposureAssumption DEF Init, Target, NoTarget
<1>3. /\ ports \in Seq(Port) /\ dns \subseteq Hosts /\ listening \subseteq Creators
      /\ proxies \subseteq Creators /\ tunnelUp \in BOOLEAN
  BY DEF Init
<1>4. /\ pc \in [Requests -> {"idle"} \cup Busy \cup Answered]
      /\ sub \in [Requests -> Subs \cup {NoSub}] /\ status \in [Requests -> {"active", "error"}]
      /\ dnsMade \in [Requests -> BOOLEAN] /\ dup \in [Requests -> BOOLEAN]
  BY DEF Init
<1>5. TypeOK
  BY <1>1, <1>2, <1>3, <1>4 DEF TypeOK
<1>6. NamedInv /\ UniqueSubdomains
  BY DEF Init, NamedInv, UniqueSubdomains, Busy
<1> QED
  BY <1>5, <1>6 DEF Inv

\* The three ways the configuration's ports change: not at all, by a port
\* whose subdomain was free when Update's callback looked, or by losing one.
Added == \E r \in Creators : /\ ~Taken(sub[r]) /\ NewPort(r) \in Port
                             /\ ports' = Append(ports, NewPort(r))
Removed == \E k \in DOMAIN ports : ports' = RemoveAt(ports, k)
PortsChange == ports' = ports \/ Added \/ Removed

\* Every step keeps the ports well formed and their subdomains distinct.
LEMMA PortsChangeInv ==
  ASSUME TypeOK, UniqueSubdomains, PortsChange
  PROVE  ports' \in Seq(Port) /\ UniqueSubdomains'
<1>1. CASE ports' = ports
  BY <1>1 DEF TypeOK, UniqueSubdomains
<1>2. CASE Added
  <2>1. PICK r \in Creators : /\ ~Taken(sub[r]) /\ NewPort(r) \in Port
                              /\ ports' = Append(ports, NewPort(r))
    BY <1>2 DEF Added
  <2>2. /\ ports' \in Seq(Port) /\ Len(ports') = Len(ports) + 1
        /\ \A i \in 1..Len(ports) : ports'[i] = ports[i]
        /\ ports'[Len(ports) + 1] = NewPort(r)
    BY <2>1, AppendProperties DEF TypeOK
  <2>3. NewPort(r).sub = sub[r] /\ \A i \in 1..Len(ports) : ports[i].sub # sub[r]
    BY <2>1 DEF NewPort, Taken, TypeOK
  <2>4. \A i, j \in 1..(Len(ports) + 1) : ports'[i].sub = ports'[j].sub => i = j
    <3>1. \A i, j \in 1..Len(ports) : ports[i].sub = ports[j].sub => i = j
      BY DEF UniqueSubdomains, TypeOK
    <3>2. \A i \in 1..(Len(ports) + 1) : i \in 1..Len(ports) \/ i = Len(ports) + 1
      BY DEF TypeOK
    <3> QED
      BY <2>2, <2>3, <3>1, <3>2, Zenon
  <2>5. DOMAIN ports' = 1..(Len(ports) + 1)
    BY <2>2
  <2> QED
    BY <2>2, <2>4, <2>5 DEF UniqueSubdomains
<1>3. CASE Removed
  <2>1. PICK k \in DOMAIN ports : ports' = RemoveAt(ports, k)
    BY <1>3 DEF Removed
  <2>2. /\ ports' \in Seq(Port) /\ Len(ports') = Len(ports) - 1
        /\ \A i \in 1..(Len(ports) - 1) : ports'[i] = ports[IF i < k THEN i ELSE i + 1]
    BY <2>1, RemoveAtProperties DEF TypeOK
  <2> DEFINE old(i) == IF i < k THEN i ELSE i + 1
  <2>3. \A i \in 1..(Len(ports) - 1) : old(i) \in DOMAIN ports
    BY DEF TypeOK
  <2>4. \A i, j \in 1..(Len(ports) - 1) : old(i) = old(j) => i = j
    BY DEF TypeOK
  <2>5. DOMAIN ports' = 1..(Len(ports) - 1) /\ \A i \in DOMAIN ports' : ports'[i] = ports[old(i)]
    <3>1. DOMAIN ports' = 1..(Len(ports) - 1)
      BY <2>2
    <3> QED
      BY <2>2, <3>1, Zenon
  <2> HIDE DEF old
  <2>6. ASSUME NEW i \in DOMAIN ports', NEW j \in DOMAIN ports', ports'[i].sub = ports'[j].sub
        PROVE  i = j
    <3>1. ports[old(i)].sub = ports[old(j)].sub
      BY <2>5, <2>6
    <3>2. old(i) = old(j)
      BY <2>3, <2>5, <3>1 DEF UniqueSubdomains
    <3> QED
      BY <2>4, <2>5, <3>2
  <2> QED
    BY <2>2, <2>6 DEF UniqueSubdomains
<1> QED
  BY <1>1, <1>2, <1>3 DEF PortsChange

\* The same for Caddy's routes.
LEMMA RemoveRouteType ==
  ASSUME TypeOK, NEW h, RemoveRoute(h)
  PROVE  caddy' \in Seq(Route)
BY RouteIndexProperties, RemoveAtProperties DEF TypeOK, RemoveRoute

\* A request takes a port out through IndexOf or RemovalIndex only.
LEMMA RemovalIndexProperties ==
  ASSUME TypeOK, NEW r \in Removers
  PROVE  RemovalIndex(r) \in {0} \cup DOMAIN ports
BY IndexOfProperties DEF TypeOK, RemovalIndex

\* The parts of TypeOK besides ports and caddy.
ProgressType ==
  /\ pc \in [Requests -> {"idle"} \cup Busy \cup Answered]
  /\ faults \in 0..MaxFaults
PlatformType ==
  /\ dns \subseteq Hosts /\ tunnelUp \in BOOLEAN /\ restarts \in 0..MaxRestarts
  /\ listening \subseteq Creators /\ proxies \subseteq Creators
LocalsType ==
  /\ sub \in [Requests -> Subs \cup {NoSub}] /\ status \in [Requests -> {"active", "error"}]
  /\ dnsMade \in [Requests -> BOOLEAN] /\ dup \in [Requests -> BOOLEAN]
  /\ target \in [Requests -> Target]

Kept == /\ PortsChange /\ caddy' \in Seq(Route)
        /\ ProgressType' /\ PlatformType' /\ LocalsType' /\ NamedInv'

\* The early returns.
LEMMA RefuseKept ==
  ASSUME Inv, NEW r \in Creators, Refuse(r)
  PROVE  Kept
<1> USE ExposureAssumption DEF Inv, Creators, Removers, Requests, Refuse
<1>1. PortsChange
  BY DEF PortsChange
<1>2. caddy' \in Seq(Route)
  BY DEF TypeOK, remote
<1>3. ProgressType'
  BY DEF TypeOK, ProgressType, Begin, Busy, Answered, Fault, NoFault
<1>4. PlatformType'
  BY DEF TypeOK, PlatformType, remote, local, env
<1>5. LocalsType'
  BY DEF TypeOK, LocalsType, req
<1>6. NamedInv'
  BY DEF TypeOK, NamedInv, Begin, Busy, Answered, req
<1> QED
  BY <1>1, <1>2, <1>3, <1>4, <1>5, <1>6 DEF Kept

\* A create passes its guards.
LEMMA StartCreateKept ==
  ASSUME Inv, NEW r \in Creators, NEW x \in Subs, StartCreate(r, x)
  PROVE  Kept
<1> USE ExposureAssumption DEF Inv, Creators, Removers, Requests, StartCreate, StartProxy
<1>1. PortsChange
  BY DEF PortsChange
<1>2. caddy' \in Seq(Route)
  BY DEF TypeOK, remote
<1>3. ProgressType'
  BY DEF TypeOK, ProgressType, Begin, Busy, Answered, Fault, NoFault
<1>4. PlatformType'
  BY DEF TypeOK, PlatformType, remote, local, env
<1>5. LocalsType'
  BY DEF TypeOK, LocalsType, req
<1>6. NamedInv'
  BY DEF TypeOK, NamedInv, Begin, Busy, Answered, req
<1> QED
  BY <1>1, <1>2, <1>3, <1>4, <1>5, <1>6 DEF Kept

\* An expose passes its guards.
LEMMA StartExposeKept ==
  ASSUME Inv, NEW r \in Creators, NEW x \in Subs, StartExpose(r, x)
  PROVE  Kept
<1> USE ExposureAssumption DEF Inv, Creators, Removers, Requests, StartExpose
<1>1. PortsChange
  BY DEF PortsChange
<1>2. caddy' \in Seq(Route)
  BY DEF TypeOK, remote
<1>3. ProgressType'
  BY DEF TypeOK, ProgressType, Begin, Busy, Answered, Fault, NoFault
<1>4. PlatformType'
  BY DEF TypeOK, PlatformType, remote, local, env
<1>5. LocalsType'
  BY DEF TypeOK, LocalsType, req
<1>6. NamedInv'
  BY DEF TypeOK, NamedInv, Begin, Busy, Answered, req
<1> QED
  BY <1>1, <1>2, <1>3, <1>4, <1>5, <1>6 DEF Kept

\* AddRoute.
LEMMA AddRouteKept ==
  ASSUME Inv, NEW r \in Creators, AddRoute(r)
  PROVE  Kept
<1> USE ExposureAssumption DEF Inv, Creators, Removers, Requests, AddRoute
<1>1. PortsChange
  BY DEF PortsChange
<1>2. caddy' \in Seq(Route)
  <2>1. [host |-> Fqdn[sub[r]], id |-> r] \in Route
    BY DEF TypeOK, NamedInv, Busy, Route
  <2>2. Append(caddy, [host |-> Fqdn[sub[r]], id |-> r]) \in Seq(Route)
    BY <2>1, AppendProperties DEF TypeOK
  <2> QED
    BY <2>2 DEF TypeOK
<1>3. ProgressType'
  <2>1. pc' \in [Requests -> {"idle"} \cup Busy \cup Answered]
    <3>1. \E to \in {"dns", "commit"} : pc' = [pc EXCEPT ![r] = to]
      BY DEF Goto
    <3> QED
      BY <3>1 DEF TypeOK, Busy
  <2>2. faults' \in 0..MaxFaults
    BY DEF TypeOK, Fault, NoFault
  <2> QED
    BY <2>1, <2>2 DEF ProgressType
<1>4. PlatformType'
  BY DEF TypeOK, PlatformType, remote, local, env
<1>5. LocalsType'
  BY DEF TypeOK, LocalsType, req
<1>6. NamedInv'
  BY DEF TypeOK, NamedInv, Goto, Busy, Answered, req
<1> QED
  BY <1>1, <1>2, <1>3, <1>4, <1>5, <1>6 DEF Kept

\* CreateRecord.
LEMMA CreateRecordKept ==
  ASSUME Inv, NEW r \in Creators, CreateRecord(r)
  PROVE  Kept
<1> USE ExposureAssumption DEF Inv, Creators, Removers, Requests, CreateRecord
<1>1. PortsChange
  BY DEF PortsChange
<1>2. caddy' \in Seq(Route)
  BY DEF TypeOK, remote
<1>3. ProgressType'
  BY DEF TypeOK, ProgressType, Goto, Busy, Answered, Fault, NoFault
<1>4. PlatformType'
  BY DEF TypeOK, NamedInv, PlatformType, Goto, Busy, local, env
<1>5. LocalsType'
  BY DEF TypeOK, LocalsType, req
<1>6. NamedInv'
  BY DEF TypeOK, NamedInv, Goto, Busy, Answered, req
<1> QED
  BY <1>1, <1>2, <1>3, <1>4, <1>5, <1>6 DEF Kept

\* The Updates that store a port.
LEMMA CommitKept ==
  ASSUME Inv, NEW r \in Creators, Commit(r) \/ CommitExpose(r)
  PROVE  Kept
<1> USE ExposureAssumption DEF Inv, Creators, Removers, Requests, Commit, CommitExpose
<1>1. PortsChange
  <2>1. NewPort(r) \in Port
    BY DEF Goto, TypeOK, NamedInv, NewPort, Busy, Port
  <2> QED
    BY <2>1 DEF PortsChange, Added
<1>2. caddy' \in Seq(Route)
  BY DEF TypeOK, remote
<1>3. ProgressType'
  <2>1. pc' \in [Requests -> {"idle"} \cup Busy \cup Answered]
    BY DEF TypeOK, Goto, Busy, Answered, Stored
  <2>2. faults' \in 0..MaxFaults
    BY DEF TypeOK, Fault, NoFault
  <2> QED
    BY <2>1, <2>2 DEF ProgressType
<1>4. PlatformType'
  BY DEF TypeOK, PlatformType, remote, local, env
<1>5. LocalsType'
  BY DEF TypeOK, LocalsType, req
<1>6. NamedInv'
  BY DEF TypeOK, NamedInv, Goto, Stored, Busy, Answered, req
<1> QED
  BY <1>1, <1>2, <1>3, <1>4, <1>5, <1>6 DEF Kept

\* The rollback of a create.
LEMMA UndoKept ==
  ASSUME Inv, NEW r \in Creators, UndoRoute(r) \/ UndoDns(r)
  PROVE  Kept
<1> USE ExposureAssumption DEF Inv, Creators, Removers, Requests, UndoRoute, UndoDns
<1>1. PortsChange
  BY DEF PortsChange
<1>2. caddy' \in Seq(Route)
  BY RemoveRouteType DEF TypeOK
<1>3. ProgressType'
  <2>1. pc' \in [Requests -> {"idle"} \cup Busy \cup Answered]
    <3>1. \E to \in {"undoDns", "conflict", "failed"} : pc' = [pc EXCEPT ![r] = to]
      BY DEF Goto
    <3> HIDE DEF Inv, Creators, Removers, Requests, UndoRoute, UndoDns
    <3>2. pc \in [Requests -> {"idle"} \cup Busy \cup Answered]
      BY DEF Inv, TypeOK
    <3> QED
      BY <3>1, <3>2 DEF Busy, Answered
  <2>2. faults' \in 0..MaxFaults
    BY DEF TypeOK, Fault, NoFault
  <2> QED
    BY <2>1, <2>2 DEF ProgressType
<1>4. PlatformType'
  BY DEF TypeOK, PlatformType, remote, local, env
<1>5. LocalsType'
  BY DEF TypeOK, LocalsType, req
<1>6. NamedInv'
  BY DEF TypeOK, NamedInv, Goto, Busy, Answered, req
<1> QED
  BY <1>1, <1>2, <1>3, <1>4, <1>5, <1>6 DEF Kept

\* HandleExpose's last step and its rollback.
LEMMA UpsertRecordKept ==
  ASSUME Inv, NEW r \in Creators, UpsertRecord(r)
  PROVE  Kept
<1> USE ExposureAssumption DEF Inv, Creators, Removers, Requests, UpsertRecord
<1>1. PortsChange
  BY IndexOfProperties DEF TypeOK, PortsChange, Removed
<1>2. caddy' \in Seq(Route)
  BY DEF TypeOK, remote
<1>3. ProgressType'
  <2>1. pc' \in [Requests -> {"idle"} \cup Busy \cup Answered]
    <3>1. \E to \in {"created", "failed"} : pc' = [pc EXCEPT ![r] = to]
      BY DEF Goto
    <3> HIDE DEF Inv, Creators, Removers, Requests, UpsertRecord
    <3>2. pc \in [Requests -> {"idle"} \cup Busy \cup Answered]
      BY DEF Inv, TypeOK
    <3> QED
      BY <3>1, <3>2 DEF Answered
  <2>2. faults' \in 0..MaxFaults
    BY DEF TypeOK, Fault, NoFault
  <2> QED
    BY <2>1, <2>2 DEF ProgressType
<1>4. PlatformType'
  BY DEF TypeOK, PlatformType, remote, local, env
<1>5. LocalsType'
  BY DEF TypeOK, LocalsType, req
<1>6. NamedInv'
  BY DEF TypeOK, NamedInv, Goto, Busy, Answered, req
<1> QED
  BY <1>1, <1>2, <1>3, <1>4, <1>5, <1>6 DEF Kept

\* A delete does not find its port.
LEMMA NotFoundKept ==
  ASSUME Inv, NEW r \in Removers, NotFound(r)
  PROVE  Kept
<1> USE ExposureAssumption DEF Inv, Creators, Removers, Requests, NotFound
<1>1. PortsChange
  BY DEF PortsChange
<1>2. caddy' \in Seq(Route)
  BY DEF TypeOK, remote
<1>3. ProgressType'
  BY DEF TypeOK, ProgressType, Begin, Busy, Answered, Fault, NoFault
<1>4. PlatformType'
  BY DEF TypeOK, PlatformType, remote, local, env
<1>5. LocalsType'
  BY DEF TypeOK, LocalsType, req
<1>6. NamedInv'
  BY DEF TypeOK, NamedInv, Begin, Busy, Answered, req
<1> QED
  BY <1>1, <1>2, <1>3, <1>4, <1>5, <1>6 DEF Kept

\* A delete finds its port.
LEMMA StartRemoveKept ==
  ASSUME Inv, NEW r \in Removers, NEW i \in DOMAIN ports, NEW named \in BOOLEAN, StartRemove(r, i, named)
  PROVE  Kept
<1> USE ExposureAssumption DEF Inv, Creators, Removers, Requests, StartRemove
<1>1. PortsChange
  BY DEF PortsChange
<1>2. caddy' \in Seq(Route)
  BY DEF TypeOK, remote
<1>3. ProgressType'
  BY DEF TypeOK, ProgressType, Begin, Busy, Answered, Fault, NoFault
<1>4. PlatformType'
  BY DEF TypeOK, PlatformType, remote, local, env
<1>5. LocalsType'
  <2>1. ports[i] \in Port /\ i \in Nat
    BY DEF TypeOK
  <2> QED
    BY <2>1 DEF TypeOK, LocalsType, Port, Target
<1>6. NamedInv'
  <2>1. ports[i] \in Port
    BY DEF TypeOK
  <2> QED
    BY <2>1 DEF TypeOK, NamedInv, Begin, Busy, Port
<1> QED
  BY <1>1, <1>2, <1>3, <1>4, <1>5, <1>6 DEF Kept

\* A delete's remote calls and the local proxy.
LEMMA UnrouteKept ==
  ASSUME Inv, NEW r \in Removers, Unroute(r) \/ DeleteRecord(r) \/ StopProxy(r)
  PROVE  Kept
<1> USE ExposureAssumption DEF Inv, Creators, Removers, Requests, Unroute, DeleteRecord, StopProxy
<1>1. PortsChange
  BY DEF PortsChange
<1>2. caddy' \in Seq(Route)
  BY RemoveRouteType DEF TypeOK, remote
<1>3. ProgressType'
  <2>1. pc' \in [Requests -> {"idle"} \cup Busy \cup Answered]
    <3>1. \E to \in {"undns", "stop", "uncommit"} : pc' = [pc EXCEPT ![r] = to]
      BY DEF Goto
    <3> HIDE DEF Inv, Creators, Removers, Requests, Unroute, DeleteRecord, StopProxy
    <3>2. pc \in [Requests -> {"idle"} \cup Busy \cup Answered]
      BY DEF Inv, TypeOK
    <3> QED
      BY <3>1, <3>2 DEF Busy, Answered
  <2>2. faults' \in 0..MaxFaults
    BY DEF TypeOK, Fault, NoFault
  <2> QED
    BY <2>1, <2>2 DEF ProgressType
<1>4. PlatformType'
  BY DEF TypeOK, PlatformType, remote, local, env
<1>5. LocalsType'
  BY DEF TypeOK, LocalsType, req
<1>6. NamedInv'
  BY DEF TypeOK, NamedInv, Goto, Busy, Answered, req
<1> QED
  BY <1>1, <1>2, <1>3, <1>4, <1>5, <1>6 DEF Kept

\* The Update that removes a port.
LEMMA UncommitKept ==
  ASSUME Inv, NEW r \in Removers, Uncommit(r)
  PROVE  Kept
<1> USE ExposureAssumption DEF Inv, Creators, Removers, Requests, Uncommit
<1>1. PortsChange
  BY RemovalIndexProperties DEF PortsChange, Removed
<1>2. caddy' \in Seq(Route)
  BY DEF TypeOK, remote
<1>3. ProgressType'
  <2>1. pc' \in [Requests -> {"idle"} \cup Busy \cup Answered]
    <3>1. \E to \in {"removed", "failed"} : pc' = [pc EXCEPT ![r] = to]
      BY DEF Goto
    <3> HIDE DEF Inv, Creators, Removers, Requests, Uncommit
    <3>2. pc \in [Requests -> {"idle"} \cup Busy \cup Answered]
      BY DEF Inv, TypeOK
    <3> QED
      BY <3>1, <3>2 DEF Busy, Answered
  <2>2. faults' \in 0..MaxFaults
    BY DEF TypeOK, Fault, NoFault
  <2> QED
    BY <2>1, <2>2 DEF ProgressType
<1>4. PlatformType'
  BY DEF TypeOK, PlatformType, remote, local, env
<1>5. LocalsType'
  BY DEF TypeOK, LocalsType, req
<1>6. NamedInv'
  BY DEF TypeOK, NamedInv, Goto, Busy, Answered, req
<1> QED
  BY <1>1, <1>2, <1>3, <1>4, <1>5, <1>6 DEF Kept

\* The tunnel's status changes.
LEMMA TunnelChangeKept ==
  ASSUME Inv, TunnelChange
  PROVE  Kept
<1> USE ExposureAssumption DEF Inv, Creators, Removers, Requests, TunnelChange
<1>1. PortsChange
  BY DEF PortsChange
<1>2. caddy' \in Seq(Route)
  BY DEF TypeOK, remote
<1>3. ProgressType'
  BY DEF TypeOK, ProgressType
<1>4. PlatformType'
  BY DEF TypeOK, PlatformType, remote, local, env
<1>5. LocalsType'
  BY DEF TypeOK, LocalsType, req
<1>6. NamedInv'
  BY DEF NamedInv, req
<1> QED
  BY <1>1, <1>2, <1>3, <1>4, <1>5, <1>6 DEF Kept

\* The daemon restarts.
LEMMA RestartKept ==
  ASSUME Inv, Restart
  PROVE  Kept
<1> USE ExposureAssumption DEF Inv, Restart
<1>1. PortsChange
  BY DEF PortsChange
<1>2. caddy' \in Seq(Route)
  BY DEF TypeOK, remote
<1>3. ProgressType'
  BY DEF TypeOK, ProgressType, Answered, Cleared
<1>4. PlatformType'
  BY DEF TypeOK, PlatformType, remote
<1>5. LocalsType'
  <2>1. NoTarget \in Target
    BY DEF NoTarget, Target
  <2> QED
    BY <2>1 DEF TypeOK, LocalsType, Cleared
<1>6. NamedInv'
  BY DEF TypeOK, NamedInv, Busy, Cleared
<1> QED
  BY <1>1, <1>2, <1>3, <1>4, <1>5, <1>6 DEF Kept

\* Inv is inductive.
LEMMA NextInv == Inv /\ [Next]_vars => Inv'
<1> SUFFICES ASSUME Inv, [Next]_vars PROVE Inv'
  OBVIOUS
<1>1. CASE UNCHANGED vars
  BY <1>1 DEF vars, Inv, TypeOK, NamedInv, UniqueSubdomains
<1>2. CASE Next
  <2>1. ASSUME NEW r \in Creators, CreateStep(r) PROVE Kept
    BY <2>1, RefuseKept, StartCreateKept, StartExposeKept, AddRouteKept,
       CreateRecordKept, CommitKept,
       UndoKept, UpsertRecordKept DEF CreateStep
  <2>2. ASSUME NEW r \in Removers, RemoveStep(r) PROVE Kept
    BY <2>2, NotFoundKept, StartRemoveKept, UnrouteKept, UncommitKept DEF RemoveStep
  <2>3. Kept
    BY <1>2, <2>1, <2>2, TunnelChangeKept, RestartKept DEF Next
  <2>4. ports' \in Seq(Port) /\ UniqueSubdomains'
    BY <2>3, PortsChangeInv DEF Inv, Kept
  <2> QED
    BY <2>3, <2>4 DEF Inv, Kept, ProgressType, PlatformType, LocalsType, TypeOK
<1> QED
  BY <1>1, <1>2

LEMMA InvHolds == Spec => []Inv
BY InitInv, NextInv, PTL DEF Spec

\* Every handler leaves the shared and its own state well formed; in
\* particular the index RemoveRoute sends to Caddy always exists.
THEOREM TypeCorrect == Spec => []TypeOK
<1>1. Inv => TypeOK
  BY DEF Inv
<1> QED
  BY <1>1, InvHolds, PTL

\* However many creates race, through whichever entry points, the duplicate
\* check inside cfgMgr.Update keeps the subdomains of the stored ports
\* distinct.
THEOREM SubdomainsAreUnique == Spec => []UniqueSubdomains
<1>1. Inv => UniqueSubdomains
  BY DEF Inv
<1> QED
  BY <1>1, InvHolds, PTL
--------------------------------------------------------------------------------
(* Which ports leave the configuration *)

\* RemoveAt drops the id at its index and no other.
LEMMA RemoveAtIds ==
  ASSUME TypeOK, NEW k \in DOMAIN ports, ports' = RemoveAt(ports, k)
  PROVE  \A id \in Ids(ports) \ Ids(ports') : id = ports[k].id
<1>1. /\ DOMAIN ports' = 1..(Len(ports) - 1)
      /\ \A i \in 1..(Len(ports) - 1) : ports'[i] = ports[IF i < k THEN i ELSE i + 1]
  BY RemoveAtProperties DEF TypeOK
<1> SUFFICES ASSUME NEW i \in DOMAIN ports, i # k PROVE ports[i].id \in Ids(ports')
  BY DEF Ids
<1>2. CASE i < k
  <2>1. i \in DOMAIN ports' /\ ports'[i] = ports[i]
    BY <1>1, <1>2 DEF TypeOK
  <2> QED
    BY <2>1 DEF Ids
<1>3. CASE k < i
  <2>1. i - 1 \in 1..(Len(ports) - 1) /\ ~(i - 1 < k) /\ (i - 1) + 1 = i
    BY <1>3 DEF TypeOK
  <2>2. i - 1 \in DOMAIN ports' /\ ports'[i - 1] = ports[i]
    BY <1>1, <2>1
  <2> QED
    BY <2>2 DEF Ids
<1> QED
  BY <1>2, <1>3 DEF TypeOK

\* Append drops none and adds the id of the new port.
LEMMA AppendIds ==
  ASSUME TypeOK, NEW r \in Creators, NewPort(r) \in Port, ports' = Append(ports, NewPort(r))
  PROVE  Ids(ports) \subseteq Ids(ports') /\ r \in Ids(ports')
<1>1. /\ DOMAIN ports' = 1..(Len(ports) + 1)
      /\ \A i \in 1..Len(ports) : ports'[i] = ports[i]
      /\ ports'[Len(ports) + 1] = NewPort(r)
  BY AppendProperties DEF TypeOK
<1>2. Len(ports) + 1 \in DOMAIN ports' /\ \A i \in DOMAIN ports : i \in DOMAIN ports'
  BY <1>1 DEF TypeOK
<1>3. NewPort(r).id = r
  BY DEF NewPort
<1> QED
  BY <1>1, <1>2, <1>3 DEF Ids, TypeOK

\* Each request's part in a step that takes a port out of the configuration.
Leaves(id) ==
  \/ id \in Creators /\ pc[id] = "upsert" /\ pc'[id] = "failed"
  \/ \E r \in Removers :
       /\ target' = target /\ pc[r] = "uncommit" /\ pc'[r] = "removed"
       /\ target[r].id = id \/ (Guesses(r) /\ ports[target[r].idx].id = id)

LEMMA WhoLeaves ==
  ASSUME Inv, Next
  PROVE  \A id \in Ids(ports) \ Ids(ports') : Leaves(id)
<1> USE DEF Inv
<1>1. CASE ports' = ports
  BY <1>1 DEF Ids
<1>2. ASSUME NEW r \in Creators, Commit(r) \/ CommitExpose(r), ports' # ports
      PROVE  Ids(ports) \subseteq Ids(ports')
  <2>1. ports' = Append(ports, NewPort(r)) /\ NewPort(r) \in Port
    BY <1>2, ExposureAssumption DEF Commit, CommitExpose, Goto, TypeOK, NamedInv, NewPort,
       Busy, Port, Creators, Requests
  <2> QED
    BY <2>1, AppendIds
<1>3. ASSUME NEW r \in Creators, UpsertRecord(r), ports' # ports
      PROVE  \A id \in Ids(ports) \ Ids(ports') : Leaves(id)
  <2>1. /\ IndexOf(r) # 0 /\ ports' = RemoveAt(ports, IndexOf(r))
        /\ pc[r] = "upsert" /\ pc'[r] = "failed"
    BY <1>3 DEF UpsertRecord, Goto, TypeOK, Requests
  <2>2. IndexOf(r) \in DOMAIN ports /\ ports[IndexOf(r)].id = r
    BY <2>1, IndexOfProperties DEF TypeOK
  <2> QED
    BY <2>1, <2>2, RemoveAtIds DEF Leaves
<1>4. ASSUME NEW r \in Removers, Uncommit(r), ports' # ports
      PROVE  \A id \in Ids(ports) \ Ids(ports') : Leaves(id)
  <2>1. /\ RemovalIndex(r) # 0 /\ ports' = RemoveAt(ports, RemovalIndex(r))
        /\ pc[r] = "uncommit" /\ pc'[r] = "removed" /\ target' = target
    BY <1>4 DEF Uncommit, Goto, TypeOK, Requests, req
  <2>2. CASE target[r].named /\ IndexOf(target[r].id) # 0
    <3>1. RemovalIndex(r) = IndexOf(target[r].id)
      BY <2>2 DEF RemovalIndex
    <3>2. /\ IndexOf(target[r].id) \in DOMAIN ports
          /\ ports[IndexOf(target[r].id)].id = target[r].id
      BY <2>2, IndexOfProperties DEF TypeOK
    <3> QED
      BY <2>1, <3>1, <3>2, RemoveAtIds DEF Leaves
  <2>3. CASE ~target[r].named \/ IndexOf(target[r].id) = 0
    <3>1. /\ r \in PortRemovers /\ target[r].idx \in DOMAIN ports
          /\ RemovalIndex(r) = target[r].idx
      BY <2>1, <2>3 DEF RemovalIndex
    <3>2. Guesses(r)
      <4>1. CASE ~target[r].named
        BY <3>1, <4>1 DEF Guesses
      <4>2. CASE IndexOf(target[r].id) = 0
        <5>1. \A i \in DOMAIN ports : ports[i].id # target[r].id
          BY <4>2, IndexOfFinds DEF TypeOK
        <5>2. target[r].id \notin Ids(ports)
          BY <5>1 DEF Ids
        <5> QED
          BY <3>1, <5>2 DEF Guesses
      <4> QED
        BY <2>3, <4>1, <4>2
    <3>3. \A id \in Ids(ports) \ Ids(ports') : id = ports[target[r].idx].id
      BY <2>1, <3>1, RemoveAtIds
    <3> QED
      BY <2>1, <3>2, <3>3 DEF Leaves
  <2> QED
    BY <2>2, <2>3
<1>5. ASSUME ports' # ports
      PROVE  \/ \E r \in Creators : Commit(r) \/ CommitExpose(r) \/ UpsertRecord(r)
             \/ \E r \in Removers : Uncommit(r)
  BY <1>5 DEF Next, CreateStep, RemoveStep, TunnelChange, Restart, Refuse, StartCreate, StartProxy, StartExpose,
     AddRoute, CreateRecord, UndoRoute, UndoDns, StartRemove, NotFound, Unroute,
     DeleteRecord, StopProxy
<1> QED
  BY <1>1, <1>2, <1>3, <1>4, <1>5

\* A port leaves the configuration only through its own rollback, through a
\* delete that found it by its id, or through a DELETE /api/ports whose own port
\* is gone or was given as a position, and which then takes what stands at the
\* index of its snapshot.
THEOREM OnlyNamedPortsLeave == Spec => OnlyTargetsLeave
<1> DEFINE A == \A id \in Ids(ports) \ Ids(ports') :
                  \E r \in Requests :
                    /\ pc'[r] # pc[r]
                    /\ \/ r = id
                       \/ r \in Removers /\ target[r].id = id
                       \/ Guesses(r) /\ ports[target[r].idx].id = id
<1>1. Inv /\ [Next]_vars => [A]_vars
  <2> SUFFICES ASSUME Inv, Next PROVE A
    OBVIOUS
  <2>1. \A id \in Ids(ports) \ Ids(ports') : Leaves(id)
    BY WhoLeaves
  <2> SUFFICES ASSUME NEW id \in Ids(ports) \ Ids(ports')
               PROVE  \E r \in Requests :
                        /\ pc'[r] # pc[r]
                        /\ \/ r = id
                           \/ r \in Removers /\ target[r].id = id
                           \/ Guesses(r) /\ ports[target[r].idx].id = id
    OBVIOUS
  <2>2. Leaves(id)
    BY <2>1
  <2> QED
    BY <2>2 DEF Leaves, Requests
<1> QED
  BY <1>1, InvHolds, PTL DEF Spec, OnlyTargetsLeave

\* An answer is final, and so is the target of a delete that was answered.
LEMMA AnswersAreFinal ==
  ASSUME Inv, Next, NEW r \in Requests, pc[r] \in Answered
  PROVE  pc'[r] = pc[r] /\ target'[r] = target[r]
<1> USE DEF Inv, TypeOK, Begin, Goto, Answered, req
<1>1. ASSUME NEW c \in Creators, CreateStep(c) PROVE pc'[r] = pc[r] /\ target'[r] = target[r]
  BY <1>1 DEF CreateStep, Refuse, StartCreate, StartProxy, StartExpose, AddRoute, CreateRecord, Commit,
     UndoRoute, UndoDns, CommitExpose, UpsertRecord
<1>2. ASSUME NEW x \in Removers, RemoveStep(x) PROVE pc'[r] = pc[r] /\ target'[r] = target[r]
  BY <1>2 DEF RemoveStep, StartRemove, NotFound, Unroute, DeleteRecord, StopProxy, Uncommit
<1>3. CASE TunnelChange \/ Restart
  BY <1>3 DEF TunnelChange, Restart, Cleared, Busy
<1> QED
  BY <1>1, <1>2, <1>3 DEF Next

\* Only exposers reach the last step of HandleExpose.
LEMMA OnlyExposersUpsert ==
  ASSUME Inv, Next, \A r \in Requests \ Exposers : pc[r] # "upsert"
  PROVE  \A r \in Requests \ Exposers : pc'[r] # "upsert"
<1> TAKE q \in Requests \ Exposers
<1> USE DEF Inv, TypeOK, Begin, Goto
<1>1. ASSUME NEW c \in Creators, CreateStep(c) PROVE pc'[q] # "upsert"
  BY <1>1 DEF CreateStep, Refuse, StartCreate, StartProxy, StartExpose, AddRoute, CreateRecord, Commit, Stored,
     UndoRoute, UndoDns, CommitExpose, UpsertRecord
<1>2. ASSUME NEW x \in Removers, RemoveStep(x) PROVE pc'[q] # "upsert"
  BY <1>2 DEF RemoveStep, StartRemove, NotFound, Unroute, DeleteRecord, StopProxy, Uncommit
<1>3. CASE TunnelChange \/ Restart
  BY <1>3 DEF TunnelChange, Restart, Cleared
<1> QED
  BY <1>1, <1>2, <1>3 DEF Next

\* A create by anybody else is answered 201 by the step that stores its port.
LEMMA WhoIsCreated ==
  ASSUME Inv, Next, NEW c \in Creators \ Exposers, pc[c] \notin {"upsert", "created"},
         pc'[c] = "created"
  PROVE  c \in Ids(ports')
<1> USE DEF Inv, TypeOK, Begin, Goto
<1>1. Commit(c)
  <2>1. ASSUME NEW r \in Creators, CreateStep(r) PROVE Commit(c)
    BY <2>1 DEF CreateStep, Refuse, StartCreate, StartProxy, StartExpose, AddRoute, CreateRecord, Commit,
       UndoRoute, UndoDns, CommitExpose, UpsertRecord, Requests
  <2>2. ASSUME NEW r \in Removers, RemoveStep(r) PROVE FALSE
    BY <2>2, ExposureAssumption DEF RemoveStep, StartRemove, NotFound, Unroute, DeleteRecord, StopProxy,
       Uncommit, Requests
  <2>3. CASE TunnelChange \/ Restart
    BY <2>3 DEF TunnelChange, Restart, Cleared, Requests
  <2> QED
    BY <2>1, <2>2, <2>3 DEF Next
<1>2. ports' = Append(ports, NewPort(c))
  BY <1>1 DEF Commit, Requests
<1>3. NewPort(c) \in Port
  BY <1>1 DEF Commit, NamedInv, NewPort, Busy, Port, Creators, Requests
<1> QED
  BY <1>2, <1>3, AppendIds

\* A delete in progress keeps its target.
LEMMA TargetKept ==
  ASSUME Inv, Next, NEW r \in Removers, pc[r] \in Busy, pc'[r] \in Busy
  PROVE  target'[r] = target[r]
<1> USE DEF Inv, TypeOK, Begin, req, Requests
<1>1. ASSUME NEW c \in Creators, CreateStep(c) PROVE target'[r] = target[r]
  BY <1>1 DEF CreateStep, Refuse, StartCreate, StartProxy, StartExpose, AddRoute, CreateRecord, Commit,
     UndoRoute, UndoDns, CommitExpose, UpsertRecord
<1>2. ASSUME NEW x \in Removers, RemoveStep(x) PROVE target'[r] = target[r]
  BY <1>2 DEF RemoveStep, StartRemove, NotFound, Unroute, DeleteRecord, StopProxy, Uncommit, Busy
<1>3. CASE TunnelChange \/ Restart
  BY <1>3 DEF TunnelChange, Restart, Cleared, Busy
<1> QED
  BY <1>1, <1>2, <1>3 DEF Next

\* A delete that begins has just found its port.
LEMMA FoundAtStart ==
  ASSUME Inv, Next, NEW r \in Removers, pc[r] \notin Busy, pc'[r] \in Busy
  PROVE  target'[r].id \in Ids(ports')
<1> USE DEF Inv, TypeOK, Begin, Goto, Requests
<1>1. ASSUME NEW c \in Creators, CreateStep(c) PROVE FALSE
  BY <1>1, ExposureAssumption DEF CreateStep, Refuse, StartCreate, StartProxy, StartExpose, AddRoute,
     CreateRecord, Commit, Stored, UndoRoute, UndoDns, CommitExpose, UpsertRecord
<1>2. ASSUME NEW x \in Removers, RemoveStep(x) PROVE target'[r].id \in Ids(ports')
  <2>1. PICK i \in DOMAIN ports, named \in BOOLEAN : StartRemove(r, i, named)
    BY <1>2 DEF RemoveStep, NotFound, Unroute, DeleteRecord, StopProxy, Uncommit, Busy, StartRemove
  <2>2. target'[r].id = ports[i].id /\ ports' = ports
    BY <2>1 DEF StartRemove
  <2> QED
    BY <2>2 DEF Ids
<1>3. CASE TunnelChange \/ Restart
  BY <1>3 DEF TunnelChange, Restart, Cleared, Busy
<1> QED
  BY <1>1, <1>2, <1>3 DEF Next

\* What AcceptedStored needs to be inductive: a DELETE /api/ports in progress
\* whose port is not stored any more has been beaten to it.
Located ==
  \A r \in PortRemovers : pc[r] \in Busy => target[r].id \in Ids(ports) \/ Beaten(r)

AcceptedInv ==
  /\ AcceptedStored /\ Located
  /\ \A r \in Requests \ Exposers : pc[r] # "upsert"

\* To be beaten is final.
LEMMA BeatenLasts ==
  ASSUME Inv, Next, NEW r \in Removers, Beaten(r), target'[r] = target[r]
  PROVE  Beaten(r)'
BY AnswersAreFinal DEF Beaten, Answered, Requests, Creators

LEMMA LocatedKept ==
  ASSUME Inv, AcceptedInv, Next
  PROVE  Located'
<1> SUFFICES ASSUME NEW r \in PortRemovers, pc'[r] \in Busy, target'[r].id \notin Ids(ports')
             PROVE  Beaten(r)'
  BY DEF Located
<1>1. r \in Removers
  BY DEF Removers
<1>2. pc[r] \in Busy
  BY <1>1, FoundAtStart
<1>3. target'[r] = target[r]
  BY <1>1, <1>2, TargetKept
<1>4. CASE Beaten(r)
  BY <1>1, <1>3, <1>4, BeatenLasts
<1>5. CASE target[r].id \in Ids(ports)
  <2>1. Leaves(target[r].id)
    BY <1>3, <1>5, WhoLeaves
  <2>2. CASE target[r].id \in Creators /\ pc[target[r].id] = "upsert" /\ pc'[target[r].id] = "failed"
    BY <1>3, <2>2 DEF AcceptedInv, Beaten, Requests
  <2>3. ASSUME NEW q \in Removers, pc'[q] = "removed" PROVE Beaten(r)'
    <3>1. q # r
      BY <2>3 DEF Busy
    <3> QED
      BY <2>3, <3>1 DEF Beaten
  <2> QED
    BY <2>1, <2>2, <2>3 DEF Leaves
<1> QED
  BY <1>2, <1>4, <1>5 DEF AcceptedInv, Located

\* A delete that explains why c is not stored.
Blamed(c, r) ==
  /\ pc[r] = "removed"
  /\ target[r].id = c \/ (r \in PortRemovers /\ (target[r].named => Beaten(r)))

LEMMA AcceptedMeans ==
  AcceptedStored <=> \A c \in Creators \ Exposers : pc[c] = "created" =>
                        c \in Ids(ports) \/ \E r \in Removers : Blamed(c, r)
BY Zenon DEF AcceptedStored, Blamed

LEMMA AcceptedStep ==
  ASSUME Inv, AcceptedInv, Next
  PROVE  AcceptedInv'
<1>1. \A r \in Requests \ Exposers : pc'[r] # "upsert"
  BY OnlyExposersUpsert DEF AcceptedInv
<1>2. ASSUME NEW c \in Creators \ Exposers, pc'[c] = "created"
      PROVE  c \in Ids(ports') \/ \E r \in Removers : Blamed(c, r)'
  <2>1. CASE pc[c] # "created"
    BY <1>2, <2>1, WhoIsCreated DEF AcceptedInv, Requests
  <2>2. CASE pc[c] = "created" /\ c \in Ids(ports) /\ c \notin Ids(ports')
    <3>1. Leaves(c)
      BY <2>2, WhoLeaves
    <3>2. PICK r \in Removers :
            /\ target' = target /\ pc[r] = "uncommit" /\ pc'[r] = "removed"
            /\ target[r].id = c \/ (Guesses(r) /\ ports[target[r].idx].id = c)
      BY <1>2, <3>1 DEF Leaves
    <3>3. CASE target[r].id = c
      BY <3>2, <3>3 DEF Blamed
    <3>4. CASE Guesses(r)
      <4>1. r \in PortRemovers /\ (target[r].named => Beaten(r))
        BY <3>2, <3>4 DEF Guesses, AcceptedInv, Located, Busy
      <4>2. target[r].named => Beaten(r)'
        BY <3>2, <4>1, BeatenLasts
      <4> QED
        BY <3>2, <4>1, <4>2 DEF Blamed
    <3> QED
      BY <3>2, <3>3, <3>4
  <2>3. ASSUME pc[c] = "created", NEW r \in Removers, Blamed(c, r) PROVE Blamed(c, r)'
    <3>1. pc'[r] = "removed" /\ target'[r] = target[r]
      BY <2>3, AnswersAreFinal DEF Blamed, Answered, Requests
    <3>2. Beaten(r) => Beaten(r)'
      BY <3>1, BeatenLasts
    <3> QED
      BY <2>3, <3>1, <3>2 DEF Blamed
  <2> QED
    BY <2>1, <2>2, <2>3, AcceptedMeans DEF AcceptedInv
<1>3. AcceptedStored'
  BY <1>2, AcceptedMeans, Zenon DEF AcceptedStored, Blamed
<1> QED
  BY <1>1, <1>3, LocatedKept DEF AcceptedInv

LEMMA AcceptedFrame ==
  /\ Init => AcceptedInv
  /\ AcceptedInv /\ UNCHANGED vars => AcceptedInv'
  /\ AcceptedInv => AcceptedStored
<1>1. ASSUME Init PROVE AcceptedInv
  <2>1. \A r \in Requests : pc[r] = "idle"
    BY <1>1 DEF Init
  <2> QED
    BY <2>1 DEF AcceptedInv, AcceptedStored, Located, Busy, Creators, Removers, Requests
<1>2. ASSUME AcceptedInv, UNCHANGED vars PROVE AcceptedInv'
  BY <1>2 DEF AcceptedInv, AcceptedStored, Located, Beaten, vars, Ids
<1> QED
  BY <1>1, <1>2 DEF AcceptedInv

\* A create through either of the two handlers that start a proxy, once
\* answered 201, stays stored until a delete for it has succeeded, or a DELETE
\* /api/ports for a position or for a port that another request took first.
THEOREM AcceptedCreatesStayStored == Spec => []AcceptedStored
<1>1. Inv /\ AcceptedInv /\ [Next]_vars => AcceptedInv'
  BY AcceptedStep, AcceptedFrame
<1> QED
  BY <1>1, AcceptedFrame, InvHolds, PTL DEF Spec

--------------------------------------------------------------------------------
(* One request at a time *)

\* What the two properties of the routes need: requests that do not overlap, a
\* daemon that keeps running, a Caddy that serves nobody else, no expose
\* endpoint, and one host per subdomain.  Nothing in the code enforces it.
Serial ==
  /\ MaxInFlight = 1 /\ MaxRestarts = 0 /\ ForeignRoutes = 0 /\ Exposers = {}
  /\ \A s, t \in Subs : Fqdn[s] = Fqdn[t] => s = t

Quiescent == InFlight = {}

\* When no request is running, a port stored as "active" is published: Caddy
\* routes its host to its own proxy and the DNS record exists.  There are two
\* excuses: a delete of the port that failed half way, and a POST /api/ports
\* for its host that was rolled back, which takes away whatever route and
\* record the host has.
Served ==
  Quiescent => \A i \in DOMAIN ports :
    ports[i].status = "active" =>
      \/ /\ [host |-> Fqdn[ports[i].sub], id |-> ports[i].id] \in ToSet(caddy)
         /\ Fqdn[ports[i].sub] \in dns
         /\ ports[i].id \in listening
      \/ \E r \in Removers : target[r].id = ports[i].id /\ pc[r] = "failed"
      \/ \E c \in PortCreators : /\ pc[c] \in {"conflict", "failed"}
                                 /\ Fqdn[sub[c]] = Fqdn[ports[i].sub]

\* When no request is running and no call has failed, no Caddy route dials a
\* local proxy that has been stopped.
NoDeadRoute ==
  Quiescent /\ faults = 0 =>
    \A e \in ToSet(caddy) : e.id = NoId \/ e.id \in listening

Alone == \A q, r \in InFlight : q = r

\* A stored port is the port of a create that has been answered.
Known ==
  /\ \A p \in ToSet(ports) : p.sub = sub[p.id] /\ pc[p.id] \in Answered
  /\ \A r \in Requests : pc[r] # "upsert"

\* The snapshot of a delete is still true.
Aimed ==
  \A r \in Removers : pc[r] \in Busy =>
    /\ target[r].idx \in DOMAIN ports
    /\ ports[target[r].idx].id = target[r].id /\ ports[target[r].idx].sub = sub[r]
    /\ r \in ApiRemovers => target[r].named

\* How far a create has come.
OwnRoute(c) == [host |-> Fqdn[sub[c]], id |-> c]
Creating ==
  \A c \in Creators :
    /\ pc[c] \in {"route", "dns", "commit"} => c \in listening
    /\ pc[c] = "dns" => OwnRoute(c) \in ToSet(caddy)
    /\ pc[c] = "commit" /\ status[c] = "active" =>
         OwnRoute(c) \in ToSet(caddy) /\ Fqdn[sub[c]] \in dns
    /\ c \in ApiCreators /\ pc[c] \in Busy => ~Taken(sub[c])

\* Every route is that of a create which has begun.
Owned ==
  \A e \in ToSet(caddy) : /\ e.id \in Creators /\ pc[e.id] # "idle"
                          /\ e = OwnRoute(e.id) /\ e.host \in Hosts

\* Served, with the requests that are about to be an excuse.
Published(p) ==
  /\ [host |-> Fqdn[p.sub], id |-> p.id] \in ToSet(caddy)
  /\ Fqdn[p.sub] \in dns /\ p.id \in listening
Excused(p) ==
  \/ \E r \in Removers : target[r].id = p.id /\ pc[r] \in Busy \cup {"failed"}
  \/ \E c \in PortCreators : /\ pc[c] \in {"undoRoute", "undoDns", "conflict", "failed"}
                             /\ Fqdn[sub[c]] = Fqdn[p.sub]
Shown ==
  \A p \in ToSet(ports) : p.status = "active" => Published(p) \/ Excused(p)

\* While no call has failed: a host has one route, but for the one that a
\* create in progress has just appended.
Appended(c) == pc[c] \in {"dns", "commit", "undoRoute"}
DistinctUpTo(n) == \A i, j \in 1..n : caddy[i].host = caddy[j].host => i = j
OneRoute ==
  IF \E c \in Creators : Appended(c)
  THEN /\ Len(caddy) > 0 /\ DistinctUpTo(Len(caddy) - 1)
       /\ \A c \in Creators : Appended(c) => caddy[Len(caddy)] = OwnRoute(c)
  ELSE DistinctUpTo(Len(caddy))

\* The route of a host that no port has is that of a create in progress.
Backed ==
  \A i \in DOMAIN caddy :
    \/ \E p \in ToSet(ports) : Fqdn[p.sub] = caddy[i].host
    \/ pc[caddy[i].id] \in {"dns", "commit"} /\ i = Len(caddy)

\* A delete leaves no route of its host.
Unrouted ==
  \A r \in Removers : pc[r] \in {"undns", "stop", "uncommit"} =>
    \A e \in ToSet(caddy) : e.host # Fqdn[sub[r]]

\* A rollback follows the check that found the subdomain taken.
UndoTaken == \A c \in Creators : pc[c] = "undoRoute" => Taken(sub[c])
Listening == \A e \in ToSet(caddy) : e.id \in listening

RoutedParts == OneRoute /\ Backed /\ Unrouted /\ UndoTaken /\ Listening
Routed == faults = 0 => RoutedParts

SerialInv == Alone /\ Known /\ Aimed /\ Creating /\ Owned /\ Shown /\ Routed

--------------------------------------------------------------------------------
(* Serial: sequences *)

LEMMA RemoveAtSet ==
  ASSUME NEW S, NEW s \in Seq(S), NEW k \in DOMAIN s
  PROVE  /\ ToSet(RemoveAt(s, k)) \subseteq ToSet(s)
         /\ \A i \in DOMAIN s : i # k => s[i] \in ToSet(RemoveAt(s, k))
<1> DEFINE t == RemoveAt(s, k)
           old(i) == IF i < k THEN i ELSE i + 1
           new(i) == IF i < k THEN i ELSE i - 1
<1>0. /\ t \in Seq(S) /\ Len(t) = Len(s) - 1
      /\ \A i \in 1..(Len(s) - 1) : t[i] = s[old(i)]
  BY RemoveAtProperties, Zenon
<1> HIDE DEF t
<1>1. DOMAIN t = 1..(Len(s) - 1) /\ \A i \in DOMAIN t : t[i] = s[old(i)]
  BY <1>0
<1>2. \A i \in DOMAIN t : old(i) \in DOMAIN s
  BY <1>1
<1>3. \A i \in DOMAIN s : i # k => new(i) \in DOMAIN t /\ old(new(i)) = i
  BY <1>1
<1> HIDE DEF old, new
<1>4. \A i \in DOMAIN s : i # k => s[i] = t[new(i)] /\ new(i) \in DOMAIN t
  BY <1>1, <1>3
<1>5. ToSet(t) \subseteq ToSet(s)
  BY <1>1, <1>2 DEF ToSet
<1>6. \A i \in DOMAIN s : i # k => s[i] \in ToSet(t)
  BY <1>4 DEF ToSet
<1> QED
  BY <1>5, <1>6 DEF t

LEMMA AppendSet ==
  ASSUME NEW S, NEW s \in Seq(S), NEW x \in S
  PROVE  ToSet(Append(s, x)) = ToSet(s) \cup {x}
<1> DEFINE t == Append(s, x)
           n == Len(s) + 1
<1>1. /\ n \in Nat /\ DOMAIN t = 1..n /\ DOMAIN s = 1..Len(s) /\ Len(s) \in Nat
      /\ t[n] = x /\ \A i \in DOMAIN s : t[i] = s[i] /\ i \in DOMAIN t
  BY AppendProperties
<1> HIDE DEF t
<1>2. n \in DOMAIN t /\ \A i \in DOMAIN t : i \in DOMAIN s \/ i = n
  BY <1>1
<1> QED
  BY <1>1, <1>2, Zenon DEF ToSet, t

\* If every route has a host, RemoveRoute deletes the first one of its host.
LEMMA FirstRouteRemoved ==
  ASSUME caddy \in Seq(Route), \A i \in DOMAIN caddy : caddy[i].host # NoHost,
         NEW h, RemoveRoute(h)
  PROVE  \/ caddy' = caddy /\ \A e \in ToSet(caddy) : e.host # h
         \/ \E k \in DOMAIN caddy : caddy[k].host = h /\ caddy' = RemoveAt(caddy, k)
<1> DEFINE I == {i \in 1..Len(caddy) : caddy[i].host = h}
           first == IF I # {} THEN Min(I) ELSE 0
           J == {j \in 1..first : caddy[j].host # NoHost}
<1>1. RouteIndex(h) = Cardinality(J)
  BY DEF RouteIndex, SelectInSeq
<1>2. I \in SUBSET Nat /\ \A i \in I : i \in DOMAIN caddy /\ caddy[i].host = h
  OBVIOUS
<1>3. CASE I = {}
  <2>1. J = {}
    BY <1>3
  <2>2. RouteIndex(h) = 0
    BY <1>1, <2>1, FS_EmptySet
  <2> QED
    BY <1>3, <2>2 DEF RemoveRoute, ToSet
<1>4. CASE I # {}
  <2> HIDE DEF I
  <2>1. first \in I
    BY <1>2, <1>4, MinIsLeast
  <2>2. first \in DOMAIN caddy /\ caddy[first].host = h
    BY <1>2, <2>1
  <2> HIDE DEF first
  <2>3. J = 1..first
    BY <2>2
  <2>4. first \in Nat /\ first # 0
    BY <2>2
  <2>5. Cardinality(J) = first
    <3>1. Cardinality(1..first) = first
      BY <2>4, FS_Interval
    <3> QED
      BY <2>3, <2>4, <3>1
  <2> QED
    BY <1>1, <2>2, <2>4, <2>5 DEF RemoveRoute
<1> QED
  BY <1>3, <1>4

--------------------------------------------------------------------------------
(* Serial: who moves *)

LEMMA NobodyElse ==
  ASSUME Inv, Serial, Alone, NEW r \in Requests, NEW to, Begin(r, to)
  PROVE  \A q \in Requests : pc[q] \notin Busy
<1> SUFFICES ASSUME NEW q \in InFlight PROVE FALSE
  BY DEF InFlight
<1>1. InFlight = {q}
  BY DEF Alone
<1>2. Cardinality(InFlight) = 1
  BY <1>1, FS_Singleton
<1> QED
  BY <1>2 DEF Begin, Serial

LEMMA OneBusy ==
  ASSUME Alone, NEW r \in Requests, pc[r] \in Busy
  PROVE  \A q \in Requests : pc[q] \in Busy => q = r
BY DEF Alone, InFlight

\* The constants, and what an action can be.
LEMMA SerialConstants ==
  ASSUME Serial
  PROVE  /\ Creators = PortCreators \cup ApiCreators /\ Creators \cap Removers = {}
         /\ PortCreators \cap ApiCreators = {}
         /\ Creators \subseteq Requests /\ Removers \subseteq Requests
         /\ \A s \in Subs : Fqdn[s] \in Hosts /\ Fqdn[s] # NoHost
         /\ \A s, t \in Subs : Fqdn[s] = Fqdn[t] => s = t
BY ExposureAssumption DEF Serial, Creators, Removers, Requests

\* What no step takes back.
LEMMA RequestHistory ==
  ASSUME Inv, Serial, Known, Next
  PROVE  /\ ~Restart
         /\ \A r \in Creators : ~UpsertRecord(r) /\ ~CommitExpose(r)
         /\ \A r \in Creators, s \in Subs : ~StartExpose(r, s)
         /\ faults' = 0 => faults = 0
         /\ \A q \in Requests : pc[q] # "idle" =>
              pc'[q] # "idle" /\ sub'[q] = sub[q] /\ target'[q] = target[q]
<1> DEFINE H == /\ faults' = 0 => faults = 0
                /\ \A q \in Requests : pc[q] # "idle" =>
                     pc'[q] # "idle" /\ sub'[q] = sub[q] /\ target'[q] = target[q]
<1>6. ASSUME TunnelChange
      PROVE  H
  BY <1>6 DEF TunnelChange, req
<1> USE SerialConstants, ExposureAssumption DEF Inv, TypeOK
<1>1. ~Restart
  BY DEF Restart, Serial
<1>2. \A r \in Creators : ~UpsertRecord(r) /\ ~CommitExpose(r)
  BY DEF UpsertRecord, CommitExpose, Goto, Known, Serial
<1>3. \A r \in Creators, s \in Subs : ~StartExpose(r, s)
  BY DEF StartExpose, Serial
<1>4. ASSUME NEW r \in Creators, CreateStep(r)
      PROVE  H
  <2>1. ASSUME NEW s \in Subs, StartCreate(r, s) PROVE H
    BY <2>1 DEF StartCreate, Begin, Fault, NoFault
  <2>2. CASE Refuse(r)
    BY <2>2 DEF Refuse, Begin, req
  <2>3. CASE AddRoute(r) \/ CreateRecord(r)
    BY <2>3 DEF AddRoute, CreateRecord, Goto, Fault, NoFault
  <2>4. CASE Commit(r)
    BY <2>4 DEF Commit, Stored, Goto, Fault, NoFault
  <2>5. CASE UndoRoute(r) \/ UndoDns(r)
    BY <2>5 DEF UndoRoute, UndoDns, Goto, Fault, NoFault, req
  <2> QED
    BY <1>2, <1>3, <1>4, <2>1, <2>2, <2>3, <2>4, <2>5 DEF CreateStep
<1>5. ASSUME NEW r \in Removers, RemoveStep(r)
      PROVE  H
  BY <1>5 DEF RemoveStep, StartRemove, NotFound, Unroute, DeleteRecord, StopProxy, Uncommit,
     Begin, Goto, Fault, NoFault, req
<1>7. H
  BY <1>1, <1>4, <1>5, <1>6 DEF Next
<1> QED
  BY <1>1, <1>2, <1>3, <1>7

\* A step is one of these.
LEMMA SerialNext ==
  ASSUME Inv, Serial, Known, Next
  PROVE  \/ TunnelChange
         \/ \E r \in Creators : \/ Refuse(r) \/ (\E s \in Subs : StartCreate(r, s))
                                \/ AddRoute(r) \/ CreateRecord(r) \/ Commit(r)
                                \/ UndoRoute(r) \/ UndoDns(r)
         \/ \E r \in Removers : RemoveStep(r)
BY RequestHistory DEF Next, CreateStep

\* How the ports and the routes change.
PortAdded(r) ==
  /\ Commit(r) /\ ~Taken(sub[r]) /\ pc[r] = "commit" /\ pc'[r] \in Answered
  /\ NewPort(r) \in Port /\ ports' = Append(ports, NewPort(r))
PortTaken(r) ==
  /\ Uncommit(r) /\ pc[r] = "uncommit" /\ pc'[r] = "removed"
  /\ RemovalIndex(r) \in DOMAIN ports /\ ports' = RemoveAt(ports, RemovalIndex(r))

LEMMA PortsBy ==
  ASSUME Inv, Serial, Known, Next
  PROVE  \/ ports' = ports
         \/ \E r \in Creators : PortAdded(r)
         \/ \E r \in Removers : PortTaken(r)
<1> USE SerialConstants DEF Inv
<1>1. ASSUME NEW r \in Creators, Commit(r), ports' # ports PROVE PortAdded(r)
  <2>1. /\ ~Taken(sub[r]) /\ pc[r] = "commit" /\ pc' = [pc EXCEPT ![r] = Stored(r)]
        /\ ports' = Append(ports, NewPort(r))
    BY <1>1 DEF Commit, Goto
  <2>2. pc'[r] = Stored(r)
    BY <2>1 DEF TypeOK
  <2>3. NewPort(r) \in Port
    BY <2>1 DEF TypeOK, NamedInv, NewPort, Busy, Port
  <2> QED
    BY <1>1, <2>1, <2>2, <2>3 DEF PortAdded, Stored, Answered
<1>2. ASSUME NEW r \in Removers, Uncommit(r), ports' # ports PROVE PortTaken(r)
  <2>1. /\ RemovalIndex(r) # 0 /\ ports' = RemoveAt(ports, RemovalIndex(r))
        /\ pc[r] = "uncommit" /\ pc'[r] = "removed"
    BY <1>2 DEF Uncommit, Goto, TypeOK
  <2> QED
    BY <1>2, <2>1, RemovalIndexProperties DEF PortTaken
<1>3. ASSUME NEW r \in Creators, \/ Refuse(r) \/ (\E s \in Subs : StartCreate(r, s))
                                 \/ AddRoute(r) \/ CreateRecord(r) \/ UndoRoute(r) \/ UndoDns(r)
      PROVE  ports' = ports
  BY <1>3 DEF Refuse, StartCreate, AddRoute, CreateRecord, UndoRoute, UndoDns
<1>4. ASSUME NEW r \in Removers, RemoveStep(r), ~Uncommit(r) PROVE ports' = ports
  BY <1>4 DEF RemoveStep, StartRemove, NotFound, Unroute, DeleteRecord, StopProxy
<1>5. CASE TunnelChange
  BY <1>5 DEF TunnelChange
<1> QED
  BY <1>1, <1>2, <1>3, <1>4, <1>5, SerialNext

RouteAdded(r) ==
  /\ AddRoute(r) /\ pc[r] = "route"
  /\ OwnRoute(r) \in Route /\ caddy' = Append(caddy, OwnRoute(r))
RouteTaken(r) ==
  /\ (r \in Creators /\ UndoRoute(r)) \/ (r \in Removers /\ Unroute(r))
  /\ \E k \in DOMAIN caddy : caddy[k].host = Fqdn[sub[r]] /\ caddy' = RemoveAt(caddy, k)

LEMMA RoutesBy ==
  ASSUME Inv, Serial, Known, Owned, Next
  PROVE  \/ caddy' = caddy
         \/ \E r \in Creators : RouteAdded(r)
         \/ \E r \in Requests : RouteTaken(r)
<1> USE SerialConstants DEF Inv
<1>h. \A i \in DOMAIN caddy : caddy[i].host # NoHost
  BY ExposureAssumption DEF Owned, ToSet
<1>1. ASSUME NEW r \in Creators, AddRoute(r), caddy' # caddy PROVE RouteAdded(r)
  <2>1. pc[r] = "route" /\ caddy' = Append(caddy, OwnRoute(r))
    BY <1>1 DEF AddRoute, Goto, OwnRoute
  <2>2. OwnRoute(r) \in Route
    BY <2>1 DEF TypeOK, NamedInv, Busy, Route, OwnRoute
  <2> QED
    BY <1>1, <2>1, <2>2 DEF RouteAdded
<1>2. ASSUME NEW r \in Requests, (r \in Creators /\ UndoRoute(r)) \/ (r \in Removers /\ Unroute(r)),
             caddy' # caddy
      PROVE  RouteTaken(r)
  <2>1. RemoveRoute(Fqdn[sub[r]])
    BY <1>2 DEF UndoRoute, Unroute
  <2> QED
    BY <1>h, <1>2, <2>1, FirstRouteRemoved DEF RouteTaken, TypeOK
<1>3. ASSUME NEW r \in Creators, \/ Refuse(r) \/ (\E s \in Subs : StartCreate(r, s))
                                 \/ CreateRecord(r) \/ Commit(r) \/ UndoDns(r)
      PROVE  caddy' = caddy
  BY <1>3 DEF Refuse, StartCreate, CreateRecord, Commit, UndoDns, remote
<1>4. ASSUME NEW r \in Removers, RemoveStep(r), ~Unroute(r) PROVE caddy' = caddy
  BY <1>4 DEF RemoveStep, StartRemove, NotFound, Uncommit, DeleteRecord, StopProxy, remote
<1>5. CASE TunnelChange
  BY <1>5 DEF TunnelChange, remote
<1> QED
  BY <1>1, <1>2, <1>3, <1>4, <1>5, SerialNext

\* A request at work makes the step, or begins; or the tunnel changes or a
\* request is turned away, which touches nothing of this.
Beginning(r) == \E to \in Busy \cup Answered : Begin(r, to)
Working(r) == pc[r] \in Busy /\ \A q \in Requests : q # r => pc'[q] = pc[q]

Apart == UNCHANGED <<ports, remote, local, pc, req, faults>>

LEMMA WhoSteps ==
  ASSUME Inv, Serial, Known, Next
  PROVE  \/ Apart
         \/ \E r \in Creators : (\E s \in Subs : StartCreate(r, s)) /\ Beginning(r)
         \/ \E r \in Creators : /\ AddRoute(r) \/ CreateRecord(r) \/ Commit(r) \/ UndoRoute(r) \/ UndoDns(r)
                                /\ Working(r)
         \/ \E r \in Removers : /\ \E i \in DOMAIN ports, n \in BOOLEAN : StartRemove(r, i, n)
                                /\ Beginning(r)
         \/ \E r \in Removers : /\ Unroute(r) \/ DeleteRecord(r) \/ StopProxy(r) \/ Uncommit(r)
                                /\ Working(r)
<1> USE SerialConstants DEF Inv, TypeOK
<1>1. ASSUME NEW r \in Creators, \E s \in Subs : StartCreate(r, s)
      PROVE  Beginning(r)
  BY <1>1 DEF StartCreate, Beginning, Busy, Answered
<1>2. ASSUME NEW r \in Creators, AddRoute(r) \/ CreateRecord(r) \/ Commit(r) \/ UndoRoute(r) \/ UndoDns(r)
      PROVE  Working(r)
  BY <1>2 DEF AddRoute, CreateRecord, Commit, UndoRoute, UndoDns, Goto, Working, Busy
<1>3. ASSUME NEW r \in Removers, \E i \in DOMAIN ports, n \in BOOLEAN : StartRemove(r, i, n)
      PROVE  Beginning(r)
  BY <1>3 DEF StartRemove, Beginning, Busy, Answered
<1>4. ASSUME NEW r \in Removers, Unroute(r) \/ DeleteRecord(r) \/ StopProxy(r) \/ Uncommit(r)
      PROVE  Working(r)
  BY <1>4 DEF Unroute, DeleteRecord, StopProxy, Uncommit, Goto, Working, Busy
<1>5. ASSUME TunnelChange \/ (\E r \in Creators : Refuse(r)) \/ (\E r \in Removers : NotFound(r))
      PROVE  Apart
  BY <1>5 DEF TunnelChange, Refuse, NotFound, Apart
<1> QED
  BY <1>1, <1>2, <1>3, <1>4, <1>5, SerialNext DEF RemoveStep

LEMMA AloneKept ==
  ASSUME Inv, Serial, Alone, Known, Next
  PROVE  Alone'
<1> USE SerialConstants
<1>1. ASSUME NEW r \in Requests, Beginning(r) PROVE Alone'
  <2>1. PICK to \in Busy \cup Answered : Begin(r, to)
    BY <1>1 DEF Beginning
  <2>2. \A q \in Requests : pc[q] \notin Busy
    BY <2>1, NobodyElse
  <2>3. InFlight' \subseteq {r}
    BY <2>1, <2>2 DEF Begin, InFlight, Inv, TypeOK
  <2> QED
    BY <2>3 DEF Alone
<1>2. ASSUME NEW r \in Requests, Working(r) PROVE Alone'
  <2>1. \A q \in Requests : pc[q] \in Busy => q = r
    BY <1>2, OneBusy DEF Working
  <2>2. InFlight' \subseteq {r}
    BY <1>2, <2>1 DEF Working, InFlight
  <2> QED
    BY <2>2 DEF Alone
<1>3. CASE Apart
  BY <1>3 DEF Apart, Alone, InFlight
<1> QED
  BY <1>1, <1>2, <1>3, WhoSteps

\* Nobody but the request that makes the step is at work before and after it.
LEMMA OthersIdle ==
  ASSUME Inv, Serial, Alone, Known, NEW r \in Requests, Beginning(r) \/ Working(r)
  PROVE  \A q \in Requests : q # r => pc[q] \notin Busy /\ pc'[q] = pc[q]
<1>1. CASE Beginning(r)
  <2>1. PICK to \in Busy \cup Answered : Begin(r, to)
    BY <1>1 DEF Beginning
  <2>2. \A q \in Requests : pc[q] \notin Busy
    BY <2>1, NobodyElse
  <2> QED
    BY <2>1, <2>2 DEF Begin, Inv, TypeOK
<1>2. CASE Working(r)
  BY <1>2, OneBusy DEF Working
<1> QED
  BY <1>1, <1>2

LEMMA StoredPort ==
  ASSUME Inv, Serial, NEW p \in ToSet(ports)
  PROVE  p \in Port /\ p.id \in Creators /\ p.id \in Requests /\ p.sub \in Subs
<1>1. PICK i \in DOMAIN ports : p = ports[i]
  BY DEF ToSet
<1>2. p \in Port
  BY <1>1 DEF Inv, TypeOK
<1> QED
  BY <1>2, SerialConstants DEF Port

LEMMA KnownKept ==
  ASSUME Inv, Serial, Known, Next
  PROVE  Known'
<1> USE SerialConstants DEF Inv
<1>1. \A r \in Requests : pc'[r] # "upsert"
  BY OnlyExposersUpsert DEF Known, Serial
<1>2. ASSUME NEW p \in ToSet(ports) PROVE p.sub = sub'[p.id] /\ pc'[p.id] \in Answered
  <2>1. p.id \in Requests
    BY StoredPort
  <2>2. p.sub = sub[p.id] /\ pc[p.id] \in Answered
    BY DEF Known
  <2> QED
    BY <2>1, <2>2, AnswersAreFinal, RequestHistory DEF Answered
<1>3. CASE ports' = ports
  BY <1>1, <1>2, <1>3 DEF Known
<1>4. ASSUME NEW r \in Creators, PortAdded(r) PROVE Known'
  <2>1. ToSet(ports') = ToSet(ports) \cup {NewPort(r)}
    BY <1>4, AppendSet DEF PortAdded, TypeOK
  <2>2. sub' = sub /\ pc'[r] \in Answered
    BY <1>4 DEF PortAdded, Commit
  <2>3. NewPort(r).id = r /\ NewPort(r).sub = sub[r]
    BY DEF NewPort
  <2> QED
    BY <1>1, <1>2, <2>1, <2>2, <2>3 DEF Known
<1>5. ASSUME NEW r \in Removers, PortTaken(r) PROVE Known'
  <2>1. ToSet(ports') \subseteq ToSet(ports)
    BY <1>5, RemoveAtSet DEF PortTaken, TypeOK
  <2> QED
    BY <1>1, <1>2, <2>1 DEF Known
<1> QED
  BY <1>3, <1>4, <1>5, PortsBy

LEMMA AimedKept ==
  ASSUME Inv, Serial, Alone, Known, Aimed, Next
  PROVE  Aimed'
<1> USE SerialConstants
<1> SUFFICES ASSUME NEW r \in Removers, pc'[r] \in Busy
             PROVE  /\ target'[r].idx \in DOMAIN ports'
                    /\ ports'[target'[r].idx].id = target'[r].id
                    /\ ports'[target'[r].idx].sub = sub'[r]
                    /\ r \in ApiRemovers => target'[r].named
  BY DEF Aimed
<1>1. CASE pc[r] \in Busy
  <2>1. target'[r] = target[r] /\ sub'[r] = sub[r]
    BY <1>1, RequestHistory DEF Busy
  <2>2. ports' = ports
    <3>1. ASSUME NEW c \in Creators, PortAdded(c) PROVE FALSE
      BY <1>1, <3>1, OneBusy DEF PortAdded, Busy
    <3>2. ASSUME NEW q \in Removers, PortTaken(q) PROVE FALSE
      BY <1>1, <3>2, OneBusy DEF PortTaken, Busy
    <3> QED
      BY <3>1, <3>2, PortsBy
  <2> QED
    BY <1>1, <2>1, <2>2 DEF Aimed
<1>2. CASE pc[r] \notin Busy
  <2>1. PICK i \in DOMAIN ports, n \in BOOLEAN : StartRemove(r, i, n)
    <3>1. pc'[r] # pc[r]
      BY <1>2
    <3>2. ASSUME NEW q \in Creators, Beginning(q) \/ Working(q) PROVE FALSE
      BY <3>1, <3>2, OthersIdle
    <3>3. ASSUME NEW q \in Removers, Beginning(q) \/ Working(q) PROVE q = r
      BY <3>1, <3>3, OthersIdle
    <3>4. ~Working(r)
      BY <1>2 DEF Working
    <3>5. ~Apart
      BY <3>1 DEF Apart
    <3> QED
      BY <3>2, <3>3, <3>4, <3>5, WhoSteps
  <2>2. /\ target'[r] = [id |-> ports[i].id, idx |-> i, named |-> n] /\ sub'[r] = ports[i].sub
        /\ ports' = ports /\ (n \/ r \in PortRemovers)
    BY <2>1 DEF StartRemove, Inv, TypeOK
  <2> QED
    BY <2>2, ExposureAssumption
<1> QED
  BY <1>1, <1>2

LEMMA CreatingKept ==
  ASSUME Inv, Serial, Alone, Known, Creating, Next
  PROVE  Creating'
<1> USE SerialConstants DEF Inv, TypeOK
<1> DEFINE C(c) == /\ pc[c] \in {"route", "dns", "commit"} => c \in listening
                   /\ pc[c] = "dns" => OwnRoute(c) \in ToSet(caddy)
                   /\ pc[c] = "commit" /\ status[c] = "active" =>
                        OwnRoute(c) \in ToSet(caddy) /\ Fqdn[sub[c]] \in dns
                   /\ c \in ApiCreators /\ pc[c] \in Busy => ~Taken(sub[c])
<1>1. ASSUME NEW r \in Requests, Beginning(r) \/ Working(r), NEW c \in Creators, c # r
      PROVE  C(c)'
  BY <1>1, OthersIdle DEF Busy
<1>2. ASSUME NEW r \in Creators, NEW s \in Subs, StartCreate(r, s), Beginning(r)
      PROVE  Creating'
  <2>1. C(r)'
    <3>1. /\ r \in ApiCreators => ~Taken(s)
          /\ sub'[r] = s /\ ports' = ports
          /\ (pc'[r] = "route" /\ r \in listening') \/ pc'[r] = "failed"
      BY <1>2 DEF StartCreate, Begin, StartProxy
    <3> QED
      BY <3>1 DEF Taken, Busy
  <2> QED
    BY <1>1, <1>2, <2>1 DEF Creating
<1>3. ASSUME NEW r \in Creators, AddRoute(r), Working(r)
      PROVE  Creating'
  <2>1. /\ pc[r] = "route" /\ UNCHANGED <<ports, listening, sub>>
        /\ \/ pc'[r] = "dns" /\ caddy' = Append(caddy, OwnRoute(r))
           \/ pc'[r] = "commit" /\ status'[r] = "error"
    BY <1>3 DEF AddRoute, Goto, OwnRoute, local
  <2>2. OwnRoute(r) \in Route
    BY <2>1 DEF NamedInv, Busy, Route, OwnRoute
  <2>3. pc'[r] = "dns" => OwnRoute(r) \in ToSet(caddy')
    <3>1. OwnRoute(r) \in ToSet(Append(caddy, OwnRoute(r)))
      BY <2>2, AppendSet
    <3> QED
      BY <2>1, <3>1
  <2>4. C(r)
    BY DEF Creating
  <2>5. OwnRoute(r)' = OwnRoute(r) /\ (Taken(sub[r])' <=> Taken(sub[r]))
    BY <2>1 DEF OwnRoute, Taken
  <2>6. C(r)'
    BY <2>1, <2>3, <2>4, <2>5 DEF Busy
  <2> QED
    BY <1>1, <1>3, <2>6 DEF Creating
<1>4. ASSUME NEW r \in Creators, CreateRecord(r), Working(r)
      PROVE  Creating'
  <2>1. /\ pc[r] = "dns" /\ pc'[r] = "commit" /\ UNCHANGED <<ports, caddy, listening, sub>>
        /\ Fqdn[sub[r]] \in dns' \/ status'[r] = "error"
    BY <1>4 DEF CreateRecord, Goto, local
  <2>2. C(r)
    BY DEF Creating
  <2>3. OwnRoute(r)' = OwnRoute(r) /\ (Taken(sub[r])' <=> Taken(sub[r]))
    BY <2>1 DEF OwnRoute, Taken
  <2>4. C(r)'
    BY <2>1, <2>2, <2>3 DEF Busy
  <2> QED
    BY <1>1, <1>4, <2>4 DEF Creating
<1>5. ASSUME NEW r \in Creators, Commit(r) \/ UndoRoute(r) \/ UndoDns(r), Working(r)
      PROVE  Creating'
  <2>1. /\ pc'[r] \in {"undoRoute", "undoDns"} \cup Answered /\ sub' = sub
        /\ pc'[r] \in Busy => ports' = ports
    BY <1>5 DEF Commit, UndoRoute, UndoDns, Goto, Stored, Answered, Busy, req
  <2>2. C(r)
    BY DEF Creating
  <2>3. C(r)'
    BY <1>5, <2>1, <2>2 DEF Busy, Answered, Taken, Working
  <2> QED
    BY <1>1, <1>5, <2>3 DEF Creating
<1>6. ASSUME NEW r \in Removers, Beginning(r) \/ Working(r)
      PROVE  Creating'
  BY <1>1, <1>6 DEF Creating
<1>7. CASE Apart
  BY <1>7 DEF Apart, Creating, OwnRoute, Taken, remote, local, req
<1> QED
  BY <1>2, <1>3, <1>4, <1>5, <1>6, <1>7, WhoSteps

LEMMA OwnedKept ==
  ASSUME Inv, Serial, Known, Owned, Next
  PROVE  Owned'
<1> USE SerialConstants DEF Inv
<1>1. ASSUME NEW e \in ToSet(caddy)
      PROVE  e.id \in Creators /\ pc'[e.id] # "idle" /\ e = OwnRoute(e.id)' /\ e.host \in Hosts
  <2>1. e.id \in Creators /\ pc[e.id] # "idle" /\ e = OwnRoute(e.id) /\ e.host \in Hosts
    BY DEF Owned
  <2>2. pc'[e.id] # "idle" /\ sub'[e.id] = sub[e.id]
    BY <2>1, RequestHistory
  <2> QED
    BY <2>1, <2>2 DEF OwnRoute
<1>2. CASE caddy' = caddy
  BY <1>1, <1>2 DEF Owned
<1>3. ASSUME NEW r \in Creators, RouteAdded(r) PROVE Owned'
  <2>1. ToSet(caddy') = ToSet(caddy) \cup {OwnRoute(r)}
    BY <1>3, AppendSet DEF RouteAdded, TypeOK
  <2>2. pc'[r] # "idle" /\ OwnRoute(r)' = OwnRoute(r) /\ OwnRoute(r).id = r
    BY <1>3, RequestHistory DEF RouteAdded, OwnRoute
  <2>3. OwnRoute(r).host \in Hosts
    BY <1>3 DEF RouteAdded, NamedInv, Busy, OwnRoute
  <2> QED
    BY <1>1, <2>1, <2>2, <2>3 DEF Owned
<1>4. ASSUME NEW r \in Requests, RouteTaken(r) PROVE Owned'
  <2>1. ToSet(caddy') \subseteq ToSet(caddy)
    BY <1>4, RemoveAtSet DEF RouteTaken, TypeOK
  <2> QED
    BY <1>1, <2>1 DEF Owned
<1> QED
  BY <1>2, <1>3, <1>4, RoutesBy

--------------------------------------------------------------------------------
(* Serial: a stored port is published *)

\* A port is known by its id and by its subdomain.
LEMMA SamePort ==
  ASSUME Inv, Serial, Known, NEW p \in ToSet(ports), NEW q \in ToSet(ports),
         p.id = q.id \/ Fqdn[p.sub] = Fqdn[q.sub]
  PROVE  p = q
<1>1. p.sub = q.sub
  BY StoredPort, SerialConstants DEF Known
<1>2. PICK i \in DOMAIN ports, j \in DOMAIN ports : p = ports[i] /\ q = ports[j]
  BY DEF ToSet
<1> QED
  BY <1>1, <1>2 DEF Inv, UniqueSubdomains

\* The port that a delete is for, and the only one of its host.
LEMMA AimedPort ==
  ASSUME Inv, Serial, Known, Aimed, NEW r \in Removers, pc[r] \in Busy
  PROVE  /\ sub[r] \in Subs /\ ports[target[r].idx] \in ToSet(ports)
         /\ sub[target[r].id] = sub[r] /\ target[r].id \in Creators
         /\ \A p \in ToSet(ports) : p.id # target[r].id => Fqdn[p.sub] # Fqdn[sub[r]]
<1> DEFINE q == ports[target[r].idx]
<1>1. q \in ToSet(ports) /\ q.id = target[r].id /\ q.sub = sub[r]
  BY DEF Aimed, ToSet
<1>2. q.sub = sub[q.id] /\ q.id \in Creators /\ q.sub \in Subs
  BY <1>1, StoredPort DEF Known
<1> QED
  BY <1>1, <1>2, SamePort

LEMMA UncommitTakes ==
  ASSUME Inv, Serial, Known, Aimed, NEW r \in Removers, Uncommit(r)
  PROVE  pc'[r] = "failed" \/ PortTaken(r)
<1> USE SerialConstants DEF Inv, TypeOK
<1>1. pc[r] = "uncommit"
  BY DEF Uncommit, Goto
<1>2. /\ target[r].idx \in DOMAIN ports /\ ports[target[r].idx].id = target[r].id
      /\ r \in ApiRemovers => target[r].named
  BY <1>1 DEF Aimed, Busy
<1>3. IndexOf(target[r].id) \in DOMAIN ports
  BY <1>2, IndexOfFinds
<1>4. 0 \notin DOMAIN ports
  OBVIOUS
<1>5. RemovalIndex(r) \in DOMAIN ports
  BY <1>2, <1>3, <1>4 DEF RemovalIndex, Removers
<1>6. \/ pc'[r] = "failed"
      \/ pc'[r] = "removed" /\ ports' = RemoveAt(ports, RemovalIndex(r))
  BY <1>4, <1>5 DEF Uncommit, Goto
<1> QED
  BY <1>1, <1>5, <1>6 DEF PortTaken

\* Update's callback removes that port.
LEMMA AimedIndex ==
  ASSUME Inv, Serial, Known, Aimed, NEW r \in Removers, PortTaken(r)
  PROVE  /\ RemovalIndex(r) = target[r].idx
         /\ \A p \in ToSet(ports') : p \in ToSet(ports) /\ p.id # target[r].id
         /\ \A p \in ToSet(ports) : p.id # target[r].id => p \in ToSet(ports')
<1> DEFINE k == target[r].idx
<1>1. /\ pc[r] \in Busy /\ k \in DOMAIN ports /\ ports[k].id = target[r].id
      /\ ports[k].sub = sub[r] /\ (r \in ApiRemovers => target[r].named)
  BY DEF PortTaken, Busy, Aimed
<1>2. \A i \in DOMAIN ports : ports[i].id = target[r].id => i = k
  <2> SUFFICES ASSUME NEW i \in DOMAIN ports, ports[i].id = ports[k].id PROVE i = k
    BY <1>1
  <2>1. ports[i] \in ToSet(ports) /\ ports[k] \in ToSet(ports)
    BY <1>1 DEF ToSet
  <2>2. ports[i].sub = ports[k].sub
    BY <2>1, SamePort
  <2> QED
    BY <1>1, <2>2 DEF Inv, UniqueSubdomains
<1>3. IndexOf(target[r].id) = 0 \/ IndexOf(target[r].id) = k
  BY <1>2, IndexOfProperties DEF Inv, TypeOK
<1>4. RemovalIndex(r) # 0
  BY DEF PortTaken, Inv, TypeOK
<1>5. RemovalIndex(r) = k
  BY <1>1, <1>3, <1>4 DEF RemovalIndex
<1>6. /\ ToSet(ports') \subseteq ToSet(ports)
      /\ \A i \in DOMAIN ports : i # k => ports[i] \in ToSet(ports')
  BY <1>1, <1>5, RemoveAtSet DEF PortTaken, Inv, TypeOK
<1>7. \A p \in ToSet(ports) : p.id # target[r].id => p \in ToSet(ports')
  BY <1>1, <1>6 DEF ToSet
<1>8. ports[k] \notin ToSet(ports')
  <2>1. /\ DOMAIN ports' = 1..(Len(ports) - 1)
        /\ \A i \in 1..(Len(ports) - 1) : ports'[i] = ports[IF i < k THEN i ELSE i + 1]
    <3>1. ports \in Seq(Port) /\ k \in DOMAIN ports /\ ports' = RemoveAt(ports, k)
      BY <1>1, <1>5 DEF PortTaken, Inv, TypeOK
    <3> HIDE DEF k
    <3>2. /\ RemoveAt(ports, k) \in Seq(Port) /\ Len(RemoveAt(ports, k)) = Len(ports) - 1
          /\ \A i \in 1..(Len(ports) - 1) :
               RemoveAt(ports, k)[i] = ports[IF i < k THEN i ELSE i + 1]
      BY <3>1, RemoveAtProperties
    <3> QED
      BY <3>1, <3>2
  <2> SUFFICES ASSUME NEW i \in DOMAIN ports', ports'[i] = ports[k] PROVE FALSE
    BY DEF ToSet
  <2> DEFINE m == IF i < k THEN i ELSE i + 1
  <2>2. m \in DOMAIN ports /\ m # k
    BY <1>1, <2>1 DEF Inv, TypeOK
  <2>3. ports'[i] = ports[m]
    BY <2>1
  <2> HIDE DEF m
  <2> QED
    BY <1>1, <1>2, <2>2, <2>3
<1>9. \A p \in ToSet(ports') : p.id # target[r].id
  <2> SUFFICES ASSUME NEW p \in ToSet(ports'), p.id = target[r].id PROVE FALSE
    OBVIOUS
  <2>1. p \in ToSet(ports) /\ ports[k] \in ToSet(ports)
    BY <1>1, <1>6 DEF ToSet
  <2>2. p = ports[k]
    BY <1>1, <2>1, SamePort
  <2> QED
    BY <1>8, <2>2
<1> QED
  BY <1>5, <1>6, <1>7, <1>9

\* An excuse lasts, but for the delete that has removed the port.
LEMMA ExcuseLasts ==
  ASSUME Inv, Serial, Alone, Known, Aimed, Next, NEW p, Excused(p),
         \A r \in Removers : PortTaken(r) => target[r].id # p.id
  PROVE  Excused(p)'
<1> USE SerialConstants DEF Inv, TypeOK
<1>1. ASSUME NEW r \in Removers, target[r].id = p.id, pc[r] \in Busy \cup {"failed"}
      PROVE  Excused(p)'
  <2>1. target'[r] = target[r]
    BY <1>1, RequestHistory DEF Busy
  <2>2. pc'[r] \in Busy \cup {"failed"}
    <3>1. CASE pc[r] = "failed"
      BY <3>1, AnswersAreFinal DEF Answered
    <3>2. CASE pc[r] \in Busy
      <4>1. ASSUME NEW q \in Requests, q # r, Beginning(q) \/ Working(q) PROVE pc'[r] = pc[r]
        BY <4>1, OthersIdle
      <4>2. ~Beginning(r)
        BY <3>2 DEF Beginning, Begin, Busy
      <4>3. CASE Unroute(r) \/ DeleteRecord(r) \/ StopProxy(r)
        BY <4>3 DEF Unroute, DeleteRecord, StopProxy, Goto, Busy
      <4>4. CASE Uncommit(r)
        BY <1>1, <4>4, UncommitTakes
      <4>6. CASE Apart
        BY <3>2, <4>6 DEF Apart
      <4> QED
        BY <3>2, <4>1, <4>2, <4>3, <4>4, <4>6, WhoSteps
    <3> QED
      BY <1>1, <3>1, <3>2
  <2> QED
    BY <1>1, <2>1, <2>2 DEF Excused
<1>2. ASSUME NEW c \in PortCreators, Fqdn[sub[c]] = Fqdn[p.sub],
             pc[c] \in {"undoRoute", "undoDns", "conflict", "failed"}
      PROVE  Excused(p)'
  <2>1. sub'[c] = sub[c]
    BY <1>2, RequestHistory
  <2>2. pc'[c] \in {"undoRoute", "undoDns", "conflict", "failed"}
    <3>1. CASE pc[c] \in {"conflict", "failed"}
      BY <3>1, AnswersAreFinal DEF Answered
    <3>2. CASE pc[c] \in {"undoRoute", "undoDns"}
      <4>1. ASSUME NEW q \in Requests, q # c, Beginning(q) \/ Working(q) PROVE pc'[c] = pc[c]
        BY <4>1, OthersIdle
      <4>2. ~Beginning(c)
        BY <3>2 DEF Beginning, Begin
      <4>3. ~AddRoute(c) /\ ~CreateRecord(c) /\ ~Commit(c)
        BY <3>2 DEF AddRoute, CreateRecord, Commit, Goto
      <4>4. CASE UndoRoute(c) \/ UndoDns(c)
        BY <4>4 DEF UndoRoute, UndoDns, Goto
      <4>5. CASE Apart
        BY <3>2, <4>5 DEF Apart
      <4> QED
        BY <3>2, <4>1, <4>2, <4>3, <4>4, <4>5, WhoSteps
    <3> QED
      BY <1>2, <3>1, <3>2
  <2> QED
    BY <1>2, <2>1, <2>2 DEF Excused
<1> QED
  BY <1>1, <1>2 DEF Excused

LEMMA ShownKept ==
  ASSUME Inv, Serial, Alone, Known, Aimed, Creating, Owned, Shown, Next
  PROVE  Shown'
<1> USE SerialConstants DEF Inv
<1> DEFINE Grow == ToSet(caddy) \subseteq ToSet(caddy') /\ dns \subseteq dns' /\ listening \subseteq listening'
<1>1. ASSUME NEW p \in ToSet(ports), p.status = "active",
             \A r \in Removers : PortTaken(r) => target[r].id # p.id,
             Published(p) => Published(p)' \/ Excused(p)'
      PROVE  Published(p)' \/ Excused(p)'
  BY <1>1, ExcuseLasts DEF Shown
<1>2. ASSUME Grow, ports' = ports, \A r \in Removers : ~PortTaken(r)
      PROVE  Shown'
  BY <1>1, <1>2 DEF Shown, Published
<1>3. CASE Apart
  <2>1. Grow /\ ports' = ports
    BY <1>3 DEF Apart, remote, local
  <2>2. \A r \in Removers : ~PortTaken(r)
    BY <1>3 DEF Apart, PortTaken
  <2> QED
    BY <1>2, <2>1, <2>2
<1>4. ASSUME NEW r \in Requests, Beginning(r) \/ Working(r), NEW q \in Removers, PortTaken(q)
      PROVE  q = r
  BY <1>4, OthersIdle DEF PortTaken
<1>5. ASSUME NEW r \in Creators, \E s \in Subs : StartCreate(r, s), Beginning(r)
      PROVE  Shown'
  <2>1. Grow /\ ports' = ports
    BY <1>5 DEF StartCreate, StartProxy, remote, local
  <2> QED
    BY <1>2, <1>4, <1>5, <2>1
<1>6. ASSUME NEW r \in Creators, AddRoute(r) \/ CreateRecord(r), Working(r)
      PROVE  Shown'
  <2>1. ports' = ports /\ dns \subseteq dns' /\ listening' = listening
    BY <1>6 DEF AddRoute, CreateRecord, local
  <2>2. ToSet(caddy) \subseteq ToSet(caddy')
    <3>1. CASE caddy' = caddy
      BY <3>1
    <3>2. ASSUME NEW c \in Creators, RouteAdded(c) PROVE ToSet(caddy) \subseteq ToSet(caddy')
      BY <3>2, AppendSet DEF RouteAdded, TypeOK
    <3>3. ASSUME NEW q \in Requests, RouteTaken(q) PROVE FALSE
      <4>1. pc[q] \in {"undoRoute", "unroute"}
        BY <3>3 DEF RouteTaken, UndoRoute, Unroute, Goto
      <4>2. q = r
        BY <1>6, <4>1, OneBusy DEF Working, Busy
      <4> QED
        BY <1>6, <4>1, <4>2 DEF AddRoute, CreateRecord, Goto
    <3> QED
      BY <3>1, <3>2, <3>3, RoutesBy
  <2> QED
    BY <1>2, <1>4, <1>6, <2>1, <2>2
<1>7. ASSUME NEW r \in Creators, Commit(r), Working(r)
      PROVE  Shown'
  <2>1. UNCHANGED <<caddy, dns, listening, sub>> /\ pc[r] = "commit"
    BY <1>7 DEF Commit, Goto, remote, local
  <2>2. ASSUME NEW p \in ToSet(ports), p.status = "active" PROVE Published(p)' \/ Excused(p)'
    <3>1. Published(p) => Published(p)'
      BY <2>1 DEF Published
    <3> QED
      BY <1>1, <1>4, <1>7, <2>2, <3>1
  <2>3. CASE ports' = ports
    BY <2>2, <2>3 DEF Shown
  <2>4. ASSUME NEW c \in Creators, PortAdded(c) PROVE Shown'
    <3>1. c = r
      BY <1>7, <2>4, OneBusy DEF PortAdded, Working, Busy
    <3>2. ToSet(ports') = ToSet(ports) \cup {NewPort(r)}
      BY <2>4, <3>1, AppendSet DEF PortAdded, TypeOK
    <3>3. /\ NewPort(r).id = r /\ NewPort(r).sub = sub[r] /\ NewPort(r).status = status[r]
      BY DEF NewPort
    <3>4. status[r] = "active" => Published(NewPort(r))'
      <4> SUFFICES ASSUME status[r] = "active" PROVE Published(NewPort(r))'
        OBVIOUS
      <4>1. OwnRoute(r) \in ToSet(caddy) /\ Fqdn[sub[r]] \in dns /\ r \in listening
        BY <2>1 DEF Creating
      <4>2. status' = status
        BY <1>7 DEF Commit
      <4>3. NewPort(r)' = NewPort(r)
        BY <2>1, <4>2 DEF NewPort
      <4> QED
        BY <2>1, <3>3, <4>1, <4>3 DEF Published, OwnRoute
    <3>5. NewPort(r)' = NewPort(r)
      BY <1>7 DEF Commit, NewPort
    <3> QED
      BY <2>2, <3>2, <3>3, <3>4, <3>5 DEF Shown
  <2>5. ASSUME NEW q \in Removers, PortTaken(q) PROVE FALSE
    BY <1>4, <1>7, <2>5
  <2> QED
    BY <2>3, <2>4, <2>5, PortsBy
<1>8. ASSUME NEW r \in Creators, UndoRoute(r) \/ UndoDns(r), Working(r)
      PROVE  Shown'
  <2>1. ports' = ports /\ listening' = listening /\ sub' = sub
    BY <1>8 DEF UndoRoute, UndoDns, local, req
  <2>2. /\ pc[r] \in {"undoRoute", "undoDns"} /\ pc'[r] \in {"undoDns", "conflict", "failed"}
        /\ \A h \in dns : h # Fqdn[sub[r]] => h \in dns'
    BY <1>8 DEF UndoRoute, UndoDns, Goto, TypeOK
  <2>3. \A e \in ToSet(caddy) : e.host # Fqdn[sub[r]] => e \in ToSet(caddy')
    <3>1. CASE caddy' = caddy
      BY <3>1
    <3>2. ASSUME NEW c \in Creators, RouteAdded(c) PROVE FALSE
      BY <1>8, <2>2, <3>2, OneBusy DEF RouteAdded, Working, Busy
    <3>3. ASSUME NEW q \in Requests, RouteTaken(q)
          PROVE \A e \in ToSet(caddy) : e.host # Fqdn[sub[r]] => e \in ToSet(caddy')
      <4>1. pc[q] \in {"undoRoute", "unroute"}
        BY <3>3 DEF RouteTaken, UndoRoute, Unroute, Goto
      <4>2. q = r
        BY <1>8, <4>1, OneBusy DEF Working, Busy
      <4>3. PICK k \in DOMAIN caddy : caddy[k].host = Fqdn[sub[r]] /\ caddy' = RemoveAt(caddy, k)
        BY <3>3, <4>2 DEF RouteTaken
      <4>4. \A i \in DOMAIN caddy : i # k => caddy[i] \in ToSet(caddy')
        BY <4>3, RemoveAtSet DEF TypeOK
      <4> QED
        BY <4>3, <4>4 DEF ToSet
    <3> QED
      BY <3>1, <3>2, <3>3, RoutesBy
  <2>4. ASSUME NEW p \in ToSet(ports), p.status = "active" PROVE Published(p)' \/ Excused(p)'
    <3>1. CASE Fqdn[p.sub] # Fqdn[sub[r]]
      <4>1. Published(p) => Published(p)'
        BY <2>1, <2>2, <2>3, <3>1 DEF Published
      <4> QED
        BY <1>1, <1>4, <1>8, <2>4, <4>1
    <3>2. CASE Fqdn[p.sub] = Fqdn[sub[r]] /\ r \in PortCreators
      BY <2>1, <2>2, <3>2 DEF Excused
    <3>3. CASE Fqdn[p.sub] = Fqdn[sub[r]] /\ r \in ApiCreators
      <4>1. ~Taken(sub[r]) /\ sub[r] \in Subs
        BY <2>2, <3>3 DEF Creating, NamedInv, Busy
      <4>2. p.sub = sub[r]
        BY <3>3, <4>1, StoredPort
      <4> QED
        BY <4>1, <4>2 DEF Taken, ToSet
    <3> QED
      BY <3>1, <3>2, <3>3
  <2> QED
    BY <2>1, <2>4 DEF Shown
<1>9. ASSUME NEW r \in Removers,
             \E i \in DOMAIN ports, n \in BOOLEAN : StartRemove(r, i, n), Beginning(r)
      PROVE  Shown'
  <2>1. Grow /\ ports' = ports
    BY <1>9 DEF StartRemove, remote, local
  <2>2. \A q \in Removers : ~PortTaken(q)
    BY <2>1, <1>4, <1>9 DEF PortTaken, Beginning, Begin
  <2> QED
    BY <1>2, <2>1, <2>2
<1>10. ASSUME NEW r \in Removers, Unroute(r) \/ DeleteRecord(r) \/ StopProxy(r), Working(r)
      PROVE  Shown'
  <2>1. ports' = ports /\ target' = target
    BY <1>10 DEF Unroute, DeleteRecord, StopProxy, req
  <2>2. /\ pc[r] \in Busy \ {"route", "uncommit"} /\ pc'[r] \in Busy
        /\ \A h \in dns : h # Fqdn[sub[r]] => h \in dns'
    BY <1>10 DEF Unroute, DeleteRecord, StopProxy, Goto, TypeOK, Busy, remote
  <2>3. \A e \in ToSet(caddy) : e.host # Fqdn[sub[r]] => e \in ToSet(caddy')
    <3>1. CASE caddy' = caddy
      BY <3>1
    <3>2. ASSUME NEW c \in Creators, RouteAdded(c) PROVE FALSE
      BY <2>2, <3>2, OneBusy DEF RouteAdded, Busy
    <3>3. ASSUME NEW q \in Requests, RouteTaken(q)
          PROVE \A e \in ToSet(caddy) : e.host # Fqdn[sub[r]] => e \in ToSet(caddy')
      <4>1. pc[q] \in {"undoRoute", "unroute"}
        BY <3>3 DEF RouteTaken, UndoRoute, Unroute, Goto
      <4>2. q = r
        BY <2>2, <4>1, OneBusy DEF Busy
      <4>3. PICK k \in DOMAIN caddy : caddy[k].host = Fqdn[sub[r]] /\ caddy' = RemoveAt(caddy, k)
        BY <3>3, <4>2 DEF RouteTaken
      <4>4. \A i \in DOMAIN caddy : i # k => caddy[i] \in ToSet(caddy')
        BY <4>3, RemoveAtSet DEF TypeOK
      <4> QED
        BY <4>3, <4>4 DEF ToSet
    <3> QED
      BY <3>1, <3>2, <3>3, RoutesBy
  <2>4. \A c \in listening : c # target[r].id => c \in listening'
    BY <1>10 DEF Unroute, DeleteRecord, StopProxy, local
  <2>5. ASSUME NEW p \in ToSet(ports), p.status = "active" PROVE Published(p)' \/ Excused(p)'
    <3>1. CASE p.id = target[r].id
      BY <2>1, <2>2, <3>1 DEF Excused
    <3>2. CASE p.id # target[r].id
      <4>1. Fqdn[p.sub] # Fqdn[sub[r]]
        BY <2>2, <3>2, AimedPort
      <4>2. Published(p) => Published(p)'
        BY <2>2, <2>3, <2>4, <3>2, <4>1 DEF Published
      <4>3. \A q \in Removers : PortTaken(q) => target[q].id # p.id
        BY <1>4, <1>10, <3>2
      <4> QED
        BY <1>1, <2>5, <4>2, <4>3
    <3> QED
      BY <3>1, <3>2
  <2> QED
    BY <2>1, <2>5 DEF Shown
<1>11. ASSUME NEW r \in Removers, Uncommit(r), Working(r)
      PROVE  Shown'
  <2>1. UNCHANGED <<caddy, dns, listening>>
    BY <1>11 DEF Uncommit, remote, local
  <2>2. ASSUME NEW p \in ToSet(ports), p.status = "active", PortTaken(r) => target[r].id # p.id
        PROVE  Published(p)' \/ Excused(p)'
    <3>1. Published(p) => Published(p)'
      BY <2>1 DEF Published
    <3> QED
      BY <1>1, <1>4, <1>11, <2>2, <3>1
  <2>3. CASE PortTaken(r)
    BY <2>2, <2>3, AimedIndex DEF Shown
  <2>4. CASE ~PortTaken(r)
    <3>1. ports' = ports
      BY <1>4, <1>11, <2>4, PortsBy, OneBusy DEF PortAdded, Working, Busy
    <3> QED
      BY <2>2, <2>4, <3>1 DEF Shown
  <2> QED
    BY <2>3, <2>4
<1> QED
  BY <1>3, <1>5, <1>6, <1>7, <1>8, <1>9, <1>10, <1>11, WhoSteps

--------------------------------------------------------------------------------
(* Serial: no route to a stopped proxy *)

\* The routes after one of them has been deleted.
LEMMA WithoutRoute ==
  ASSUME caddy \in Seq(Route), NEW k \in DOMAIN caddy, caddy' = RemoveAt(caddy, k)
  PROVE  /\ Len(caddy') = Len(caddy) - 1 /\ Len(caddy) \in Nat /\ DOMAIN caddy' = 1..Len(caddy')
         /\ ToSet(caddy') \subseteq ToSet(caddy)
         /\ \A i, j \in 1..Len(caddy') : \E m, n \in DOMAIN caddy :
              /\ m # k /\ n # k /\ caddy'[i] = caddy[m] /\ caddy'[j] = caddy[n]
              /\ m = n => i = j
<1> DEFINE old(i) == IF i < k THEN i ELSE i + 1
<1>1. /\ caddy' \in Seq(Route) /\ Len(caddy') = Len(caddy) - 1
      /\ \A i \in 1..(Len(caddy) - 1) : caddy'[i] = caddy[old(i)]
  BY RemoveAtProperties, Zenon
<1>2. ToSet(caddy') \subseteq ToSet(caddy)
  BY RemoveAtSet
<1>3. /\ DOMAIN caddy' = 1..Len(caddy')
      /\ \A i \in 1..Len(caddy') : old(i) \in DOMAIN caddy /\ old(i) # k
      /\ \A i, j \in 1..Len(caddy') : old(i) = old(j) => i = j
  BY <1>1
<1> HIDE DEF old
<1>4. \A i, j \in 1..Len(caddy') : \E m, n \in DOMAIN caddy :
              /\ m # k /\ n # k /\ caddy'[i] = caddy[m] /\ caddy'[j] = caddy[n]
              /\ m = n => i = j
  <2> SUFFICES ASSUME NEW i \in 1..Len(caddy'), NEW j \in 1..Len(caddy')
               PROVE  \E m, n \in DOMAIN caddy :
                        /\ m # k /\ n # k /\ caddy'[i] = caddy[m] /\ caddy'[j] = caddy[n]
                        /\ m = n => i = j
    OBVIOUS
  <2>1. caddy'[i] = caddy[old(i)] /\ caddy'[j] = caddy[old(j)]
    BY <1>1
  <2> QED
    BY <1>3, <2>1
<1> QED
  BY <1>1, <1>2, <1>3, <1>4

LEMMA LastOrBefore ==
  ASSUME NEW n \in Nat
  PROVE  \A i \in 1..n : i = n \/ i \in 1..(n - 1)
OBVIOUS

\* Outside of a create that has added its route, every host has one, and every
\* route a port.
LEMMA AllDistinct ==
  ASSUME RoutedParts, Owned, \A c \in Creators : ~Appended(c)
  PROVE  /\ DistinctUpTo(Len(caddy))
         /\ \A i \in DOMAIN caddy : \E p \in ToSet(ports) : Fqdn[p.sub] = caddy[i].host
<1>1. DistinctUpTo(Len(caddy))
  BY DEF RoutedParts, OneRoute
<1>2. \A i \in DOMAIN caddy : caddy[i].id \in Creators
  BY DEF Owned, ToSet
<1> QED
  BY <1>1, <1>2 DEF RoutedParts, Backed, Appended

\* A step that leaves the routes, the ports and the proxies that they dial.
LEMMA RoutesUntouched ==
  ASSUME RoutedParts, Owned, UNCHANGED <<ports, caddy>>, listening \subseteq listening',
         \A c \in Creators : ~Appended(c) /\ ~Appended(c)',
         \A r \in Removers : pc'[r] \in {"undns", "stop", "uncommit"} =>
           pc[r] \in {"undns", "stop", "uncommit"} /\ sub'[r] = sub[r]
  PROVE  RoutedParts'
<1>1. OneRoute'
  BY AllDistinct DEF OneRoute, DistinctUpTo
<1>2. Backed'
  BY AllDistinct DEF Backed
<1>3. Unrouted'
  BY DEF RoutedParts, Unrouted
<1>4. UndoTaken' /\ Listening'
  BY DEF RoutedParts, UndoTaken, Listening, Appended
<1> QED
  BY <1>1, <1>2, <1>3, <1>4 DEF RoutedParts

LEMMA RoutedKept ==
  ASSUME Inv, Serial, Alone, Known, Aimed, Creating, Owned, RoutedParts, Next, faults' = 0
  PROVE  RoutedParts'
<1> USE SerialConstants DEF Inv
<1>0. faults = 0 /\ ~Fault
  BY RequestHistory DEF Fault, TypeOK
<1>1. ASSUME NEW r \in Requests, Beginning(r)
      PROVE  \A q \in Requests : pc[q] \notin Busy /\ (q # r => pc'[q] \notin Busy)
  BY <1>1, OthersIdle DEF Beginning, Begin, Busy
<1>2. ASSUME NEW r \in Creators, \E s \in Subs : StartCreate(r, s), Beginning(r)
      PROVE  RoutedParts'
  <2>1. /\ UNCHANGED <<ports, caddy>> /\ listening \subseteq listening'
        /\ pc'[r] \in {"route", "failed"}
    BY <1>2 DEF StartCreate, StartProxy, Begin, remote, local, TypeOK
  <2>2. \A c \in Creators : ~Appended(c) /\ ~Appended(c)'
    BY <1>1, <1>2, <2>1 DEF Appended, Busy
  <2>3. \A q \in Removers : pc'[q] \notin {"undns", "stop", "uncommit"}
    BY <1>1, <1>2 DEF Busy
  <2> QED
    BY <2>1, <2>2, <2>3, RoutesUntouched
<1>3. ASSUME NEW r \in Removers,
             \E i \in DOMAIN ports, n \in BOOLEAN : StartRemove(r, i, n), Beginning(r)
      PROVE  RoutedParts'
  <2>1. /\ UNCHANGED <<ports, caddy>> /\ listening \subseteq listening'
        /\ pc'[r] = "unroute"
    BY <1>3 DEF StartRemove, Begin, remote, local, TypeOK
  <2>2. \A c \in Creators : ~Appended(c) /\ ~Appended(c)'
    BY <1>1, <1>3, <2>1 DEF Appended, Busy
  <2>3. \A q \in Removers : pc'[q] \notin {"undns", "stop", "uncommit"}
    BY <1>1, <1>3, <2>1 DEF Busy
  <2> QED
    BY <2>1, <2>2, <2>3, RoutesUntouched
<1>4. ASSUME NEW r \in Requests, Working(r)
      PROVE  \A q \in Requests : q # r => pc[q] \notin Busy /\ pc'[q] \notin Busy
  BY <1>4, OthersIdle
<1>5. ASSUME NEW r \in Creators, Working(r)
      PROVE  \A q \in Removers : pc'[q] \notin {"undns", "stop", "uncommit"}
  BY <1>4, <1>5 DEF Busy
<1>6. ASSUME NEW r \in Removers, Working(r)
      PROVE  \A c \in Creators : ~Appended(c) /\ ~Appended(c)'
  BY <1>4, <1>6 DEF Busy, Appended
<1>7. ASSUME NEW r \in Creators, AddRoute(r), Working(r)
      PROVE  RoutedParts'
  <2>1. /\ pc[r] = "route" /\ pc'[r] = "dns" /\ UNCHANGED <<ports, listening, sub>>
        /\ caddy' = Append(caddy, OwnRoute(r))
    BY <1>0, <1>7 DEF AddRoute, Goto, OwnRoute, local, TypeOK
  <2>2. \A c \in Creators : ~Appended(c) /\ (Appended(c)' => c = r)
    BY <1>4, <1>7, <2>1 DEF Appended, Busy
  <2>3. OwnRoute(r) \in Route /\ OwnRoute(r)' = OwnRoute(r) /\ OwnRoute(r).id = r
    BY <2>1 DEF TypeOK, NamedInv, Busy, Route, OwnRoute
  <2>4. /\ Len(caddy') = Len(caddy) + 1 /\ Len(caddy) \in Nat /\ caddy'[Len(caddy')] = OwnRoute(r)
        /\ \A i \in 1..Len(caddy) : caddy'[i] = caddy[i]
        /\ DOMAIN caddy' = 1..Len(caddy') /\ DOMAIN caddy = 1..Len(caddy)
    BY <2>1, <2>3, AppendProperties DEF TypeOK
  <2>5. OneRoute'
    <3>1. Appended(r)'
      BY <2>1 DEF Appended
    <3>2. Len(caddy') > 0 /\ Len(caddy') - 1 = Len(caddy)
      BY <2>4
    <3>3. DistinctUpTo(Len(caddy) )
      BY <2>2, AllDistinct
    <3>4. \A i, j \in 1..(Len(caddy') - 1) : caddy'[i].host = caddy'[j].host => i = j
      BY <2>4, <3>2, <3>3 DEF DistinctUpTo
    <3> QED
      BY <2>2, <2>3, <2>4, <3>1, <3>2, <3>4 DEF OneRoute, DistinctUpTo
  <2>6. Backed'
    <3> SUFFICES ASSUME NEW i \in 1..Len(caddy')
                 PROVE  \/ \E p \in ToSet(ports) : Fqdn[p.sub] = caddy'[i].host
                        \/ pc'[caddy'[i].id] \in {"dns", "commit"} /\ i = Len(caddy')
      BY <2>1, <2>4 DEF Backed
    <3>1. CASE i = Len(caddy')
      BY <2>1, <2>3, <2>4, <3>1
    <3>2. CASE i # Len(caddy')
      <4>1. i \in DOMAIN caddy /\ caddy'[i] = caddy[i]
        BY <2>4, <3>2
      <4> QED
        BY <2>2, <4>1, AllDistinct
    <3> QED
      BY <3>1, <3>2
  <2>7. Unrouted'
    BY <1>5, <1>7 DEF Unrouted
  <2>8. UndoTaken'
    BY <2>1, <2>2 DEF UndoTaken, Appended
  <2>9. Listening'
    <3>1. ToSet(caddy') = ToSet(caddy) \cup {OwnRoute(r)}
      BY <2>1, <2>3, AppendSet DEF TypeOK
    <3>2. r \in listening
      BY <2>1 DEF Creating
    <3> QED
      BY <2>1, <2>3, <3>1, <3>2 DEF Listening, RoutedParts
  <2> QED
    BY <2>5, <2>6, <2>7, <2>8, <2>9 DEF RoutedParts
<1>8. ASSUME NEW r \in Creators, CreateRecord(r), Working(r)
      PROVE  RoutedParts'
  <2>1. /\ pc[r] = "dns" /\ pc'[r] = "commit" /\ UNCHANGED <<ports, caddy, listening, sub>>
    BY <1>8 DEF CreateRecord, Goto, local, TypeOK
  <2>2. \A c \in Creators : (Appended(c) <=> c = r) /\ (Appended(c)' <=> c = r) /\ OwnRoute(c)' = OwnRoute(c)
    BY <1>4, <1>8, <2>1 DEF Appended, Busy, OwnRoute
  <2>3. OneRoute'
    BY <2>1, <2>2 DEF RoutedParts, OneRoute, DistinctUpTo
  <2>4. Backed'
    <3>1. \A i \in DOMAIN caddy : caddy[i].id \in Creators
      BY DEF Owned, ToSet
    <3>2. \A c \in Creators : pc[c] \in {"dns", "commit"} => pc'[c] \in {"dns", "commit"}
      BY <2>1, <2>2 DEF Appended
    <3> QED
      BY <2>1, <3>1, <3>2 DEF RoutedParts, Backed
  <2>5. Unrouted'
    BY <1>5, <1>8 DEF Unrouted
  <2>6. UndoTaken'
    BY <2>1, <2>2 DEF UndoTaken, Appended
  <2>7. Listening'
    BY <2>1 DEF Listening, RoutedParts
  <2> QED
    BY <2>3, <2>4, <2>5, <2>6, <2>7 DEF RoutedParts
<1>9. ASSUME NEW r \in Creators, Commit(r), Working(r)
      PROVE  RoutedParts'
  <2>1. /\ pc[r] = "commit" /\ UNCHANGED <<caddy, listening, sub>> /\ sub[r] \in Subs
    BY <1>9 DEF Commit, Goto, local, remote, NamedInv, Busy
  <2>2. \A c \in Creators : (Appended(c) <=> c = r) /\ (Appended(c)' => c = r)
                            /\ OwnRoute(c)' = OwnRoute(c)
    BY <1>4, <1>9, <2>1 DEF Appended, Busy, OwnRoute
  <2>3. Len(caddy) > 0 /\ DistinctUpTo(Len(caddy) - 1) /\ caddy[Len(caddy)] = OwnRoute(r)
    BY <2>2 DEF RoutedParts, OneRoute
  <2>4. DOMAIN caddy = 1..Len(caddy) /\ Len(caddy) \in Nat
    BY DEF TypeOK
  <2>5. \A i \in DOMAIN caddy : i # Len(caddy) => \E p \in ToSet(ports) : Fqdn[p.sub] = caddy[i].host
    BY DEF RoutedParts, Backed
  <2>6. Unrouted'
    BY <1>5, <1>9 DEF Unrouted
  <2>7. Listening'
    BY <2>1 DEF Listening, RoutedParts
  <2>8. OwnRoute(r).host = Fqdn[sub[r]]
    BY DEF OwnRoute
  <2>9. CASE ~Taken(sub[r])
    <3>1. /\ pc' = [pc EXCEPT ![r] = Stored(r)] /\ ports' = Append(ports, NewPort(r))
      BY <1>0, <1>9, <2>9 DEF Commit, Goto
    <3>2. \A c \in Creators : ~Appended(c)'
      BY <2>2, <3>1 DEF Appended, Stored, TypeOK
    <3>3. ToSet(ports') = ToSet(ports) \cup {NewPort(r)} /\ NewPort(r).sub = sub[r]
      <4>1. NewPort(r) \in Port
        BY <2>1 DEF TypeOK, NewPort, Port
      <4> QED
        BY <3>1, <4>1, AppendSet DEF TypeOK, NewPort
    <3>4. DistinctUpTo(Len(caddy))
      <4>1. ASSUME NEW i \in DOMAIN caddy, i # Len(caddy) PROVE caddy[i].host # caddy[Len(caddy)].host
        <5>1. PICK p \in ToSet(ports) : Fqdn[p.sub] = caddy[i].host
          BY <2>5, <4>1
        <5>2. p.sub # sub[r]
          BY <2>9 DEF Taken, ToSet
        <5> QED
          BY <2>1, <2>3, <2>8, <5>1, <5>2, StoredPort
      <4>2. \A i \in 1..Len(caddy) : i = Len(caddy) \/ i \in 1..(Len(caddy) - 1)
        BY <2>4, LastOrBefore, Zenon
      <4> QED
        BY <2>3, <2>4, <4>1, <4>2 DEF DistinctUpTo
    <3>5. OneRoute'
      BY <2>1, <3>2, <3>4 DEF OneRoute, DistinctUpTo
    <3>6. Backed'
      BY <2>1, <2>3, <2>5, <2>8, <3>3 DEF Backed
    <3>7. UndoTaken'
      BY <3>2 DEF UndoTaken, Appended
    <3> QED
      BY <2>6, <2>7, <3>5, <3>6, <3>7 DEF RoutedParts
  <2>10. CASE Taken(sub[r])
    <3>1. pc' = [pc EXCEPT ![r] = "undoRoute"] /\ ports' = ports
      BY <1>0, <1>9, <2>10 DEF Commit, Goto
    <3>2. Appended(r)'
      BY <3>1 DEF Appended, TypeOK
    <3>3. OneRoute'
      BY <2>1, <2>2, <2>3, <3>2 DEF OneRoute, DistinctUpTo
    <3>4. Backed'
      BY <2>1, <2>3, <2>5, <2>8, <2>10, <3>1 DEF Backed, Taken, ToSet
    <3>5. UndoTaken'
      BY <2>1, <2>2, <2>10, <3>1 DEF UndoTaken, Appended, Taken
    <3> QED
      BY <2>6, <2>7, <3>3, <3>4, <3>5 DEF RoutedParts
  <2> QED
    BY <2>9, <2>10
<1>10. ASSUME NEW r \in Creators, UndoRoute(r), Working(r)
      PROVE  RoutedParts'
  <2>1. /\ pc[r] = "undoRoute" /\ pc'[r] = "undoDns" /\ UNCHANGED <<ports, listening, sub>>
        /\ RemoveRoute(Fqdn[sub[r]])
    BY <1>0, <1>10 DEF UndoRoute, Goto, local, req, TypeOK
  <2>2. \A c \in Creators : (Appended(c) <=> c = r) /\ ~Appended(c)'
    BY <1>4, <1>10, <2>1 DEF Appended, Busy
  <2>3. Len(caddy) > 0 /\ DistinctUpTo(Len(caddy) - 1) /\ caddy[Len(caddy)] = OwnRoute(r)
    BY <2>2 DEF RoutedParts, OneRoute
  <2>4. DOMAIN caddy = 1..Len(caddy) /\ Len(caddy) \in Nat
    BY DEF TypeOK
  <2>5. OwnRoute(r).host = Fqdn[sub[r]]
    BY DEF OwnRoute
  <2>6. PICK k \in DOMAIN caddy : caddy[k].host = Fqdn[sub[r]] /\ caddy' = RemoveAt(caddy, k)
    <3>1. \A i \in DOMAIN caddy : caddy[i].host # NoHost
      BY ExposureAssumption DEF Owned, ToSet
    <3>2. caddy[Len(caddy)] \in ToSet(caddy)
      BY <2>3, <2>4 DEF ToSet
    <3> QED
      BY <2>1, <2>3, <2>5, <3>1, <3>2, FirstRouteRemoved DEF TypeOK
  <2>7. /\ Len(caddy') = Len(caddy) - 1 /\ DOMAIN caddy' = 1..Len(caddy')
        /\ ToSet(caddy') \subseteq ToSet(caddy)
        /\ \A i, j \in 1..Len(caddy') : \E m, n \in DOMAIN caddy :
             /\ m # k /\ n # k /\ caddy'[i] = caddy[m] /\ caddy'[j] = caddy[n]
             /\ m = n => i = j
    BY <2>6, WithoutRoute DEF TypeOK
  <2>8. ASSUME NEW m \in DOMAIN caddy, NEW n \in DOMAIN caddy, m # k, n # k,
               caddy[m].host = caddy[n].host
        PROVE  m = n
    <3>1. \A i \in DOMAIN caddy : i = Len(caddy) \/ i \in 1..(Len(caddy) - 1)
      BY <2>4
    <3>2. CASE m # Len(caddy) /\ n # Len(caddy)
      BY <2>3, <2>8, <3>1, <3>2 DEF DistinctUpTo
    <3>3. CASE m = Len(caddy) /\ n # Len(caddy)
      <4>1. k \in 1..(Len(caddy) - 1) /\ n \in 1..(Len(caddy) - 1)
        BY <2>8, <3>1, <3>3
      <4>2. caddy[n].host = caddy[k].host
        BY <2>3, <2>5, <2>6, <2>8, <3>3
      <4> QED
        BY <2>3, <2>8, <4>1, <4>2 DEF DistinctUpTo
    <3>4. CASE m # Len(caddy) /\ n = Len(caddy)
      <4>1. k \in 1..(Len(caddy) - 1) /\ m \in 1..(Len(caddy) - 1)
        BY <2>8, <3>1, <3>4
      <4>2. caddy[m].host = caddy[k].host
        BY <2>3, <2>5, <2>6, <2>8, <3>4
      <4> QED
        BY <2>3, <2>8, <4>1, <4>2 DEF DistinctUpTo
    <3> QED
      BY <3>2, <3>3, <3>4
  <2>9. OneRoute'
    <3>1. \A i, j \in 1..Len(caddy') : caddy'[i].host = caddy'[j].host => i = j
      BY <2>7, <2>8
    <3> QED
      BY <2>2, <3>1 DEF OneRoute, DistinctUpTo
  <2>10. Backed'
    <3>1. \A e \in ToSet(caddy) : \E p \in ToSet(ports) : Fqdn[p.sub] = e.host
      <4> SUFFICES ASSUME NEW i \in DOMAIN caddy
                   PROVE  \E p \in ToSet(ports) : Fqdn[p.sub] = caddy[i].host
        BY DEF ToSet
      <4>1. caddy[i].id \in Creators
        BY DEF Owned, ToSet
      <4>2. pc[caddy[i].id] \notin {"dns", "commit"}
        BY <2>1, <2>2, <4>1 DEF Appended
      <4> QED
        BY <4>2 DEF RoutedParts, Backed
    <3>2. \A i \in DOMAIN caddy' : caddy'[i] \in ToSet(caddy)
      BY <2>7 DEF ToSet
    <3> QED
      BY <2>1, <3>1, <3>2 DEF Backed
  <2>11. Unrouted'
    BY <1>5, <1>10 DEF Unrouted
  <2>12. UndoTaken'
    BY <2>2 DEF UndoTaken, Appended
  <2>13. Listening'
    BY <2>1, <2>7 DEF Listening, RoutedParts
  <2> QED
    BY <2>9, <2>10, <2>11, <2>12, <2>13 DEF RoutedParts
<1>11. ASSUME NEW r \in Creators, UndoDns(r), Working(r)
      PROVE  RoutedParts'
  <2>1. /\ UNCHANGED <<ports, caddy, listening>> /\ pc[r] = "undoDns" /\ pc'[r] \in {"conflict", "failed"}
    BY <1>11 DEF UndoDns, Goto, local, TypeOK
  <2>2. \A c \in Creators : ~Appended(c) /\ ~Appended(c)'
    BY <1>4, <1>11, <2>1 DEF Appended, Busy
  <2> QED
    BY <1>5, <1>11, <2>1, <2>2, RoutesUntouched
<1>12. ASSUME NEW r \in Removers, Unroute(r), Working(r)
      PROVE  RoutedParts'
  <2>1. /\ pc[r] = "unroute" /\ pc'[r] = "undns" /\ UNCHANGED <<ports, listening, sub>>
        /\ RemoveRoute(Fqdn[sub[r]])
    BY <1>0, <1>12 DEF Unroute, Goto, local, req, TypeOK
  <2>2. \A i \in DOMAIN caddy : caddy[i].host # NoHost
    BY ExposureAssumption DEF Owned, ToSet
  <2>3. \A q \in Removers : pc'[q] \in {"undns", "stop", "uncommit"} => q = r
    BY <1>4, <1>12 DEF Busy
  <2>4. CASE caddy' = caddy /\ \A e \in ToSet(caddy) : e.host # Fqdn[sub[r]]
    <3>1. OneRoute' /\ Backed'
      BY <1>6, <1>12, <2>1, <2>4, AllDistinct DEF OneRoute, DistinctUpTo, Backed
    <3>2. Unrouted'
      BY <2>1, <2>3, <2>4 DEF Unrouted
    <3>3. UndoTaken' /\ Listening'
      BY <1>6, <1>12, <2>1, <2>4 DEF UndoTaken, Listening, Appended, RoutedParts
    <3> QED
      BY <3>1, <3>2, <3>3 DEF RoutedParts
  <2>5. ASSUME NEW k \in DOMAIN caddy, caddy[k].host = Fqdn[sub[r]], caddy' = RemoveAt(caddy, k)
        PROVE  RoutedParts'
    <3>1. /\ DOMAIN caddy' = 1..Len(caddy') /\ ToSet(caddy') \subseteq ToSet(caddy)
          /\ \A i, j \in 1..Len(caddy') : \E m, n \in DOMAIN caddy :
               /\ m # k /\ n # k /\ caddy'[i] = caddy[m] /\ caddy'[j] = caddy[n]
               /\ m = n => i = j
      BY <2>5, WithoutRoute DEF TypeOK
    <3>2. \A m, n \in DOMAIN caddy : caddy[m].host = caddy[n].host => m = n
      <4>1. DistinctUpTo(Len(caddy))
        BY <1>6, <1>12, AllDistinct
      <4>2. DOMAIN caddy = 1..Len(caddy)
        BY DEF TypeOK
      <4> QED
        BY <4>1, <4>2 DEF DistinctUpTo
    <3>3. OneRoute'
      <4>1. \A i, j \in 1..Len(caddy') : caddy'[i].host = caddy'[j].host => i = j
        BY <3>1, <3>2
      <4> QED
        BY <1>6, <1>12, <4>1 DEF OneRoute, DistinctUpTo
    <3>4. Backed'
      <4>1. \A e \in ToSet(caddy) : \E p \in ToSet(ports) : Fqdn[p.sub] = e.host
        BY <1>6, <1>12, AllDistinct DEF ToSet
      <4>2. \A i \in DOMAIN caddy' : caddy'[i] \in ToSet(caddy)
        BY <3>1 DEF ToSet
      <4> QED
        BY <2>1, <4>1, <4>2 DEF Backed
    <3>5. Unrouted'
      <4>1. \A e \in ToSet(caddy') : e.host # Fqdn[sub[r]]
        <5> SUFFICES ASSUME NEW i \in 1..Len(caddy') PROVE caddy'[i].host # Fqdn[sub[r]]
          BY <3>1 DEF ToSet
        <5>1. PICK m \in DOMAIN caddy : m # k /\ caddy'[i] = caddy[m]
          BY <3>1
        <5> QED
          BY <2>5, <3>2, <5>1
      <4> QED
        BY <2>1, <2>3, <4>1 DEF Unrouted
    <3>6. UndoTaken' /\ Listening'
      BY <1>6, <1>12, <2>1, <3>1 DEF UndoTaken, Listening, Appended, RoutedParts
    <3> QED
      BY <3>3, <3>4, <3>5, <3>6 DEF RoutedParts
  <2> QED
    BY <2>1, <2>2, <2>4, <2>5, FirstRouteRemoved DEF TypeOK
<1>13. ASSUME NEW r \in Removers, DeleteRecord(r) \/ StopProxy(r), Working(r)
      PROVE  RoutedParts'
  <2>1. /\ UNCHANGED <<ports, caddy, sub>> /\ pc[r] \in {"undns", "stop"}
        /\ listening \ {target[r].id} \subseteq listening'
    BY <1>13 DEF DeleteRecord, StopProxy, Goto, local, remote, req
  <2>2. OneRoute' /\ Backed'
    BY <1>6, <1>13, <2>1, AllDistinct DEF OneRoute, DistinctUpTo, Backed
  <2>3. Unrouted'
    <3>1. \A q \in Removers : pc'[q] \in {"undns", "stop", "uncommit"} => q = r
      BY <1>4, <1>13 DEF Busy
    <3> QED
      BY <2>1, <3>1 DEF RoutedParts, Unrouted
  <2>4. UndoTaken'
    BY <1>6, <1>13 DEF UndoTaken, Appended
  <2>5. Listening'
    <3>1. ASSUME NEW e \in ToSet(caddy), e.id = target[r].id PROVE FALSE
      <4>1. e.host # Fqdn[sub[r]]
        BY <2>1 DEF RoutedParts, Unrouted
      <4>2. e = OwnRoute(e.id)
        BY DEF Owned
      <4>3. e.host = Fqdn[sub[e.id]]
        BY <4>2 DEF OwnRoute
      <4>4. sub[target[r].id] = sub[r]
        BY <2>1, AimedPort DEF Busy
      <4> QED
        BY <3>1, <4>1, <4>3, <4>4
    <3> QED
      BY <2>1, <3>1 DEF RoutedParts, Listening
  <2> QED
    BY <2>2, <2>3, <2>4, <2>5 DEF RoutedParts
<1>14. ASSUME NEW r \in Removers, Uncommit(r), Working(r)
      PROVE  RoutedParts'
  <2>1. /\ UNCHANGED <<caddy, listening>> /\ pc[r] = "uncommit" /\ pc'[r] = "removed"
    BY <1>0, <1>14 DEF Uncommit, Goto, local, remote, TypeOK
  <2>2. PortTaken(r)
    BY <1>14, <2>1, UncommitTakes
  <2>3. \A p \in ToSet(ports) : p.id # target[r].id => p \in ToSet(ports')
    BY <2>2, AimedIndex
  <2>4. OneRoute'
    BY <1>6, <1>14, <2>1, AllDistinct DEF OneRoute, DistinctUpTo
  <2>5. Backed'
    <3> SUFFICES ASSUME NEW i \in DOMAIN caddy
                 PROVE  \E p \in ToSet(ports') : Fqdn[p.sub] = caddy[i].host
      BY <2>1 DEF Backed
    <3>1. PICK p \in ToSet(ports) : Fqdn[p.sub] = caddy[i].host
      BY <1>6, <1>14, AllDistinct
    <3>2. caddy[i].host # Fqdn[sub[r]]
      BY <2>1 DEF RoutedParts, Unrouted, ToSet
    <3>3. ports[target[r].idx] \in ToSet(ports) /\ ports[target[r].idx].id = target[r].id
          /\ ports[target[r].idx].sub = sub[r]
      BY <2>1, AimedPort DEF Busy, Aimed
    <3>4. p.id # target[r].id
      BY <3>1, <3>2, <3>3, SamePort
    <3> QED
      BY <2>3, <3>1, <3>4
  <2>6. Unrouted'
    BY <1>4, <1>14, <2>1 DEF Unrouted, Busy
  <2>7. UndoTaken' /\ Listening'
    BY <1>6, <1>14, <2>1 DEF UndoTaken, Listening, Appended, RoutedParts
  <2> QED
    BY <2>4, <2>5, <2>6, <2>7 DEF RoutedParts
<1>15. CASE Apart
  <2>1. UNCHANGED <<ports, caddy, listening, pc, sub>>
    BY <1>15 DEF Apart, remote, local, req
  <2> QED
    BY <2>1 DEF RoutedParts, OneRoute, DistinctUpTo, Appended, OwnRoute, Backed, Unrouted,
       UndoTaken, Taken, Listening
<1> QED
  BY <1>2, <1>3, <1>7, <1>8, <1>9, <1>10, <1>11, <1>12, <1>13, <1>14, <1>15, WhoSteps

--------------------------------------------------------------------------------
(* Serial: the theorems *)

LEMMA SerialInit ==
  ASSUME Serial, Init
  PROVE  SerialInv
<1>1. caddy = <<>> /\ ToSet(caddy) = {} /\ Len(caddy) = 0
  BY DEF Serial, Init, ToSet
<1>2. ports = <<>> /\ ToSet(ports) = {} /\ \A r \in Requests : pc[r] = "idle"
  BY DEF Init, ToSet
<1>3. Creators \subseteq Requests /\ Removers \subseteq Requests
  BY DEF Requests, Creators, Removers
<1>4. Alone
  BY <1>2 DEF Alone, InFlight, Busy
<1>5. Known /\ Aimed /\ Owned /\ Shown
  BY <1>1, <1>2, <1>3 DEF Known, Aimed, Owned, Shown, Busy
<1>6. Creating
  BY <1>2, <1>3 DEF Creating, Busy, Creators
<1>7. OneRoute
  BY <1>1, <1>2, <1>3 DEF OneRoute, Appended, DistinctUpTo
<1>8. Backed /\ Unrouted /\ UndoTaken /\ Listening
  BY <1>1, <1>2, <1>3 DEF Backed, Unrouted, UndoTaken, Listening
<1> QED
  BY <1>4, <1>5, <1>6, <1>7, <1>8 DEF SerialInv, Routed, RoutedParts

LEMMA SerialStutter ==
  ASSUME SerialInv, UNCHANGED vars
  PROVE  SerialInv'
<1>1. UNCHANGED <<ports, caddy, dns, listening, pc, sub, status, target, faults>>
  BY DEF vars, remote, local, req
<1>2. Alone' /\ Known' /\ Aimed'
  BY <1>1 DEF SerialInv, Alone, InFlight, Known, Aimed
<1>3. Creating' /\ Owned'
  BY <1>1 DEF SerialInv, Creating, OwnRoute, Taken, Owned
<1>4. Shown'
  BY <1>1 DEF SerialInv, Shown, Published, Excused
<1>5. Routed'
  BY <1>1 DEF SerialInv, Routed, RoutedParts, OneRoute, DistinctUpTo, Appended, OwnRoute,
     Backed, Unrouted, UndoTaken, Taken, Listening
<1> QED
  BY <1>2, <1>3, <1>4, <1>5 DEF SerialInv

LEMMA SerialStep ==
  ASSUME Inv, Serial, SerialInv, Next
  PROVE  SerialInv'
<1>1. Alone' /\ Known' /\ Aimed'
  BY AloneKept, KnownKept, AimedKept DEF SerialInv
<1>2. Creating' /\ Owned'
  BY CreatingKept, OwnedKept DEF SerialInv
<1>3. Shown'
  BY ShownKept DEF SerialInv
<1>4. ASSUME faults' = 0 PROVE RoutedParts'
  <2>1. faults = 0
    BY <1>4, RequestHistory DEF SerialInv
  <2> QED
    BY <1>4, <2>1, RoutedKept DEF SerialInv, Routed
<1> QED
  BY <1>1, <1>2, <1>3, <1>4 DEF SerialInv, Routed

LEMMA SerialInvHolds ==
  ASSUME Serial
  PROVE  Spec => []SerialInv
<1>1. Init => SerialInv
  BY SerialInit
<1>2. Inv /\ SerialInv /\ [Next]_vars => SerialInv'
  BY SerialStep, SerialStutter
<1> QED
  BY <1>1, <1>2, InvHolds, PTL DEF Spec

\* When requests are served one at a time by a daemon that is not restarted, an
\* active port has its route, its record and its running proxy whenever nothing
\* is being served, or a failed delete of it or an abandoned create of its host
\* is to blame: for every set of requests and every number of failing calls.
THEOREM ActivePortsAreServed ==
  ASSUME Serial
  PROVE  Spec => []Served
<1>1. SerialInv => Served
  <2> SUFFICES ASSUME SerialInv, Quiescent, NEW i \in DOMAIN ports, ports[i].status = "active"
               PROVE  \/ Published(ports[i])
                      \/ \E r \in Removers : target[r].id = ports[i].id /\ pc[r] = "failed"
                      \/ \E c \in PortCreators : /\ pc[c] \in {"conflict", "failed"}
                                                 /\ Fqdn[sub[c]] = Fqdn[ports[i].sub]
    BY DEF Served, Published
  <2>1. \A r \in Requests : pc[r] \notin Busy
    BY DEF Quiescent, InFlight
  <2>2. Published(ports[i]) \/ Excused(ports[i])
    BY DEF SerialInv, Shown, ToSet
  <2>3. Removers \subseteq Requests /\ PortCreators \subseteq Requests
    BY DEF Requests, Creators
  <2> QED
    BY <2>1, <2>2, <2>3 DEF Excused, Busy
<1> QED
  BY <1>1, SerialInvHolds, PTL

\* Under the same assumption, and while no call has failed, no route of Caddy
\* dials a local proxy that has been stopped.
THEOREM RoutesDialRunningProxies ==
  ASSUME Serial
  PROVE  Spec => []NoDeadRoute
<1>1. SerialInv => NoDeadRoute
  BY DEF SerialInv, Routed, RoutedParts, Listening, NoDeadRoute
<1> QED
  BY <1>1, SerialInvHolds, PTL
================================================================================
