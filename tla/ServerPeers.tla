------------------------------ MODULE ServerPeers ------------------------------
(* The peers of the AmneziaWG server: POST and DELETE /v1/peers, which end in *)
(* Manager.AddPeerForRemote and RemovePeerByPublicKey (tunnel/manager.go) and *)
(* the PeerManager (tunnel/peer.go).  Every line of them that talks to the    *)
(* server is an SSH command of its own, no mutex spans two of them, and only  *)
(* syncconf takes the flock on the server.                                    *)
(*                                                                            *)
(* On the server: awg0.conf, the peers of the running interface, and the      *)
(* clientsTable with its .new file.  In config.json: the mirrored table that  *)
(* GET /v1/peers lists.  A request that adds a peer stands for the key pair   *)
(* it generates.  A failure is a command that fails, before or after its      *)
(* effect; Reboot restarts the interface from awg0.conf.                      *)
EXTENDS Integers, FiniteSets, Sequences, SequencesExt

CONSTANTS
  Adders, Removers,     \* requests that add a peer, requests that remove one
  LastIP,               \* addresses are .2 to .LastIP (254 in the code)
  NoIP,                 \* a peer without AllowedIPs, a request without address
  NoOne,                \* nobody holds the flock; no key chosen
  NoFile,               \* there is no clientsTable.new
  SaveConfig,           \* the [Interface] section of awg0.conf says SaveConfig = true
  MaxInFlight,          \* requests at work at the same time
  MaxFailures, MaxReboots

ASSUME PeersAssumption ==
  /\ Adders \cap Removers = {} /\ IsFiniteSet(Adders \cup Removers)
  /\ NoOne \notin Adders \cup Removers
  /\ LastIP \in Nat /\ LastIP >= 2 /\ NoIP \notin Nat
  /\ \A keys \in SUBSET Adders : keys # NoFile
  /\ SaveConfig \in BOOLEAN
  /\ MaxInFlight \in Nat /\ MaxFailures \in Nat /\ MaxReboots \in Nat

Requests == Adders \cup Removers
IPs == 2..LastIP

VARIABLES
  conf,        \* the [Peer] blocks of awg0.conf
  live,        \* the peers of the interface, as awg show dump prints them
  lock, strip, \* who holds awg0.lock, and what its awg-quick strip read
  table,       \* the keys in clientsTable
  tableNew,    \* clientsTable.new
  mirror,      \* ServerMirror.ClientsTable in config.json
  at,
  ip,          \* address an Adder has allocated
  draft,       \* clientsTable a request has read and edited
  target,      \* key a Remover was given
  blind,       \* Adders whose peer dump failed
  overlapped,  \* requests that were at work while another was (or, removing a
               \* peer, while the server restarted)
  failures, reboots

peersVars == <<conf, live, lock, strip, table, tableNew, mirror, at, ip, draft,
               target, blind, overlapped, failures, reboots>>

\* Variables by owner.
server == <<conf, live, lock, strip>>
tables == <<table, tableNew>>
own    == <<ip, draft, target, blind>>

Block == [key : Adders, ip : IPs \cup {NoIP}]
Busy == {"append", "strip", "sync", "verify", "remove", "save",
         "readTable", "writeNew", "rename", "mirror"}
Answered == {"added", "removed", "failed", "refused"}

PeersTypeOK ==
  /\ conf \in Seq(Block) /\ live \in Seq(Block) /\ strip \in Seq(Block)
  /\ lock \in Adders \cup {NoOne}
  /\ table \subseteq Adders /\ mirror \subseteq Adders
  /\ tableNew = NoFile \/ tableNew \subseteq Adders
  /\ at \in [Requests -> {"idle"} \cup Busy \cup Answered]
  /\ ip \in [Adders -> IPs \cup {NoIP}]
  /\ draft \in [Requests -> SUBSET Adders]
  /\ target \in [Removers -> Adders \cup {NoOne}]
  /\ blind \subseteq Adders /\ overlapped \subseteq Requests
  /\ failures \in 0..MaxFailures /\ reboots \in 0..MaxReboots

PeersInit ==
  /\ conf = <<>> /\ live = <<>> /\ lock = NoOne /\ strip = <<>>
  /\ table = {} /\ tableNew = NoFile /\ mirror = {}
  /\ at = [r \in Requests |-> "idle"]
  /\ ip = [a \in Adders |-> NoIP]
  /\ draft = [r \in Requests |-> {}]
  /\ target = [r \in Removers |-> NoOne]
  /\ blind = {} /\ overlapped = {} /\ failures = 0 /\ reboots = 0

--------------------------------------------------------------------------------
(* Helpers *)

Keys(blocks) == {blocks[i].key : i \in DOMAIN blocks}

\* What the interface holds after syncconf or a start from these blocks: an
\* address in two blocks goes to the later one.
Applied(blocks) ==
  [i \in DOMAIN blocks |->
     IF \E j \in DOMAIN blocks : j > i /\ blocks[j].ip = blocks[i].ip
     THEN [blocks[i] EXCEPT !.ip = NoIP] ELSE blocks[i]]

\* The interface after awg set peer remove; it has one peer of a key.
WithoutPeer(peers, k) == RemoveFirstMatch(peers, LAMBDA b : b.key = k)

\* AllocateNextIP: the addresses that the dumped peers leave free.
Free(peers) == IPs \ {peers[i].ip : i \in DOMAIN peers}

\* Mutant: one address after the number of peers.
AllocateByCount(peers) ==
  IF Len(peers) + 2 \in IPs THEN Len(peers) + 2 ELSE NoIP

\* Mutant: the loop goes one address too far.
AllocateTooFar(peers) ==
  CHOOSE i \in Free(peers) \cup {LastIP + 1} :
    \A j \in Free(peers) \cup {LastIP + 1} : i <= j

AllocateNextIP(peers) ==
  IF Free(peers) = {} THEN NoIP
  ELSE CHOOSE i \in Free(peers) : \A j \in Free(peers) : i <= j

Failure == failures < MaxFailures /\ failures' = failures + 1
NoFailure == UNCHANGED failures

InFlight == {r \in Requests : at[r] \in Busy}

Begin(r, to) ==
  /\ at[r] = "idle"
  /\ Cardinality(InFlight) < MaxInFlight
  /\ at' = [at EXCEPT ![r] = to]
  /\ overlapped' = IF InFlight = {} THEN overlapped ELSE overlapped \cup InFlight \cup {r}

Advance(r, from, to) ==
  /\ at[r] = from /\ at' = [at EXCEPT ![r] = to]
  /\ UNCHANGED overlapped

\* PeerAdapter: no peer is added or removed while the tunnel is down.
Refuse(r) ==
  /\ at[r] = "idle" /\ at' = [at EXCEPT ![r] = "refused"]
  /\ UNCHANGED <<server, tables, mirror, own, overlapped, failures, reboots>>

--------------------------------------------------------------------------------
(* Adding *)

\* fetchPeerDump and parseDumpOutput: the interface's peers, without its own
\* first line.
FetchPeerDump(a, peers) ==
  \/ peers = live /\ NoFailure /\ UNCHANGED blind
  \/ peers = <<>> /\ Failure /\ blind' = blind \cup {a}

\* FetchAll fails when awg0.conf or a key file cannot be read or parsed, and
\* goes on without peers when the dump fails.
FetchAll(a, ok, peers) ==
  \/ ok /\ FetchPeerDump(a, peers)
  \/ ~ok /\ peers = <<>> /\ Failure /\ UNCHANGED blind

\* AddPeerForRemote up to AddPeer.
FetchAndAllocate(a) ==
  /\ a \in Adders
  /\ \E ok \in BOOLEAN, peers \in {live, <<>>} :
       LET next == IF ok THEN AllocateNextIP(peers) ELSE NoIP
       IN /\ FetchAll(a, ok, peers)
          /\ Begin(a, IF next = NoIP THEN "failed" ELSE "append")
          /\ ip' = [ip EXCEPT ![a] = next]
  /\ UNCHANGED <<server, tables, mirror, draft, target, reboots>>

\* appendPeerBlock: cat >> awg0.conf.
AppendPeerBlock(a) ==
  LET new == Append(conf, [key |-> a, ip |-> ip[a]])
  IN /\ \/ Advance(a, "append", "strip") /\ conf' = new /\ NoFailure
        \/ Advance(a, "append", "failed") /\ conf' \in {conf, new} /\ Failure
     /\ UNCHANGED <<live, lock, strip, tables, mirror, own, reboots>>

\* syncConf: flock, awg-quick strip.  A fault includes flock's time-out.
Strip(a) ==
  /\ \/ /\ Advance(a, "strip", "sync") /\ NoFailure
        /\ lock = NoOne /\ lock' = a
        /\ strip' = conf
     \/ Advance(a, "strip", "failed") /\ Failure /\ UNCHANGED <<lock, strip>>
  /\ UNCHANGED <<conf, live, tables, mirror, own, reboots>>

\* syncConf: awg syncconf, and the flock is released.
SyncConf(a) ==
  /\ \/ Advance(a, "sync", "verify") /\ live' = Applied(strip) /\ NoFailure
     \/ Advance(a, "sync", "failed") /\ live' \in {live, Applied(strip)} /\ Failure
  /\ lock' = NoOne /\ strip' = <<>>
  /\ UNCHANGED <<conf, tables, mirror, own, reboots>>

\* verifyPeer: the key must show up in awg show peers.
VerifyPeer(a) ==
  /\ \/ a \in Keys(live) /\ Advance(a, "verify", "readTable") /\ NoFailure
     \/ a \notin Keys(live) /\ Advance(a, "verify", "failed") /\ NoFailure
     \/ Advance(a, "verify", "failed") /\ Failure
  /\ UNCHANGED <<server, tables, mirror, own, reboots>>

--------------------------------------------------------------------------------
(* The clientsTable *)

\* An error ends AddPeer; RemovePeer goes on to the mirror.
TableError(r) == IF r \in Adders THEN "failed" ELSE "mirror"

\* readClientsTable and the edit.  updateClientsTable starts with an empty
\* table when the read fails.
ReadClientsTable(r) ==
  /\ \/ /\ r \in Adders /\ Advance(r, "readTable", "writeNew")
        /\ \/ draft' = [draft EXCEPT ![r] = table \cup {r}] /\ NoFailure
           \/ draft' = [draft EXCEPT ![r] = {r}] /\ Failure
     \/ /\ r \in Removers /\ Advance(r, "readTable", "writeNew") /\ NoFailure
        /\ draft' = [draft EXCEPT ![r] = table \ {target[r]}]
     \/ /\ r \in Removers /\ Advance(r, "readTable", "mirror") /\ Failure
        /\ UNCHANGED draft
  /\ UNCHANGED <<server, tables, mirror, ip, target, blind, reboots>>

\* cat > clientsTable.new: one name for every request.
WriteNewTable(r) ==
  /\ \/ Advance(r, "writeNew", "rename") /\ tableNew' = draft[r] /\ NoFailure
     \/ /\ Advance(r, "writeNew", TableError(r)) /\ Failure
        /\ tableNew' \in {tableNew, draft[r]}
  /\ UNCHANGED <<server, table, mirror, own, reboots>>

\* mv clientsTable.new clientsTable fails when another request has moved it.
RenameTable(r) ==
  /\ \/ /\ tableNew # NoFile /\ Advance(r, "rename", "mirror") /\ NoFailure
        /\ table' = tableNew /\ tableNew' = NoFile
     \/ /\ tableNew # NoFile /\ Advance(r, "rename", TableError(r)) /\ Failure
        /\ \/ table' = tableNew /\ tableNew' = NoFile
           \/ UNCHANGED tables
     \/ /\ tableNew = NoFile /\ Advance(r, "rename", TableError(r)) /\ NoFailure
        /\ UNCHANGED tables
  /\ UNCHANGED <<server, mirror, own, reboots>>

\* cfgMgr.Update of the mirror; its error is dropped.  A request that removes
\* the last entry leaves the mirror as it is (updated is nil).  The tunnel's own
\* key pair has been stored by Connect: the tunnel is up.
UpdateMirror(r) ==
  /\ Advance(r, "mirror", IF r \in Adders THEN "added" ELSE "removed")
  /\ \/ /\ NoFailure
        /\ mirror' = IF r \in Adders THEN draft[r]
                     ELSE LET updated == mirror \ {target[r]}
                          IN IF updated = {} THEN mirror ELSE updated
     \/ Failure /\ UNCHANGED mirror
  /\ UNCHANGED <<server, tables, own, reboots>>

--------------------------------------------------------------------------------
(* Removing *)

\* Any key that has been generated; errors of the commands are only logged.
StartRemove(r, k) ==
  /\ r \in Removers /\ at[k] # "idle"
  /\ Begin(r, "remove")
  /\ target' = [target EXCEPT ![r] = k]
  /\ UNCHANGED <<server, tables, mirror, ip, draft, blind, failures, reboots>>

\* awg set peer remove.
LiveRemove(r) ==
  /\ Advance(r, "remove", "save")
  /\ \/ live' = WithoutPeer(live, target[r]) /\ NoFailure
     \/ UNCHANGED live /\ Failure
  /\ UNCHANGED <<conf, lock, strip, tables, mirror, own, reboots>>

\* Mutant: the removal is not persisted.
SaveConfForgotten(r) ==
  /\ Advance(r, "save", "readTable") /\ NoFailure
  /\ UNCHANGED <<server, tables, mirror, own, reboots>>

\* awg-quick save writes what the interface holds, without taking the flock.
\* By the comment in RemovePeer it needs SaveConfig = true, which the awg0.conf
\* that provisioner/setup.go generates does not have; nobody looks at what it
\* did, and its error is only logged.
SaveConf(r) ==
  /\ Advance(r, "save", "readTable")
  /\ \/ conf' = (IF SaveConfig THEN live ELSE conf) /\ NoFailure
     \/ UNCHANGED conf /\ Failure
  /\ UNCHANGED <<live, lock, strip, tables, mirror, own, reboots>>

--------------------------------------------------------------------------------
\* The server, or the container, starts again: the interface is set up from
\* awg0.conf and a syncconf that was running has failed.
Reboot ==
  /\ reboots < MaxReboots /\ reboots' = reboots + 1
  /\ live' = Applied(conf)
  /\ lock' = NoOne /\ strip' = <<>>
  /\ at' = [r \in Requests |-> IF at[r] = "sync" THEN "failed" ELSE at[r]]
  /\ overlapped' = overlapped \cup (InFlight \cap Removers)
  /\ UNCHANGED <<conf, tables, mirror, own, failures>>

TableStep(r) ==
  ReadClientsTable(r) \/ WriteNewTable(r) \/ RenameTable(r) \/ UpdateMirror(r)

AddStep(a) ==
  FetchAndAllocate(a) \/ AppendPeerBlock(a) \/ Strip(a) \/ SyncConf(a) \/ VerifyPeer(a)

RemoveStep(r) ==
  (\E k \in Adders : StartRemove(r, k)) \/ LiveRemove(r) \/ SaveConf(r)

PeersNext ==
  \/ \E a \in Adders : AddStep(a)
  \/ \E r \in Removers : RemoveStep(r)
  \/ \E r \in Requests : TableStep(r) \/ Refuse(r)
  \/ Reboot

PeersSpec == PeersInit /\ [][PeersNext]_peersVars

--------------------------------------------------------------------------------
(* Properties *)

Wanted(a) ==
  at[a] = "added" /\ \A r \in Removers : target[r] # a

\* A peer whose AddPeer was answered 201 and met no other request keeps its
\* address, on the interface and in awg0.conf, whatever requests overlap
\* later, whichever of their commands fail and when the server restarts:
\* neither a stale awg-quick strip nor an awg-quick save loses it, and the
\* block a failed request left behind does not take its address over.  The
\* one excuse is an address given out without a peer dump.
AddressKept ==
  \A a \in Adders \ overlapped : Wanted(a) =>
    \/ /\ [key |-> a, ip |-> ip[a]] \in ToSet(live)
       /\ [key |-> a, ip |-> ip[a]] \in ToSet(Applied(conf))
    \/ \E b \in blind : ip[b] = ip[a]

\* On a server whose awg0.conf has SaveConfig = true, a DELETE /v1/peers that met
\* no other request and no restart of the server removes the peer for good: it
\* comes back neither with the syncconf of a later request nor with a later
\* restart (no command has failed).  Without SaveConfig the block stays in
\* awg0.conf, and the next AddPeer or restart brings the peer back.
RemovedIsGone ==
  SaveConfig => \A r \in Removers \ overlapped : at[r] = "removed" /\ failures = 0 =>
    target[r] \notin Keys(live) \cup Keys(conf) \cup table

\* No two peers that were answered 201 and not removed have one address.
UniqueIPs ==
  \A a, b \in Adders : Wanted(a) /\ Wanted(b) /\ ip[a] = ip[b] => a = b
================================================================================
