------------------------------ MODULE LogStream ------------------------------
(***************************************************************************)
(* The log stream (src/src/internal/logstream): handlers of slog write     *)
(* records into a ring without a lock, a hub fans them out to subscribers, *)
(* each of them with a bounded channel, and a client that comes back has   *)
(* the ring replayed from the last record it has seen.                     *)
(*                                                                         *)
(* The handler's mutex is held during a write; a clone of the handler, as  *)
(* WithAttrs makes it, shares the ring and not the mutex.  A record is its *)
(* sequence number and the writer it is by, which stands for the level,    *)
(* component and source in the filters.  Readers take the ring slot by     *)
(* slot; a slot read while it is being stored is any mixture of the old    *)
(* record and the new one.                                                 *)
(*                                                                         *)
(* Nothing in the repository calls Notify, Run and Stop yet: they are      *)
(* modelled as their comments say they are called.                         *)
(***************************************************************************)
EXTENDS Naturals, FiniteSets, Sequences

CONSTANTS Writers,      \* goroutines that log
          Clones,       \* those that log through a clone of their own
          Subs,         \* stream requests
          Hub,          \* the goroutine of Hub.Run
          None,         \* nil
          Filters,      \* filters that are asked for; {} is no filter
          Cap,          \* capacity of the ring
          NotifyCap,    \* capacity of notifyCh
          BufCap,       \* capacity of a subscriber's channel
          MaxRecords    \* bound: records written

ASSUME LogStreamAssumption ==
  /\ {Cap, NotifyCap, BufCap, MaxRecords} \subseteq Nat \ {0}
  /\ Filters \subseteq SUBSET Writers /\ Clones \subseteq Writers
  /\ Hub \notin Subs /\ None \notin Subs \cup Writers

VARIABLES slots, seq, writeIdx, total,  \* the ring
          wr,           \* per writer: its step, sequence number and slot
          notifyCh,
          rd,           \* per reader of the ring: what it reads, and sends to whom
          subs,         \* Hub.subscribers
          sub,          \* per subscriber: step, filter, channel, closed
          stopped,      \* Hub.Stop: not called, stopCh closed, done
          base,         \* history: per subscriber, it is to get what comes after
          offered,      \* history: per subscriber, what was offered to its channel
          panics        \* history: who sent to a closed channel

ring == <<slots, seq, writeIdx, total>>
hist == <<base, offered, panics>>
vars == <<ring, wr, notifyCh, rd, subs, sub, stopped, hist>>

Record == [seq : 0..MaxRecords, by : Writers \cup {None}]
Readers == Subs \cup {Hub}

TypeOK ==
  /\ slots \in [0..(Cap - 1) -> Record]
  /\ {seq, writeIdx, total} \subseteq 0..MaxRecords
  /\ wr \in [Writers -> [pc : {"idle", "slot", "store", "count", "notify"},
                         seq : 0..MaxRecords, idx : 0..MaxRecords]]
  /\ notifyCh \in Seq(1..MaxRecords) /\ Len(notifyCh) <= NotifyCap
  /\ rd \in [Readers -> [pc : {"idle", "load", "read", "send", "put", "retry", "dead"},
                         after : 0..MaxRecords, pos : 0..MaxRecords, end : 0..MaxRecords,
                         res : Seq(Record), todo : SUBSET Subs, to : Subs \cup {None}]]
  /\ subs \subseteq Subs
  /\ sub \in [Subs -> [pc : {"idle", "replay", "open", "leave", "close", "done"},
                       filter : SUBSET Writers, ch : Seq(Record), closed : BOOLEAN]]
  /\ \A s \in Subs : Len(sub[s].ch) <= BufCap
  /\ stopped \in {"no", "signalled", "done"}
  /\ base \in [Subs -> 0..MaxRecords] /\ offered \in [Subs -> SUBSET Record]
  /\ panics \subseteq Readers

Idle == [pc |-> "idle", after |-> 0, pos |-> 0, end |-> 0,
         res |-> <<>>, todo |-> {}, to |-> None]

\* NewRing, NewHub
Init ==
  /\ slots = [i \in 0..(Cap - 1) |-> [seq |-> 0, by |-> None]]
  /\ seq = 0 /\ writeIdx = 0 /\ total = 0
  /\ wr = [w \in Writers |-> [pc |-> "idle", seq |-> 0, idx |-> 0]]
  /\ notifyCh = <<>>
  /\ rd = [r \in Readers |-> Idle]
  /\ subs = {}
  /\ sub = [s \in Subs |-> [pc |-> "idle", filter |-> {}, ch |-> <<>>, closed |-> FALSE]]
  /\ stopped = "no"
  /\ base = [s \in Subs |-> 0] /\ offered = [s \in Subs |-> {}]
  /\ panics = {}

--------------------------------------------------------------------------------
(* Ring.Write, under the handler's mutex, and Notify *)

\* Handle takes the mutex; r.seq.Add.
TakeSeq(w) ==
  /\ wr[w].pc = "idle" /\ seq < MaxRecords
  /\ w \in Clones \/ \A v \in Writers \ Clones : wr[v].pc = "idle"
  /\ seq' = seq + 1
  /\ wr' = [wr EXCEPT ![w] = [@ EXCEPT !.pc = "slot", !.seq = seq']]
  /\ UNCHANGED <<slots, writeIdx, total, notifyCh, rd, subs, sub, stopped, hist>>

\* r.writeIdx.Add
TakeSlot(w) ==
  /\ wr[w].pc = "slot"
  /\ writeIdx' = writeIdx + 1
  /\ wr' = [wr EXCEPT ![w] = [@ EXCEPT !.pc = "store", !.idx = writeIdx]]
  /\ UNCHANGED <<slots, seq, total, notifyCh, rd, subs, sub, stopped, hist>>

Store(w) ==
  /\ wr[w].pc = "store"
  /\ slots' = [slots EXCEPT ![wr[w].idx % Cap] = [seq |-> wr[w].seq, by |-> w]]
  /\ wr' = [wr EXCEPT ![w].pc = "count"]
  /\ UNCHANGED <<seq, writeIdx, total, notifyCh, rd, subs, sub, stopped, hist>>

\* r.total.Add
Count(w) ==
  /\ wr[w].pc = "count"
  /\ total' = total + 1
  /\ wr' = [wr EXCEPT ![w].pc = "notify"]
  /\ UNCHANGED <<slots, seq, writeIdx, notifyCh, rd, subs, sub, stopped, hist>>

\* Mutant: a full channel is not looked at.
NotifyAlways(w) ==
  /\ wr[w].pc = "notify"
  /\ notifyCh' = Append(notifyCh, wr[w].seq)
  /\ wr' = [wr EXCEPT ![w] = [pc |-> "idle", seq |-> 0, idx |-> 0]]
  /\ UNCHANGED <<ring, rd, subs, sub, stopped, hist>>

\* A full channel drops the notification.
Notify(w) ==
  /\ wr[w].pc = "notify"
  /\ notifyCh' = IF Len(notifyCh) < NotifyCap THEN Append(notifyCh, wr[w].seq) ELSE notifyCh
  /\ wr' = [wr EXCEPT ![w] = [pc |-> "idle", seq |-> 0, idx |-> 0]]
  /\ UNCHANGED <<ring, rd, subs, sub, stopped, hist>>

--------------------------------------------------------------------------------
(* Ring.Since, read by the hub and by replays *)

Finish(r) ==
  IF r = Hub THEN rd' = [rd EXCEPT ![r] = Idle] /\ UNCHANGED sub
  ELSE rd' = [rd EXCEPT ![r] = Idle] /\ sub' = [sub EXCEPT ![r].pc = "open"]

LoadTotal(r) ==
  /\ rd[r].pc = "load"
  /\ \/ total = 0 /\ Finish(r)
     \/ /\ total > 0 /\ UNCHANGED sub
        /\ rd' = [rd EXCEPT ![r] =
                    [@ EXCEPT !.pc = "read", !.end = total,
                              !.pos = IF total > Cap THEN total - Cap ELSE 0]]
  /\ UNCHANGED <<ring, wr, notifyCh, subs, stopped, hist>>

\* What a read of slot k may yield.
Seen(k) ==
  {slots[k]} \cup
  UNION {[seq : {slots[k].seq, wr[w].seq}, by : {slots[k].by, w}] :
           w \in {v \in Writers : wr[v].pc = "store" /\ wr[v].idx % Cap = k}}

ReadSlot(r) ==
  /\ rd[r].pc = "read" /\ rd[r].pos < rd[r].end
  /\ \E rec \in Seen(rd[r].pos % Cap) :
       rd' = [rd EXCEPT ![r] =
                [rd[r] EXCEPT !.pos = @ + 1,
                              !.res = IF rec.seq > rd[r].after THEN Append(@, rec) ELSE @]]
  /\ UNCHANGED <<ring, wr, notifyCh, subs, sub, stopped, hist>>

Matches(s, rec) == sub[s].filter = {} \/ rec.by \in sub[s].filter

\* The subscribers that the first record of res goes to.
Audience(r, res) ==
  {s \in (IF r = Hub THEN subs ELSE {r}) : res # <<>> /\ Matches(s, Head(res))}

\* The records are read; fanout takes the read lock.
EndRead(r) ==
  /\ rd[r].pc = "read" /\ rd[r].pos = rd[r].end
  /\ \/ rd[r].res = <<>> /\ Finish(r)
     \/ /\ rd[r].res # <<>> /\ UNCHANGED sub
        /\ rd' = [rd EXCEPT ![r] = [@ EXCEPT !.pc = "send", !.todo = Audience(r, rd[r].res)]]
  /\ UNCHANGED <<ring, wr, notifyCh, subs, stopped, hist>>

--------------------------------------------------------------------------------
(* Subscriber.send *)

\* The next subscriber of the record, in the order of a Go map; one that is
\* closed is passed over.
Pick(r) ==
  /\ rd[r].pc = "send"
  /\ \E s \in rd[r].todo :
       rd' = [rd EXCEPT ![r] = [rd[r] EXCEPT !.todo = @ \ {s},
                                             !.pc = IF sub[s].closed THEN "send" ELSE "put",
                                             !.to = IF sub[s].closed THEN None ELSE s]]
  /\ UNCHANGED <<ring, wr, notifyCh, subs, sub, stopped, hist>>

NextRecord(r) ==
  /\ rd[r].pc = "send" /\ rd[r].todo = {}
  /\ LET rest == Tail(rd[r].res)
     IN \/ rest = <<>> /\ Finish(r)
        \/ /\ rest # <<>> /\ UNCHANGED sub
           /\ rd' = [rd EXCEPT ![r] = [@ EXCEPT !.res = rest, !.todo = Audience(r, rest)]]
  /\ UNCHANGED <<ring, wr, notifyCh, subs, stopped, hist>>

\* A send to a closed channel panics: it ends the daemon with the hub, and the
\* request, whose handler unsubscribes, with a replay.
Panic(r) ==
  /\ sub[rd[r].to].closed
  /\ panics' = panics \cup {r}
  /\ rd' = [rd EXCEPT ![r] = IF r = Hub THEN [Idle EXCEPT !.pc = "dead"] ELSE Idle]
  /\ sub' = IF r = Hub THEN sub ELSE [sub EXCEPT ![r].pc = "leave"]
  /\ UNCHANGED offered

Enqueue(r) ==
  LET s == rd[r].to
      rec == Head(rd[r].res)
  IN /\ ~sub[s].closed /\ Len(sub[s].ch) < BufCap
     /\ sub' = [sub EXCEPT ![s].ch = Append(@, rec)]
     /\ offered' = [offered EXCEPT ![s] = @ \cup {rec}]
     /\ rd' = [rd EXCEPT ![r] = [@ EXCEPT !.pc = "send", !.to = None]]
     /\ UNCHANGED panics

\* The first select; a full channel loses its oldest record.
Put(r) ==
  /\ rd[r].pc = "put"
  /\ \/ Panic(r)
     \/ Enqueue(r)
     \/ LET s == rd[r].to
        IN /\ ~sub[s].closed /\ Len(sub[s].ch) = BufCap
           /\ sub' = [sub EXCEPT ![s].ch = Tail(@)]
           /\ rd' = [rd EXCEPT ![r].pc = "retry"]
           /\ UNCHANGED <<offered, panics>>
  /\ UNCHANGED <<ring, wr, notifyCh, subs, stopped, base>>

\* The last select: a channel filled by another sender meanwhile loses the new
\* record.
Retry(r) ==
  /\ rd[r].pc = "retry"
  /\ \/ Panic(r)
     \/ Enqueue(r)
     \/ LET s == rd[r].to
        IN /\ ~sub[s].closed /\ Len(sub[s].ch) = BufCap
           /\ rd' = [rd EXCEPT ![r] = [@ EXCEPT !.pc = "send", !.to = None]]
           /\ offered' = [offered EXCEPT ![s] = @ \cup {Head(rd[r].res)}]
           /\ UNCHANGED <<sub, panics>>
  /\ UNCHANGED <<ring, wr, notifyCh, subs, stopped, base>>

--------------------------------------------------------------------------------
(* Hub.Run and Stop *)

\* Mutant: everything after the notified record is sent.
TakeAfter ==
  /\ rd[Hub].pc = "idle" /\ notifyCh # <<>>
  /\ notifyCh' = Tail(notifyCh)
  /\ rd' = [rd EXCEPT ![Hub] = [Idle EXCEPT !.pc = "load", !.after = Head(notifyCh)]]
  /\ UNCHANGED <<ring, wr, subs, sub, stopped, hist>>

\* A notification is taken: fanout sends the record and what follows it.
Take ==
  /\ rd[Hub].pc = "idle" /\ notifyCh # <<>>
  /\ notifyCh' = Tail(notifyCh)
  /\ rd' = [rd EXCEPT ![Hub] = [Idle EXCEPT !.pc = "load", !.after = Head(notifyCh) - 1]]
  /\ UNCHANGED <<ring, wr, subs, sub, stopped, hist>>

\* Run returns.
RunEnds ==
  /\ rd[Hub].pc = "idle" /\ stopped # "no"
  /\ rd' = [rd EXCEPT ![Hub].pc = "dead"]
  /\ UNCHANGED <<ring, wr, notifyCh, subs, sub, stopped, hist>>

\* The read lock of fanout keeps the write lock away.
Lockable == rd[Hub].pc \notin {"send", "put", "retry"}

StopSignal ==
  /\ stopped = "no" /\ stopped' = "signalled"
  /\ UNCHANGED <<ring, wr, notifyCh, rd, subs, sub, hist>>

StopClose ==
  /\ stopped = "signalled" /\ Lockable
  /\ stopped' = "done"
  /\ sub' = [s \in Subs |-> IF s \in subs THEN [sub[s] EXCEPT !.closed = TRUE] ELSE sub[s]]
  /\ subs' = {}
  /\ UNCHANGED <<ring, wr, notifyCh, rd, hist>>

--------------------------------------------------------------------------------
(* The stream handlers *)

\* Subscribe, and the choice of ServeHTTP to replay.
Subscribe(s) ==
  /\ sub[s].pc = "idle" /\ Lockable
  /\ subs' = subs \cup {s}
  /\ \E f \in Filters :
       \/ /\ sub' = [sub EXCEPT ![s] = [@ EXCEPT !.pc = "open", !.filter = f]]
          /\ base' = [base EXCEPT ![s] = seq] /\ UNCHANGED rd
       \/ \E last \in 0..seq :
            /\ sub' = [sub EXCEPT ![s] = [@ EXCEPT !.pc = "replay", !.filter = f]]
            /\ base' = [base EXCEPT ![s] = last]
            /\ rd' = [rd EXCEPT ![s] = [Idle EXCEPT !.pc = "load", !.after = last]]
  /\ UNCHANGED <<ring, wr, notifyCh, stopped, offered, panics>>

\* A record goes out to the client.
Receive(s) ==
  /\ sub[s].pc = "open" /\ sub[s].ch # <<>>
  /\ sub' = [sub EXCEPT ![s].ch = Tail(@)]
  /\ UNCHANGED <<ring, wr, notifyCh, rd, subs, stopped, hist>>

\* The client has gone, the channel is closed and empty, or (for the wizard's
\* stream) the session has ended.
Leave(s) ==
  /\ sub[s].pc = "open"
  /\ sub' = [sub EXCEPT ![s].pc = "leave"]
  /\ UNCHANGED <<ring, wr, notifyCh, rd, subs, stopped, hist>>

\* Mutant: the read lock is not waited for.
UnsubscribeUnlocked(s) ==
  /\ sub[s].pc = "leave"
  /\ subs' = subs \ {s}
  /\ sub' = [sub EXCEPT ![s].pc = IF s \in subs THEN "close" ELSE "done"]
  /\ UNCHANGED <<ring, wr, notifyCh, rd, stopped, hist>>

\* Unsubscribe: one that Stop has dropped is closed already.
Unsubscribe(s) ==
  /\ sub[s].pc = "leave" /\ Lockable
  /\ subs' = subs \ {s}
  /\ sub' = [sub EXCEPT ![s].pc = IF s \in subs THEN "close" ELSE "done"]
  /\ UNCHANGED <<ring, wr, notifyCh, rd, stopped, hist>>

Close(s) ==
  /\ sub[s].pc = "close"
  /\ sub' = [sub EXCEPT ![s].pc = "done", ![s].closed = TRUE]
  /\ UNCHANGED <<ring, wr, notifyCh, rd, subs, stopped, hist>>

--------------------------------------------------------------------------------
ReadStep(r) ==
  LoadTotal(r) \/ ReadSlot(r) \/ EndRead(r) \/ Pick(r) \/ NextRecord(r) \/ Put(r) \/ Retry(r)

Next ==
  \/ \E w \in Writers : TakeSeq(w) \/ TakeSlot(w) \/ Store(w) \/ Count(w) \/ Notify(w)
  \/ \E r \in Readers : ReadStep(r)
  \/ \E s \in Subs : Subscribe(s) \/ Receive(s) \/ Leave(s) \/ Unsubscribe(s) \/ Close(s)
  \/ Take \/ RunEnds \/ StopSignal \/ StopClose

Spec == Init /\ [][Next]_vars

--------------------------------------------------------------------------------
(* Properties *)

\* Nothing more will be read or sent without another write.
Quiet ==
  /\ notifyCh = <<>> /\ rd[Hub].pc = "idle"
  /\ \A w \in Writers : wr[w].pc = "idle"

\* When all is quiet, every record that is still in the ring, passes its filter
\* and came after it subscribed (or after the record it named for the replay)
\* has been offered to a client's channel, which loses records only when it is
\* full.  Notifications that were dropped, records written while the ring is
\* read, and the step from replay to live records leave no gap.
NothingSkipped ==
  Quiet /\ stopped = "no" =>
    \A s \in Subs, k \in DOMAIN slots :
      sub[s].pc = "open" /\ slots[k].seq > base[s] /\ Matches(s, slots[k])
        => slots[k] \in offered[s]

\* Nobody sends to a closed channel: not the hub, whatever subscribers leave or
\* Stop closes while it fans out, and not a replay unless Stop closes the
\* channel under it.
SendsAreSafe == Hub \notin panics /\ (panics # {} => stopped = "done")
================================================================================
