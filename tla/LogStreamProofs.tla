--------------------------- MODULE LogStreamProofs ---------------------------
(***************************************************************************)
(* Proofs about LogStream for every number of writers, clones and          *)
(* subscribers and every capacity: its types, among them that no counter   *)
(* of the ring passes the records written and that no channel holds more   *)
(* than its capacity; that nobody sends to a closed channel                *)
(* (SendsAreSafe); and, for writers that share the handler's mutex, that   *)
(* no client misses a record of the ring (NothingSkipped).                 *)
(*                                                                         *)
(* The counters are only bounded together with the writers that have still *)
(* to take them (Counted).  SendsAreSafe needs where a sender's targets    *)
(* come from: the hub sends to subscribers only and keeps the write lock   *)
(* away meanwhile, a replay sends to its own channel only (Reading), and a *)
(* channel is closed after it was unsubscribed, or by Stop (Closing).      *)
(*                                                                         *)
(* NothingSkipped needs, for every record of the ring that a client is     *)
(* still owed, who will bring it: the writer that has yet to notify, a     *)
(* notification in the channel that is not younger, or a reader that will  *)
(* come to its slot or holds it (NoGap); and for that where in the ring a  *)
(* record is (InPlace).                                                    *)
(***************************************************************************)
EXTENDS LogStream, FiniteSetTheorems, TLAPS

\* The types of a writer's, a reader's and a subscriber's state.
WState == [pc : {"idle", "slot", "store", "count", "notify"},
           seq : 0..MaxRecords, idx : 0..MaxRecords]
RState == [pc : {"idle", "load", "read", "send", "put", "retry", "dead"},
           after : 0..MaxRecords, pos : 0..MaxRecords, end : 0..MaxRecords,
           res : Seq(Record), todo : SUBSET Subs, to : Subs \cup {None}]
SState == [pc : {"idle", "replay", "open", "leave", "close", "done"},
           filter : SUBSET Writers, ch : Seq(Record), closed : BOOLEAN]

\* Writers that have a sequence number and no slot, and those that have a slot
\* and have not counted it.
Slotless == {w \in Writers : wr[w].pc = "slot"}
Filling  == {w \in Writers : wr[w].pc \in {"store", "count"}}

\* Every sequence number is a slot or has a writer that will take one, and
\* every slot is counted or has a writer that will count it.
Counted ==
  /\ IsFiniteSet(Slotless) /\ writeIdx + Cardinality(Slotless) = seq
  /\ IsFiniteSet(Filling) /\ total + Cardinality(Filling) = writeIdx
  /\ \A w \in Writers : wr[w].pc # "idle" => wr[w].seq >= 1

\* What reader r may hold when T are the subscribers: something to send while
\* it sends, and targets that the hub has locked or that are the replay's own.
Holds(r, x, T) ==
  /\ x.pc \in {"send", "put", "retry"} => x.res # <<>>
  /\ x.pc = "read" => x.pos <= x.end
  /\ r = Hub => /\ x.pc \in {"send", "put", "retry"} => x.todo \subseteq T
                /\ x.pc \in {"put", "retry"} => x.to \in T
  /\ r # Hub => /\ x.pc # "dead" /\ x.todo \subseteq {r}
                /\ x.pc \in {"put", "retry"} => x.to = r

Reading ==
  /\ \A r \in Readers : Holds(r, rd[r], subs)
  /\ \A s \in Subs : rd[s].pc # "idle" => sub[s].pc = "replay"

\* Subscribers are open, one that unsubscribed or has yet to subscribe is none,
\* and a channel closed before Stop has no handler left.
Closing ==
  \A s \in Subs :
    /\ s \in subs => ~sub[s].closed
    /\ sub[s].pc \in {"idle", "close", "done"} => s \notin subs
    /\ sub[s].pc = "idle" => ~sub[s].closed
    /\ sub[s].closed /\ stopped # "done" => sub[s].pc = "done"

LInv == TypeOK /\ Counted /\ Reading /\ Closing /\ SendsAreSafe

--------------------------------------------------------------------------------
(* Types, part by part *)

LEMMA Bounds ==
  /\ Cap \in Nat /\ Cap > 0 /\ NotifyCap \in Nat /\ NotifyCap > 0
  /\ BufCap \in Nat /\ BufCap > 0 /\ MaxRecords \in Nat /\ MaxRecords > 0
  /\ Filters \subseteq SUBSET Writers /\ Hub \notin Subs /\ None \notin Subs
BY LogStreamAssumption

\* TypeOK as facts about the ring and its writers, and about the readers and
\* subscribers.
RingTypes ==
  /\ slots \in [0..(Cap - 1) -> Record]
  /\ seq \in 0..MaxRecords /\ writeIdx \in 0..MaxRecords /\ total \in 0..MaxRecords
  /\ wr \in [Writers -> WState]
  /\ notifyCh \in Seq(1..MaxRecords) /\ Len(notifyCh) <= NotifyCap

StreamTypes ==
  /\ rd \in [Readers -> RState] /\ subs \subseteq Subs
  /\ sub \in [Subs -> SState] /\ \A s \in Subs : Len(sub[s].ch) <= BufCap
  /\ stopped \in {"no", "signalled", "done"}
  /\ base \in [Subs -> 0..MaxRecords] /\ offered \in [Subs -> SUBSET Record]
  /\ panics \subseteq Readers

LEMMA TypeParts == TypeOK <=> RingTypes /\ StreamTypes
BY DEF TypeOK, RingTypes, StreamTypes, WState, RState, SState

LEMMA TypePartsNext == RingTypes' /\ StreamTypes' => TypeOK'
BY DEF TypeOK, RingTypes, StreamTypes, WState, RState, SState

\* The ring's numbers.
LEMMA Numbers ==
  ASSUME RingTypes
  PROVE  /\ seq \in Nat /\ writeIdx \in Nat /\ total \in Nat /\ MaxRecords \in Nat
         /\ seq <= MaxRecords /\ writeIdx <= MaxRecords /\ total <= MaxRecords
BY Bounds DEF RingTypes

\* A slot number is one of the ring.
LEMMA SlotNumber ==
  ASSUME NEW i \in Nat
  PROVE  i % Cap \in 0..(Cap - 1)
BY Bounds

\* The stream's half of the invariant, when a writer takes a step.
LEMMA StreamKept ==
  ASSUME LInv, UNCHANGED <<rd, subs, sub, stopped, base, offered, panics>>
  PROVE  StreamTypes' /\ Reading' /\ Closing' /\ SendsAreSafe'
<1>1. StreamTypes'
  BY TypeParts DEF LInv, StreamTypes
<1>2. Reading'
  BY DEF LInv, Reading, Holds
<1>3. Closing' /\ SendsAreSafe'
  BY DEF LInv, Closing, SendsAreSafe
<1> QED
  BY <1>1, <1>2, <1>3

\* The ring's half, when a reader or a subscriber takes one.
LEMMA RingKept ==
  ASSUME LInv, UNCHANGED <<slots, seq, writeIdx, total, wr, notifyCh>>
  PROVE  RingTypes' /\ Counted'
<1>1. RingTypes'
  BY TypeParts DEF LInv, RingTypes
<1>2. Slotless' = Slotless /\ Filling' = Filling
  BY DEF Slotless, Filling
<1>3. Counted'
  BY <1>2 DEF LInv, Counted
<1> QED
  BY <1>1, <1>3

--------------------------------------------------------------------------------
(* Writers *)

\* What the counters leave: room for everyone who has still to count.
LEMMA Room ==
  ASSUME LInv
  PROVE  /\ Cardinality(Slotless) \in Nat /\ Cardinality(Filling) \in Nat
         /\ writeIdx + Cardinality(Slotless) = seq
         /\ total + Cardinality(Filling) = writeIdx
BY FS_CardinalityType DEF LInv, Counted

LEMMA NotEmpty ==
  ASSUME NEW S, IsFiniteSet(S), NEW x \in S
  PROVE  Cardinality(S) \in Nat /\ Cardinality(S) >= 1
BY FS_EmptySet, FS_CardinalityType

LEMMA TakeSeqInv ==
  ASSUME LInv, NEW w \in Writers, TakeSeq(w)
  PROVE  LInv'
<1> USE DEF WState
<1>1. /\ wr[w].pc = "idle" /\ seq < MaxRecords /\ seq' = seq + 1
      /\ wr' = [wr EXCEPT ![w] = [@ EXCEPT !.pc = "slot", !.seq = seq + 1]]
      /\ slots' = slots /\ writeIdx' = writeIdx /\ total' = total /\ notifyCh' = notifyCh
  BY DEF TakeSeq
<1>2. RingTypes
  BY TypeParts DEF LInv
<1>3. RingTypes'
  <2>1. seq' \in 0..MaxRecords
    BY <1>1, <1>2, Numbers
  <2>2. wr' \in [Writers -> WState]
    BY <1>1, <1>2, <2>1 DEF RingTypes
  <2> QED
    BY <1>1, <1>2, <2>1, <2>2 DEF RingTypes
<1>4. Slotless' = Slotless \cup {w} /\ w \notin Slotless
  BY <1>1, <1>2 DEF Slotless, RingTypes
<1>5. Filling' = Filling
  BY <1>1, <1>2 DEF Filling, RingTypes
<1>6. IsFiniteSet(Slotless') /\ Cardinality(Slotless') = Cardinality(Slotless) + 1
  BY <1>4, FS_AddElement DEF LInv, Counted
<1>7. \A v \in Writers : wr'[v].pc # "idle" => wr'[v].seq >= 1
  BY <1>1, <1>2 DEF LInv, Counted, RingTypes
<1>8. writeIdx' + Cardinality(Slotless') = seq'
  BY <1>1, <1>2, <1>6, Room DEF RingTypes
<1>9. Counted'
  BY <1>1, <1>5, <1>6, <1>7, <1>8 DEF LInv, Counted
<1> QED
  BY <1>3, <1>9, StreamKept, TypePartsNext DEF LInv, TakeSeq, hist

LEMMA TakeSlotInv ==
  ASSUME LInv, NEW w \in Writers, TakeSlot(w)
  PROVE  LInv'
<1> USE DEF WState
<1>1. /\ wr[w].pc = "slot" /\ writeIdx' = writeIdx + 1
      /\ wr' = [wr EXCEPT ![w] = [@ EXCEPT !.pc = "store", !.idx = writeIdx]]
      /\ slots' = slots /\ seq' = seq /\ total' = total /\ notifyCh' = notifyCh
  BY DEF TakeSlot
<1>2. RingTypes
  BY TypeParts DEF LInv
<1>3. w \in Slotless /\ w \notin Filling
  BY <1>1 DEF Slotless, Filling
<1>4. Cardinality(Slotless) >= 1
  BY <1>3, NotEmpty DEF LInv, Counted
<1>5. writeIdx' \in 0..MaxRecords
  BY <1>1, <1>2, <1>4, Room, Numbers
<1>6. RingTypes'
  <2>1. wr' \in [Writers -> WState]
    BY <1>1, <1>2 DEF RingTypes
  <2> QED
    BY <1>1, <1>2, <1>5, <2>1 DEF RingTypes
<1>7. Slotless' = Slotless \ {w} /\ Filling' = Filling \cup {w}
  BY <1>1, <1>2 DEF Slotless, Filling, RingTypes
<1>8. IsFiniteSet(Slotless') /\ Cardinality(Slotless') = Cardinality(Slotless) - 1
  BY <1>3, <1>7, FS_RemoveElement DEF LInv, Counted
<1>9. IsFiniteSet(Filling') /\ Cardinality(Filling') = Cardinality(Filling) + 1
  BY <1>3, <1>7, FS_AddElement DEF LInv, Counted
<1>10. \A v \in Writers : wr'[v].pc # "idle" => wr'[v].seq >= 1
  BY <1>1, <1>2 DEF LInv, Counted, RingTypes
<1>11. /\ writeIdx' + Cardinality(Slotless') = seq'
       /\ total' + Cardinality(Filling') = writeIdx'
  BY <1>1, <1>2, <1>8, <1>9, Room, Numbers
<1>12. Counted'
  BY <1>8, <1>9, <1>10, <1>11 DEF Counted
<1> QED
  BY <1>6, <1>12, StreamKept, TypePartsNext DEF LInv, TakeSlot, hist

LEMMA StoreInv ==
  ASSUME LInv, NEW w \in Writers, Store(w)
  PROVE  LInv'
<1> USE DEF WState
<1>1. /\ wr[w].pc = "store" /\ wr' = [wr EXCEPT ![w].pc = "count"]
      /\ slots' = [slots EXCEPT ![wr[w].idx % Cap] = [seq |-> wr[w].seq, by |-> w]]
      /\ seq' = seq /\ writeIdx' = writeIdx /\ total' = total /\ notifyCh' = notifyCh
  BY DEF Store
<1>2. RingTypes
  BY TypeParts DEF LInv
<1>3. [seq |-> wr[w].seq, by |-> w] \in Record
  BY <1>2 DEF RingTypes, Record
<1>4. slots' \in [0..(Cap - 1) -> Record] /\ wr' \in [Writers -> WState]
  BY <1>1, <1>2, <1>3 DEF RingTypes
<1>5. RingTypes'
  BY <1>1, <1>2, <1>4 DEF RingTypes
<1>6. Slotless' = Slotless /\ Filling' = Filling
  BY <1>1, <1>2 DEF Slotless, Filling, RingTypes
<1>7. \A v \in Writers : wr'[v].pc # "idle" => wr'[v].seq >= 1
  BY <1>1, <1>2 DEF LInv, Counted, RingTypes
<1>8. Counted'
  BY <1>1, <1>6, <1>7 DEF LInv, Counted
<1> QED
  BY <1>5, <1>8, StreamKept, TypePartsNext DEF LInv, Store, hist

LEMMA CountInv ==
  ASSUME LInv, NEW w \in Writers, Count(w)
  PROVE  LInv'
<1> USE DEF WState
<1>1. /\ wr[w].pc = "count" /\ wr' = [wr EXCEPT ![w].pc = "notify"] /\ total' = total + 1
      /\ slots' = slots /\ seq' = seq /\ writeIdx' = writeIdx /\ notifyCh' = notifyCh
  BY DEF Count
<1>2. RingTypes
  BY TypeParts DEF LInv
<1>3. w \in Filling
  BY <1>1 DEF Filling
<1>4. Cardinality(Filling) >= 1
  BY <1>3, NotEmpty DEF LInv, Counted
<1>5. total' \in 0..MaxRecords
  BY <1>1, <1>2, <1>4, Room, Numbers
<1>6. RingTypes'
  <2>1. wr' \in [Writers -> WState]
    BY <1>1, <1>2 DEF RingTypes
  <2> QED
    BY <1>1, <1>2, <1>5, <2>1 DEF RingTypes
<1>7. Slotless' = Slotless /\ Filling' = Filling \ {w}
  BY <1>1, <1>2 DEF Slotless, Filling, RingTypes
<1>8. IsFiniteSet(Filling') /\ Cardinality(Filling') = Cardinality(Filling) - 1
  BY <1>3, <1>7, FS_RemoveElement DEF LInv, Counted
<1>9. \A v \in Writers : wr'[v].pc # "idle" => wr'[v].seq >= 1
  BY <1>1, <1>2 DEF LInv, Counted, RingTypes
<1>10. total' + Cardinality(Filling') = writeIdx'
  BY <1>1, <1>2, <1>8, Room DEF RingTypes
<1>11. Counted'
  BY <1>1, <1>7, <1>8, <1>9, <1>10 DEF LInv, Counted
<1> QED
  BY <1>6, <1>11, StreamKept, TypePartsNext DEF LInv, Count, hist

LEMMA NotifyInv ==
  ASSUME LInv, NEW w \in Writers, Notify(w)
  PROVE  LInv'
<1> USE DEF WState
<1>1. /\ wr[w].pc = "notify"
      /\ notifyCh' = IF Len(notifyCh) < NotifyCap THEN Append(notifyCh, wr[w].seq) ELSE notifyCh
      /\ wr' = [wr EXCEPT ![w] = [pc |-> "idle", seq |-> 0, idx |-> 0]]
      /\ slots' = slots /\ seq' = seq /\ writeIdx' = writeIdx /\ total' = total
  BY DEF Notify, ring
<1>2. RingTypes
  BY TypeParts DEF LInv
<1>3. wr[w].seq \in 1..MaxRecords
  BY <1>1, <1>2 DEF LInv, Counted, RingTypes
<1>4. notifyCh' \in Seq(1..MaxRecords) /\ Len(notifyCh') <= NotifyCap
  <2>1. notifyCh \in Seq(1..MaxRecords) /\ Len(notifyCh) <= NotifyCap
    BY <1>2 DEF RingTypes
  <2>2. CASE Len(notifyCh) < NotifyCap
    BY <1>1, <1>3, <2>1, <2>2, Bounds
  <2>3. CASE ~(Len(notifyCh) < NotifyCap)
    BY <1>1, <2>1, <2>3
  <2> QED
    BY <2>2, <2>3
<1>5. wr' \in [Writers -> WState]
  BY <1>1, <1>2, Bounds DEF RingTypes
<1>6. RingTypes'
  BY <1>1, <1>2, <1>4, <1>5 DEF RingTypes
<1>7. Slotless' = Slotless /\ Filling' = Filling
  BY <1>1, <1>2 DEF Slotless, Filling, RingTypes
<1>8. \A v \in Writers : wr'[v].pc # "idle" => wr'[v].seq >= 1
  BY <1>1, <1>2 DEF LInv, Counted, RingTypes
<1>9. Counted'
  BY <1>1, <1>7, <1>8 DEF LInv, Counted
<1> QED
  BY <1>6, <1>9, StreamKept, TypePartsNext DEF LInv, Notify, hist

--------------------------------------------------------------------------------
(* Readers *)

\* What a step of a reader leaves alone.
Elsewhere == UNCHANGED <<slots, seq, writeIdx, total, wr, notifyCh, subs, stopped, base>>

\* A reader at work goes on to x; a replay that ends lets its handler go on.
LEMMA ReaderInv ==
  ASSUME LInv, NEW r \in Readers, NEW x \in RState, rd[r].pc # "idle",
         rd' = [rd EXCEPT ![r] = x], Elsewhere, Holds(r, x, subs),
         sub' \in [Subs -> SState],
         \A s \in Subs : /\ Len(sub'[s].ch) <= BufCap /\ sub'[s].closed = sub[s].closed
                         /\ \/ sub'[s].pc = sub[s].pc
                            \/ s = r /\ x.pc = "idle" /\ sub'[s].pc \in {"open", "leave"},
         offered' \in [Subs -> SUBSET Record], panics' \subseteq Readers, SendsAreSafe'
  PROVE  LInv'
<1>1. RingTypes' /\ Counted'
  BY RingKept DEF Elsewhere
<1>2. StreamTypes
  BY TypeParts DEF LInv
<1>3. subs' = subs /\ stopped' = stopped /\ base' = base
  BY DEF Elsewhere
<1>4. StreamTypes'
  BY <1>2, <1>3 DEF StreamTypes
<1>5. rd'[r] = x /\ \A q \in Readers : q # r => rd'[q] = rd[q]
  BY <1>2 DEF StreamTypes
<1>6. Reading'
  <2>1. \A q \in Readers : Holds(q, rd'[q], subs')
    BY <1>3, <1>5 DEF LInv, Reading
  <2>2. \A s \in Subs : rd'[s].pc # "idle" => sub'[s].pc = "replay"
    BY <1>5 DEF LInv, Reading, Readers
  <2> QED
    BY <2>1, <2>2 DEF Reading, Holds
<1>7. Closing'
  <2> SUFFICES ASSUME NEW s \in Subs
               PROVE  /\ s \in subs => ~sub'[s].closed
                      /\ sub'[s].pc \in {"idle", "close", "done"} => s \notin subs
                      /\ sub'[s].pc = "idle" => ~sub'[s].closed
                      /\ sub'[s].closed /\ stopped # "done" => sub'[s].pc = "done"
    BY <1>3 DEF Closing
  <2>1. sub'[s].closed = sub[s].closed
    OBVIOUS
  <2>2. CASE sub'[s].pc = sub[s].pc
    BY <2>1, <2>2 DEF LInv, Closing
  <2>3. CASE s = r /\ sub'[s].pc \in {"open", "leave"}
    <3>1. sub[s].pc = "replay"
      BY <2>3 DEF LInv, Reading
    <3> QED
      BY <2>1, <2>3, <3>1 DEF LInv, Closing
  <2> QED
    BY <2>2, <2>3
<1> QED
  BY <1>1, <1>4, <1>6, <1>7, TypePartsNext DEF LInv

\* A step that changes nothing but the reader itself.
LEMMA AloneInv ==
  ASSUME LInv, NEW r \in Readers, NEW x \in RState, rd[r].pc # "idle",
         rd' = [rd EXCEPT ![r] = x], Elsewhere, UNCHANGED <<sub, offered, panics>>,
         Holds(r, x, subs)
  PROVE  LInv'
<1>1. StreamTypes
  BY TypeParts DEF LInv
<1>2. /\ sub' \in [Subs -> SState] /\ offered' \in [Subs -> SUBSET Record]
      /\ panics' \subseteq Readers /\ sub' = sub
      /\ \A s \in Subs : Len(sub[s].ch) <= BufCap
  BY <1>1 DEF StreamTypes
<1>3. SendsAreSafe'
  BY DEF LInv, SendsAreSafe, Elsewhere
<1> QED
  BY <1>2, <1>3, ReaderInv

LEMMA IdleState == Idle \in RState
BY Bounds DEF Idle, RState

\* The end of a fanout or of a replay.
LEMMA FinishInv ==
  ASSUME LInv, NEW r \in Readers, rd[r].pc # "idle", Finish(r), Elsewhere,
         UNCHANGED <<offered, panics>>
  PROVE  LInv'
<1>1. StreamTypes
  BY TypeParts DEF LInv
<1>2. rd' = [rd EXCEPT ![r] = Idle]
  BY DEF Finish
<1>3. Holds(r, Idle, subs)
  BY DEF Holds, Idle
<1>4. CASE r = Hub
  BY <1>2, <1>3, <1>4, IdleState, AloneInv DEF Finish
<1>5. CASE r # Hub
  <2>1. r \in Subs /\ sub' = [sub EXCEPT ![r].pc = "open"]
    BY <1>5 DEF Finish, Readers
  <2>2. sub' \in [Subs -> SState]
    BY <1>1, <2>1 DEF StreamTypes, SState
  <2>3. \A s \in Subs : /\ sub'[s].ch = sub[s].ch /\ sub'[s].closed = sub[s].closed
                        /\ sub'[s].pc = sub[s].pc \/ (s = r /\ sub'[s].pc = "open")
    BY <1>1, <2>1 DEF StreamTypes, SState
  <2>4. \A s \in Subs : /\ Len(sub'[s].ch) <= BufCap /\ sub'[s].closed = sub[s].closed
                        /\ \/ sub'[s].pc = sub[s].pc
                           \/ s = r /\ Idle.pc = "idle" /\ sub'[s].pc \in {"open", "leave"}
    BY <1>1, <2>3 DEF StreamTypes, Idle
  <2>5. SendsAreSafe'
    BY DEF LInv, SendsAreSafe, Elsewhere
  <2>6. offered' \in [Subs -> SUBSET Record] /\ panics' \subseteq Readers
    BY <1>1 DEF StreamTypes
  <2> QED
    BY <1>2, <1>3, <2>2, <2>4, <2>5, <2>6, IdleState, ReaderInv
<1> QED
  BY <1>4, <1>5

LEMMA LoadTotalInv ==
  ASSUME LInv, NEW r \in Readers, LoadTotal(r)
  PROVE  LInv'
<1>1. RingTypes /\ StreamTypes
  BY TypeParts DEF LInv
<1>2. rd[r].pc = "load" /\ Elsewhere /\ UNCHANGED <<offered, panics>>
  BY DEF LoadTotal, Elsewhere, ring, hist
<1>3. CASE Finish(r)
  BY <1>2, <1>3, FinishInv
<1>4. CASE total > 0 /\ UNCHANGED sub /\
           rd' = [rd EXCEPT ![r] =
                    [@ EXCEPT !.pc = "read", !.end = total,
                              !.pos = IF total > Cap THEN total - Cap ELSE 0]]
  <2> DEFINE p == IF total > Cap THEN total - Cap ELSE 0
             x == [rd[r] EXCEPT !.pc = "read", !.end = total, !.pos = p]
  <2>1. p \in 0..MaxRecords /\ p <= total /\ total \in 0..MaxRecords
    BY <1>1, Numbers, Bounds
  <2>2. rd[r] \in RState
    BY <1>1 DEF StreamTypes
  <2> HIDE DEF p
  <2>3. x \in RState /\ x.pc = "read" /\ x.pos <= x.end /\ x.todo = rd[r].todo
    BY <2>1, <2>2 DEF RState
  <2>4. Holds(r, x, subs)
    BY <2>3 DEF LInv, Reading, Holds
  <2>5. rd' = [rd EXCEPT ![r] = x]
    BY <1>1, <1>4 DEF p, StreamTypes
  <2> HIDE DEF x
  <2> QED
    BY <1>2, <1>4, <2>3, <2>4, <2>5, AloneInv
<1> QED
  BY <1>3, <1>4 DEF LoadTotal

\* Whatever is seen in a slot is a record.
LEMMA SeenRecords ==
  ASSUME RingTypes, NEW k \in 0..(Cap - 1)
  PROVE  Seen(k) \subseteq Record
BY DEF Seen, RingTypes, WState, Record

LEMMA ReadSlotInv ==
  ASSUME LInv, NEW r \in Readers, ReadSlot(r)
  PROVE  LInv'
<1>1. RingTypes /\ StreamTypes
  BY TypeParts DEF LInv
<1>2. /\ rd[r].pc = "read" /\ rd[r].pos < rd[r].end
      /\ Elsewhere /\ UNCHANGED <<sub, offered, panics>>
  BY DEF ReadSlot, Elsewhere, ring, hist
<1>3. rd[r] \in RState
  BY <1>1 DEF StreamTypes
<1>4. rd[r].pos \in 0..MaxRecords /\ rd[r].end \in 0..MaxRecords
  BY <1>3 DEF RState
<1>5. rd[r].pos % Cap \in 0..(Cap - 1)
  BY <1>4, SlotNumber
<1>6. PICK rec \in Seen(rd[r].pos % Cap) :
        rd' = [rd EXCEPT ![r] =
                 [rd[r] EXCEPT !.pos = rd[r].pos + 1,
                               !.res = IF rec.seq > rd[r].after
                                       THEN Append(rd[r].res, rec) ELSE rd[r].res]]
  BY Zenon DEF ReadSlot
<1>7. rec \in Record
  BY <1>1, <1>5, SeenRecords
<1> DEFINE p == rd[r].pos + 1
           q == IF rec.seq > rd[r].after THEN Append(rd[r].res, rec) ELSE rd[r].res
           x == [rd[r] EXCEPT !.pos = p, !.res = q]
<1>8. p \in 0..MaxRecords /\ p <= rd[r].end
  BY <1>2, <1>4, Bounds
<1>9. q \in Seq(Record)
  BY <1>3, <1>7 DEF RState
<1>10. rd' = [rd EXCEPT ![r] = x]
  BY <1>6
<1> HIDE DEF p, q
<1>11. x \in RState /\ x.pc = "read" /\ x.pos <= x.end /\ x.todo = rd[r].todo
  BY <1>2, <1>3, <1>8, <1>9 DEF RState
<1>12. Holds(r, x, subs)
  BY <1>11 DEF LInv, Reading, Holds
<1> HIDE DEF x
<1> QED
  BY <1>2, <1>10, <1>11, <1>12, AloneInv

\* Fanout sends to subscribers, a replay to itself.
LEMMA AudienceIsOwn ==
  ASSUME LInv, NEW r \in Readers, NEW res
  PROVE  /\ Audience(r, res) \subseteq Subs
         /\ r = Hub => Audience(r, res) \subseteq subs
         /\ r # Hub => Audience(r, res) \subseteq {r}
BY TypeParts DEF LInv, Audience, StreamTypes, Readers

\* The next record, and whom it goes to.
LEMMA SendInv ==
  ASSUME LInv, NEW r \in Readers, rd[r].pc # "idle", NEW q \in Seq(Record), q # <<>>,
         rd' = [rd EXCEPT ![r] = [rd[r] EXCEPT !.pc = "send", !.res = q,
                                               !.todo = Audience(r, q)]],
         Elsewhere, UNCHANGED <<sub, offered, panics>>
  PROVE  LInv'
<1> DEFINE t == Audience(r, q)
           x == [rd[r] EXCEPT !.pc = "send", !.res = q, !.todo = t]
<1>1. /\ t \subseteq Subs /\ (r = Hub => t \subseteq subs) /\ (r # Hub => t \subseteq {r})
  BY AudienceIsOwn
<1>2. rd[r] \in RState
  BY TypeParts DEF LInv, StreamTypes
<1>3. rd' = [rd EXCEPT ![r] = x]
  OBVIOUS
<1> HIDE DEF t
<1>4. x \in RState /\ x.pc = "send" /\ x.res = q /\ x.todo = t
  BY <1>1, <1>2 DEF RState
<1>5. Holds(r, x, subs)
  BY <1>1, <1>4 DEF Holds
<1> HIDE DEF x
<1> QED
  BY <1>3, <1>4, <1>5, AloneInv

LEMMA EndReadInv ==
  ASSUME LInv, NEW r \in Readers, EndRead(r)
  PROVE  LInv'
<1>1. StreamTypes
  BY TypeParts DEF LInv
<1>2. rd[r].pc = "read" /\ Elsewhere /\ UNCHANGED <<offered, panics>>
  BY DEF EndRead, Elsewhere, ring, hist
<1>3. CASE Finish(r)
  BY <1>2, <1>3, FinishInv
<1>4. CASE rd[r].res # <<>> /\ UNCHANGED sub /\
           rd' = [rd EXCEPT ![r] = [@ EXCEPT !.pc = "send", !.todo = Audience(r, rd[r].res)]]
  <2> DEFINE t == Audience(r, rd[r].res)
  <2>1. rd[r] \in RState /\ rd[r].res \in Seq(Record)
    BY <1>1 DEF StreamTypes, RState
  <2>2. rd' = [rd EXCEPT ![r] = [rd[r] EXCEPT !.pc = "send", !.todo = t]]
    BY <1>1, <1>4 DEF StreamTypes
  <2> HIDE DEF t
  <2>3. [rd[r] EXCEPT !.pc = "send", !.todo = t]
          = [rd[r] EXCEPT !.pc = "send", !.res = rd[r].res, !.todo = t]
    BY <2>1 DEF RState
  <2>4. rd' = [rd EXCEPT ![r] = [rd[r] EXCEPT !.pc = "send", !.res = rd[r].res, !.todo = t]]
    BY <2>2, <2>3
  <2> QED
    BY <1>2, <1>4, <2>1, <2>4, SendInv DEF t
<1> QED
  BY <1>3, <1>4 DEF EndRead

LEMMA NextRecordInv ==
  ASSUME LInv, NEW r \in Readers, NextRecord(r)
  PROVE  LInv'
<1> DEFINE rest == Tail(rd[r].res)
           t == Audience(r, rest)
<1>1. StreamTypes
  BY TypeParts DEF LInv
<1>2. rd[r].pc = "send" /\ Elsewhere /\ UNCHANGED <<offered, panics>>
  BY DEF NextRecord, Elsewhere, ring, hist
<1>3. CASE Finish(r)
  BY <1>2, <1>3, FinishInv
<1>4. CASE rest # <<>> /\ UNCHANGED sub /\
           rd' = [rd EXCEPT ![r] = [@ EXCEPT !.res = rest, !.todo = t]]
  <2>1. rd[r] \in RState /\ rd[r].res \in Seq(Record) /\ rd[r].res # <<>>
    BY <1>1, <1>2 DEF StreamTypes, RState, LInv, Reading, Holds
  <2>2. rest \in Seq(Record)
    BY <2>1
  <2>3. rd' = [rd EXCEPT ![r] = [rd[r] EXCEPT !.res = rest, !.todo = t]]
    BY <1>1, <1>4 DEF StreamTypes
  <2> HIDE DEF t, rest
  <2>4. [rd[r] EXCEPT !.res = rest, !.todo = t]
          = [rd[r] EXCEPT !.pc = "send", !.res = rest, !.todo = t]
    BY <1>2, <2>1 DEF RState
  <2>5. rd' = [rd EXCEPT ![r] = [rd[r] EXCEPT !.pc = "send", !.res = rest, !.todo = t]]
    BY <2>3, <2>4
  <2> QED
    BY <1>2, <1>4, <2>2, <2>5, SendInv DEF t
<1> QED
  BY <1>3, <1>4 DEF NextRecord

LEMMA PickInv ==
  ASSUME LInv, NEW r \in Readers, Pick(r)
  PROVE  LInv'
<1>1. StreamTypes
  BY TypeParts DEF LInv
<1>2. rd[r].pc = "send" /\ Elsewhere /\ UNCHANGED <<sub, offered, panics>>
  BY DEF Pick, Elsewhere, ring, hist
<1>3. PICK s \in rd[r].todo :
        rd' = [rd EXCEPT ![r] = [rd[r] EXCEPT !.todo = @ \ {s},
                                              !.pc = IF sub[s].closed THEN "send" ELSE "put",
                                              !.to = IF sub[s].closed THEN None ELSE s]]
  BY DEF Pick
<1>4. rd[r] \in RState
  BY <1>1 DEF StreamTypes
<1>5. /\ s \in Subs /\ rd[r].todo \subseteq Subs /\ rd[r].res # <<>>
      /\ r = Hub => rd[r].todo \subseteq subs
      /\ r # Hub => rd[r].todo \subseteq {r}
  BY <1>2, <1>4 DEF LInv, Reading, Holds, RState
<1> DEFINE c == sub[s].closed
           x == [rd[r] EXCEPT !.todo = @ \ {s}, !.pc = IF c THEN "send" ELSE "put",
                              !.to = IF c THEN None ELSE s]
<1>6. rd' = [rd EXCEPT ![r] = x]
  BY <1>3
<1> HIDE DEF c
<1>7. x \in RState /\ x.res = rd[r].res /\ x.todo \subseteq rd[r].todo
  BY <1>4, <1>5 DEF RState
<1>8. x.pc \in {"send", "put"} /\ (x.pc = "put" => x.to = s)
  BY <1>4, <1>5 DEF RState
<1> HIDE DEF x
<1>9. Holds(r, x, subs)
  BY <1>5, <1>7, <1>8 DEF Holds
<1> QED
  BY <1>2, <1>6, <1>7, <1>9, AloneInv

\* The target of a send, and the record.
LEMMA Target ==
  ASSUME LInv, NEW r \in Readers, rd[r].pc \in {"put", "retry"}
  PROVE  /\ rd[r] \in RState /\ rd[r].to \in Subs
         /\ rd[r].res # <<>> /\ rd[r].res \in Seq(Record) /\ Head(rd[r].res) \in Record
         /\ r = Hub => rd[r].to \in subs /\ rd[r].todo \subseteq subs
         /\ r # Hub => r \in Subs /\ rd[r].to = r /\ rd[r].todo \subseteq {r}
<1>1. StreamTypes
  BY TypeParts DEF LInv
<1>2. rd[r] \in RState
  BY <1>1 DEF StreamTypes
<1>3. rd[r].res # <<>> /\ rd[r].res \in Seq(Record)
  BY <1>2 DEF LInv, Reading, Holds, RState
<1>4. /\ r = Hub => rd[r].to \in subs /\ rd[r].todo \subseteq subs
      /\ r # Hub => r \in Subs /\ rd[r].to = r /\ rd[r].todo \subseteq {r}
  BY <1>2 DEF LInv, Reading, Holds, Readers
<1>5. rd[r].to \in Subs
  BY <1>1, <1>4 DEF StreamTypes
<1>6. Head(rd[r].res) \in Record
  BY <1>3
<1> QED
  BY <1>2, <1>3, <1>4, <1>5, <1>6

\* Only a replay under Stop can meet a closed channel.
LEMMA PanicInv ==
  ASSUME LInv, NEW r \in Readers, rd[r].pc \in {"put", "retry"}, Panic(r), Elsewhere
  PROVE  LInv'
<1>1. StreamTypes
  BY TypeParts DEF LInv
<1>2. r # Hub
  BY Target DEF Panic, LInv, Closing
<1>3. r \in Subs /\ sub[r].closed /\ sub[r].pc = "replay"
  BY <1>2, Target DEF Panic, LInv, Reading
<1>4. stopped = "done"
  BY <1>3 DEF LInv, Closing
<1>5. /\ rd' = [rd EXCEPT ![r] = Idle] /\ sub' = [sub EXCEPT ![r].pc = "leave"]
      /\ panics' = panics \cup {r} /\ offered' = offered
  BY <1>2 DEF Panic
<1>6. SendsAreSafe'
  BY <1>2, <1>4, <1>5 DEF LInv, SendsAreSafe, Elsewhere
<1>7. Holds(r, Idle, subs)
  BY DEF Holds, Idle
<1>8. sub' \in [Subs -> SState]
  BY <1>1, <1>5 DEF StreamTypes, SState
<1>9. \A s \in Subs : /\ sub'[s].ch = sub[s].ch /\ sub'[s].closed = sub[s].closed
                      /\ sub'[s].pc = sub[s].pc \/ (s = r /\ sub'[s].pc = "leave")
  BY <1>1, <1>3, <1>5 DEF StreamTypes, SState
<1>10. \A s \in Subs : /\ Len(sub'[s].ch) <= BufCap /\ sub'[s].closed = sub[s].closed
                       /\ \/ sub'[s].pc = sub[s].pc
                          \/ s = r /\ Idle.pc = "idle" /\ sub'[s].pc \in {"open", "leave"}
  BY <1>1, <1>9 DEF StreamTypes, Idle
<1>11. offered' \in [Subs -> SUBSET Record] /\ panics' \subseteq Readers
  BY <1>1, <1>5 DEF StreamTypes
<1> QED
  BY <1>5, <1>6, <1>7, <1>8, <1>10, <1>11, IdleState, ReaderInv

\* A step of send that changes at most the target's channel, to c.
LEMMA ChannelInv ==
  ASSUME LInv, NEW r \in Readers, rd[r].pc \in {"put", "retry"}, Elsewhere,
         NEW p \in {"send", "retry"}, NEW c \in Seq(Record), Len(c) <= BufCap,
         \/ rd' = [rd EXCEPT ![r] = [rd[r] EXCEPT !.pc = p]] /\ p = "retry"
         \/ rd' = [rd EXCEPT ![r] = [rd[r] EXCEPT !.pc = p, !.to = None]] /\ p = "send",
         sub' = [sub EXCEPT ![rd[r].to].ch = c],
         offered' \in [Subs -> SUBSET Record], UNCHANGED panics
  PROVE  LInv'
<1>1. StreamTypes
  BY TypeParts DEF LInv
<1>2. /\ rd[r] \in RState /\ rd[r].to \in Subs /\ rd[r].res # <<>>
      /\ r = Hub => rd[r].to \in subs /\ rd[r].todo \subseteq subs
      /\ r # Hub => rd[r].to = r /\ rd[r].todo \subseteq {r}
  BY Target
<1>3. PICK x \in RState : /\ rd' = [rd EXCEPT ![r] = x]
                          /\ x.pc = p /\ x.res = rd[r].res /\ x.todo = rd[r].todo
                          /\ p = "retry" => x.to = rd[r].to
  <2>1. CASE rd' = [rd EXCEPT ![r] = [rd[r] EXCEPT !.pc = p]] /\ p = "retry"
    <3> DEFINE y == [rd[r] EXCEPT !.pc = p]
    <3>1. y \in RState /\ y.pc = p /\ y.res = rd[r].res /\ y.todo = rd[r].todo /\ y.to = rd[r].to
      BY <1>2 DEF RState
    <3> HIDE DEF y
    <3>2. rd' = [rd EXCEPT ![r] = y]
      BY <2>1 DEF y
    <3> QED
      BY <3>1, <3>2
  <2>2. CASE rd' = [rd EXCEPT ![r] = [rd[r] EXCEPT !.pc = p, !.to = None]] /\ p = "send"
    <3> DEFINE y == [rd[r] EXCEPT !.pc = p, !.to = None]
    <3>1. y \in RState /\ y.pc = p /\ y.res = rd[r].res /\ y.todo = rd[r].todo
      BY <1>2 DEF RState
    <3> HIDE DEF y
    <3>2. rd' = [rd EXCEPT ![r] = y]
      BY <2>2 DEF y
    <3> QED
      BY <2>2, <3>1, <3>2
  <2> QED
    BY <2>1, <2>2
<1>4. Holds(r, x, subs)
  BY <1>2, <1>3 DEF Holds
<1>5. sub' \in [Subs -> SState]
  <2> DEFINE y == [sub[rd[r].to] EXCEPT !.ch = c]
  <2>1. sub[rd[r].to] \in SState /\ sub \in [Subs -> SState]
    BY <1>1, <1>2 DEF StreamTypes
  <2>2. y \in SState
    BY <2>1 DEF SState
  <2>3. sub' = [sub EXCEPT ![rd[r].to] = y]
    BY Zenon
  <2> HIDE DEF y
  <2> QED
    BY <1>2, <2>1, <2>2, <2>3
<1>6. \A s \in Subs : /\ sub'[s].ch \in {c, sub[s].ch} /\ sub'[s].closed = sub[s].closed
                      /\ sub'[s].pc = sub[s].pc
  BY <1>1, <1>2 DEF StreamTypes, SState
<1>7. \A s \in Subs : /\ Len(sub'[s].ch) <= BufCap /\ sub'[s].closed = sub[s].closed
                      /\ sub'[s].pc = sub[s].pc
  BY <1>1, <1>6 DEF StreamTypes
<1>8. panics' \subseteq Readers
  BY <1>1 DEF StreamTypes
<1>9. SendsAreSafe'
  BY DEF LInv, SendsAreSafe, Elsewhere
<1> QED
  BY <1>3, <1>4, <1>5, <1>7, <1>8, <1>9, ReaderInv

LEMMA EnqueueInv ==
  ASSUME LInv, NEW r \in Readers, rd[r].pc \in {"put", "retry"}, Enqueue(r), Elsewhere
  PROVE  LInv'
<1> DEFINE s == rd[r].to
           rec == Head(rd[r].res)
           c == Append(sub[s].ch, rec)
<1>1. StreamTypes /\ s \in Subs /\ rec \in Record
  BY TypeParts, Target DEF LInv
<1>2. /\ Len(sub[s].ch) < BufCap /\ sub' = [sub EXCEPT ![s].ch = c]
      /\ offered' = [offered EXCEPT ![s] = @ \cup {rec}]
      /\ rd' = [rd EXCEPT ![r] = [rd[r] EXCEPT !.pc = "send", !.to = None]]
      /\ panics' = panics
  BY <1>1 DEF Enqueue, StreamTypes
<1>3. sub[s].ch \in Seq(Record)
  BY <1>1 DEF StreamTypes, SState
<1>4. offered' \in [Subs -> SUBSET Record]
  BY <1>1, <1>2 DEF StreamTypes
<1> HIDE DEF rec, s
<1>5. c \in Seq(Record) /\ Len(c) <= BufCap
  BY <1>1, <1>2, <1>3, Bounds
<1> HIDE DEF c
<1> QED
  BY <1>2, <1>4, <1>5, ChannelInv DEF s

LEMMA PutInv ==
  ASSUME LInv, NEW r \in Readers, Put(r)
  PROVE  LInv'
<1> DEFINE s == rd[r].to
           c == Tail(sub[s].ch)
<1>1. rd[r].pc = "put" /\ rd[r].pc \in {"put", "retry"} /\ Elsewhere
  BY DEF Put, Elsewhere, ring
<1>2. CASE Panic(r) \/ Enqueue(r)
  BY <1>1, <1>2, PanicInv, EnqueueInv
<1>3. CASE /\ ~sub[s].closed /\ Len(sub[s].ch) = BufCap
           /\ sub' = [sub EXCEPT ![s].ch = Tail(@)]
           /\ rd' = [rd EXCEPT ![r].pc = "retry"]
           /\ UNCHANGED <<offered, panics>>
  <2>1. StreamTypes /\ s \in Subs
    BY <1>1, TypeParts, Target DEF LInv
  <2>2. sub[s].ch \in Seq(Record) /\ offered' \in [Subs -> SUBSET Record] /\ panics' = panics
    BY <1>3, <2>1 DEF StreamTypes, SState
  <2>3. sub' = [sub EXCEPT ![s].ch = c]
    BY <1>3
  <2>4. rd' = [rd EXCEPT ![r] = [rd[r] EXCEPT !.pc = "retry"]]
    BY <1>3
  <2> HIDE DEF s
  <2>5. c \in Seq(Record) /\ Len(c) <= BufCap
    BY <1>3, <2>2, Bounds
  <2> HIDE DEF c
  <2> QED
    BY <1>1, <2>2, <2>3, <2>4, <2>5, ChannelInv DEF s
<1> QED
  BY <1>2, <1>3 DEF Put

LEMMA RetryInv ==
  ASSUME LInv, NEW r \in Readers, Retry(r)
  PROVE  LInv'
<1> DEFINE s == rd[r].to
           c == sub[s].ch
<1>1. rd[r].pc = "retry" /\ rd[r].pc \in {"put", "retry"} /\ Elsewhere
  BY DEF Retry, Elsewhere, ring
<1>2. CASE Panic(r) \/ Enqueue(r)
  BY <1>1, <1>2, PanicInv, EnqueueInv
<1>3. CASE /\ ~sub[s].closed /\ Len(sub[s].ch) = BufCap
           /\ rd' = [rd EXCEPT ![r] = [@ EXCEPT !.pc = "send", !.to = None]]
           /\ offered' = [offered EXCEPT ![s] = @ \cup {Head(rd[r].res)}]
           /\ UNCHANGED <<sub, panics>>
  <2>1. StreamTypes /\ s \in Subs /\ Head(rd[r].res) \in Record
    BY <1>1, TypeParts, Target DEF LInv
  <2>2. c \in Seq(Record) /\ Len(c) <= BufCap
    BY <2>1 DEF StreamTypes, SState
  <2>3. offered' \in [Subs -> SUBSET Record]
    BY <1>3, <2>1 DEF StreamTypes
  <2>4. sub' = [sub EXCEPT ![s].ch = c]
    BY <1>3, <2>1 DEF StreamTypes, SState
  <2>5. rd' = [rd EXCEPT ![r] = [rd[r] EXCEPT !.pc = "send", !.to = None]] /\ panics' = panics
    BY <1>3
  <2> HIDE DEF c
  <2> QED
    BY <1>1, <2>2, <2>3, <2>4, <2>5, ChannelInv
<1> QED
  BY <1>2, <1>3 DEF Retry

--------------------------------------------------------------------------------
(* The hub and the stream handlers *)

\* The hub, between two fanouts, goes on to x.
LEMMA HubInv ==
  ASSUME LInv, NEW x \in RState, x.pc \in {"load", "dead"}, rd' = [rd EXCEPT ![Hub] = x],
         notifyCh' \in Seq(1..MaxRecords), Len(notifyCh') <= NotifyCap,
         UNCHANGED <<slots, seq, writeIdx, total, wr, subs, sub, stopped, base, offered, panics>>
  PROVE  LInv'
<1>1. RingTypes /\ StreamTypes
  BY TypeParts DEF LInv
<1>2. RingTypes'
  BY <1>1 DEF RingTypes
<1>3. Slotless' = Slotless /\ Filling' = Filling
  BY DEF Slotless, Filling
<1>4. Counted'
  BY <1>3 DEF LInv, Counted
<1>5. Hub \in Readers /\ Hub \notin Subs
  BY Bounds DEF Readers
<1>6. StreamTypes'
  BY <1>1 DEF StreamTypes
<1>7. rd'[Hub] = x /\ \A q \in Readers : q # Hub => rd'[q] = rd[q]
  BY <1>1, <1>5 DEF StreamTypes
<1>8. Holds(Hub, x, subs)
  BY DEF Holds
<1>9. \A q \in Readers : Holds(q, rd'[q], subs)
  BY <1>7, <1>8 DEF LInv, Reading
<1>10. \A s \in Subs : rd'[s].pc # "idle" => sub[s].pc = "replay"
  BY <1>5, <1>7 DEF LInv, Reading, Readers
<1>11. Reading'
  BY <1>9, <1>10 DEF Reading, Holds
<1>12. Closing' /\ SendsAreSafe'
  BY DEF LInv, Closing, SendsAreSafe
<1> QED
  BY <1>2, <1>4, <1>6, <1>11, <1>12, TypePartsNext DEF LInv

LEMMA HeadOf ==
  ASSUME NEW S, NEW q \in Seq(S), q # <<>>
  PROVE  Head(q) \in S
OBVIOUS

LEMMA TakeInv ==
  ASSUME LInv, Take
  PROVE  LInv'
<1> DEFINE a == Head(notifyCh) - 1
           x == [Idle EXCEPT !.pc = "load", !.after = a]
<1>1. /\ notifyCh # <<>> /\ notifyCh' = Tail(notifyCh) /\ rd' = [rd EXCEPT ![Hub] = x]
      /\ UNCHANGED <<slots, seq, writeIdx, total, wr, subs, sub, stopped, base, offered, panics>>
  BY DEF Take, ring, hist
<1>2. notifyCh \in Seq(1..MaxRecords) /\ Len(notifyCh) <= NotifyCap
  BY TypeParts DEF LInv, RingTypes
<1>3. Head(notifyCh) \in 1..MaxRecords
  BY <1>1, <1>2, HeadOf
<1>4. a \in 0..MaxRecords
  BY <1>3, Bounds
<1>5. notifyCh' \in Seq(1..MaxRecords) /\ Len(notifyCh') <= NotifyCap
  BY <1>1, <1>2, Bounds
<1> HIDE DEF a
<1>6. x \in RState /\ x.pc = "load"
  BY <1>4, IdleState DEF RState
<1> HIDE DEF x
<1> QED
  BY <1>1, <1>5, <1>6, HubInv

LEMMA RunEndsInv ==
  ASSUME LInv, RunEnds
  PROVE  LInv'
<1> DEFINE x == [rd[Hub] EXCEPT !.pc = "dead"]
<1>1. rd' = [rd EXCEPT ![Hub] = x]
  BY DEF RunEnds
<1>2. UNCHANGED <<slots, seq, writeIdx, total, wr, subs, sub, stopped, base, offered, panics>>
  BY DEF RunEnds, ring, hist
<1>3. notifyCh' \in Seq(1..MaxRecords) /\ Len(notifyCh') <= NotifyCap
  BY TypeParts DEF LInv, RingTypes, RunEnds
<1>4. rd[Hub] \in RState
  BY TypeParts DEF LInv, StreamTypes, Readers
<1>5. x \in RState /\ x.pc = "dead"
  BY <1>4 DEF RState
<1> HIDE DEF x
<1> QED
  BY <1>1, <1>2, <1>3, <1>5, HubInv

LEMMA StopSignalInv ==
  ASSUME LInv, StopSignal
  PROVE  LInv'
<1>1. RingTypes' /\ Counted'
  BY RingKept DEF StopSignal, ring
<1>2. StreamTypes'
  BY TypeParts DEF LInv, StreamTypes, StopSignal, hist
<1>3. Reading'
  BY DEF LInv, Reading, Holds, StopSignal
<1>4. Closing' /\ SendsAreSafe'
  BY DEF LInv, Closing, SendsAreSafe, StopSignal, hist
<1> QED
  BY <1>1, <1>2, <1>3, <1>4, TypePartsNext DEF LInv

\* Without the read lock the hub holds nobody: the subscribers may change.
LEMMA LockableHolds ==
  ASSUME LInv, Lockable, NEW T, NEW r \in Readers
  PROVE  Holds(r, rd[r], T)
BY DEF LInv, Reading, Holds, Lockable

LEMMA StopCloseInv ==
  ASSUME LInv, StopClose
  PROVE  LInv'
<1>1. /\ Lockable /\ stopped = "signalled" /\ stopped' = "done" /\ subs' = {} /\ rd' = rd
      /\ sub' = [s \in Subs |-> IF s \in subs THEN [sub[s] EXCEPT !.closed = TRUE] ELSE sub[s]]
      /\ base' = base /\ offered' = offered /\ panics' = panics
      /\ UNCHANGED <<slots, seq, writeIdx, total, wr, notifyCh>>
  BY DEF StopClose, ring, hist
<1>2. StreamTypes
  BY TypeParts DEF LInv
<1>3. RingTypes' /\ Counted'
  BY <1>1, RingKept
<1>4. sub' \in [Subs -> SState]
  BY <1>1, <1>2 DEF StreamTypes, SState
<1>5. \A s \in Subs : /\ sub'[s].pc = sub[s].pc /\ sub'[s].ch = sub[s].ch
                      /\ s \notin subs => sub'[s].closed = sub[s].closed
  BY <1>1, <1>2 DEF StreamTypes, SState
<1>6. StreamTypes'
  BY <1>1, <1>2, <1>4, <1>5 DEF StreamTypes
<1>7. \A r \in Readers : Holds(r, rd'[r], subs')
  BY <1>1, LockableHolds
<1>8. Reading'
  BY <1>1, <1>5, <1>7 DEF LInv, Reading, Holds
<1>9. Closing'
  BY <1>1, <1>5 DEF LInv, Closing
<1>10. SendsAreSafe'
  BY <1>1 DEF LInv, SendsAreSafe
<1> QED
  BY <1>3, <1>6, <1>8, <1>9, <1>10, TypePartsNext DEF LInv

\* A handler goes on to y and changes who is subscribed to T, under the lock.
LEMMA HandlerInv ==
  ASSUME LInv, NEW s \in Subs, NEW y \in SState, NEW T \in SUBSET Subs,
         sub' = [sub EXCEPT ![s] = y], subs' = T,
         UNCHANGED <<slots, seq, writeIdx, total, wr, notifyCh, stopped, offered, panics>>,
         T = subs \/ Lockable, T \in {subs, subs \cup {s}, subs \ {s}},
         rd' \in [Readers -> RState], base' \in [Subs -> 0..MaxRecords],
         \A r \in Readers : rd'[r] = rd[r] \/ (r = s /\ Holds(s, rd'[s], T)),
         rd'[s].pc # "idle" => y.pc = "replay",
         Len(y.ch) <= BufCap,
         s \in T => ~y.closed,
         y.pc \in {"idle", "close", "done"} => s \notin T,
         y.pc = "idle" => ~y.closed,
         y.closed /\ stopped # "done" => y.pc = "done"
  PROVE  LInv'
<1>1. StreamTypes
  BY TypeParts DEF LInv
<1>2. RingTypes' /\ Counted'
  BY RingKept
<1>3. sub' \in [Subs -> SState]
  BY <1>1 DEF StreamTypes
<1>4. sub'[s] = y /\ \A q \in Subs : q # s => sub'[q] = sub[q]
  BY <1>1 DEF StreamTypes
<1>5. \A q \in Subs : Len(sub'[q].ch) <= BufCap
  BY <1>1, <1>4 DEF StreamTypes
<1>6. StreamTypes'
  BY <1>1, <1>3, <1>5 DEF StreamTypes
<1>7. \A r \in Readers : Holds(r, rd[r], T)
  BY LockableHolds DEF LInv, Reading
<1>8. \A r \in Readers : Holds(r, rd'[r], subs')
  BY <1>7
<1>9. \A q \in Subs : rd'[q].pc # "idle" => sub'[q].pc = "replay"
  BY <1>4 DEF LInv, Reading, Readers
<1>10. Reading'
  BY <1>8, <1>9 DEF Reading, Holds
<1>11. Closing'
  BY <1>4 DEF LInv, Closing
<1>12. SendsAreSafe'
  BY DEF LInv, SendsAreSafe
<1> QED
  BY <1>2, <1>6, <1>10, <1>11, <1>12, TypePartsNext DEF LInv

LEMMA SubscribeInv ==
  ASSUME LInv, NEW s \in Subs, Subscribe(s)
  PROVE  LInv'
<1>1. /\ sub[s].pc = "idle" /\ Lockable /\ subs' = subs \cup {s}
      /\ UNCHANGED <<slots, seq, writeIdx, total, wr, notifyCh, stopped, offered, panics>>
  BY DEF Subscribe, ring
<1>2. RingTypes /\ StreamTypes
  BY TypeParts DEF LInv
<1>3. sub[s] \in SState /\ ~sub[s].closed /\ Len(sub[s].ch) <= BufCap
  BY <1>1, <1>2 DEF StreamTypes, LInv, Closing
<1>4. subs \cup {s} \in SUBSET Subs /\ seq \in 0..MaxRecords /\ s \in Readers /\ s # Hub
  BY <1>2, Bounds DEF StreamTypes, RingTypes, Readers
<1>5. PICK f \in Filters :
       \/ /\ sub' = [sub EXCEPT ![s] = [sub[s] EXCEPT !.pc = "open", !.filter = f]]
          /\ base' = [base EXCEPT ![s] = seq] /\ rd' = rd
       \/ \E last \in 0..seq :
            /\ sub' = [sub EXCEPT ![s] = [sub[s] EXCEPT !.pc = "replay", !.filter = f]]
            /\ base' = [base EXCEPT ![s] = last]
            /\ rd' = [rd EXCEPT ![s] = [Idle EXCEPT !.pc = "load", !.after = last]]
  BY DEF Subscribe
<1>6. f \subseteq Writers
  BY Bounds
<1> DEFINE y(p) == [sub[s] EXCEPT !.pc = p, !.filter = f]
<1>7. \A p \in {"open", "replay"} :
        y(p) \in SState /\ y(p).pc = p /\ ~y(p).closed /\ Len(y(p).ch) <= BufCap
  BY <1>3, <1>6 DEF SState
<1>8. CASE /\ sub' = [sub EXCEPT ![s] = y("open")]
           /\ base' = [base EXCEPT ![s] = seq] /\ rd' = rd
  <2>1. y("open") \in SState /\ y("open").pc = "open" /\ ~y("open").closed
        /\ Len(y("open").ch) <= BufCap
    BY <1>7
  <2>2. base' \in [Subs -> 0..MaxRecords] /\ rd' \in [Readers -> RState]
    BY <1>2, <1>4, <1>8 DEF StreamTypes
  <2>3. rd[s].pc = "idle"
    BY <1>1 DEF LInv, Reading
  <2> HIDE DEF y
  <2> QED
    BY <1>1, <1>4, <1>8, <2>1, <2>2, <2>3, HandlerInv
<1>9. CASE \E last \in 0..seq :
             /\ sub' = [sub EXCEPT ![s] = y("replay")]
             /\ base' = [base EXCEPT ![s] = last]
             /\ rd' = [rd EXCEPT ![s] = [Idle EXCEPT !.pc = "load", !.after = last]]
  <2>1. PICK last \in 0..seq :
             /\ sub' = [sub EXCEPT ![s] = y("replay")]
             /\ base' = [base EXCEPT ![s] = last]
             /\ rd' = [rd EXCEPT ![s] = [Idle EXCEPT !.pc = "load", !.after = last]]
    BY <1>9
  <2>2. last \in 0..MaxRecords
    BY <1>2, Numbers
  <2> DEFINE x == [Idle EXCEPT !.pc = "load", !.after = last]
  <2>3. x \in RState /\ x.pc = "load" /\ x.todo = {}
    BY <2>2, IdleState DEF RState, Idle
  <2>4. rd' = [rd EXCEPT ![s] = x]
    BY <2>1
  <2> HIDE DEF x
  <2>5. Holds(s, x, subs \cup {s})
    BY <1>4, <2>3 DEF Holds
  <2>6. base' \in [Subs -> 0..MaxRecords]
    BY <1>2, <2>1, <2>2 DEF StreamTypes
  <2>7. rd' \in [Readers -> RState] /\ rd'[s] = x /\ \A r \in Readers : r # s => rd'[r] = rd[r]
    BY <1>2, <1>4, <2>3, <2>4 DEF StreamTypes
  <2>8. y("replay") \in SState /\ y("replay").pc = "replay" /\ ~y("replay").closed
        /\ Len(y("replay").ch) <= BufCap
    BY <1>7
  <2> HIDE DEF y
  <2> QED
    BY <1>1, <1>4, <2>1, <2>5, <2>6, <2>7, <2>8, HandlerInv
<1> QED
  BY <1>5, <1>8, <1>9

\* The reader of a handler that is past its replay has ended.
LEMMA NoReplay ==
  ASSUME LInv, NEW s \in Subs, sub[s].pc # "replay"
  PROVE  /\ rd[s].pc = "idle" /\ rd \in [Readers -> RState] /\ sub[s] \in SState
         /\ base \in [Subs -> 0..MaxRecords] /\ Len(sub[s].ch) <= BufCap
         /\ subs \in SUBSET Subs
BY TypeParts DEF LInv, Reading, StreamTypes

LEMMA ReceiveInv ==
  ASSUME LInv, NEW s \in Subs, Receive(s)
  PROVE  LInv'
<1> DEFINE c == Tail(sub[s].ch)
           y == [sub[s] EXCEPT !.ch = c]
<1>1. /\ sub[s].pc = "open" /\ sub[s].ch # <<>>
      /\ UNCHANGED <<slots, seq, writeIdx, total, wr, notifyCh, stopped, offered, panics>>
      /\ rd' = rd /\ base' = base /\ subs' = subs
  BY DEF Receive, ring, hist
<1>2. sub' = [sub EXCEPT ![s] = y]
  BY DEF Receive
<1>3. sub[s] \in SState /\ sub[s].ch \in Seq(Record) /\ Len(sub[s].ch) <= BufCap
  BY <1>1, NoReplay DEF SState
<1>4. c \in Seq(Record) /\ Len(c) <= BufCap
  BY <1>1, <1>3, Bounds
<1> HIDE DEF c
<1>5. y \in SState /\ y.pc = sub[s].pc /\ y.ch = c /\ y.closed = sub[s].closed
  BY <1>3, <1>4 DEF SState
<1> HIDE DEF y
<1>6. (s \in subs => ~y.closed) /\ (y.closed /\ stopped # "done" => y.pc = "done")
  BY <1>5 DEF LInv, Closing
<1> QED
  BY <1>1, <1>2, <1>4, <1>5, <1>6, NoReplay, HandlerInv

LEMMA LeaveInv ==
  ASSUME LInv, NEW s \in Subs, Leave(s)
  PROVE  LInv'
<1> DEFINE y == [sub[s] EXCEPT !.pc = "leave"]
<1>1. /\ sub[s].pc = "open"
      /\ UNCHANGED <<slots, seq, writeIdx, total, wr, notifyCh, stopped, offered, panics>>
      /\ rd' = rd /\ base' = base /\ subs' = subs
  BY DEF Leave, ring, hist
<1>2. sub' = [sub EXCEPT ![s] = y]
  BY DEF Leave
<1>3. y \in SState /\ y.pc = "leave" /\ y.ch = sub[s].ch /\ y.closed = sub[s].closed
  BY <1>1, NoReplay DEF SState
<1> HIDE DEF y
<1>4. (s \in subs => ~y.closed) /\ (y.closed => stopped = "done")
  BY <1>1, <1>3 DEF LInv, Closing
<1> QED
  BY <1>1, <1>2, <1>3, <1>4, NoReplay, HandlerInv

LEMMA UnsubscribeInv ==
  ASSUME LInv, NEW s \in Subs, Unsubscribe(s)
  PROVE  LInv'
<1> DEFINE p == IF s \in subs THEN "close" ELSE "done"
           y == [sub[s] EXCEPT !.pc = p]
<1>1. /\ sub[s].pc = "leave" /\ Lockable
      /\ UNCHANGED <<slots, seq, writeIdx, total, wr, notifyCh, stopped, offered, panics>>
      /\ rd' = rd /\ base' = base /\ subs' = subs \ {s}
  BY DEF Unsubscribe, ring, hist
<1>2. sub' = [sub EXCEPT ![s] = y]
  BY DEF Unsubscribe
<1>3. p \in {"close", "done"}
  OBVIOUS
<1> HIDE DEF p
<1>4. y \in SState /\ y.pc = p /\ y.ch = sub[s].ch /\ y.closed = sub[s].closed
  BY <1>1, <1>3, NoReplay DEF SState
<1> HIDE DEF y
<1>5. y.closed => stopped = "done"
  BY <1>1, <1>4 DEF LInv, Closing
<1>6. subs \ {s} \in SUBSET Subs
  BY <1>1, NoReplay
<1> QED
  BY <1>1, <1>2, <1>3, <1>4, <1>5, <1>6, NoReplay, HandlerInv

LEMMA CloseInv ==
  ASSUME LInv, NEW s \in Subs, Close(s)
  PROVE  LInv'
<1> DEFINE y == [sub[s] EXCEPT !.pc = "done", !.closed = TRUE]
<1>1. /\ sub[s].pc = "close"
      /\ UNCHANGED <<slots, seq, writeIdx, total, wr, notifyCh, stopped, offered, panics>>
      /\ rd' = rd /\ base' = base /\ subs' = subs
  BY DEF Close, ring, hist
<1>2. sub' = [sub EXCEPT ![s] = y]
  BY TypeParts DEF Close, LInv, StreamTypes
<1>3. y \in SState /\ y.pc = "done" /\ y.ch = sub[s].ch
  BY <1>1, NoReplay DEF SState
<1> HIDE DEF y
<1>4. s \notin subs
  BY <1>1 DEF LInv, Closing
<1> QED
  BY <1>1, <1>2, <1>3, <1>4, NoReplay, HandlerInv

--------------------------------------------------------------------------------
(* Theorems *)

LEMMA InitInv == Init => LInv
<1> SUFFICES ASSUME Init PROVE LInv
  OBVIOUS
<1>1. RingTypes
  BY Bounds DEF Init, RingTypes, Record, WState
<1>2. StreamTypes
  BY Bounds, IdleState DEF Init, StreamTypes, SState
<1>3. Slotless = {} /\ Filling = {}
  BY DEF Init, Slotless, Filling
<1>4. Counted
  BY <1>3, FS_EmptySet DEF Init, Counted
<1>5. Reading
  BY DEF Init, Reading, Holds, Idle, Readers
<1>6. Closing /\ SendsAreSafe
  BY DEF Init, Closing, SendsAreSafe
<1> QED
  BY <1>1, <1>2, <1>4, <1>5, <1>6, TypeParts DEF LInv

LEMMA NextInv == LInv /\ [Next]_vars => LInv'
<1> SUFFICES ASSUME LInv, [Next]_vars PROVE LInv'
  OBVIOUS
<1>1. ASSUME NEW w \in Writers,
             TakeSeq(w) \/ TakeSlot(w) \/ Store(w) \/ Count(w) \/ Notify(w)
      PROVE  LInv'
  BY <1>1, TakeSeqInv, TakeSlotInv, StoreInv, CountInv, NotifyInv
<1>2. ASSUME NEW r \in Readers, ReadStep(r) PROVE LInv'
  BY <1>2, LoadTotalInv, ReadSlotInv, EndReadInv, PickInv, NextRecordInv, PutInv, RetryInv
  DEF ReadStep
<1>3. ASSUME NEW s \in Subs,
             Subscribe(s) \/ Receive(s) \/ Leave(s) \/ Unsubscribe(s) \/ Close(s)
      PROVE  LInv'
  BY <1>3, SubscribeInv, ReceiveInv, LeaveInv, UnsubscribeInv, CloseInv
<1>4. CASE UNCHANGED vars
  <2>1. RingTypes' /\ Counted'
    BY <1>4, RingKept DEF vars, ring
  <2>2. StreamTypes' /\ Reading' /\ Closing' /\ SendsAreSafe'
    BY <1>4, StreamKept DEF vars, hist
  <2> QED
    BY <2>1, <2>2, TypePartsNext DEF LInv
<1> QED
  BY <1>1, <1>2, <1>3, <1>4, TakeInv, RunEndsInv, StopSignalInv, StopCloseInv DEF Next

\* The log stream is always well formed: concurrent writers never push
\* writeIdx and total past the sequence numbers given out, and neither
\* notifyCh nor a subscriber's channel holds more than its capacity.
THEOREM TypeCorrect == Spec => []TypeOK
<1>1. LInv => TypeOK
  BY DEF LInv
<1> QED
  BY <1>1, InitInv, NextInv, PTL DEF Spec

\* Subscriber.send never meets a closed channel in fanout, whoever unsubscribes
\* and whenever Stop closes, and in a replay only when Stop has closed it.
THEOREM NoSendOnClosed == Spec => []SendsAreSafe
<1>1. LInv => SendsAreSafe
  BY DEF LInv
<1> QED
  BY <1>1, InitInv, NextInv, PTL DEF Spec

--------------------------------------------------------------------------------
(* No gap *)

\* The number of records in the ring, overwritten ones included.
Stored == IF \E w \in Writers : wr[w].pc \in {"slot", "store"} THEN seq - 1 ELSE seq

\* Under the handler's mutex one writer is at work, and the ring's counters
\* differ by how far it has come.
OneWriter ==
  /\ \A v, w \in Writers : wr[v].pc # "idle" /\ wr[w].pc # "idle" => v = w
  /\ (\A w \in Writers : wr[w].pc = "idle") => writeIdx = seq /\ total = seq
  /\ \A w \in Writers :
       /\ wr[w].pc # "idle" => wr[w].seq = seq
       /\ wr[w].pc = "slot" => writeIdx + 1 = seq /\ total + 1 = seq
       /\ wr[w].pc \in {"store", "count"} =>
            writeIdx = seq /\ total + 1 = seq /\ wr[w].idx + 1 = seq
       /\ wr[w].pc = "notify" => writeIdx = seq /\ total = seq
  /\ \A i \in DOMAIN notifyCh : notifyCh[i] <= seq

\* The ring holds the last Cap records, each in the slot of its number.
InPlace ==
  \A k \in 0..(Cap - 1) : slots[k].seq > 0 =>
    /\ (slots[k].seq - 1) % Cap = k
    /\ slots[k].seq <= Stored /\ slots[k].seq + Cap > Stored

\* The record in slot k is about to be overwritten; it is yet to be notified;
\* the hub will be told of it or of one before it.
Doomed(k) == \E w \in Writers : wr[w].pc = "store" /\ wr[w].idx % Cap = k
Fresh(k) == \E w \in Writers : wr[w].pc \in {"count", "notify"} /\ wr[w].seq = slots[k].seq
Announced(k) == \E i \in DOMAIN notifyCh : notifyCh[i] <= slots[k].seq

\* Reader r will come to record n in slot k, or holds it and will offer it to s.
WillRead(x, n) == /\ x.after < n
                  /\ x.pc = "load" \/ (x.pc = "read" /\ x.pos < n /\ n <= x.end)
WillSend(x, s, rec) ==
  \/ x.pc = "read" /\ rec \in {x.res[i] : i \in DOMAIN x.res}
  \/ /\ x.pc \in {"send", "put", "retry"}
     /\ \/ rec \in {x.res[i] : i \in DOMAIN x.res \ {1}}
        \/ rec = x.res[1] /\ (s \in x.todo \/ (x.pc # "send" /\ x.to = s))
Covers(r, s, k) == WillRead(rd[r], slots[k].seq) \/ WillSend(rd[r], s, slots[k])

\* A record of the ring that client s is to get and has not been offered.
Owed(s, k) ==
  /\ sub[s].pc \in {"replay", "open"}
  /\ slots[k].seq > base[s] /\ Matches(s, slots[k]) /\ slots[k] \notin offered[s]

\* Nothing is owed that is not on its way.
Pending(k) == Doomed(k) \/ Fresh(k) \/ Announced(k)
NoGap ==
  stopped = "no" => \A s \in Subs, k \in 0..(Cap - 1) :
    Owed(s, k) => Pending(k) \/ Covers(Hub, s, k) \/ Covers(s, s, k)

\* Before Stop the hub runs, and those who listen are its subscribers.
Listed ==
  stopped = "no" => /\ rd[Hub].pc # "dead"
                    /\ \A s \in Subs : sub[s].pc \in {"replay", "open"} => s \in subs

GInv == OneWriter /\ InPlace /\ NoGap /\ Listed

\* Slots that are Cap records apart are the same.
LEMMA SameSlot ==
  ASSUME NEW a \in Nat, NEW b \in Nat, b = a + Cap
  PROVE  a % Cap = b % Cap
<1> DEFINE p == a \div Cap
           q == b \div Cap
           r == a % Cap
           t == b % Cap
<1> USE Bounds
<1>1. p \in Int /\ q \in Int /\ r \in Nat /\ t \in Nat /\ r < Cap /\ t < Cap
  OBVIOUS
<1>2. a = Cap * p + r
  OBVIOUS
<1>3. b = Cap * q + t
  OBVIOUS
<1> HIDE DEF p, q, r, t
<1>4. Cap * q + t = Cap * p + Cap + r
  BY <1>1, <1>2, <1>3
<1>5. Cap * (q - p - 1) = r - t
  BY <1>1, <1>4
<1>6. q - p - 1 \in Int /\ r - t < Cap /\ t - r < Cap
  BY <1>1
<1>7. \A k \in Int : Cap * k < Cap /\ 0 - Cap < Cap * k => k = 0
  OBVIOUS
<1>8. q - p - 1 = 0
  BY <1>1, <1>5, <1>6, <1>7
<1>9. r = t
  BY <1>1, <1>5, <1>8
<1> QED
  BY <1>9 DEF r, t

LEMMA Between ==
  ASSUME NEW n \in Nat, NEW m \in Nat, NEW c \in Nat,
         n <= m - 1, n + c > m - 1, n + c # m
  PROVE  n <= m /\ n + c > m
OBVIOUS

\* What the ring's numbers are.
LEMMA RingNumbers ==
  ASSUME LInv
  PROVE  /\ seq \in Nat /\ writeIdx \in Nat /\ total \in Nat
         /\ \A w \in Writers : /\ wr[w] \in WState /\ wr[w].seq \in Nat /\ wr[w].idx \in Nat
                               /\ wr[w].pc # "idle" => wr[w].seq >= 1
         /\ \A k \in 0..(Cap - 1) : slots[k] \in Record /\ slots[k].seq \in Nat
         /\ notifyCh \in Seq(1..MaxRecords) /\ \A i \in DOMAIN notifyCh : notifyCh[i] \in Nat
<1>1. RingTypes
  BY TypeParts DEF LInv
<1>2. seq \in Nat /\ writeIdx \in Nat /\ total \in Nat
  BY <1>1, Numbers
<1>3. \A w \in Writers : wr[w] \in WState
  BY <1>1 DEF RingTypes
<1>4. \A w \in Writers : wr[w].seq \in Nat /\ wr[w].idx \in Nat
  BY <1>3, Bounds DEF WState
<1>5. \A k \in 0..(Cap - 1) : slots[k] \in Record
  BY <1>1 DEF RingTypes
<1>6. \A k \in 0..(Cap - 1) : slots[k].seq \in Nat
  BY <1>5, Bounds DEF Record
<1>7. notifyCh \in Seq(1..MaxRecords) /\ \A i \in DOMAIN notifyCh : notifyCh[i] \in Nat
  BY <1>1, Bounds DEF RingTypes
<1> QED
  BY <1>2, <1>3, <1>4, <1>5, <1>6, <1>7 DEF LInv, Counted

\* A stored record is counted, or its writer is about to.
LEMMA CountedOrFresh ==
  ASSUME LInv, OneWriter, InPlace
  PROVE  /\ Stored \in Nat /\ total <= Stored /\ Stored <= seq
         /\ \A k \in 0..(Cap - 1) : slots[k].seq > 0 => slots[k].seq <= total \/ Fresh(k)
<1>1. CASE \A w \in Writers : wr[w].pc = "idle"
  <2>1. Stored = seq /\ total = seq
    BY <1>1 DEF Stored, OneWriter
  <2> QED
    BY <2>1, RingNumbers DEF InPlace
<1>2. ASSUME NEW w \in Writers, wr[w].pc \in {"slot", "store"}
      PROVE  Stored = total /\ total + 1 = seq
  BY <1>2, RingNumbers DEF OneWriter, Stored
<1>3. ASSUME NEW w \in Writers, wr[w].pc = "count"
      PROVE  Stored = seq /\ total + 1 = seq /\ wr[w].seq = seq
  BY <1>3 DEF OneWriter, Stored
<1>4. ASSUME NEW w \in Writers, wr[w].pc = "notify"
      PROVE  Stored = seq /\ total = seq
  BY <1>4 DEF OneWriter, Stored
<1>5. ASSUME NEW w \in Writers, wr[w].pc \in {"slot", "store", "notify"}
      PROVE  /\ Stored \in Nat /\ total <= Stored /\ Stored <= seq
             /\ \A k \in 0..(Cap - 1) : slots[k].seq > 0 => slots[k].seq <= total
  <2>1. Stored = total /\ total <= seq
    BY <1>2, <1>4, <1>5, RingNumbers
  <2> QED
    BY <2>1, RingNumbers DEF InPlace
<1>6. ASSUME NEW w \in Writers, wr[w].pc = "count"
      PROVE  /\ Stored \in Nat /\ total <= Stored /\ Stored <= seq
             /\ \A k \in 0..(Cap - 1) : slots[k].seq > 0 => slots[k].seq <= total \/ Fresh(k)
  <2>1. Stored = seq /\ total + 1 = seq /\ wr[w].seq = seq
    BY <1>3, <1>6
  <2>2. \A k \in 0..(Cap - 1) : slots[k].seq > 0 => slots[k].seq <= total \/ slots[k].seq = seq
    BY <2>1, RingNumbers DEF InPlace
  <2> QED
    BY <1>6, <2>1, <2>2, RingNumbers DEF Fresh
<1>7. \A w \in Writers : wr[w].pc \in {"idle", "slot", "store", "count", "notify"}
  BY RingNumbers DEF WState
<1> QED
  BY <1>1, <1>5, <1>6, <1>7

--------------------------------------------------------------------------------
(* No gap: writers *)

\* A step of a writer leaves nothing owed behind, if what was pending still is
\* and what it wrote is.
LEMMA WriterGap ==
  ASSUME GInv, UNCHANGED <<rd, subs, sub, stopped, base, offered>>,
         \A k \in 0..(Cap - 1) : Pending(k)' \/ (slots'[k] = slots[k] /\ ~Pending(k))
  PROVE  NoGap' /\ Listed'
<1>1. Listed'
  BY DEF GInv, Listed
<1>2. ASSUME stopped = "no", NEW s \in Subs, NEW k \in 0..(Cap - 1), Owed(s, k)', ~Pending(k)'
      PROVE  Covers(Hub, s, k)' \/ Covers(s, s, k)'
  <2>1. slots'[k] = slots[k] /\ ~Pending(k)
    BY <1>2
  <2>2. Owed(s, k)
    BY <1>2, <2>1 DEF Owed, Matches
  <2>3. Covers(Hub, s, k) \/ Covers(s, s, k)
    BY <1>2, <2>1, <2>2 DEF GInv, NoGap
  <2> QED
    BY <2>1, <2>3 DEF Covers
<1>3. NoGap'
  BY <1>2 DEF NoGap
<1> QED
  BY <1>1, <1>3

LEMMA TakeSeqGap ==
  ASSUME Clones = {}, LInv, GInv, NEW w \in Writers, TakeSeq(w)
  PROVE  GInv'
<1> USE RingNumbers
<1>1. /\ \A v \in Writers : wr[v].pc = "idle"
      /\ seq' = seq + 1 /\ UNCHANGED <<slots, writeIdx, total, notifyCh>>
  BY DEF TakeSeq
<1>2. /\ wr'[w].pc = "slot" /\ wr'[w].seq = seq'
      /\ \A v \in Writers : v # w => wr'[v] = wr[v]
  BY TypeParts DEF TakeSeq, LInv, RingTypes, WState
<1>3. writeIdx = seq /\ total = seq /\ \A i \in DOMAIN notifyCh : notifyCh[i] <= seq
  BY <1>1 DEF GInv, OneWriter
<1>4. OneWriter'
  <2>1. \A v, u \in Writers : wr'[v].pc # "idle" /\ wr'[u].pc # "idle" => v = u
    BY <1>1, <1>2
  <2>2. writeIdx' + 1 = seq' /\ total' + 1 = seq'
    BY <1>1, <1>3
  <2>3. \A i \in DOMAIN notifyCh' : notifyCh'[i] <= seq'
    BY <1>1, <1>3
  <2> QED
    BY <1>1, <1>2, <2>1, <2>2, <2>3 DEF OneWriter
<1>5. Stored = seq /\ Stored' = seq
  BY <1>1, <1>2 DEF Stored
<1>6. InPlace'
  BY <1>1, <1>5 DEF GInv, InPlace
<1>7. ASSUME NEW k \in 0..(Cap - 1) PROVE Pending(k)' \/ (slots'[k] = slots[k] /\ ~Pending(k))
  BY <1>1, <1>2 DEF Pending, Doomed, Fresh, Announced
<1>8. NoGap' /\ Listed'
  BY <1>7, WriterGap DEF TakeSeq, hist
<1> QED
  BY <1>4, <1>6, <1>8 DEF GInv

LEMMA TakeSlotGap ==
  ASSUME LInv, GInv, NEW w \in Writers, TakeSlot(w)
  PROVE  GInv'
<1> USE RingNumbers
<1>1. /\ wr[w].pc = "slot" /\ writeIdx' = writeIdx + 1
      /\ UNCHANGED <<slots, seq, total, notifyCh>>
  BY DEF TakeSlot
<1>2. /\ wr'[w].pc = "store" /\ wr'[w].seq = wr[w].seq /\ wr'[w].idx = writeIdx
      /\ \A v \in Writers : v # w => wr'[v] = wr[v]
  BY TypeParts DEF TakeSlot, LInv, RingTypes, WState
<1>3. /\ \A v \in Writers : v # w => wr[v].pc = "idle"
      /\ wr[w].seq = seq /\ writeIdx + 1 = seq /\ total + 1 = seq
      /\ \A i \in DOMAIN notifyCh : notifyCh[i] <= seq
  BY <1>1 DEF GInv, OneWriter
<1>4. OneWriter'
  BY <1>1, <1>2, <1>3 DEF OneWriter
<1>5. Stored = seq - 1 /\ Stored' = seq - 1
  BY <1>1, <1>2 DEF Stored
<1>6. InPlace'
  BY <1>1, <1>5 DEF GInv, InPlace
<1>7. ASSUME NEW k \in 0..(Cap - 1) PROVE Pending(k)' \/ (slots'[k] = slots[k] /\ ~Pending(k))
  BY <1>1, <1>2, <1>3 DEF Pending, Doomed, Fresh, Announced
<1>8. NoGap' /\ Listed'
  BY <1>7, WriterGap DEF TakeSlot, hist
<1> QED
  BY <1>4, <1>6, <1>8 DEF GInv

LEMMA StoreGap ==
  ASSUME LInv, GInv, NEW w \in Writers, Store(w)
  PROVE  GInv'
<1> USE RingNumbers
<1> DEFINE h == wr[w].idx % Cap
<1>1. /\ wr[w].pc = "store" /\ UNCHANGED <<seq, writeIdx, total, notifyCh>>
      /\ slots' = [slots EXCEPT ![h] = [seq |-> wr[w].seq, by |-> w]]
  BY DEF Store
<1>2. /\ wr'[w].pc = "count" /\ wr'[w].seq = wr[w].seq /\ wr'[w].idx = wr[w].idx
      /\ \A v \in Writers : v # w => wr'[v] = wr[v]
  BY TypeParts DEF Store, LInv, RingTypes, WState
<1>3. /\ \A v \in Writers : v # w => wr[v].pc = "idle"
      /\ wr[w].seq = seq /\ writeIdx = seq /\ total + 1 = seq /\ wr[w].idx + 1 = seq
      /\ \A i \in DOMAIN notifyCh : notifyCh[i] <= seq
  BY <1>1 DEF GInv, OneWriter
<1>4. OneWriter'
  BY <1>1, <1>2, <1>3 DEF OneWriter
<1>5. Stored = seq - 1 /\ Stored' = seq
  BY <1>1, <1>2, <1>3 DEF Stored
<1>6. /\ h \in 0..(Cap - 1) /\ slots'[h] = [seq |-> seq, by |-> w]
      /\ \A k \in 0..(Cap - 1) : k # h => slots'[k] = slots[k]
  BY <1>1, <1>3, SlotNumber, TypeParts DEF LInv, RingTypes
<1>7. wr[w].idx % Cap = h /\ h = (seq - 1) % Cap
  BY <1>3
<1> HIDE DEF h
<1>8. InPlace'
  <2> SUFFICES ASSUME NEW k \in 0..(Cap - 1), slots'[k].seq > 0
               PROVE  /\ (slots'[k].seq - 1) % Cap = k
                      /\ slots'[k].seq <= seq /\ slots'[k].seq + Cap > seq
    BY <1>5 DEF InPlace
  <2>1. CASE k = h
    <3>1. slots'[k].seq = seq
      BY <1>6, <2>1
    <3>2. seq <= seq /\ seq + Cap > seq
      BY Bounds
    <3> QED
      BY <1>7, <2>1, <3>1, <3>2, Zenon
  <2>2. CASE k # h
    <3>1. slots'[k] = slots[k]
      BY <1>6, <2>2
    <3>2. (slots[k].seq - 1) % Cap = k /\ slots[k].seq <= seq - 1 /\ slots[k].seq + Cap > seq - 1
      BY <1>5, <3>1 DEF GInv, InPlace
    <3>3. PICK n \in Nat : n = slots[k].seq /\ n > 0
      BY <3>1
    <3>4. n + Cap # seq
      <4>1. n - 1 \in Nat /\ seq - 1 \in Nat
        BY <1>3, <3>3
      <4>2. n + Cap = seq => seq - 1 = (n - 1) + Cap
        BY <3>3, Bounds
      <4>3. n + Cap = seq => (n - 1) % Cap = (seq - 1) % Cap
        BY <4>1, <4>2, SameSlot
      <4>4. (n - 1) % Cap = k
        BY <3>2, <3>3, Zenon
      <4> QED
        BY <1>7, <2>2, <4>3, <4>4, Zenon
    <3>5. n <= seq /\ n + Cap > seq
      <4>1. n <= seq - 1 /\ n + Cap > seq - 1
        BY <3>2, <3>3, Zenon
      <4> QED
        BY <3>4, <4>1, Bounds, Between, Zenon
    <3> QED
      BY <3>1, <3>2, <3>3, <3>5, Zenon
  <2> QED
    BY <2>1, <2>2
<1>9. ASSUME NEW k \in 0..(Cap - 1) PROVE Pending(k)' \/ (slots'[k] = slots[k] /\ ~Pending(k))
  <2>1. CASE k = h
    BY <1>2, <1>3, <1>6, <2>1 DEF Pending, Fresh
  <2>2. CASE k # h
    <3>1. ~Doomed(k) /\ ~Fresh(k)
      BY <1>1, <1>3, <1>7, <2>2, Zenon DEF Doomed, Fresh
    <3>2. slots'[k] = slots[k] /\ (Announced(k) => Announced(k)')
      BY <1>1, <1>6, <2>2 DEF Announced
    <3> QED
      BY <3>1, <3>2 DEF Pending
  <2> QED
    BY <2>1, <2>2
<1>10. NoGap' /\ Listed'
  BY <1>9, WriterGap DEF Store, hist
<1> QED
  BY <1>4, <1>8, <1>10 DEF GInv

LEMMA CountGap ==
  ASSUME LInv, GInv, NEW w \in Writers, Count(w)
  PROVE  GInv'
<1> USE RingNumbers
<1>1. wr[w].pc = "count" /\ total' = total + 1 /\ UNCHANGED <<slots, seq, writeIdx, notifyCh>>
  BY DEF Count
<1>2. /\ wr'[w].pc = "notify" /\ wr'[w].seq = wr[w].seq
      /\ \A v \in Writers : v # w => wr'[v] = wr[v]
  BY TypeParts DEF Count, LInv, RingTypes, WState
<1>3. /\ \A v \in Writers : v # w => wr[v].pc = "idle"
      /\ wr[w].seq = seq /\ writeIdx = seq /\ total + 1 = seq
      /\ \A i \in DOMAIN notifyCh : notifyCh[i] <= seq
  BY <1>1 DEF GInv, OneWriter
<1>4. OneWriter'
  BY <1>1, <1>2, <1>3 DEF OneWriter
<1>5. Stored = seq /\ Stored' = seq
  BY <1>1, <1>2, <1>3 DEF Stored
<1>6. InPlace'
  BY <1>1, <1>5 DEF GInv, InPlace
<1>7. ASSUME NEW k \in 0..(Cap - 1) PROVE Pending(k)' \/ (slots'[k] = slots[k] /\ ~Pending(k))
  BY <1>1, <1>2, <1>3 DEF Pending, Doomed, Fresh, Announced
<1>8. NoGap' /\ Listed'
  BY <1>7, WriterGap DEF Count, hist
<1> QED
  BY <1>4, <1>6, <1>8 DEF GInv

\* A notification that is dropped finds an earlier one in the channel.
LEMMA NotifyGap ==
  ASSUME LInv, GInv, NEW w \in Writers, Notify(w)
  PROVE  GInv'
<1> USE RingNumbers
<1>1. /\ wr[w].pc = "notify" /\ UNCHANGED <<slots, seq, writeIdx, total>>
      /\ notifyCh' = IF Len(notifyCh) < NotifyCap THEN Append(notifyCh, wr[w].seq) ELSE notifyCh
  BY DEF Notify, ring
<1>2. wr'[w].pc = "idle" /\ \A v \in Writers : v # w => wr'[v] = wr[v]
  BY TypeParts DEF Notify, LInv, RingTypes, WState
<1>3. /\ \A v \in Writers : v # w => wr[v].pc = "idle"
      /\ wr[w].seq = seq /\ writeIdx = seq /\ total = seq
      /\ \A i \in DOMAIN notifyCh : notifyCh[i] <= seq
  BY <1>1 DEF GInv, OneWriter
<1>4. /\ \A i \in DOMAIN notifyCh' : notifyCh'[i] <= seq
      /\ \A i \in DOMAIN notifyCh : i \in DOMAIN notifyCh' /\ notifyCh'[i] = notifyCh[i]
      /\ \E i \in DOMAIN notifyCh' : notifyCh'[i] <= seq
  <2>1. notifyCh \in Seq(Nat) /\ Len(notifyCh) \in Nat /\ DOMAIN notifyCh = 1..Len(notifyCh)
    OBVIOUS
  <2>2. CASE Len(notifyCh) < NotifyCap
    <3>1. notifyCh' = Append(notifyCh, seq)
      BY <1>1, <1>3, <2>2
    <3>2. /\ DOMAIN notifyCh' = 1..(Len(notifyCh) + 1) /\ notifyCh'[Len(notifyCh) + 1] = seq
          /\ \A i \in 1..Len(notifyCh) : notifyCh'[i] = notifyCh[i]
      BY <2>1, <3>1
    <3> QED
      BY <1>3, <2>1, <3>2
  <2>3. CASE ~(Len(notifyCh) < NotifyCap)
    <3>1. notifyCh' = notifyCh /\ 1 \in DOMAIN notifyCh
      BY <1>1, <2>1, <2>3, Bounds
    <3> QED
      BY <1>3, <3>1
  <2> QED
    BY <2>2, <2>3
<1>5. OneWriter'
  BY <1>1, <1>2, <1>3, <1>4 DEF OneWriter
<1>6. Stored = seq /\ Stored' = seq
  BY <1>1, <1>2, <1>3 DEF Stored
<1>7. InPlace'
  BY <1>1, <1>6 DEF GInv, InPlace
<1>8. ASSUME NEW k \in 0..(Cap - 1) PROVE Pending(k)' \/ (slots'[k] = slots[k] /\ ~Pending(k))
  <2>1. CASE Fresh(k)
    BY <1>1, <1>3, <1>4, <2>1 DEF Pending, Fresh, Announced
  <2>2. CASE ~Fresh(k)
    BY <1>1, <1>2, <1>3, <1>4, <2>2 DEF Pending, Doomed, Fresh, Announced
  <2> QED
    BY <2>1, <2>2
<1>9. NoGap' /\ Listed'
  BY <1>8, WriterGap DEF Notify, hist
<1> QED
  BY <1>5, <1>7, <1>9 DEF GInv

--------------------------------------------------------------------------------
(* No gap: readers *)

\* A reader's step leaves nothing owed behind, if what the reader itself was to
\* offer it still is to offer, has offered, or is pending.
LEMMA ReaderGap ==
  ASSUME LInv, GInv, NEW r \in Readers, Elsewhere,
         \A q \in Readers : q # r => rd'[q] = rd[q],
         stopped = "no" => rd'[r].pc # "dead",
         \A s \in Subs : /\ sub'[s].filter = sub[s].filter /\ offered[s] \subseteq offered'[s]
                         /\ sub'[s].pc \in {"replay", "open"} => sub[s].pc \in {"replay", "open"},
         stopped = "no" => \A s \in Subs, k \in 0..(Cap - 1) :
           Owed(s, k) /\ slots[k] \notin offered'[s] /\ r \in {Hub, s} /\ Covers(r, s, k) =>
             Pending(k) \/ WillRead(rd'[r], slots[k].seq) \/ WillSend(rd'[r], s, slots[k])
  PROVE  GInv'
<1>1. OneWriter'
  BY DEF GInv, OneWriter, Elsewhere
<1>2. Stored' = Stored
  BY DEF Stored, Elsewhere
<1>3. InPlace'
  BY <1>2 DEF GInv, InPlace, Elsewhere
<1>4. Listed'
  BY DEF GInv, Listed, Elsewhere, Readers
<1>5. ASSUME stopped = "no", NEW s \in Subs, NEW k \in 0..(Cap - 1), Owed(s, k)'
      PROVE  Pending(k)' \/ Covers(Hub, s, k)' \/ Covers(s, s, k)'
  <2>1. slots' = slots /\ base' = base /\ (Pending(k) => Pending(k)')
    BY DEF Elsewhere, Pending, Doomed, Fresh, Announced
  <2>2. Owed(s, k) /\ slots[k] \notin offered'[s]
    BY <1>5, <2>1 DEF Owed, Matches
  <2>3. Pending(k) \/ Covers(Hub, s, k) \/ Covers(s, s, k)
    BY <1>5, <2>2 DEF GInv, NoGap
  <2>4. ASSUME NEW q \in {Hub, s}, Covers(q, s, k) PROVE Pending(k) \/ Covers(q, s, k)'
    <3>1. CASE q = r
      BY <1>5, <2>1, <2>2, <2>4, <3>1 DEF Covers
    <3>2. CASE q # r
      BY <2>1, <2>4, <3>2 DEF Covers, Readers
    <3> QED
      BY <3>1, <3>2
  <2> QED
    BY <2>1, <2>3, <2>4
<1>6. NoGap'
  BY <1>5 DEF NoGap, Elsewhere
<1> QED
  BY <1>1, <1>3, <1>4, <1>6 DEF GInv

\* A reader that is done, and had nothing more to offer.
LEMMA FinishGap ==
  ASSUME LInv, GInv, NEW r \in Readers, rd[r].pc # "idle", Finish(r), Elsewhere, offered' = offered,
         \A s \in Subs, k \in 0..(Cap - 1) :
           Owed(s, k) /\ r \in {Hub, s} /\ Covers(r, s, k) => Pending(k)
  PROVE  GInv'
<1>1. StreamTypes
  BY TypeParts DEF LInv
<1>2. rd'[r].pc # "dead" /\ \A q \in Readers : q # r => rd'[q] = rd[q]
  BY <1>1 DEF Finish, StreamTypes, Idle
<1>3. \A s \in Subs : /\ sub'[s].filter = sub[s].filter
                      /\ sub'[s].pc \in {"replay", "open"} => sub[s].pc \in {"replay", "open"}
  <2>1. CASE r = Hub
    BY <2>1 DEF Finish
  <2>2. CASE r # Hub
    <3>1. r \in Subs /\ sub[r].pc = "replay"
      BY <2>2 DEF Readers, LInv, Reading
    <3>2. sub' = [sub EXCEPT ![r].pc = "open"]
      BY <2>2 DEF Finish
    <3>3. \A s \in Subs : sub'[s].filter = sub[s].filter /\ (s # r => sub'[s].pc = sub[s].pc)
      BY <1>1, <3>1, <3>2 DEF StreamTypes, SState
    <3> QED
      BY <3>1, <3>3
  <2> QED
    BY <2>1, <2>2
<1> QED
  BY <1>2, <1>3, ReaderGap

\* A reader that has something to read, and nothing yet to send.
LEMMA WhatIsCovered ==
  ASSUME NEW x, NEW s, NEW rec
  PROVE  /\ x.pc = "load" /\ (WillRead(x, rec.seq) \/ WillSend(x, s, rec)) => x.after < rec.seq
         /\ x.pc \in {"idle", "dead"} => ~WillRead(x, rec.seq) /\ ~WillSend(x, s, rec)
         /\ x.pc \in {"send", "put", "retry"} => ~WillRead(x, rec.seq)
BY DEF WillRead, WillSend

\* A record that is owed has a number, and is one of the last Cap stored.
LEMMA OwedNumber ==
  ASSUME LInv, GInv, NEW s \in Subs, NEW k \in 0..(Cap - 1), Owed(s, k)
  PROVE  /\ slots[k].seq \in Nat /\ slots[k].seq > 0 /\ slots[k].seq <= seq
         /\ (slots[k].seq - 1) % Cap = k
         /\ slots[k].seq + Cap > total
         /\ slots[k].seq <= total \/ Pending(k)
<1>1. base[s] \in Nat
  BY TypeParts, Bounds DEF LInv, StreamTypes
<1>2. slots[k].seq \in Nat /\ slots[k].seq > 0
  BY <1>1, RingNumbers DEF Owed
<1>3. (slots[k].seq - 1) % Cap = k
  BY <1>2 DEF GInv, InPlace
<1>4. slots[k].seq <= Stored /\ slots[k].seq + Cap > Stored
  BY <1>2 DEF GInv, InPlace
<1>5. Stored \in Nat /\ total <= Stored /\ Stored <= seq /\ (slots[k].seq <= total \/ Fresh(k))
  BY <1>2, CountedOrFresh DEF GInv
<1>6. slots[k].seq <= seq /\ slots[k].seq + Cap > total
  BY <1>2, <1>4, <1>5, RingNumbers, Bounds
<1> QED
  BY <1>2, <1>3, <1>5, <1>6, Zenon DEF Pending

LEMMA LoadTotalGap ==
  ASSUME LInv, GInv, NEW r \in Readers, LoadTotal(r)
  PROVE  GInv'
<1>1. RingTypes /\ StreamTypes
  BY TypeParts DEF LInv
<1>2. rd[r].pc = "load" /\ Elsewhere /\ UNCHANGED <<offered, panics>>
  BY DEF LoadTotal, Elsewhere, ring, hist
<1>3. CASE total = 0 /\ Finish(r)
  <2>1. \A s \in Subs, k \in 0..(Cap - 1) : Owed(s, k) => Pending(k)
    BY <1>3, OwedNumber
  <2> QED
    BY <1>2, <1>3, <2>1, FinishGap
<1>4. CASE total > 0 /\ UNCHANGED sub /\
           rd' = [rd EXCEPT ![r] =
                    [@ EXCEPT !.pc = "read", !.end = total,
                              !.pos = IF total > Cap THEN total - Cap ELSE 0]]
  <2> DEFINE p == IF total > Cap THEN total - Cap ELSE 0
  <2>1. /\ rd'[r].pc = "read" /\ rd'[r].end = total /\ rd'[r].pos = p /\ rd'[r].after = rd[r].after
        /\ \A q \in Readers : q # r => rd'[q] = rd[q]
    BY <1>1, <1>4 DEF StreamTypes, RState
  <2>2. ASSUME NEW s \in Subs, NEW k \in 0..(Cap - 1), Owed(s, k), Covers(r, s, k)
        PROVE  Pending(k) \/ WillRead(rd'[r], slots[k].seq)
    <3>1. rd[r].after < slots[k].seq
      BY <1>2, <2>2, WhatIsCovered DEF Covers
    <3>2. p < slots[k].seq
      BY <2>2, OwedNumber, RingNumbers, Bounds
    <3>3. slots[k].seq <= total \/ Pending(k)
      BY <2>2, OwedNumber
    <3> HIDE DEF p
    <3> QED
      BY <2>1, <3>1, <3>2, <3>3 DEF WillRead
  <2> QED
    BY <1>2, <1>4, <2>1, <2>2, ReaderGap
<1> QED
  BY <1>3, <1>4 DEF LoadTotal

\* Of a slot that is not being stored its record is seen.
LEMMA SeenWhole ==
  ASSUME NEW k, ~Doomed(k)
  PROVE  Seen(k) = {slots[k]}
<1>1. {v \in Writers : wr[v].pc = "store" /\ wr[v].idx % Cap = k} = {}
  BY DEF Doomed
<1> QED
  BY <1>1 DEF Seen

LEMMA ReadSlotGap ==
  ASSUME LInv, GInv, NEW r \in Readers, ReadSlot(r)
  PROVE  GInv'
<1>1. StreamTypes
  BY TypeParts DEF LInv
<1>2. /\ rd[r].pc = "read" /\ rd[r].pos < rd[r].end
      /\ Elsewhere /\ UNCHANGED <<sub, offered, panics>>
  BY DEF ReadSlot, Elsewhere, ring, hist
<1>3. /\ rd[r] \in RState /\ rd[r].pos \in Nat /\ rd[r].after \in Nat /\ rd[r].end \in Nat
      /\ rd[r].res \in Seq(Record)
  BY <1>1, Bounds DEF StreamTypes, RState
<1>4. PICK rec \in Seen(rd[r].pos % Cap) :
        rd' = [rd EXCEPT ![r] =
                 [rd[r] EXCEPT !.pos = rd[r].pos + 1,
                               !.res = IF rec.seq > rd[r].after
                                       THEN Append(rd[r].res, rec) ELSE rd[r].res]]
  BY Zenon DEF ReadSlot
<1>5. /\ rd'[r].pc = "read" /\ rd'[r].pos = rd[r].pos + 1
      /\ rd'[r].after = rd[r].after /\ rd'[r].end = rd[r].end
      /\ rd'[r].res = IF rec.seq > rd[r].after THEN Append(rd[r].res, rec) ELSE rd[r].res
      /\ \A q \in Readers : q # r => rd'[q] = rd[q]
  BY <1>1, <1>2, <1>3, <1>4 DEF StreamTypes, RState
<1>6. rec \in Record
  <2>1. rd[r].pos % Cap \in 0..(Cap - 1)
    BY <1>3, SlotNumber
  <2> QED
    BY <2>1, TypeParts, SeenRecords DEF LInv
<1>7. /\ \A i \in DOMAIN rd[r].res : i \in DOMAIN rd'[r].res /\ rd'[r].res[i] = rd[r].res[i]
      /\ rec.seq > rd[r].after => \E i \in DOMAIN rd'[r].res : rd'[r].res[i] = rec
  <2>1. CASE rec.seq > rd[r].after
    <3>1. rd'[r].res = Append(rd[r].res, rec)
      BY <1>5, <2>1
    <3>2. /\ DOMAIN rd[r].res = 1..Len(rd[r].res) /\ Len(rd[r].res) \in Nat
          /\ DOMAIN rd'[r].res = 1..(Len(rd[r].res) + 1)
          /\ rd'[r].res[Len(rd[r].res) + 1] = rec
          /\ \A i \in 1..Len(rd[r].res) : rd'[r].res[i] = rd[r].res[i]
      BY <1>3, <1>6, <3>1
    <3> QED
      BY <3>2
  <2>2. CASE ~(rec.seq > rd[r].after)
    BY <1>5, <2>2
  <2> QED
    BY <2>1, <2>2
<1>8. ASSUME NEW s \in Subs, NEW k \in 0..(Cap - 1), Owed(s, k), Covers(r, s, k)
      PROVE  Pending(k) \/ WillRead(rd'[r], slots[k].seq) \/ WillSend(rd'[r], s, slots[k])
  <2>1. CASE WillSend(rd[r], s, slots[k])
    <3>1. \E i \in DOMAIN rd[r].res : slots[k] = rd[r].res[i]
      BY <1>2, <2>1 DEF WillSend
    <3>2. \E i \in DOMAIN rd'[r].res : slots[k] = rd'[r].res[i]
      BY <1>7, <3>1
    <3> QED
      BY <1>5, <3>2 DEF WillSend
  <2>2. CASE WillRead(rd[r], slots[k].seq)
    <3>1. rd[r].after < slots[k].seq /\ rd[r].pos < slots[k].seq /\ slots[k].seq <= rd[r].end
      BY <1>2, <2>2 DEF WillRead
    <3>2. PICK n \in Nat : n = slots[k].seq /\ n > 0 /\ (n - 1) % Cap = k
      BY <1>8, OwedNumber, Zenon
    <3>3. CASE rd[r].pos = n - 1
      <4>1. rd[r].pos % Cap = k
        BY <3>2, <3>3, Zenon
      <4>2. CASE ~Doomed(k)
        <5>1. rec = slots[k]
          BY <1>4, <4>1, <4>2, SeenWhole, Zenon
        <5>2. rec.seq > rd[r].after
          BY <1>3, <3>1, <3>2, <5>1
        <5>3. \E i \in DOMAIN rd'[r].res : slots[k] = rd'[r].res[i]
          BY <1>7, <5>1, <5>2, Zenon
        <5> QED
          BY <1>5, <5>3, Zenon DEF WillSend
      <4> QED
        BY <4>2 DEF Pending
    <3>4. CASE rd[r].pos # n - 1
      <4>1. rd[r].pos + 1 < n
        <5> HIDE <3>2
        <5>1. n \in Nat /\ rd[r].pos < n
          BY <3>1, <3>2, Zenon
        <5> QED
          BY <1>3, <3>4, <5>1
      <4> QED
        BY <1>5, <3>1, <3>2, <4>1, Zenon DEF WillRead
    <3> QED
      BY <3>3, <3>4
  <2> QED
    BY <1>8, <2>1, <2>2 DEF Covers
<1>9. rd'[r].pc # "dead"
  BY <1>5
<1> QED
  BY <1>2, <1>5, <1>8, <1>9, ReaderGap

\* The records of a nonempty sequence: its head and those of its tail.
LEMMA HeadAndTail ==
  ASSUME NEW q \in Seq(Record), q # <<>>
  PROVE  /\ Head(q) = q[1] /\ 1 \in DOMAIN q /\ Tail(q) \in Seq(Record)
         /\ \A i \in DOMAIN q \ {1} : \E j \in DOMAIN Tail(q) : Tail(q)[j] = q[i]
<1>1. /\ Head(q) = q[1] /\ 1 \in DOMAIN q /\ Tail(q) \in Seq(Record)
      /\ DOMAIN q = 1..Len(q) /\ Len(q) \in Nat /\ DOMAIN Tail(q) = 1..(Len(q) - 1)
      /\ \A j \in 1..(Len(q) - 1) : Tail(q)[j] = q[j + 1]
  OBVIOUS
<1>2. \A i \in DOMAIN q \ {1} : i - 1 \in 1..(Len(q) - 1) /\ (i - 1) + 1 = i
  BY <1>1
<1> QED
  BY <1>1, <1>2

\* A record that begins to be sent goes to everyone it is owed to.
LEMMA Addressed ==
  ASSUME LInv, GInv, stopped = "no", NEW r \in Readers, NEW s \in Subs, r \in {Hub, s},
         NEW k \in 0..(Cap - 1), Owed(s, k), NEW q \in Seq(Record), NEW i \in DOMAIN q,
         q[i] = slots[k]
  PROVE  (\E j \in DOMAIN q \ {1} : q[j] = slots[k]) \/ (q[1] = slots[k] /\ s \in Audience(r, q))
<1>1. CASE i # 1
  BY <1>1
<1>2. CASE i = 1
  <2>1. s \in IF r = Hub THEN subs ELSE {r}
    BY DEF GInv, Listed, Owed
  <2>2. q # <<>> /\ Head(q) = slots[k]
    BY <1>2
  <2>3. Matches(s, Head(q))
    BY <2>2 DEF Owed
  <2> QED
    BY <1>2, <2>1, <2>2, <2>3 DEF Audience
<1> QED
  BY <1>1, <1>2

LEMMA EndReadGap ==
  ASSUME LInv, GInv, NEW r \in Readers, EndRead(r)
  PROVE  GInv'
<1>1. StreamTypes
  BY TypeParts DEF LInv
<1>2. rd[r].pc = "read" /\ rd[r].pos = rd[r].end /\ Elsewhere /\ UNCHANGED <<offered, panics>>
  BY DEF EndRead, Elsewhere, ring, hist
<1>3. rd[r] \in RState /\ rd[r].res \in Seq(Record) /\ rd[r].end \in Nat
  BY <1>1, Bounds DEF StreamTypes, RState
<1>4. ASSUME NEW s \in Subs, NEW k \in 0..(Cap - 1), Owed(s, k), Covers(r, s, k)
      PROVE  \E i \in DOMAIN rd[r].res : rd[r].res[i] = slots[k]
  <2>1. ~WillRead(rd[r], slots[k].seq)
    BY <1>2, <1>3, <1>4, RingNumbers DEF WillRead
  <2> QED
    BY <1>2, <1>4, <2>1 DEF Covers, WillSend
<1>5. CASE rd[r].res = <<>> /\ Finish(r)
  BY <1>2, <1>4, <1>5, FinishGap
<1>6. CASE rd[r].res # <<>> /\ UNCHANGED sub /\
           rd' = [rd EXCEPT ![r] = [@ EXCEPT !.pc = "send", !.todo = Audience(r, rd[r].res)]]
  <2>1. /\ rd'[r].pc = "send" /\ rd'[r].res = rd[r].res /\ rd'[r].todo = Audience(r, rd[r].res)
        /\ \A q \in Readers : q # r => rd'[q] = rd[q]
    BY <1>1, <1>3, <1>6 DEF StreamTypes, RState
  <2>2. ASSUME stopped = "no", NEW s \in Subs, NEW k \in 0..(Cap - 1), Owed(s, k),
               r \in {Hub, s}, Covers(r, s, k)
        PROVE  WillSend(rd'[r], s, slots[k])
    <3>1. PICK i \in DOMAIN rd[r].res : rd[r].res[i] = slots[k]
      BY <1>4, <2>2
    <3>2. \/ \E j \in DOMAIN rd[r].res \ {1} : rd[r].res[j] = slots[k]
          \/ rd[r].res[1] = slots[k] /\ s \in Audience(r, rd[r].res)
      BY <1>3, <2>2, <3>1, Addressed
    <3> QED
      BY <2>1, <3>2 DEF WillSend
  <2> QED
    BY <1>2, <1>6, <2>1, <2>2, ReaderGap
<1> QED
  BY <1>5, <1>6 DEF EndRead

LEMMA NextRecordGap ==
  ASSUME LInv, GInv, NEW r \in Readers, NextRecord(r)
  PROVE  GInv'
<1> DEFINE rest == Tail(rd[r].res)
<1>1. StreamTypes
  BY TypeParts DEF LInv
<1>2. rd[r].pc = "send" /\ rd[r].todo = {} /\ Elsewhere /\ UNCHANGED <<offered, panics>>
  BY DEF NextRecord, Elsewhere, ring, hist
<1>3. rd[r] \in RState /\ rd[r].res \in Seq(Record) /\ rd[r].res # <<>>
  BY <1>1, <1>2 DEF StreamTypes, RState, LInv, Reading, Holds
<1>4. ASSUME NEW s \in Subs, NEW k \in 0..(Cap - 1), Covers(r, s, k)
      PROVE  \E j \in DOMAIN rest : rest[j] = slots[k]
  <2>1. \E i \in DOMAIN rd[r].res \ {1} : slots[k] = rd[r].res[i]
    BY <1>2, <1>4, WhatIsCovered DEF Covers, WillSend
  <2> QED
    BY <1>3, <2>1, HeadAndTail
<1>5. rest \in Seq(Record)
  BY <1>3, HeadAndTail
<1>6. CASE rest = <<>> /\ Finish(r)
  BY <1>2, <1>4, <1>6, FinishGap
<1>7. CASE rest # <<>> /\ UNCHANGED sub /\
           rd' = [rd EXCEPT ![r] = [@ EXCEPT !.res = rest, !.todo = Audience(r, rest)]]
  <2> HIDE DEF rest
  <2>1. /\ rd'[r].pc = "send" /\ rd'[r].res = rest /\ rd'[r].todo = Audience(r, rest)
        /\ \A q \in Readers : q # r => rd'[q] = rd[q]
    BY <1>1, <1>2, <1>3, <1>7 DEF StreamTypes, RState
  <2>2. ASSUME stopped = "no", NEW s \in Subs, NEW k \in 0..(Cap - 1), Owed(s, k),
               r \in {Hub, s}, Covers(r, s, k)
        PROVE  WillSend(rd'[r], s, slots[k])
    <3>1. PICK i \in DOMAIN rest : rest[i] = slots[k]
      BY <1>4, <2>2
    <3>2. \/ \E j \in DOMAIN rest \ {1} : rest[j] = slots[k]
          \/ rest[1] = slots[k] /\ s \in Audience(r, rest)
      BY <1>5, <2>2, <3>1, Addressed
    <3> QED
      BY <2>1, <3>2 DEF WillSend
  <2> QED
    BY <1>2, <1>7, <2>1, <2>2, ReaderGap
<1> QED
  BY <1>6, <1>7 DEF NextRecord

\* Before Stop nobody who listens is closed.
LEMMA StillOpen ==
  ASSUME LInv, stopped = "no", NEW s \in Subs, sub[s].pc \in {"replay", "open"}
  PROVE  ~sub[s].closed
BY DEF LInv, Closing

LEMMA PickGap ==
  ASSUME LInv, GInv, NEW r \in Readers, Pick(r)
  PROVE  GInv'
<1>1. StreamTypes
  BY TypeParts DEF LInv
<1>2. rd[r].pc = "send" /\ Elsewhere /\ UNCHANGED <<sub, offered, panics>>
  BY DEF Pick, Elsewhere, ring, hist
<1>3. PICK t \in rd[r].todo :
        rd' = [rd EXCEPT ![r] = [rd[r] EXCEPT !.todo = @ \ {t},
                                              !.pc = IF sub[t].closed THEN "send" ELSE "put",
                                              !.to = IF sub[t].closed THEN None ELSE t]]
  BY DEF Pick
<1>4. rd[r] \in RState
  BY <1>1 DEF StreamTypes
<1>5. /\ rd'[r].pc \in {"send", "put"} /\ rd'[r].res = rd[r].res /\ rd'[r].todo = rd[r].todo \ {t}
      /\ ~sub[t].closed => rd'[r].pc = "put" /\ rd'[r].to = t
      /\ \A q \in Readers : q # r => rd'[q] = rd[q]
  BY <1>1, <1>3, <1>4 DEF StreamTypes, RState
<1>6. ASSUME stopped = "no", NEW s \in Subs, NEW k \in 0..(Cap - 1), Owed(s, k), Covers(r, s, k)
      PROVE  WillSend(rd'[r], s, slots[k])
  <2>1. WillSend(rd[r], s, slots[k])
    BY <1>2, <1>6, WhatIsCovered DEF Covers
  <2>2. ~sub[s].closed
    BY <1>6, StillOpen DEF Owed
  <2> QED
    BY <1>2, <1>5, <2>1, <2>2 DEF WillSend
<1>7. rd'[r].pc # "dead"
  BY <1>5
<1> QED
  BY <1>2, <1>5, <1>6, <1>7, ReaderGap

\* Send to the target: the record has been offered to it, or will be.
LEMMA OfferGap ==
  ASSUME LInv, GInv, NEW r \in Readers, rd[r].pc \in {"put", "retry"}, Elsewhere,
         /\ rd'[r].res = rd[r].res /\ rd'[r].todo = rd[r].todo
         /\ \/ rd'[r].pc = "retry" /\ rd'[r].to = rd[r].to /\ offered' = offered
            \/ rd'[r].pc = "send" /\ offered' = [offered EXCEPT ![rd[r].to] = @ \cup {Head(rd[r].res)}],
         \A q \in Readers : q # r => rd'[q] = rd[q],
         \A s \in Subs : sub'[s].filter = sub[s].filter /\ sub'[s].pc = sub[s].pc
  PROVE  GInv'
<1>1. StreamTypes
  BY TypeParts DEF LInv
<1>2. Head(rd[r].res) = rd[r].res[1] /\ rd[r].to \in Subs
  BY Target, HeadAndTail
<1>3. /\ \A s \in Subs : offered[s] \subseteq offered'[s]
      /\ rd'[r].pc = "send" => rd[r].res[1] \in offered'[rd[r].to]
  BY <1>1, <1>2 DEF StreamTypes
<1>4. ASSUME NEW s \in Subs, NEW k \in 0..(Cap - 1), slots[k] \notin offered'[s], Covers(r, s, k)
      PROVE  WillSend(rd'[r], s, slots[k])
  <2>1. WillSend(rd[r], s, slots[k])
    BY <1>4, WhatIsCovered DEF Covers
  <2>2. CASE \E i \in DOMAIN rd[r].res \ {1} : slots[k] = rd[r].res[i]
    BY <2>2 DEF WillSend
  <2>3. CASE slots[k] = rd[r].res[1] /\ (s \in rd[r].todo \/ rd[r].to = s)
    BY <1>3, <1>4, <2>3 DEF WillSend
  <2> QED
    BY <2>1, <2>2, <2>3 DEF WillSend
<1>5. rd'[r].pc # "dead"
  OBVIOUS
<1> QED
  BY <1>3, <1>4, <1>5, ReaderGap

LEMMA EnqueueGap ==
  ASSUME LInv, GInv, NEW r \in Readers, rd[r].pc \in {"put", "retry"}, Enqueue(r), Elsewhere
  PROVE  GInv'
<1>1. StreamTypes /\ rd[r] \in RState /\ rd[r].to \in Subs
  BY TypeParts, Target DEF LInv
<1>2. /\ sub' = [sub EXCEPT ![rd[r].to].ch = Append(@, Head(rd[r].res))]
      /\ offered' = [offered EXCEPT ![rd[r].to] = @ \cup {Head(rd[r].res)}]
      /\ rd' = [rd EXCEPT ![r] = [@ EXCEPT !.pc = "send", !.to = None]]
  BY DEF Enqueue
<1>3. /\ rd'[r].res = rd[r].res /\ rd'[r].todo = rd[r].todo /\ rd'[r].pc = "send"
      /\ \A q \in Readers : q # r => rd'[q] = rd[q]
  BY <1>1, <1>2 DEF StreamTypes, RState
<1>4. \A s \in Subs : sub'[s].filter = sub[s].filter /\ sub'[s].pc = sub[s].pc
  BY <1>1, <1>2 DEF StreamTypes, SState
<1> QED
  BY <1>2, <1>3, <1>4, OfferGap

\* A replay that Stop has closed is no listener any more.
LEMMA PanicGap ==
  ASSUME LInv, GInv, NEW r \in Readers, rd[r].pc \in {"put", "retry"}, Panic(r), Elsewhere
  PROVE  GInv'
<1>1. StreamTypes /\ rd[r].to \in Subs
  BY TypeParts, Target DEF LInv
<1>2. stopped # "no"
  <2>1. CASE r = Hub
    BY <2>1, Target DEF Panic, LInv, Closing
  <2>2. CASE r # Hub
    <3>1. rd[r].to = r /\ r \in Subs /\ sub[r].pc = "replay"
      BY <2>2, Target DEF LInv, Reading
    <3> QED
      BY <3>1, StillOpen DEF Panic
  <2> QED
    BY <2>1, <2>2
<1>3. OneWriter'
  BY DEF GInv, OneWriter, Elsewhere
<1>4. InPlace'
  BY DEF GInv, InPlace, Stored, Elsewhere
<1>5. NoGap' /\ Listed'
  BY <1>2 DEF NoGap, Listed, Elsewhere
<1> QED
  BY <1>3, <1>4, <1>5 DEF GInv

LEMMA PutGap ==
  ASSUME LInv, GInv, NEW r \in Readers, Put(r)
  PROVE  GInv'
<1>1. rd[r].pc = "put" /\ Elsewhere
  BY DEF Put, Elsewhere, ring
<1>2. CASE Panic(r) \/ Enqueue(r)
  BY <1>1, <1>2, PanicGap, EnqueueGap
<1>3. CASE /\ sub' = [sub EXCEPT ![rd[r].to].ch = Tail(@)]
           /\ rd' = [rd EXCEPT ![r].pc = "retry"]
           /\ UNCHANGED <<offered, panics>>
  <2>1. StreamTypes /\ rd[r] \in RState /\ rd[r].to \in Subs
    BY <1>1, TypeParts, Target DEF LInv
  <2>2. /\ rd'[r].res = rd[r].res /\ rd'[r].todo = rd[r].todo /\ rd'[r].pc = "retry"
        /\ rd'[r].to = rd[r].to /\ \A q \in Readers : q # r => rd'[q] = rd[q]
    BY <1>3, <2>1 DEF StreamTypes, RState
  <2>3. \A s \in Subs : sub'[s].filter = sub[s].filter /\ sub'[s].pc = sub[s].pc
    BY <1>3, <2>1 DEF StreamTypes, SState
  <2> QED
    BY <1>1, <1>3, <2>2, <2>3, OfferGap
<1> QED
  BY <1>2, <1>3 DEF Put

LEMMA RetryGap ==
  ASSUME LInv, GInv, NEW r \in Readers, Retry(r)
  PROVE  GInv'
<1>1. rd[r].pc = "retry" /\ Elsewhere
  BY DEF Retry, Elsewhere, ring
<1>2. CASE Panic(r) \/ Enqueue(r)
  BY <1>1, <1>2, PanicGap, EnqueueGap
<1>3. CASE /\ rd' = [rd EXCEPT ![r] = [@ EXCEPT !.pc = "send", !.to = None]]
           /\ offered' = [offered EXCEPT ![rd[r].to] = @ \cup {Head(rd[r].res)}]
           /\ UNCHANGED <<sub, panics>>
  <2>1. StreamTypes /\ rd[r] \in RState
    BY <1>1, TypeParts, Target DEF LInv
  <2>2. /\ rd'[r].res = rd[r].res /\ rd'[r].todo = rd[r].todo /\ rd'[r].pc = "send"
        /\ \A q \in Readers : q # r => rd'[q] = rd[q]
    BY <1>3, <2>1 DEF StreamTypes, RState
  <2> QED
    BY <1>1, <1>3, <2>2, OfferGap
<1> QED
  BY <1>2, <1>3 DEF Retry

--------------------------------------------------------------------------------
(* No gap: the hub and the stream handlers *)

\* The hub reads from the notified record on.
LEMMA TakeGap ==
  ASSUME LInv, GInv, Take
  PROVE  GInv'
<1>1. StreamTypes /\ Hub \in Readers
  BY TypeParts DEF LInv, Readers
<1>2. /\ rd[Hub].pc = "idle" /\ notifyCh # <<>> /\ notifyCh' = Tail(notifyCh)
      /\ UNCHANGED <<slots, seq, writeIdx, total, wr, subs, sub, stopped, base, offered>>
  BY DEF Take, ring, hist
<1>3. /\ rd'[Hub].pc = "load" /\ rd'[Hub].after = Head(notifyCh) - 1
      /\ \A q \in Readers : q # Hub => rd'[q] = rd[q]
  BY <1>1 DEF Take, StreamTypes, Idle
<1>4. /\ DOMAIN notifyCh = 1..Len(notifyCh) /\ Len(notifyCh) \in Nat
      /\ DOMAIN notifyCh' = 1..(Len(notifyCh) - 1) /\ Head(notifyCh) = notifyCh[1]
      /\ \A i \in 1..(Len(notifyCh) - 1) : notifyCh'[i] = notifyCh[i + 1]
  BY <1>2, RingNumbers
<1>5. OneWriter'
  <2>1. \A i \in DOMAIN notifyCh' : notifyCh'[i] <= seq
    <3> SUFFICES ASSUME NEW i \in DOMAIN notifyCh' PROVE notifyCh'[i] <= seq
      OBVIOUS
    <3>1. i + 1 \in DOMAIN notifyCh /\ notifyCh'[i] = notifyCh[i + 1]
      BY <1>4
    <3> QED
      BY <3>1 DEF GInv, OneWriter
  <2> QED
    BY <1>2, <2>1 DEF GInv, OneWriter
<1>6. InPlace'
  BY <1>2 DEF GInv, InPlace, Stored
<1>7. Listed'
  BY <1>2, <1>3 DEF GInv, Listed
<1>8. ASSUME stopped = "no", NEW s \in Subs, NEW k \in 0..(Cap - 1), Owed(s, k)'
      PROVE  Pending(k)' \/ Covers(Hub, s, k)' \/ Covers(s, s, k)'
  <2>1. Owed(s, k)
    BY <1>2, <1>8 DEF Owed, Matches
  <2>2. CASE Announced(k)
    <3>1. PICK i \in DOMAIN notifyCh : notifyCh[i] <= slots[k].seq
      BY <2>2 DEF Announced
    <3>2. CASE i = 1
      <4>1. Head(notifyCh) - 1 < slots[k].seq
        BY <1>4, <3>1, <3>2, RingNumbers
      <4> QED
        BY <1>2, <1>3, <4>1 DEF Covers, WillRead
    <3>3. CASE i # 1
      <4>1. i - 1 \in DOMAIN notifyCh' /\ notifyCh'[i - 1] = notifyCh[i]
        BY <1>4, <3>3
      <4> QED
        BY <1>2, <3>1, <4>1 DEF Pending, Announced
    <3> QED
      BY <3>2, <3>3
  <2>3. CASE Doomed(k) \/ Fresh(k)
    BY <1>2, <2>3 DEF Pending, Doomed, Fresh
  <2>4. CASE Covers(Hub, s, k) \/ Covers(s, s, k)
    <3>1. ~Covers(Hub, s, k)
      BY <1>2, WhatIsCovered DEF Covers
    <3>2. rd'[s] = rd[s]
      BY <1>3, Bounds DEF Readers
    <3> QED
      BY <1>2, <2>4, <3>1, <3>2 DEF Covers
  <2> QED
    BY <1>8, <2>1, <2>2, <2>3, <2>4 DEF GInv, NoGap, Pending
<1>9. NoGap'
  BY <1>2, <1>8 DEF NoGap
<1> QED
  BY <1>5, <1>6, <1>7, <1>9 DEF GInv

\* Once Stop is called nothing more is promised.
LEMMA StopGap ==
  ASSUME GInv, RunEnds \/ StopSignal \/ StopClose
  PROVE  GInv'
<1>1. UNCHANGED <<slots, seq, writeIdx, total, wr, notifyCh>> /\ stopped' # "no"
  BY DEF RunEnds, StopSignal, StopClose, ring
<1>2. OneWriter'
  BY <1>1 DEF GInv, OneWriter
<1>3. InPlace'
  BY <1>1 DEF GInv, InPlace, Stored
<1>4. NoGap' /\ Listed'
  BY <1>1 DEF NoGap, Listed
<1> QED
  BY <1>2, <1>3, <1>4 DEF GInv

\* What a handler's step leaves alone, and what it may do to those that listen.
LEMMA HandlerGap ==
  ASSUME GInv,
         UNCHANGED <<slots, seq, writeIdx, total, wr, notifyCh, rd, stopped, base, offered>>,
         \A t \in Subs : /\ sub'[t].filter = sub[t].filter
                         /\ sub'[t].pc \in {"replay", "open"} =>
                              sub[t].pc \in {"replay", "open"} /\ (t \in subs => t \in subs')
  PROVE  GInv'
<1>1. OneWriter'
  BY DEF GInv, OneWriter
<1>2. InPlace'
  BY DEF GInv, InPlace, Stored
<1>3. Listed'
  BY DEF GInv, Listed
<1>4. ASSUME stopped = "no", NEW s \in Subs, NEW k \in 0..(Cap - 1), Owed(s, k)'
      PROVE  Pending(k)' \/ Covers(Hub, s, k)' \/ Covers(s, s, k)'
  <2>1. Owed(s, k)
    BY <1>4 DEF Owed, Matches
  <2>2. Pending(k) \/ Covers(Hub, s, k) \/ Covers(s, s, k)
    BY <1>4, <2>1 DEF GInv, NoGap
  <2> QED
    BY <2>2 DEF Pending, Doomed, Fresh, Announced, Covers
<1>5. NoGap'
  BY <1>4 DEF NoGap
<1> QED
  BY <1>1, <1>2, <1>3, <1>5 DEF GInv

LEMMA HandlersGap ==
  ASSUME LInv, GInv, NEW s \in Subs, Receive(s) \/ Leave(s) \/ Unsubscribe(s) \/ Close(s)
  PROVE  GInv'
<1>1. StreamTypes
  BY TypeParts DEF LInv
<1>2. UNCHANGED <<slots, seq, writeIdx, total, wr, notifyCh, rd, stopped, base, offered>>
  BY DEF Receive, Leave, Unsubscribe, Close, ring, hist
<1>3. CASE Receive(s)
  <2>1. \A t \in Subs : sub'[t].filter = sub[t].filter /\ sub'[t].pc = sub[t].pc
    BY <1>1, <1>3 DEF Receive, StreamTypes, SState
  <2> QED
    BY <1>2, <1>3, <2>1, HandlerGap DEF Receive
<1>4. CASE Leave(s) \/ Unsubscribe(s) \/ Close(s)
  <2>1. /\ \A t \in Subs : sub'[t].filter = sub[t].filter /\ (t # s => sub'[t].pc = sub[t].pc)
        /\ sub'[s].pc \in {"leave", "close", "done"} /\ \A t \in subs : t # s => t \in subs'
    BY <1>1, <1>4 DEF Leave, Unsubscribe, Close, StreamTypes, SState
  <2> QED
    BY <1>2, <2>1, HandlerGap
<1> QED
  BY <1>3, <1>4

\* A new client is owed nothing that it does not have replayed.
LEMMA SubscribeGap ==
  ASSUME LInv, GInv, NEW s \in Subs, Subscribe(s)
  PROVE  GInv'
<1>1. StreamTypes /\ s \in Readers /\ s # Hub
  BY TypeParts, Bounds DEF LInv, Readers
<1>2. /\ UNCHANGED <<slots, seq, writeIdx, total, wr, notifyCh, stopped, offered>>
      /\ subs' = subs \cup {s}
  BY DEF Subscribe, ring
<1>3. /\ \A t \in Subs : t # s => sub'[t] = sub[t] /\ base'[t] = base[t]
      /\ \A q \in Readers : q # s => rd'[q] = rd[q]
      /\ \/ base'[s] = seq
         \/ rd'[s].pc = "load" /\ rd'[s].after = base'[s]
  BY <1>1 DEF Subscribe, StreamTypes, Idle
<1>4. OneWriter'
  BY <1>2 DEF GInv, OneWriter
<1>5. InPlace'
  BY <1>2 DEF GInv, InPlace, Stored
<1>6. Listed'
  BY <1>1, <1>2, <1>3 DEF GInv, Listed, Readers
<1>7. ASSUME stopped = "no", NEW t \in Subs, NEW k \in 0..(Cap - 1), Owed(t, k)'
      PROVE  Pending(k)' \/ Covers(Hub, t, k)' \/ Covers(t, t, k)'
  <2>1. CASE t = s
    <3>1. slots[k].seq > base'[s]
      BY <1>2, <1>7, <2>1 DEF Owed
    <3>2. base'[s] # seq
      <4> SUFFICES ASSUME base'[s] = seq PROVE FALSE
        OBVIOUS
      <4>1. slots[k].seq > 0 /\ slots[k].seq > seq
        BY <3>1, RingNumbers
      <4>2. slots[k].seq <= Stored /\ Stored <= seq /\ Stored \in Nat
        BY <4>1, CountedOrFresh DEF GInv, InPlace
      <4> QED
        BY <4>1, <4>2, RingNumbers
    <3> QED
      BY <1>2, <1>3, <2>1, <3>1, <3>2, RingNumbers DEF Covers, WillRead
  <2>2. CASE t # s
    <3>1. Owed(t, k)
      BY <1>2, <1>3, <1>7, <2>2 DEF Owed, Matches
    <3>2. Pending(k) \/ Covers(Hub, t, k) \/ Covers(t, t, k)
      BY <1>7, <3>1 DEF GInv, NoGap
    <3>3. rd'[Hub] = rd[Hub] /\ rd'[t] = rd[t]
      BY <1>1, <1>3, <2>2 DEF Readers
    <3> QED
      BY <1>2, <3>2, <3>3 DEF Pending, Doomed, Fresh, Announced, Covers
  <2> QED
    BY <2>1, <2>2
<1>8. NoGap'
  BY <1>2, <1>7 DEF NoGap
<1> QED
  BY <1>4, <1>5, <1>6, <1>8 DEF GInv

LEMMA InitGap == Init => GInv
<1> SUFFICES ASSUME Init PROVE GInv
  OBVIOUS
<1>1. OneWriter
  BY DEF Init, OneWriter
<1>2. InPlace
  BY DEF Init, InPlace
<1>3. NoGap /\ Listed
  BY DEF Init, NoGap, Owed, Listed, Idle, Readers
<1> QED
  BY <1>1, <1>2, <1>3 DEF GInv

LEMMA NextGap ==
  ASSUME Clones = {}, LInv, GInv, [Next]_vars
  PROVE  GInv'
<1>1. ASSUME NEW w \in Writers,
             TakeSeq(w) \/ TakeSlot(w) \/ Store(w) \/ Count(w) \/ Notify(w)
      PROVE  GInv'
  BY <1>1, TakeSeqGap, TakeSlotGap, StoreGap, CountGap, NotifyGap
<1>2. ASSUME NEW r \in Readers, ReadStep(r) PROVE GInv'
  BY <1>2, LoadTotalGap, ReadSlotGap, EndReadGap, PickGap, NextRecordGap, PutGap, RetryGap
  DEF ReadStep
<1>3. ASSUME NEW s \in Subs,
             Subscribe(s) \/ Receive(s) \/ Leave(s) \/ Unsubscribe(s) \/ Close(s)
      PROVE  GInv'
  BY <1>3, SubscribeGap, HandlersGap
<1>4. CASE UNCHANGED vars
  BY <1>4, HandlerGap DEF vars, ring, hist
<1> QED
  BY <1>1, <1>2, <1>3, <1>4, TakeGap, StopGap DEF Next

\* If every writer logs through the handler and its mutex, no client has a gap:
\* when all is quiet, what the ring still holds of what a client asked for has
\* been offered to its channel, for every number of writers and clients, every
\* capacity and every interleaving of writes, reads, drops and replays.
THEOREM NoRecordIsSkipped ==
  ASSUME Clones = {}
  PROVE  Spec => []NothingSkipped
<1>1. LInv /\ GInv => NothingSkipped
  <2> SUFFICES ASSUME LInv, GInv, Quiet, stopped = "no", NEW s \in Subs, NEW k \in DOMAIN slots,
                      sub[s].pc = "open", slots[k].seq > base[s], Matches(s, slots[k]),
                      slots[k] \notin offered[s]
               PROVE  FALSE
    BY DEF NothingSkipped
  <2>1. k \in 0..(Cap - 1)
    BY TypeParts DEF LInv, RingTypes
  <2>2. Owed(s, k)
    BY DEF Owed
  <2>3. ~Pending(k)
    BY DEF Quiet, Pending, Doomed, Fresh, Announced
  <2>4. rd[Hub].pc = "idle" /\ rd[s].pc = "idle"
    BY DEF Quiet, LInv, Reading
  <2>5. ~Covers(Hub, s, k) /\ ~Covers(s, s, k)
    BY <2>4, WhatIsCovered DEF Covers
  <2> QED
    BY <2>1, <2>2, <2>3, <2>5 DEF GInv, NoGap
<1>2. LInv /\ GInv /\ [Next]_vars => GInv'
  BY NextGap
<1> QED
  BY <1>1, <1>2, InitInv, NextInv, InitGap, PTL DEF Spec
================================================================================
