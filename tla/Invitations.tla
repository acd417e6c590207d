----------------------------- MODULE Invitations -----------------------------
(***************************************************************************)
(* Invitations (src/src/internal/invite): a store of one JSON line per     *)
(* invitation with an index from token hash to byte offset, and handlers   *)
(* that create, show and download them behind a limit per client address.  *)
(*                                                                         *)
(* A byte is a cell here: an invitation is a head and a tail, followed by  *)
(* a newline, so that a write that stops half-way, the line it spoils and  *)
(* the offsets behind it can be told apart.  A token stands for its hash.  *)
(***************************************************************************)
EXTENDS Naturals, FiniteSets, FiniteSetsExt, Sequences

CONSTANTS Tokens,       \* link tokens and short codes
          Peers,
          Clients,      \* what extractIP returns: a header or address and port
          Requests,     \* landings and downloads being served at the same time
          None,         \* nil
          Lifetimes,    \* times to live that are asked for
          Window,       \* rateLimitWindow
          MaxAttempts,  \* rateLimitMaxAttempts
          MaxTime,      \* bound: the clock
          MaxInvites,   \* bound: invitations created
          MaxFaults     \* bound: failed writes and collections, power losses

ASSUME InvitationsAssumption ==
  /\ {Window, MaxAttempts, MaxTime, MaxInvites, MaxFaults} \subseteq Nat
  /\ MaxAttempts > 0
  /\ Lifetimes \subseteq Nat

VARIABLES disk,         \* the cells of invites.jsonl
          book,         \* every invitation made, the n-th is what cells of n hold
          index, open,  \* the store: offsets (0: absent), and its file is open
          known,        \* history: the numbers answered with 201
          rl,           \* rlMap: per client, the attempts it keeps
          tried,        \* history: per client, when attempts were let through
          step, ask, got, \* per request: next step, what it asks, what it found
          now, faults

store == <<disk, book, index, open, known>>
limit == <<rl, tried>>
serve == <<step, ask, got>>
inviteVars == <<store, limit, serve, now, faults>>

Invite == [tok : Tokens, peer : Peers, mode : {"hmac", "shortcode"}, exp : Nat]
Cell == [part : {"head", "tail", "nl"}, n : 0..MaxInvites]
\* An attempt that is kept: the n-th that was let through, and its time.
Attempt(t) == [n : Nat, at : 0..t]
Ask == [kind : {"landing", "download"}, tok : Tokens, peer : Peers, sigOK : BOOLEAN]

InviteTypeOK ==
  /\ disk \in Seq(Cell) /\ book \in Seq(Invite) /\ Len(book) <= MaxInvites
  /\ index \in [Tokens -> Nat] /\ open \in BOOLEAN
  /\ known \subseteq 1..Len(book)
  /\ rl \in [Clients -> SUBSET Attempt(now)]
  /\ tried \in [Clients -> Seq(0..now)]
  /\ step \in [Requests -> {"idle", "find", "answer", "shown"}]
  /\ ask \in [Requests -> Ask \cup {None}]
  /\ got \in [Requests -> 0..MaxInvites]
  /\ now \in 0..MaxTime /\ faults \in 0..MaxFaults

InviteInit ==
  /\ disk = <<>> /\ book = <<>> /\ known = {}
  /\ index = [k \in Tokens |-> 0] /\ open = TRUE
  /\ rl = [c \in Clients |-> {}] /\ tried = [c \in Clients |-> <<>>]
  /\ step = [r \in Requests |-> "idle"] /\ ask = [r \in Requests |-> None]
  /\ got = [r \in Requests |-> 0]
  /\ now = 0 /\ faults = 0

Fault == faults < MaxFaults /\ faults' = faults + 1

--------------------------------------------------------------------------------
(* The file *)

Newline == [part |-> "nl", n |-> 0]
LineOf(n) == <<[part |-> "head", n |-> n], [part |-> "tail", n |-> n], Newline>>

\* The line a scanner reads from offset p on.
LineAt(d, p) ==
  LET ends == {q \in p..Len(d) : d[q] = Newline}
  IN SubSeq(d, p, IF ends = {} THEN Len(d) ELSE Min(ends) - 1)

\* Where lines begin.
Starts(d) == {p \in DOMAIN d : p = 1 \/ d[p - 1] = Newline}

\* The invitation that json.Unmarshal makes of a line, 0 for an error.
Parse(line) ==
  IF Len(line) = 2 /\ line[1].part = "head" /\ line[2] = [part |-> "tail", n |-> line[1].n]
  THEN line[1].n ELSE 0

\* The last line of a token wins.
IndexOf(d, b) ==
  [k \in Tokens |->
     LET at == {p \in Starts(d) : LET n == Parse(LineAt(d, p))
                                  IN n # 0 /\ b[n].tok = k}
     IN IF at = {} THEN 0 ELSE Max(at)]

\* FindByTokenHash: 0 stands for no invitation and for a failed lookup.
Found(k) ==
  IF ~open \/ index[k] = 0 THEN 0 ELSE Parse(LineAt(disk, index[k]))

--------------------------------------------------------------------------------
(* The store *)

\* Mutant: the offset is taken after the write.
AppendLate(n) ==
  /\ disk' = disk \o LineOf(n)
  /\ index' = [index EXCEPT ![book'[n].tok] = Len(disk')]
  /\ known' = known \cup {n} /\ UNCHANGED faults

\* Append: the offset is that of the end of the file before the write.
Append1(n) ==
  /\ disk' = disk \o LineOf(n)
  /\ index' = [index EXCEPT ![book'[n].tok] = Len(disk) + 1]
  /\ known' = known \cup {n} /\ UNCHANGED faults

\* A write that fails may have written a part; it is answered 500.
AppendFails(n) ==
  /\ \E m \in 0..2 : disk' = disk \o SubSeq(LineOf(n), 1, m)
  /\ UNCHANGED <<index, known>> /\ Fault

\* HandleCreate: a link has a new UUID for a token, a short code is drawn from
\* 90 million and may have been drawn before.  No configuration is stored.
HandleCreate ==
  /\ Len(book) < MaxInvites
  /\ \E k \in Tokens, p \in Peers, mode \in {"hmac", "shortcode"}, ttl \in Lifetimes :
       /\ mode = "hmac" => \A i \in DOMAIN book : book[i].tok # k
       /\ book' = Append(book, [tok |-> k, peer |-> p, mode |-> mode, exp |-> now + ttl])
  /\ LET n == Len(book')
     IN \/ open /\ (Append1(n) \/ AppendFails(n))
        \/ ~open /\ UNCHANGED <<disk, index, known, faults>>
  /\ UNCHANGED <<open, limit, serve, now>>

\* Where the lines begin that a collection keeps.  No invitation is ever
\* consumed: UseCount stays 0 and MaxUses is at least 1.
Kept ==
  {p \in Starts(disk) : LET n == Parse(LineAt(disk, p)) IN n # 0 /\ now <= book[n].exp}

\* They are kept in the order of the file.
InOrder(P) ==
  {o \in [1..Cardinality(P) -> P] : /\ \A p \in P : \E i \in DOMAIN o : o[i] = p
                                   /\ \A i, j \in DOMAIN o : i < j => o[i] < o[j]}

\* The first m of them, as they are written to the new file.
Rewritten(o, m) ==
  [i \in 1..(3 * m) |-> LineOf(Parse(LineAt(disk, o[(i + 2) \div 3])))[1 + ((i - 1) % 3)]]

\* Mutant: the index of before is kept.
GCStaleIndex ==
  /\ open
  /\ \E o \in InOrder(Kept) : disk' = Rewritten(o, Len(o))
  /\ UNCHANGED <<book, index, open, known, limit, serve, now, faults>>

\* GC, which nothing in the daemon calls yet.  A failure after the file was
\* closed leaves the store closed: with the old index, with that of the lines
\* written so far, or with the new file in place but not opened.
GC ==
  /\ open
  /\ \E o \in InOrder(Kept) :
       \/ /\ disk' = Rewritten(o, Len(o)) /\ index' = IndexOf(disk', book)
          /\ UNCHANGED <<open, faults>>
       \/ /\ \/ UNCHANGED <<disk, index>>
             \/ \E m \in 0..Len(o) : index' = IndexOf(Rewritten(o, m), book) /\ UNCHANGED disk
             \/ disk' = Rewritten(o, Len(o)) /\ index' = IndexOf(disk', book)
          /\ open' = FALSE /\ Fault
  /\ UNCHANGED <<book, known, limit, serve, now>>

\* The daemon starts again: NewStore and buildIndex, and a new limiter.  What
\* was not synced may have been lost with the power.
Restart ==
  /\ \/ UNCHANGED <<disk, faults>>
     \/ (\E m \in 0..(Len(disk) - 1) : disk' = SubSeq(disk, 1, m)) /\ Fault
  /\ index' = IndexOf(disk', book) /\ open' = TRUE
  /\ rl' = [c \in Clients |-> {}] /\ tried' = [c \in Clients |-> <<>>]
  /\ step' = [r \in Requests |-> "idle"] /\ ask' = [r \in Requests |-> None]
  /\ got' = [r \in Requests |-> 0]
  /\ UNCHANGED <<book, known, now>>

--------------------------------------------------------------------------------
(* Landing and download *)

\* Mutant: the window is counted from the first attempt kept.
RecentFirst(c) ==
  {a \in rl[c] : \E b \in rl[c] : b.at + Window > now /\ \A d \in rl[c] : b.n <= d.n}

\* The attempts that are after the cutoff.
Recent(c) == {a \in rl[c] : a.at + Window > now}

\* Mutant: the time when the attempt will be forgotten is noted.
checkRateLimitEnd(c) ==
  /\ Cardinality(Recent(c)) < MaxAttempts
  /\ rl' = [rl EXCEPT ![c] =
              Recent(c) \cup {[n |-> Len(tried[c]) + 1, at |-> now + Window]}]
  /\ tried' = [tried EXCEPT ![c] = Append(@, now)]

\* checkRateLimit lets the attempt through and notes it, or keeps the attempts
\* filtered.  (A client's first attempt is the case of no attempts.)
checkRateLimit(c) ==
  /\ Cardinality(Recent(c)) < MaxAttempts
  /\ rl' = [rl EXCEPT ![c] = Recent(c) \cup {[n |-> Len(tried[c]) + 1, at |-> now]}]
  /\ tried' = [tried EXCEPT ![c] = Append(@, now)]
TooMany(c) ==
  /\ Cardinality(Recent(c)) >= MaxAttempts
  /\ rl' = [rl EXCEPT ![c] = Recent(c)] /\ UNCHANGED tried

\* HandleLanding and HandleDownload up to the lookup; refused with 429.
Begin(r) ==
  /\ step[r] \in {"idle", "shown"}
  /\ got' = [got EXCEPT ![r] = 0]
  /\ \E c \in Clients :
       \/ /\ checkRateLimit(c)
          /\ step' = [step EXCEPT ![r] = "find"]
          /\ \E a \in Ask : ask' = [ask EXCEPT ![r] = a]
       \/ /\ TooMany(c)
          /\ step' = [step EXCEPT ![r] = "idle"] /\ ask' = [ask EXCEPT ![r] = None]
  /\ UNCHANGED <<store, now, faults>>

Lookup(r) ==
  /\ step[r] = "find"
  /\ step' = [step EXCEPT ![r] = "answer"]
  /\ got' = [got EXCEPT ![r] = Found(ask[r].tok)]
  /\ UNCHANGED <<store, limit, ask, now, faults>>

\* The checks of a landing after the lookup.  A signature is only looked at
\* when there is one (sigOK: absent, or that of token, peer and expiry); the
\* consumed check never applies (see Kept).
Shown(r) ==
  /\ got[r] # 0
  /\ book[got[r]].peer = ask[r].peer
  /\ now < book[got[r]].exp
  /\ ask[r].sigOK
  /\ ask[r].kind = "landing"

\* The answer.  A download ends at the missing configuration with 404.
Answer(r) ==
  /\ step[r] = "answer"
  /\ \/ /\ Shown(r) /\ step' = [step EXCEPT ![r] = "shown"]
        /\ UNCHANGED <<ask, got>>
     \/ /\ ~Shown(r) /\ step' = [step EXCEPT ![r] = "idle"]
        /\ ask' = [ask EXCEPT ![r] = None] /\ got' = [got EXCEPT ![r] = 0]
  /\ UNCHANGED <<store, limit, now, faults>>

Tick ==
  /\ now < MaxTime /\ now' = now + 1
  /\ UNCHANGED <<store, limit, serve, faults>>

InviteNext ==
  \/ HandleCreate \/ GC \/ Restart \/ Tick
  \/ \E r \in Requests : Begin(r) \/ Lookup(r) \/ Answer(r)

InviteSpec == InviteInit /\ [][InviteNext]_inviteVars

--------------------------------------------------------------------------------
(* Properties *)

\* A lookup returns an invitation of the token that was asked for, or none, and
\* so does a landing show one: the offsets of the index stay right over
\* appends, appends that failed half-way, the lines these spoil, collections,
\* also between the lookup and the answer, and restarts.
FoundAsAsked ==
  /\ \A k \in Tokens : Found(k) # 0 => book[Found(k)].tok = k
  /\ \A r \in Requests : step[r] = "shown" => book[got[r]].tok = ask[r].tok

\* An invitation that was answered with 201 is found by its token until it has
\* expired, through collections and restarts, if no other one was created with
\* its short code.  (A failed write or power loss may spoil its line.)
CreatedIsFound ==
  faults = 0 => \A n \in known :
    \/ Found(book[n].tok) = n
    \/ now > book[n].exp
    \/ \E i \in DOMAIN book : i # n /\ book[i].tok = book[n].tok

\* No client is let through more than MaxAttempts times within any Window: of
\* MaxAttempts + 1 attempts in a row the first has left the window when the
\* last is let through.  Attempts that were refused do not count, and attempts
\* are forgotten only when they have left the window.
RateBound ==
  \A c \in Clients : \A i \in DOMAIN tried[c] :
    i > MaxAttempts => tried[c][i - MaxAttempts] + Window <= tried[c][i]
================================================================================
