------------------------------ MODULE AuthTokens ------------------------------
(* Authentication of the remote API: the token store (auth/store.go), the     *)
(* cache in front of bcrypt (auth/cache.go), sessions (auth/jwt.go), and the  *)
(* handlers that create and revoke tokens (api/v1/mutations.go).              *)
(*                                                                            *)
(* Store operations hold the store's mutex and rename a synced temporary file *)
(* over tokens.json, so each of them is one step that happens or fails.       *)
(* Validate is not: it reads the cache, then the store, compares bcrypt       *)
(* digests, and writes the cache, and a revocation may come in between.       *)
(* Time passes in ticks.                                                      *)
EXTENDS Integers, FiniteSets

CONSTANTS
  Tokens,          \* tokens POST /v1/tokens may create
  Prefixes, Prefix,\* TokenPrefix, the first 8 characters, of each of them
  Requests,        \* requests that carry a token or a session
  Revokers,        \* DELETE /v1/tokens/{id}
  TTL,             \* of a cache entry: 5 minutes
  JwtTTL,          \* of a session: 15 minutes
  MaxLife,         \* ticks from the creation of a token to its expiry, at most
  MaxWork,         \* ticks from the read of the store to the cache entry
  MaxTime, MaxFaults, MaxRestarts,
  Never, None

ASSUME AuthAssumption ==
  /\ Prefix \in [Tokens -> Prefixes]
  /\ TTL \in Nat \ {0} /\ JwtTTL \in Nat /\ MaxWork \in Nat /\ MaxLife \in Nat
  /\ MaxTime \in Nat /\ MaxFaults \in Nat /\ MaxRestarts \in Nat
  /\ Never \notin Nat /\ None \notin Tokens
  /\ Requests \cap Revokers = {}

VARIABLES
  status,     \* tokens.json: a token is absent, enabled or disabled (Enabled false)
  expires,    \* ExpiresAt
  cache,      \* entries: token and cachedAt by prefix
  sessions,   \* signed sessions: token and expiry
  clock,
  pc, tok,    \* step of a request or a revocation, and the token it is about
  since,      \* when a request that is comparing digests read the store
  late,       \* requests that started after their token's revocation was answered
  result,     \* token a request was accepted as
  viaJwt,     \* requests that carry a session
  answered,   \* when a revocation was answered
  raced,      \* tokens that were being validated when their revocation ended
  faults, restarts

vars == <<status, expires, cache, sessions, clock, pc, tok, since, late,
          result, viaJwt, answered, raced, faults, restarts>>

disk    == <<status, expires>>
request == <<tok, since, late, result, viaJwt>>
env     == <<clock, faults, restarts>>
Times   == 0..MaxTime
Procs   == Requests \cup Revokers

Entry   == [tok : Tokens, at : Times]
Session == [tok : Tokens, exp : Nat]

TypeOK ==
  /\ status \in [Tokens -> {"absent", "enabled", "disabled"}]
  /\ expires \in [Tokens -> Nat \cup {Never}]
  /\ cache \in [Prefixes -> Entry \cup {None}]
  /\ sessions \subseteq Session
  /\ clock \in Times
  /\ pc \in [Procs -> {"idle", "list", "hash", "ok", "denied", "delete",
                       "invalidate", "revoked", "failed"}]
  /\ tok \in [Procs -> Tokens \cup {None}]
  /\ since \in [Requests -> Times]
  /\ result \in [Requests -> Tokens \cup {None}]
  /\ late \subseteq Requests /\ viaJwt \subseteq Requests
  /\ answered \in [Tokens -> Times \cup {Never}]
  /\ raced \subseteq Tokens
  /\ faults \in 0..MaxFaults /\ restarts \in 0..MaxRestarts

Init ==
  /\ status = [t \in Tokens |-> "absent"] /\ expires = [t \in Tokens |-> Never]
  /\ cache = [p \in Prefixes |-> None] /\ sessions = {} /\ clock = 0
  /\ pc = [p \in Procs |-> "idle"] /\ tok = [p \in Procs |-> None]
  /\ since = [r \in Requests |-> 0]
  /\ result = [r \in Requests |-> None] /\ late = {} /\ viaJwt = {}
  /\ answered = [t \in Tokens |-> Never] /\ raced = {}
  /\ faults = 0 /\ restarts = 0

Fault == faults < MaxFaults /\ faults' = faults + 1
Goto(p, from, to) == pc[p] = from /\ pc' = [pc EXCEPT ![p] = to]

\* ExpiresAt.Before(now)
Expired(t) == expires[t] # Never /\ expires[t] < clock

--------------------------------------------------------------------------------
(* Tokens *)

\* Store.Create: a name is used once, revoked tokens included.
Create(t, e) ==
  /\ status[t] = "absent"
  /\ status' = [status EXCEPT ![t] = "enabled"]
  /\ expires' = [expires EXCEPT ![t] = e]

\* CreateToken: an expiry in the past is refused; a failed save changes nothing.
CreateToken(t, e) ==
  /\ e \in {Never} \cup clock..(clock + MaxLife)
  /\ Create(t, e)
  /\ UNCHANGED <<cache, sessions, pc, request, answered, raced, env>>

\* RevokeToken finds the token by its id ...
StartRevoke(v, t) ==
  /\ v \in Revokers /\ status[t] # "absent"
  /\ Goto(v, "idle", "delete")
  /\ tok' = [tok EXCEPT ![v] = t]
  /\ UNCHANGED <<disk, cache, sessions, since, late, result, viaJwt, answered,
                 raced, env>>

\* ... disables it in the store ...
SoftDelete(v) ==
  /\ pc[v] = "delete"
  /\ \/ /\ Goto(v, "delete", "invalidate")
        /\ status' = [status EXCEPT ![tok[v]] = "disabled"]
        /\ UNCHANGED faults
     \/ Goto(v, "delete", "failed") /\ Fault /\ UNCHANGED status
  /\ UNCHANGED <<expires, cache, sessions, request, answered, raced, clock,
                 restarts>>

\* A request that has read t as enabled and not yet cached it.
Validating(t) ==
  {r \in Requests : pc[r] = "hash" /\ tok[r] = t}

Answer(v) ==
  /\ Goto(v, "invalidate", "revoked")
  /\ answered' = [answered EXCEPT ![tok[v]] = IF @ = Never THEN clock ELSE @]
  /\ raced' = IF Validating(tok[v]) = {} THEN raced ELSE raced \cup {tok[v]}

\* Mutant: the entry stays in the cache.
InvalidateForgotten(v) ==
  /\ Answer(v)
  /\ UNCHANGED <<disk, cache, sessions, request, env>>

\* ... and drops the cache entry of its prefix.
Invalidate(v) ==
  /\ Answer(v)
  /\ cache' = [cache EXCEPT ![Prefix[tok[v]]] = None]
  /\ UNCHANGED <<disk, sessions, request, env>>

--------------------------------------------------------------------------------
(* Requests with a token: TokenCache.Validate *)

Arrive(r, t) ==
  /\ tok' = [tok EXCEPT ![r] = t]
  /\ late' = IF answered[t] = Never THEN late ELSE late \cup {r}

\* The request is accepted as t.
Accept(r, from, t) ==
  /\ Goto(r, from, "ok")
  /\ result' = [result EXCEPT ![r] = t]

\* JWTIssuer.Issue
Issue(t) == [tok |-> t, exp |-> clock + JwtTTL]

\* CreateSession: if the accepted request is POST /v1/auth/session, the answer
\* is a session, signed in the tick in which the request was accepted.
Grant(t) ==
  sessions' \in {sessions, sessions \cup {Issue(t)}}

\* There is an entry for the prefix, and it is young enough.
Fresh(t) ==
  /\ cache[Prefix[t]] # None
  /\ clock - cache[Prefix[t]].at < TTL

\* Mutant: the prefix alone decides.
LookupByPrefix(r, t) ==
  /\ status[t] # "absent"
  /\ Arrive(r, t)
  /\ \/ Fresh(t) /\ Accept(r, "idle", cache[Prefix[t]].tok) /\ Grant(cache[Prefix[t]].tok)
     \/ ~Fresh(t) /\ Goto(r, "idle", "list") /\ UNCHANGED <<result, sessions>>
  /\ UNCHANGED <<disk, cache, since, viaJwt, answered, raced, env>>

\* The entry's digest is the token's.  Its enabled is always true, its
\* expiresAt is not looked at.
Hit(t) == Fresh(t) /\ cache[Prefix[t]].tok = t

Lookup(r, t) ==
  /\ status[t] # "absent"
  /\ Arrive(r, t)
  /\ \/ Hit(t) /\ Accept(r, "idle", t) /\ Grant(t)
     \/ ~Hit(t) /\ Goto(r, "idle", "list") /\ UNCHANGED <<result, sessions>>
  /\ UNCHANGED <<disk, cache, since, viaJwt, answered, raced, env>>

\* The store: disabled and expired tokens are passed over.
List(r) ==
  /\ pc[r] = "list"
  /\ \/ /\ status[tok[r]] = "enabled" /\ ~Expired(tok[r])
        /\ Goto(r, "list", "hash") /\ UNCHANGED faults
        /\ since' = [since EXCEPT ![r] = clock]
     \/ /\ status[tok[r]] # "enabled" \/ Expired(tok[r])
        /\ Goto(r, "list", "denied") /\ UNCHANGED <<since, faults>>
     \/ Goto(r, "list", "denied") /\ Fault /\ UNCHANGED since
  /\ UNCHANGED <<disk, cache, sessions, tok, late, result, viaJwt, answered, raced,
                 clock, restarts>>

\* Mutant: cachedAt is the end of the entry's life.
CacheAndAcceptLate(r) ==
  /\ Accept(r, "hash", tok[r]) /\ Grant(tok[r])
  /\ cache' = [cache EXCEPT ![Prefix[tok[r]]] = [tok |-> tok[r], at |-> clock + TTL]]
  /\ UNCHANGED <<disk, tok, since, late, viaJwt, answered, raced, env>>

\* verifyBcrypt has matched: the cache entry, with the present time.
CacheAndAccept(r) ==
  /\ Accept(r, "hash", tok[r]) /\ Grant(tok[r])
  /\ cache' = [cache EXCEPT ![Prefix[tok[r]]] = [tok |-> tok[r], at |-> clock]]
  /\ since' = [since EXCEPT ![r] = 0]
  /\ UNCHANGED <<disk, tok, late, viaJwt, answered, raced, env>>

--------------------------------------------------------------------------------
(* Requests with a session: handleJWT *)

\* JWTIssuer.Validate: the signature is the daemon's and exp has not passed.
SessionValid(s) == clock <= s.exp

\* The session is valid and its token still enabled; the token's own expiry is
\* not looked at.
CheckJwt(r, s) ==
  /\ viaJwt' = viaJwt \cup {r}
  /\ Arrive(r, s.tok)
  /\ \/ /\ SessionValid(s) /\ status[s.tok] = "enabled"
        /\ Accept(r, "idle", s.tok) /\ UNCHANGED faults
     \/ /\ ~SessionValid(s) \/ status[s.tok] # "enabled"
        /\ Goto(r, "idle", "denied") /\ UNCHANGED <<result, faults>>
     \/ Goto(r, "idle", "denied") /\ Fault /\ UNCHANGED result
  /\ UNCHANGED <<disk, cache, sessions, since, answered, raced, clock, restarts>>

--------------------------------------------------------------------------------
\* A validation takes at most MaxWork ticks after its look at the store.
Tick ==
  /\ clock < MaxTime /\ clock' = clock + 1
  /\ \A r \in Requests : pc[r] = "hash" => clock - since[r] < MaxWork
  /\ UNCHANGED <<disk, cache, sessions, pc, request, answered, raced, faults,
                 restarts>>

\* The daemon starts again: store, sessions and signing key stay.
Restart ==
  /\ restarts < MaxRestarts /\ restarts' = restarts + 1
  /\ cache' = [p \in Prefixes |-> None]
  /\ pc' = [p \in Procs |-> IF pc[p] \in {"list", "hash"} THEN "denied"
                            ELSE IF pc[p] \in {"delete", "invalidate"} THEN "failed"
                            ELSE pc[p]]
  /\ UNCHANGED <<disk, sessions, request, answered, raced, clock, faults>>

Validate(r) == List(r) \/ CacheAndAccept(r)

RevokeStep(v) == SoftDelete(v) \/ Invalidate(v)

Next ==
  \/ \E t \in Tokens, e \in {Never} \cup 0..(MaxTime + MaxLife) : CreateToken(t, e)
  \/ \E r \in Requests, t \in Tokens : Lookup(r, t)
  \/ \E r \in Requests : Validate(r)
  \/ \E r \in Requests, s \in sessions : CheckJwt(r, s)
  \/ \E v \in Revokers, t \in Tokens : StartRevoke(v, t)
  \/ \E v \in Revokers : RevokeStep(v)
  \/ Tick \/ Restart

Spec == Init /\ [][Next]_vars

--------------------------------------------------------------------------------
(* Properties *)

\* Tokens that share a prefix share a cache entry, and still no request is
\* accepted under another token than the one it carries.
AcceptedAsItself ==
  \A r \in Requests : pc[r] = "ok" => result[r] = tok[r]

\* A request that starts after DELETE /v1/tokens was answered is refused, with
\* the token and with any session made from it, unless the token was being
\* validated by another request while it was revoked.
RevokedDenied ==
  \A r \in late : pc[r] = "ok" => tok[r] \in raced /\ r \notin viaJwt

\* "Token expired/revoked mid-session: Next request returns 401. ... No grace
\* period" (specs/002-api-control-plane/spec.md).  A request that finds its token
\* in the cache, or carries a session, is accepted without a look at ExpiresAt.
NoGrace ==
  [][\A r \in Requests : pc[r] = "idle" /\ pc'[r] = "ok" => ~Expired(tok'[r])]_vars
================================================================================
