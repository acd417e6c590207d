--------------------------- MODULE AuthTokensProofs ---------------------------
(***************************************************************************)
(* What AuthTokens guarantees for any tokens, prefixes, requests,          *)
(* revocations and times: nobody is accepted as somebody else, a revoked   *)
(* token is refused but for the one race, and no token outlives its expiry *)
(* by more than the caches allow.                                          *)
(***************************************************************************)
EXTENDS AuthTokens, TLAPS

\* The token a request or a revocation is about is chosen once, when it
\* starts, and is one that was created.
Chosen ==
  /\ \A p \in Procs : pc[p] # "idle" => tok[p] \in Tokens /\ status[tok[p]] # "absent"
  /\ \A p \in Prefixes : cache[p] # None => status[cache[p].tok] # "absent"
  /\ \A s \in sessions : status[s.tok] # "absent"
  /\ \A r \in Requests : r \in late \cup viaJwt => pc[r] # "idle"

\* Disabled before the cache entry is dropped, dropped before the answer.
RevokedInStore ==
  /\ \A v \in Revokers : pc[v] \in {"invalidate", "revoked"} => status[tok[v]] = "disabled"
  /\ \A t \in Tokens : answered[t] # Never => status[t] = "disabled"

\* After the answer only a request that had already passed the store can bring
\* the token back into the cache.
RevokedInCache ==
  \A t \in Tokens : answered[t] # Never /\ t \notin raced =>
    /\ cache[Prefix[t]] # None => cache[Prefix[t]].tok # t
    /\ \A r \in Requests : pc[r] = "hash" => tok[r] # t

LateInv ==
  \A r \in late : answered[tok[r]] # Never /\ pc[r] # "hash"

\* How far a comparison, a cache entry and a session reach beyond the expiry.
ExpiryInv ==
  /\ \A r \in Requests : pc[r] = "hash" =>
       /\ since[r] <= clock /\ clock <= since[r] + MaxWork
       /\ expires[tok[r]] # Never => since[r] <= expires[tok[r]]
  /\ \A p \in Prefixes :
       cache[p] # None /\ expires[cache[p].tok] # Never
         => cache[p].at <= expires[cache[p].tok] + MaxWork
  /\ \A s \in sessions :
       expires[s.tok] # Never => s.exp < expires[s.tok] + MaxWork + TTL + JwtTTL

AInv == /\ TypeOK /\ Chosen /\ AcceptedAsItself
        /\ RevokedInStore /\ RevokedInCache /\ LateInv /\ RevokedDenied
        /\ ExpiryInv

--------------------------------------------------------------------------------
(* Facts used throughout *)

PCs == {"idle", "list", "hash", "ok", "denied", "delete", "invalidate", "revoked", "failed"}

LEMMA Bounds ==
  /\ TTL \in Nat /\ TTL >= 1 /\ JwtTTL \in Nat /\ MaxWork \in Nat /\ MaxLife \in Nat
  /\ MaxTime \in Nat /\ MaxFaults \in Nat /\ MaxRestarts \in Nat
  /\ Never \notin Nat /\ None \notin Tokens
  /\ \A t \in Tokens : Prefix[t] \in Prefixes
  BY AuthAssumption

\* What a step keeps if it touches none of the state that a conjunct is about.
LEMMA Kept ==
  ASSUME AInv
  PROVE  /\ UNCHANGED <<pc, tok, result>> => AcceptedAsItself'
         /\ UNCHANGED <<pc, tok, status, answered>> => RevokedInStore'
         /\ UNCHANGED <<pc, tok, cache, answered, raced>> => RevokedInCache'
         /\ UNCHANGED <<pc, tok, late, answered>> => LateInv'
         /\ UNCHANGED <<pc, tok, late, raced, viaJwt>> => RevokedDenied'
         /\ UNCHANGED <<pc, tok, cache, sessions, status, late, viaJwt>> => Chosen'
         /\ UNCHANGED <<pc, tok, cache, sessions, expires, since, clock>> => ExpiryInv'
<1>1. UNCHANGED <<pc, tok, result>> => AcceptedAsItself'
  BY DEF AInv, AcceptedAsItself
<1>2. UNCHANGED <<pc, tok, status, answered>> => RevokedInStore'
  BY DEF AInv, RevokedInStore
<1>3. UNCHANGED <<pc, tok, cache, answered, raced>> => RevokedInCache'
  BY DEF AInv, RevokedInCache
<1>4. UNCHANGED <<pc, tok, late, answered>> => LateInv'
  BY DEF AInv, LateInv
<1>5. UNCHANGED <<pc, tok, late, raced, viaJwt>> => RevokedDenied'
  BY DEF AInv, RevokedDenied
<1>6. UNCHANGED <<pc, tok, cache, sessions, status, late, viaJwt>> => Chosen'
  BY DEF AInv, Chosen
<1>7. UNCHANGED <<pc, tok, cache, sessions, expires, since, clock>> => ExpiryInv'
  BY DEF AInv, ExpiryInv
<1> QED
  BY <1>1, <1>2, <1>3, <1>4, <1>5, <1>6, <1>7

\* A process moves from one step to another.
LEMMA GotoType ==
  ASSUME TypeOK, NEW p \in Procs, NEW from, NEW to \in PCs, Goto(p, from, to)
  PROVE  /\ pc' \in [Procs -> PCs] /\ pc[p] = from /\ pc'[p] = to
         /\ \A q \in Procs : q # p => pc'[q] = pc[q]
  BY DEF TypeOK, PCs, Goto

LEMMA FaultType ==
  ASSUME TypeOK, Fault \/ UNCHANGED faults
  PROVE  faults' \in 0..MaxFaults
  BY Bounds DEF TypeOK, Fault

\* A request is not a revocation.
LEMMA Separate ==
  /\ \A r \in Requests : r \in Procs /\ r \notin Revokers
  /\ \A v \in Revokers : v \in Procs /\ v \notin Requests
  BY AuthAssumption DEF Procs

--------------------------------------------------------------------------------
(* Tokens and revocations *)

\* CreateToken: nothing refers to a token before it exists.
LEMMA CreateTokenStep ==
  ASSUME AInv, NEW t \in Tokens, NEW e \in {Never} \cup 0..(MaxTime + MaxLife), CreateToken(t, e)
  PROVE  AInv'
<1>1. /\ status[t] = "absent"
      /\ status' = [status EXCEPT ![t] = "enabled"] /\ expires' = [expires EXCEPT ![t] = e]
      /\ UNCHANGED <<cache, sessions, pc, tok, since, late, result, viaJwt, answered, raced, clock,
                     faults, restarts>>
  BY DEF CreateToken, Create, request, env
<1>2. e \in Nat \cup {Never}
  BY Bounds
<1>3. TypeOK'
  BY <1>1, <1>2 DEF AInv, TypeOK
<1>4. Chosen'
  BY <1>1, <1>3 DEF AInv, TypeOK, Chosen
<1>5. RevokedInStore'
  <2>1. \A v \in Revokers : pc[v] \in {"invalidate", "revoked"} => tok[v] \in Tokens /\ tok[v] # t
    BY <1>1, Separate DEF AInv, Chosen, RevokedInStore
  <2> QED
    BY <1>1, <2>1 DEF AInv, TypeOK, RevokedInStore
<1>6. ExpiryInv'
  <2>1. \A r \in Requests : pc[r] = "hash" => tok[r] # t /\ expires'[tok[r]] = expires[tok[r]]
    BY <1>1, Separate DEF AInv, TypeOK, Chosen
  <2>2. \A p \in Prefixes : cache[p] # None => expires'[cache[p].tok] = expires[cache[p].tok]
    BY <1>1 DEF AInv, TypeOK, Chosen
  <2>3. \A x \in sessions : expires'[x.tok] = expires[x.tok]
    BY <1>1 DEF AInv, TypeOK, Chosen
  <2> QED
    BY <1>1, <2>1, <2>2, <2>3 DEF AInv, ExpiryInv
<1> QED
  BY <1>1, <1>3, <1>4, <1>5, <1>6, Kept DEF AInv

\* RevokeToken finds its token.
LEMMA StartRevokeStep ==
  ASSUME AInv, NEW v \in Revokers, NEW t \in Tokens, StartRevoke(v, t)
  PROVE  AInv'
<1>0. TypeOK /\ v \in Procs /\ v \notin Requests
  BY Separate DEF AInv
<1>1. /\ Goto(v, "idle", "delete") /\ tok' = [tok EXCEPT ![v] = t] /\ status[t] # "absent"
      /\ UNCHANGED <<status, expires, cache, sessions, since, late, result, viaJwt, answered, raced,
                     clock, faults, restarts>>
  BY DEF StartRevoke, disk, env
<1>2. /\ pc' \in [Procs -> PCs] /\ pc'[v] = "delete" /\ pc[v] = "idle"
      /\ \A q \in Procs : q # v => pc'[q] = pc[q]
  BY <1>0, <1>1, GotoType DEF PCs
<1>3. tok' \in [Procs -> Tokens \cup {None}] /\ tok'[v] = t
      /\ \A q \in Procs : q # v => tok'[q] = tok[q]
  BY <1>0, <1>1 DEF TypeOK
<1>4. \A r \in Requests : pc'[r] = pc[r] /\ tok'[r] = tok[r]
  BY <1>0, <1>2, <1>3, Separate
<1>5. TypeOK'
  BY <1>0, <1>1, <1>2, <1>3 DEF TypeOK, PCs
<1>6. Chosen'
  BY <1>1, <1>2, <1>3, <1>4 DEF AInv, Chosen
<1>7. RevokedInStore'
  BY <1>1, <1>2, <1>3, Separate DEF AInv, RevokedInStore
<1>8. AcceptedAsItself' /\ RevokedInCache' /\ ExpiryInv'
  BY <1>1, <1>4 DEF AInv, AcceptedAsItself, RevokedInCache, ExpiryInv
<1>9. LateInv' /\ RevokedDenied'
  BY <1>1, <1>4 DEF AInv, TypeOK, LateInv, RevokedDenied
<1> QED
  BY <1>5, <1>6, <1>7, <1>8, <1>9 DEF AInv

\* Store.SoftDelete.
LEMMA SoftDeleteStep ==
  ASSUME AInv, NEW v \in Revokers, SoftDelete(v)
  PROVE  AInv'
<1>0. TypeOK /\ v \in Procs /\ v \notin Requests /\ pc[v] = "delete"
      /\ tok[v] \in Tokens
  BY Separate DEF AInv, SoftDelete, Chosen
<1>1. /\ UNCHANGED <<expires, cache, sessions, tok, since, late, result, viaJwt, answered, raced,
                     clock, restarts>>
      /\ Fault \/ UNCHANGED faults
  BY DEF SoftDelete, request
<1>2. PICK to \in {"invalidate", "failed"} : Goto(v, "delete", to)
        /\ \/ to = "invalidate" /\ status' = [status EXCEPT ![tok[v]] = "disabled"]
           \/ to = "failed" /\ status' = status
  BY DEF SoftDelete
<1>3. /\ pc' \in [Procs -> PCs] /\ pc'[v] = to
      /\ \A q \in Procs : q # v => pc'[q] = pc[q]
  BY <1>0, <1>2, GotoType DEF PCs
<1>4. \A r \in Requests : pc'[r] = pc[r]
  BY <1>0, <1>3, Separate
<1>5. /\ status' \in [Tokens -> {"absent", "enabled", "disabled"}]
      /\ \A t \in Tokens : status'[t] = status[t] \/ status'[t] = "disabled"
      /\ to = "invalidate" => status'[tok[v]] = "disabled"
  BY <1>0, <1>2 DEF TypeOK
<1>6. TypeOK'
  BY <1>0, <1>1, <1>3, <1>5, FaultType DEF TypeOK, PCs
<1>7. Chosen'
  <2>1. \A t \in Tokens : status[t] # "absent" => status'[t] # "absent"
    BY <1>5
  <2>2. \A q \in Procs : pc'[q] # "idle" => pc[q] # "idle"
    BY <1>0, <1>3
  <2>3. \A p \in Prefixes : cache[p] # None => cache[p].tok \in Tokens
    BY <1>0 DEF TypeOK, Entry
  <2>4. \A x \in sessions : x.tok \in Tokens
    BY <1>0 DEF TypeOK, Session
  <2> QED
    BY <1>1, <1>4, <2>1, <2>2, <2>3, <2>4 DEF AInv, Chosen
<1>8. RevokedInStore'
  <2>1. \A u \in Revokers : pc[u] \in {"invalidate", "revoked"} => tok[u] \in Tokens
    BY Separate DEF AInv, Chosen
  <2> QED
    BY <1>1, <1>2, <1>3, <1>5, <2>1, Separate DEF AInv, RevokedInStore
<1>9. AcceptedAsItself' /\ RevokedInCache' /\ ExpiryInv'
  BY <1>1, <1>4 DEF AInv, AcceptedAsItself, RevokedInCache, ExpiryInv
<1>10. LateInv' /\ RevokedDenied'
  BY <1>1, <1>4 DEF AInv, TypeOK, LateInv, RevokedDenied
<1> QED
  BY <1>6, <1>7, <1>8, <1>9, <1>10 DEF AInv

\* TokenCache.Invalidate and the answer: the token is disabled by then, and who
\* is still comparing digests is recorded.
LEMMA InvalidateStep ==
  ASSUME AInv, NEW v \in Revokers, Invalidate(v)
  PROVE  AInv'
<1> DEFINE t == tok[v]
<1>0. TypeOK /\ v \in Procs /\ v \notin Requests /\ pc[v] = "invalidate" /\ t \in Tokens
      /\ status[t] = "disabled"
  BY Separate DEF AInv, Invalidate, Answer, Goto, Chosen, RevokedInStore
<1>1. /\ Goto(v, "invalidate", "revoked")
      /\ answered' = [answered EXCEPT ![t] = IF answered[t] = Never THEN clock ELSE answered[t]]
      /\ raced' = IF Validating(t) = {} THEN raced ELSE raced \cup {t}
      /\ cache' = [cache EXCEPT ![Prefix[t]] = None]
      /\ UNCHANGED <<status, expires, sessions, tok, since, late, result, viaJwt, clock, faults,
                     restarts>>
  BY <1>0 DEF Invalidate, Answer, disk, request, env, TypeOK
<1> HIDE DEF t
<1>2. /\ pc' \in [Procs -> PCs] /\ pc'[v] = "revoked"
      /\ \A q \in Procs : q # v => pc'[q] = pc[q]
  BY <1>0, <1>1, GotoType DEF PCs
<1>3. \A r \in Requests : pc'[r] = pc[r]
  BY <1>0, <1>2, Separate
<1>4. /\ answered' \in [Tokens -> Times \cup {Never}]
      /\ \A x \in Tokens : x # t => answered'[x] = answered[x]
      /\ answered'[t] # Never
      /\ \A x \in Tokens : answered[x] # Never => answered'[x] # Never
  <2>1. clock \in Times /\ clock # Never
    BY <1>0, Bounds DEF TypeOK, Times
  <2> QED
    BY <1>0, <1>1, <2>1 DEF TypeOK
<1>5. /\ cache' \in [Prefixes -> Entry \cup {None}]
      /\ \A p \in Prefixes : cache'[p] = cache[p] \/ cache'[p] = None
      /\ cache'[Prefix[t]] = None
  BY <1>0, <1>1, Bounds DEF TypeOK
<1>6. raced' \subseteq Tokens /\ raced \subseteq raced'
      /\ (t \notin raced' => \A r \in Requests : pc[r] = "hash" => tok[r] # t)
  BY <1>0, <1>1 DEF TypeOK, Validating
<1>7. TypeOK'
  BY <1>0, <1>1, <1>2, <1>4, <1>5, <1>6 DEF TypeOK, PCs
<1>8. Chosen'
  <2>1. \A q \in Procs : pc'[q] # "idle" => pc[q] # "idle"
    BY <1>0, <1>2
  <2> QED
    BY <1>1, <1>3, <1>5, <2>1 DEF AInv, Chosen
<1>9. RevokedInStore'
  <2>1. \A u \in Revokers : pc'[u] \in {"invalidate", "revoked"}
                              => pc[u] \in {"invalidate", "revoked"}
    BY <1>0, <1>2, Separate
  <2> QED
    BY <1>0, <1>1, <1>4, <2>1 DEF AInv, RevokedInStore
<1>10. RevokedInCache'
  <2> SUFFICES ASSUME NEW x \in Tokens, answered'[x] # Never, x \notin raced'
               PROVE  /\ cache'[Prefix[x]] # None => cache'[Prefix[x]].tok # x
                      /\ \A r \in Requests : pc'[r] = "hash" => tok'[r] # x
    BY DEF RevokedInCache
  <2>1. Prefix[x] \in Prefixes
    BY Bounds
  <2>2. CASE x = t
    BY <1>1, <1>3, <1>5, <1>6, <2>2
  <2>3. CASE x # t
    BY <1>1, <1>3, <1>4, <1>5, <1>6, <2>1, <2>3 DEF AInv, RevokedInCache
  <2> QED
    BY <2>2, <2>3
<1>11. LateInv'
  <2>1. \A r \in late : r \in Requests /\ pc[r] # "idle" /\ tok[r] \in Tokens
    BY Separate DEF AInv, TypeOK, Chosen
  <2> QED
    BY <1>1, <1>3, <1>4, <2>1 DEF AInv, LateInv
<1>12. RevokedDenied' /\ AcceptedAsItself'
  BY <1>1, <1>3, <1>6 DEF AInv, TypeOK, RevokedDenied, AcceptedAsItself
<1>13. ExpiryInv'
  BY <1>1, <1>3, <1>5 DEF AInv, ExpiryInv
<1> QED
  BY <1>7, <1>8, <1>9, <1>10, <1>11, <1>12, <1>13 DEF AInv

--------------------------------------------------------------------------------
(* Requests *)

\* What stays true of the others when one request moves on.
LEMMA RequestMoves ==
  ASSUME TypeOK, NEW r \in Requests, NEW from, NEW to \in PCs, Goto(r, from, to)
  PROVE  /\ pc' \in [Procs -> PCs] /\ pc[r] = from /\ pc'[r] = to /\ r \in Procs
         /\ \A q \in Procs : q # r => pc'[q] = pc[q]
         /\ \A q \in Requests : q \in Procs
         /\ \A v \in Revokers : v \in Procs /\ v # r /\ pc'[v] = pc[v]
  BY GotoType, Separate

\* The time that a hit leaves is bounded by the entry's age.
LEMMA HitInTime ==
  ASSUME AInv, NEW t \in Tokens, Hit(t), expires[t] # Never
  PROVE  clock < expires[t] + MaxWork + TTL
<1> DEFINE c == cache[Prefix[t]]
<1>1. c # None /\ clock - c.at < TTL /\ c.tok = t /\ Prefix[t] \in Prefixes
  BY Bounds DEF Hit, Fresh
<1>2. c \in Entry /\ c.at \in Nat /\ clock \in Nat
  BY <1>1, Bounds DEF AInv, TypeOK, Entry, Times
<1>3. c.at <= expires[t] + MaxWork
  BY <1>1 DEF AInv, ExpiryInv
<1>4. expires[t] \in Nat
  BY DEF AInv, TypeOK
<1> QED
  BY <1>1, <1>2, <1>3, <1>4, Bounds

\* So is the time that a validation leaves.
LEMMA HashInTime ==
  ASSUME AInv, NEW r \in Requests, pc[r] = "hash", expires[tok[r]] # Never
  PROVE  clock <= expires[tok[r]] + MaxWork /\ expires[tok[r]] \in Nat /\ clock \in Nat
<1>1. tok[r] \in Tokens
  BY Separate DEF AInv, Chosen
<1>2. since[r] \in Nat /\ clock \in Nat /\ expires[tok[r]] \in Nat
  BY <1>1, Bounds DEF AInv, TypeOK, Times
<1>3. clock <= since[r] + MaxWork /\ since[r] <= expires[tok[r]]
  BY DEF AInv, ExpiryInv
<1> QED
  BY <1>2, <1>3, Bounds

\* A session that is granted in time ends in time.
LEMMA GrantInTime ==
  ASSUME AInv, NEW t \in Tokens, Grant(t), status[t] # "absent",
         expires[t] # Never => clock < expires[t] + MaxWork + TTL
  PROVE  /\ sessions' \subseteq Session
         /\ \A s \in sessions' : status[s.tok] # "absent"
         /\ \A s \in sessions' : expires[s.tok] # Never => s.exp < expires[s.tok] + MaxWork + TTL + JwtTTL
<1>1. clock \in Nat /\ (expires[t] # Never => expires[t] \in Nat)
  BY Bounds DEF AInv, TypeOK, Times
<1>2. Issue(t) \in Session /\ Issue(t).tok = t /\ Issue(t).exp = clock + JwtTTL
  BY <1>1, Bounds DEF Issue, Session
<1>3. expires[t] # Never => Issue(t).exp < expires[t] + MaxWork + TTL + JwtTTL
  BY <1>1, <1>2, Bounds
<1>4. \A s \in sessions' : s \in sessions \/ s = Issue(t)
  BY DEF Grant
<1> QED
  BY <1>2, <1>3, <1>4 DEF AInv, TypeOK, Chosen, ExpiryInv

\* TokenCache.Validate, the cache.
LEMMA LookupStep ==
  ASSUME AInv, NEW r \in Requests, NEW t \in Tokens, Lookup(r, t)
  PROVE  AInv'
<1>0. TypeOK /\ status[t] # "absent"
  BY DEF AInv, Lookup
<1>1. /\ tok' = [tok EXCEPT ![r] = t]
      /\ late' = IF answered[t] = Never THEN late ELSE late \cup {r}
      /\ UNCHANGED <<status, expires, cache, since, viaJwt, answered, raced, clock, faults, restarts>>
  BY DEF Lookup, Arrive, disk, env
<1>2. PICK to \in {"ok", "list"} : Goto(r, "idle", to)
        /\ \/ to = "ok" /\ Hit(t) /\ result' = [result EXCEPT ![r] = t] /\ Grant(t)
           \/ to = "list" /\ UNCHANGED <<result, sessions>>
  BY DEF Lookup, Accept
<1>3. /\ pc' \in [Procs -> PCs] /\ pc[r] = "idle" /\ pc'[r] = to /\ r \in Procs
      /\ \A q \in Procs : q # r => pc'[q] = pc[q]
      /\ \A q \in Requests : q \in Procs
      /\ \A v \in Revokers : v \in Procs /\ v # r /\ pc'[v] = pc[v]
  BY <1>0, <1>2, RequestMoves DEF PCs
<1>4. /\ tok' \in [Procs -> Tokens \cup {None}] /\ tok'[r] = t
      /\ \A q \in Procs : q # r => tok'[q] = tok[q]
  BY <1>0, <1>1, <1>3 DEF TypeOK
<1>5. /\ result' \in [Requests -> Tokens \cup {None}]
      /\ to = "ok" => result'[r] = t
      /\ \A q \in Requests : q # r => result'[q] = result[q]
  BY <1>0, <1>2 DEF TypeOK
<1>6. /\ sessions' \subseteq Session
      /\ \A x \in sessions' : status[x.tok] # "absent"
      /\ \A x \in sessions' : expires[x.tok] # Never => x.exp < expires[x.tok] + MaxWork + TTL + JwtTTL
  <2>1. CASE to = "ok"
    BY <1>0, <1>2, <2>1, HitInTime, GrantInTime
  <2>2. CASE to = "list"
    BY <1>0, <1>2, <2>2 DEF AInv, TypeOK, Chosen, ExpiryInv
  <2> QED
    BY <2>1, <2>2
<1>7. late' \subseteq Requests /\ \A q \in late' : q \in late \/ (q = r /\ answered[t] # Never)
  BY <1>0, <1>1 DEF TypeOK
<1>8. TypeOK'
  BY <1>0, <1>1, <1>3, <1>4, <1>5, <1>6, <1>7 DEF TypeOK, PCs
<1>9. Chosen'
  BY <1>0, <1>1, <1>3, <1>4, <1>6, <1>7 DEF AInv, Chosen
<1>10. AcceptedAsItself'
  BY <1>3, <1>4, <1>5 DEF AInv, AcceptedAsItself
<1>11. RevokedInStore'
  BY <1>1, <1>3, <1>4 DEF AInv, RevokedInStore
<1>12. RevokedInCache'
  BY <1>1, <1>3, <1>4 DEF AInv, RevokedInCache
<1>13. \A q \in late : q # r
  BY <1>3 DEF AInv, TypeOK, Chosen
<1>14. LateInv'
  BY <1>0, <1>1, <1>3, <1>4, <1>7, <1>13 DEF AInv, TypeOK, LateInv
<1>15. RevokedDenied'
  <2>1. r \notin viaJwt
    BY <1>3 DEF AInv, Chosen
  <2>2. Hit(t) /\ answered[t] # Never => t \in raced
    BY DEF AInv, RevokedInCache, Hit, Fresh
  <2> QED
    BY <1>0, <1>1, <1>2, <1>3, <1>4, <1>7, <1>13, <2>1, <2>2 DEF AInv, TypeOK, RevokedDenied
<1>16. ExpiryInv'
  BY <1>1, <1>3, <1>4, <1>6 DEF AInv, ExpiryInv
<1> QED
  BY <1>8, <1>9, <1>10, <1>11, <1>12, <1>14, <1>15, <1>16 DEF AInv

\* Validate, the store: a revoked token does not pass it.
LEMMA ListStep ==
  ASSUME AInv, NEW r \in Requests, List(r)
  PROVE  AInv'
<1>0. TypeOK /\ pc[r] = "list" /\ tok[r] \in Tokens
  BY Separate DEF AInv, List, Chosen
<1>1. /\ UNCHANGED <<status, expires, cache, sessions, tok, late, result, viaJwt, answered, raced,
                     clock, restarts>>
      /\ Fault \/ UNCHANGED faults
  BY DEF List, disk
<1>2. PICK to \in {"hash", "denied"} : Goto(r, "list", to)
        /\ \/ /\ to = "hash" /\ status[tok[r]] = "enabled" /\ ~Expired(tok[r])
              /\ since' = [since EXCEPT ![r] = clock]
           \/ to = "denied" /\ since' = since
  BY DEF List
<1>3. /\ pc' \in [Procs -> PCs] /\ pc'[r] = to /\ r \in Procs
      /\ \A q \in Procs : q # r => pc'[q] = pc[q]
      /\ \A q \in Requests : q \in Procs
      /\ \A v \in Revokers : v \in Procs /\ v # r /\ pc'[v] = pc[v]
  BY <1>0, <1>2, RequestMoves DEF PCs
<1>4. /\ since' \in [Requests -> Times]
      /\ to = "hash" => since'[r] = clock
      /\ \A q \in Requests : q # r => since'[q] = since[q]
  BY <1>0, <1>2 DEF TypeOK
<1>5. TypeOK'
  BY <1>0, <1>1, <1>3, <1>4, FaultType DEF TypeOK, PCs
<1>6. Chosen'
  <2>1. \A q \in Procs : pc'[q] # "idle" <=> pc[q] # "idle"
    BY <1>0, <1>3
  <2> QED
    BY <1>1, <1>3, <2>1 DEF AInv, Chosen
<1>7. AcceptedAsItself'
  BY <1>1, <1>3 DEF AInv, AcceptedAsItself
<1>8. RevokedInStore'
  BY <1>1, <1>3 DEF AInv, RevokedInStore
<1>9. to = "hash" => answered[tok[r]] = Never
  BY <1>0, <1>2 DEF AInv, RevokedInStore
<1>10. RevokedInCache'
  BY <1>1, <1>3, <1>9 DEF AInv, RevokedInCache
<1>11. LateInv' /\ RevokedDenied'
  BY <1>0, <1>1, <1>3, <1>9 DEF AInv, TypeOK, LateInv, RevokedDenied
<1>12. ExpiryInv'
  <2>1. clock \in Nat
    BY <1>0, Bounds DEF TypeOK, Times
  <2>2. to = "hash" => /\ clock <= clock + MaxWork
                       /\ expires[tok[r]] # Never => clock <= expires[tok[r]]
    <3>1. expires[tok[r]] # Never => expires[tok[r]] \in Nat
      BY <1>0 DEF TypeOK
    <3> QED
      BY <1>2, <2>1, <3>1, Bounds DEF Expired
  <2> QED
    BY <1>1, <1>3, <1>4, <2>1, <2>2 DEF AInv, ExpiryInv
<1> QED
  BY <1>5, <1>6, <1>7, <1>8, <1>10, <1>11, <1>12 DEF AInv

\* Validate, after the comparison: the entry is as young as the validation.
LEMMA CacheAndAcceptStep ==
  ASSUME AInv, NEW r \in Requests, CacheAndAccept(r)
  PROVE  AInv'
<1> DEFINE t == tok[r]
<1>0. TypeOK /\ pc[r] = "hash" /\ t \in Tokens /\ status[t] # "absent" /\ Prefix[t] \in Prefixes
  BY Separate, Bounds DEF AInv, CacheAndAccept, Accept, Goto, Chosen
<1>1. /\ Goto(r, "hash", "ok") /\ result' = [result EXCEPT ![r] = t] /\ Grant(t)
      /\ cache' = [cache EXCEPT ![Prefix[t]] = [tok |-> t, at |-> clock]]
      /\ since' = [since EXCEPT ![r] = 0]
      /\ UNCHANGED <<status, expires, tok, late, viaJwt, answered, raced, clock, faults, restarts>>
  BY DEF CacheAndAccept, Accept, disk, env
<1> HIDE DEF t
<1>2. /\ pc' \in [Procs -> PCs] /\ pc'[r] = "ok" /\ r \in Procs
      /\ \A q \in Procs : q # r => pc'[q] = pc[q]
      /\ \A q \in Requests : q \in Procs
      /\ \A v \in Revokers : v \in Procs /\ v # r /\ pc'[v] = pc[v]
  BY <1>0, <1>1, RequestMoves DEF PCs
<1>3. clock \in Nat /\ clock \in Times /\ 0 \in Times
  BY <1>0, Bounds DEF TypeOK, Times
<1>4. /\ cache' \in [Prefixes -> Entry \cup {None}]
      /\ cache'[Prefix[t]].tok = t /\ cache'[Prefix[t]].at = clock
      /\ \A p \in Prefixes : p # Prefix[t] => cache'[p] = cache[p]
  BY <1>0, <1>1, <1>3 DEF TypeOK, Entry
<1>5. /\ since' \in [Requests -> Times]
      /\ \A q \in Requests : q # r => since'[q] = since[q]
  BY <1>0, <1>1, <1>3 DEF TypeOK
<1>6. /\ result' \in [Requests -> Tokens \cup {None}] /\ result'[r] = t
      /\ \A q \in Requests : q # r => result'[q] = result[q]
  BY <1>0, <1>1 DEF TypeOK
<1>7. expires[t] # Never => clock <= expires[t] + MaxWork /\ expires[t] \in Nat
  BY <1>0, HashInTime DEF t
<1>8. /\ sessions' \subseteq Session
      /\ \A x \in sessions' : status[x.tok] # "absent"
      /\ \A x \in sessions' : expires[x.tok] # Never => x.exp < expires[x.tok] + MaxWork + TTL + JwtTTL
  <2>1. expires[t] # Never => clock < expires[t] + MaxWork + TTL
    BY <1>3, <1>7, Bounds
  <2> QED
    BY <1>0, <1>1, <2>1, GrantInTime
<1>9. TypeOK'
  BY <1>0, <1>1, <1>2, <1>4, <1>5, <1>6, <1>8 DEF TypeOK, PCs
<1>10. Chosen'
  <2>1. \A q \in Procs : pc'[q] # "idle" <=> pc[q] # "idle"
    BY <1>0, <1>2
  <2>2. \A p \in Prefixes : cache'[p] # None => status[cache'[p].tok] # "absent"
    BY <1>0, <1>4 DEF AInv, Chosen
  <2> QED
    BY <1>1, <1>2, <1>8, <2>1, <2>2 DEF AInv, Chosen
<1>11. AcceptedAsItself'
  BY <1>1, <1>2, <1>6 DEF AInv, AcceptedAsItself, t
<1>12. RevokedInStore'
  BY <1>1, <1>2 DEF AInv, RevokedInStore
<1>13. RevokedInCache'
  <2>1. answered[t] # Never => t \in raced
    BY <1>0 DEF AInv, RevokedInCache, t
  <2> SUFFICES ASSUME NEW x \in Tokens, answered'[x] # Never, x \notin raced'
               PROVE  /\ cache'[Prefix[x]] # None => cache'[Prefix[x]].tok # x
                      /\ \A q \in Requests : pc'[q] = "hash" => tok'[q] # x
    BY DEF RevokedInCache
  <2>2. x # t /\ Prefix[x] \in Prefixes
    BY <1>1, <2>1, Bounds
  <2>3. cache'[Prefix[x]] # None => cache'[Prefix[x]].tok # x
    BY <1>1, <1>4, <2>2 DEF AInv, RevokedInCache
  <2>4. \A q \in Requests : pc'[q] = "hash" => tok'[q] # x
    BY <1>1, <1>2 DEF AInv, RevokedInCache
  <2> QED
    BY <2>3, <2>4
<1>14. LateInv' /\ RevokedDenied'
  <2>1. r \notin late
    BY <1>0 DEF AInv, LateInv
  <2> QED
    BY <1>0, <1>1, <1>2, <2>1 DEF AInv, TypeOK, LateInv, RevokedDenied
<1>15. ExpiryInv'
  <2>1. \A p \in Prefixes : cache'[p] # None /\ expires[cache'[p].tok] # Never
                              => cache'[p].at <= expires[cache'[p].tok] + MaxWork
    BY <1>4, <1>7 DEF AInv, ExpiryInv
  <2>2. \A q \in Requests : pc'[q] = "hash" => q # r /\ pc[q] = "hash"
    BY <1>2
  <2> QED
    BY <1>1, <1>5, <1>8, <2>1, <2>2 DEF AInv, ExpiryInv
<1> QED
  BY <1>9, <1>10, <1>11, <1>12, <1>13, <1>14, <1>15 DEF AInv

\* handleJWT asks the store: a session does not outlive the revocation.
LEMMA CheckJwtStep ==
  ASSUME AInv, NEW r \in Requests, NEW x \in sessions, CheckJwt(r, x)
  PROVE  AInv'
<1> DEFINE t == x.tok
<1>0. TypeOK /\ t \in Tokens /\ status[t] # "absent"
  BY DEF AInv, TypeOK, Session, Chosen
<1>1. /\ tok' = [tok EXCEPT ![r] = t]
      /\ late' = IF answered[t] = Never THEN late ELSE late \cup {r}
      /\ viaJwt' = viaJwt \cup {r}
      /\ Fault \/ UNCHANGED faults
      /\ UNCHANGED <<status, expires, cache, sessions, since, answered, raced, clock, restarts>>
  BY DEF CheckJwt, Arrive, disk
<1>2. PICK to \in {"ok", "denied"} : Goto(r, "idle", to)
        /\ \/ to = "ok" /\ status[t] = "enabled" /\ result' = [result EXCEPT ![r] = t]
           \/ to = "denied" /\ UNCHANGED result
  BY DEF CheckJwt, Accept
<1> HIDE DEF t
<1>3. /\ pc' \in [Procs -> PCs] /\ pc[r] = "idle" /\ pc'[r] = to /\ r \in Procs
      /\ \A q \in Procs : q # r => pc'[q] = pc[q]
      /\ \A q \in Requests : q \in Procs
      /\ \A v \in Revokers : v \in Procs /\ v # r /\ pc'[v] = pc[v]
  BY <1>0, <1>2, RequestMoves DEF PCs
<1>4. /\ tok' \in [Procs -> Tokens \cup {None}] /\ tok'[r] = t
      /\ \A q \in Procs : q # r => tok'[q] = tok[q]
  BY <1>0, <1>1, <1>3 DEF TypeOK
<1>5. /\ result' \in [Requests -> Tokens \cup {None}]
      /\ to = "ok" => result'[r] = t
      /\ \A q \in Requests : q # r => result'[q] = result[q]
  BY <1>0, <1>2 DEF TypeOK
<1>6. late' \subseteq Requests /\ \A q \in late' : q \in late \/ (q = r /\ answered[t] # Never)
  BY <1>0, <1>1 DEF TypeOK
<1>7. TypeOK'
  BY <1>0, <1>1, <1>3, <1>4, <1>5, <1>6, FaultType DEF TypeOK, PCs
<1>8. Chosen'
  BY <1>0, <1>1, <1>3, <1>4, <1>6 DEF AInv, Chosen
<1>9. AcceptedAsItself'
  BY <1>3, <1>4, <1>5 DEF AInv, AcceptedAsItself
<1>10. RevokedInStore'
  BY <1>1, <1>3, <1>4 DEF AInv, RevokedInStore
<1>11. RevokedInCache'
  BY <1>1, <1>3, <1>4 DEF AInv, RevokedInCache
<1>12. \A q \in late : q # r
  BY <1>3 DEF AInv, TypeOK, Chosen
<1>13. LateInv'
  BY <1>0, <1>1, <1>3, <1>4, <1>6, <1>12 DEF AInv, TypeOK, LateInv
<1>14. RevokedDenied'
  <2>1. to = "ok" => answered[t] = Never
    BY <1>0, <1>2 DEF AInv, RevokedInStore
  <2>2. r \notin late' \/ pc'[r] # "ok"
    BY <1>3, <1>6, <1>12, <2>1
  <2>3. \A q \in late' : q # r => q \in late /\ q \in Procs
    BY <1>0, <1>3, <1>6 DEF TypeOK
  <2> QED
    BY <1>1, <1>3, <1>4, <2>2, <2>3 DEF AInv, RevokedDenied
<1>15. ExpiryInv'
  BY <1>1, <1>3, <1>4 DEF AInv, ExpiryInv
<1> QED
  BY <1>7, <1>8, <1>9, <1>10, <1>11, <1>13, <1>14, <1>15 DEF AInv

--------------------------------------------------------------------------------
(* Time and restarts *)

LEMMA TickStep ==
  ASSUME AInv, Tick
  PROVE  AInv'
<1>1. /\ clock < MaxTime /\ clock' = clock + 1
      /\ \A r \in Requests : pc[r] = "hash" => clock - since[r] < MaxWork
      /\ UNCHANGED <<status, expires, cache, sessions, pc, tok, since, late, result, viaJwt,
                     answered, raced, faults, restarts>>
  BY DEF Tick, disk, request
<1>2. clock \in Nat /\ clock' \in Times
  BY <1>1, Bounds DEF AInv, TypeOK, Times
<1>3. TypeOK'
  BY <1>1, <1>2 DEF AInv, TypeOK
<1>4. ExpiryInv'
  <2>1. \A r \in Requests : since[r] \in Nat
    BY Bounds DEF AInv, TypeOK, Times
  <2>2. \A r \in Requests : pc[r] = "hash" => since[r] <= clock + 1 /\ clock + 1 <= since[r] + MaxWork
    BY <1>1, <1>2, <2>1, Bounds DEF AInv, ExpiryInv
  <2> QED
    BY <1>1, <2>2 DEF AInv, ExpiryInv
<1> QED
  BY <1>1, <1>3, <1>4, Kept DEF AInv

LEMMA RestartStep ==
  ASSUME AInv, Restart
  PROVE  AInv'
<1>1. /\ restarts' \in 0..MaxRestarts
      /\ cache' = [p \in Prefixes |-> None]
      /\ UNCHANGED <<status, expires, sessions, tok, since, late, result, viaJwt, answered, raced,
                     clock, faults>>
  BY Bounds DEF AInv, TypeOK, Restart, disk, request
<1>2. /\ pc' \in [Procs -> PCs]
      /\ \A q \in Procs : /\ pc'[q] = pc[q] \/ pc'[q] \in {"denied", "failed"}
                          /\ pc'[q] = "idle" <=> pc[q] = "idle"
                          /\ pc'[q] # "hash"
  BY DEF AInv, TypeOK, Restart, PCs
<1>3. TypeOK'
  BY <1>1, <1>2 DEF AInv, TypeOK, PCs
<1>4. Chosen'
  BY <1>1, <1>2, Separate DEF AInv, Chosen
<1>5. AcceptedAsItself' /\ RevokedInStore'
  BY <1>1, <1>2, Separate DEF AInv, AcceptedAsItself, RevokedInStore
<1>6. RevokedInCache'
  BY <1>1, <1>2, Separate, Bounds DEF RevokedInCache
<1>7. LateInv' /\ RevokedDenied'
  BY <1>1, <1>2, Separate DEF AInv, TypeOK, LateInv, RevokedDenied
<1>8. ExpiryInv'
  BY <1>1, <1>2, Separate DEF AInv, ExpiryInv
<1> QED
  BY <1>3, <1>4, <1>5, <1>6, <1>7, <1>8 DEF AInv

--------------------------------------------------------------------------------
(* The theorems *)

LEMMA AInvInit == Init => AInv
<1> SUFFICES ASSUME Init PROVE AInv
  OBVIOUS
<1>1. TypeOK
  <2>1. pc \in [Procs -> PCs] /\ tok \in [Procs -> Tokens \cup {None}]
    BY DEF Init, PCs
  <2>2. 0 \in Times /\ 0 \in 0..MaxFaults /\ 0 \in 0..MaxRestarts
    BY Bounds DEF Times
  <2> QED
    BY <2>1, <2>2 DEF Init, TypeOK, PCs
<1>2. Chosen /\ AcceptedAsItself /\ RevokedInStore
  BY Separate DEF Init, Chosen, AcceptedAsItself, RevokedInStore
<1>3. RevokedInCache /\ LateInv /\ RevokedDenied
  BY Separate DEF Init, RevokedInCache, LateInv, RevokedDenied
<1>4. ExpiryInv
  BY Separate DEF Init, ExpiryInv
<1> QED
  BY <1>1, <1>2, <1>3, <1>4 DEF AInv

LEMMA AInvStep == AInv /\ [Next]_vars => AInv'
<1> SUFFICES ASSUME AInv, [Next]_vars PROVE AInv'
  OBVIOUS
<1>1. CASE UNCHANGED vars
  <2>1. UNCHANGED <<status, expires, cache, sessions, clock, pc, tok, since, late,
                    result, viaJwt, answered, raced, faults, restarts>>
    BY <1>1 DEF vars
  <2>2. TypeOK'
    BY <2>1 DEF AInv, TypeOK
  <2> QED
    BY <2>1, <2>2, Kept DEF AInv
<1>2. CASE Next
  BY <1>2, CreateTokenStep, LookupStep, ListStep, CacheAndAcceptStep, CheckJwtStep,
     StartRevokeStep, SoftDeleteStep, InvalidateStep, TickStep, RestartStep
  DEF Next, Validate, RevokeStep
<1> QED
  BY <1>1, <1>2

LEMMA AInvariance == Spec => []AInv
  BY AInvInit, AInvStep, PTL DEF Spec

\* Store, cache, sessions and requests keep their types.
THEOREM TypeCorrect == Spec => []TypeOK
<1>1. AInv => TypeOK
  BY DEF AInv
<1> QED
  BY <1>1, AInvariance, PTL

\* TokenCache.Validate and handleJWT accept a request only as the token it
\* carries, however many tokens share a prefix and hence a cache entry.
THEOREM NobodyIsAcceptedAsAnother == Spec => []AcceptedAsItself
<1>1. AInv => AcceptedAsItself
  BY DEF AInv
<1> QED
  BY <1>1, AInvariance, PTL

\* Once DELETE /v1/tokens was answered, the token and every session made from
\* it are refused, unless a validation that had read the store before the
\* SoftDelete wrote the cache after the Invalidate.
THEOREM RevokedIsDenied == Spec => []RevokedDenied
<1>1. AInv => RevokedDenied
  BY DEF AInv
<1> QED
  BY <1>1, AInvariance, PTL

NewlyAccepted(r) == pc[r] # "ok" /\ pc'[r] = "ok"

\* How long the grace that NoGrace denies can be: a token is accepted beyond its
\* expiry for the TTL of the cache and the time of one validation at most, and a
\* session made from it for its own TTL on top of that.
ExpiryBounded ==
  [][\A r \in Requests : NewlyAccepted(r) /\ expires[tok'[r]] # Never =>
        clock < expires[tok'[r]] + MaxWork + TTL
                  + (IF r \in viaJwt' THEN JwtTTL ELSE 0)]_vars

\* No cache entry, and no session, carries a token further beyond its expiry
\* than one validation and the two TTLs, wherever in them the expiry falls.
THEOREM ExpiryIsBounded == Spec => ExpiryBounded
<1> DEFINE A == \A r \in Requests : NewlyAccepted(r) /\ expires[tok'[r]] # Never =>
                  clock < expires[tok'[r]] + MaxWork + TTL
                            + (IF r \in viaJwt' THEN JwtTTL ELSE 0)
<1>1. AInv /\ Next => A
  <2> SUFFICES ASSUME AInv, Next, NEW r \in Requests, NewlyAccepted(r), expires[tok'[r]] # Never
               PROVE  clock < expires[tok'[r]] + MaxWork + TTL
                                + (IF r \in viaJwt' THEN JwtTTL ELSE 0)
    OBVIOUS
  <2>0. TypeOK /\ r \in Procs /\ pc[r] # "ok" /\ pc'[r] = "ok"
    BY Separate DEF AInv, NewlyAccepted
  <2>1. ASSUME NEW q \in Requests, NEW t \in Tokens, Lookup(q, t)
        PROVE  clock < expires[tok'[r]] + MaxWork + TTL
                         + (IF r \in viaJwt' THEN JwtTTL ELSE 0)
    <3>1. q = r
      BY <2>0, <2>1, Separate DEF Lookup, Accept, Goto, TypeOK
    <3>2. Hit(t) /\ tok'[r] = t
      BY <2>0, <2>1, <3>1 DEF Lookup, Goto, Arrive, TypeOK
    <3>3. clock < expires[t] + MaxWork + TTL /\ expires[t] \in Nat /\ clock \in Nat
      BY <2>0, <3>2, HitInTime, Bounds DEF TypeOK, Times
    <3> QED
      BY <3>2, <3>3, Bounds
  <2>2. ASSUME NEW q \in Requests, CacheAndAccept(q)
        PROVE  clock < expires[tok'[r]] + MaxWork + TTL
                         + (IF r \in viaJwt' THEN JwtTTL ELSE 0)
    <3>1. q = r /\ pc[r] = "hash" /\ tok'[r] = tok[r]
      BY <2>0, <2>2, Separate DEF CacheAndAccept, Accept, Goto, TypeOK
    <3>2. clock <= expires[tok[r]] + MaxWork /\ expires[tok[r]] \in Nat /\ clock \in Nat
      BY <3>1, HashInTime
    <3> QED
      BY <3>1, <3>2, Bounds
  <2>3. ASSUME NEW q \in Requests, NEW x \in sessions, CheckJwt(q, x)
        PROVE  clock < expires[tok'[r]] + MaxWork + TTL
                         + (IF r \in viaJwt' THEN JwtTTL ELSE 0)
    <3>1. q = r
      BY <2>0, <2>3, Separate DEF CheckJwt, Accept, Goto, TypeOK
    <3>2. SessionValid(x) /\ tok'[r] = x.tok /\ r \in viaJwt'
      BY <2>0, <2>3, <3>1 DEF CheckJwt, Accept, Goto, Arrive, TypeOK
    <3>3. x.exp \in Nat /\ x.tok \in Tokens /\ clock \in Nat
      BY <2>0, Bounds DEF TypeOK, Session, Times
    <3>4. expires[x.tok] \in Nat /\ x.exp < expires[x.tok] + MaxWork + TTL + JwtTTL
      BY <2>0, <3>2, <3>3 DEF AInv, ExpiryInv, TypeOK
    <3> QED
      BY <3>2, <3>3, <3>4, Bounds DEF SessionValid
  <2>4. ASSUME NEW q \in Requests, List(q) PROVE FALSE
    BY <2>0, <2>4, Separate DEF List, Goto, TypeOK
  <2>5. ASSUME NEW v \in Revokers, (\E t \in Tokens : StartRevoke(v, t)) \/ RevokeStep(v) PROVE FALSE
    BY <2>0, <2>5, Separate
    DEF StartRevoke, RevokeStep, SoftDelete, Invalidate, Answer, Goto, TypeOK
  <2>6. CASE \/ \E t \in Tokens, e \in {Never} \cup 0..(MaxTime + MaxLife) : CreateToken(t, e)
             \/ Tick \/ Restart
    BY <2>0, <2>6 DEF CreateToken, Tick, Restart, TypeOK
  <2> QED
    BY <2>1, <2>2, <2>3, <2>4, <2>5, <2>6 DEF Next, Validate
<1>2. AInv /\ [Next]_vars => [A]_vars
  BY <1>1
<1>3. Spec => [][A]_vars
  BY <1>2, AInvariance, PTL DEF Spec
<1> QED
  BY <1>3 DEF ExpiryBounded
================================================================================
