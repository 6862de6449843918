------------------------- MODULE SigningKeys_proofs -------------------------
(* Proofs about SigningKeys, for any requests, any number of keys and any   *)
(* lives, ages and timeouts.                                                *)
EXTENDS SigningKeys, TLAPS

\* The request for the key set is younger than its timeout, and what it has been
\* answered with was the platform's key at most Reuse before it was sent.
FetchInv ==
    /\ fetch # None => asked <= now /\ now <= asked + Timeout
    /\ fetch \in Key => /\ fetch <= key
                        /\ fetch < key => asked <= since[fetch + 1] + Reuse

\* A cached key set is younger than its age, and a key in it that was replaced
\* arrived within the reuse and the timeout of being replaced.
CacheInv ==
    cache # None =>
        /\ cache.key <= key /\ cache.at <= now /\ now < cache.at + MaxAge
        /\ cache.key < key => cache.at <= since[cache.key + 1] + Reuse + Timeout

\* Keys replace each other in time, and a key's tokens end a life after the key.
KeyInv ==
    \A k \in 1 .. key :
        /\ since[k] <= now
        /\ k < key => since[k] <= since[k + 1]

TokenInv ==
    \A r \in Slot : token[r].kind = "EdDSA" /\ token[r].genuine =>
        /\ token[r].kid \in 1 .. key
        /\ token[r].kid < key => token[r].exp <= since[token[r].kid + 1] + Life
        /\ token[r].kid = key => token[r].exp <= now + Life

\* Who waits is waited for and is no API key, and a legacy token is on its way
\* to the platform for a reason.
RequestInv ==
    \A r \in Slot :
        /\ pc[r] = "waiting" => fetch # None /\ token[r].kind # "ApiKey"
        /\ pc[r] = "remote" /\ token[r].kind = "HS256" => config.sdkLegacy \/ unlucky[r]

Inv == TypeOK /\ FetchInv /\ CacheInv /\ KeyInv /\ TokenInv /\ RequestInv

LEMMA Numbers ==
    /\ MaxKeys \in Nat /\ MaxKeys >= 1 /\ MaxTime \in Nat /\ Life \in Nat /\ Life >= 1
    /\ Cooldown \in Nat /\ Cooldown >= 1 /\ MaxAge \in Nat /\ MaxAge >= 1
    /\ Timeout \in Nat /\ Reuse \in Nat
    /\ None \notin Key /\ None # 0 /\ None \notin [key : Key, at : Time]
<1>1. 0 \in 0 .. MaxKeys /\ Key \subseteq 0 .. MaxKeys
  BY SigningAssumption DEF Key
<1> QED
  BY <1>1, SigningAssumption DEF Key, Time

LEMMA Instant ==
    ASSUME TypeOK
    PROVE  /\ now \in Nat /\ now <= MaxTime /\ asked \in Nat
           /\ key \in Nat /\ 1 <= key /\ key <= MaxKeys
           /\ \A k \in Key : since[k] \in Nat /\ k \in Nat /\ 1 <= k /\ k <= MaxKeys
           /\ cache # None => cache.key \in Key /\ cache.at \in Nat /\ cache \in [key : Key, at : Time]
           /\ \A k \in Key : k < key => k + 1 \in Key
<1>1. now \in Time /\ asked \in Time /\ key \in Key
  BY DEF TypeOK
<1>2. \A k \in Key : since[k] \in Time
  BY DEF TypeOK
<1>3. cache # None => cache \in [key : Key, at : Time]
  BY DEF TypeOK
<1> QED
  BY <1>1, <1>2, <1>3, Numbers DEF Key, Time

LEMMA KeyOrder ==
    ASSUME TypeOK
    PROVE  \A k \in 1 .. key : k \in Key /\ k \in Nat /\ k <= key
<1>1. key \in Nat /\ key <= MaxKeys /\ MaxKeys \in Nat
  BY Instant, Numbers
<1> QED
  BY <1>1 DEF Key

-----------------------------------------------------------------------------
(* Types                                                                   *)

LEMMA PresentableType ==
    ASSUME TypeOK
    PROVE  Presentable \subseteq Credential
<1> SUFFICES ASSUME NEW c \in Presentable PROVE c \in Credential
  OBVIOUS
<1>1. ASSUME NEW e \in 0 .. MaxTime PROVE e + Life \in 0 .. MaxTime + Life
  BY <1>1, Numbers
<1>2. 1 \in 0 .. MaxTime + Life /\ Life \in 0 .. MaxTime + Life
  BY Numbers
<1>3. now + Life \in 0 .. MaxTime + Life /\ now \in 0 .. MaxTime + Life
  BY Numbers, Instant
<1>4. 0 \in 0 .. MaxKeys /\ key \in 0 .. MaxKeys
  BY Numbers, Instant
<1>0. \A s \in {"EdDSA", "HS256", "ApiKey"}, k \in 0 .. MaxKeys, g \in BOOLEAN,
         e \in 0 .. MaxTime + Life :
            [kind |-> s, kid |-> k, genuine |-> g, exp |-> e] \in Credential
  BY DEF Credential
<1>5. CASE c \in Legacy
  <2>1. PICK e \in {1, Life, now, now + Life} :
           c = [kind |-> "HS256", kid |-> 0, genuine |-> TRUE, exp |-> e]
    BY <1>5 DEF Legacy
  <2>2. e \in 0 .. MaxTime + Life
    BY <1>2, <1>3
  <2> QED
    BY <1>0, <1>4, <2>1, <2>2
<1>6. CASE c \in Foreign
  <2>1. PICK s \in {"EdDSA", "HS256", "ApiKey"}, k \in {0, key} :
           c = [kind |-> s, kid |-> k, genuine |-> FALSE, exp |-> now + Life]
    BY <1>6 DEF Foreign
  <2> QED
    BY <1>0, <1>3, <1>4, <2>1
<1>7. CASE c \in ApiKeys
  <2>1. c = [kind |-> "ApiKey", kid |-> 0, genuine |-> TRUE, exp |-> now + Life]
    BY <1>7 DEF ApiKeys
  <2> QED
    BY <1>0, <1>3, <1>4, <2>1
<1>8. ASSUME NEW k \in 1 .. key, c \in SignedBy(k) PROVE c \in Credential
  <2>1. k \in Key /\ k \in 0 .. MaxKeys /\ (k < key => k + 1 \in Key)
    BY Numbers, Instant DEF Key
  <2>2. since[k] \in 0 .. MaxTime /\ now \in 0 .. MaxTime
        /\ (k < key => since[k + 1] \in 0 .. MaxTime)
    BY <2>1 DEF TypeOK, Time
  <2>3. PICK t \in 0 .. MaxTime : c = [kind |-> "EdDSA", kid |-> k, genuine |-> TRUE,
                                      exp |-> t + Life]
    BY <1>8, <2>2 DEF SignedBy
  <2>4. t + Life \in 0 .. MaxTime + Life
    BY <1>1
  <2> QED
    BY <2>1, <2>3, <2>4 DEF Credential
<1> QED
  BY <1>5, <1>6, <1>7, <1>8 DEF Presentable

\* Requests that are answered are forgotten.
LEMMA GotoType ==
    ASSUME TypeOK, NEW r \in Slot, NEW a, Goto(r, a),
           a \in Answered \cup {"waiting", "remote"}
    PROVE  /\ token' \in [Slot -> Credential]
           /\ pc' \in [Slot -> Answered \cup {"idle", "presented", "waiting", "remote"}]
           /\ unlucky' \in [Slot -> BOOLEAN]
           /\ pc'[r] = a /\ \A q \in Slot : q # r => /\ pc'[q] = pc[q] /\ token'[q] = token[q]
                                                     /\ unlucky'[q] = unlucky[q]
           /\ a \notin Answered => UNCHANGED <<token, unlucky>>
<1>1. NoCredential \in Credential
  BY Numbers DEF NoCredential, Credential
<1>2. /\ pc' = [pc EXCEPT ![r] = a]
      /\ \/ /\ token' = [token EXCEPT ![r] = NoCredential]
            /\ unlucky' = [unlucky EXCEPT ![r] = FALSE]
         \/ UNCHANGED <<token, unlucky>>
      /\ a \notin Answered => UNCHANGED <<token, unlucky>>
  BY DEF Goto
<1>3. /\ token \in [Slot -> Credential] /\ unlucky \in [Slot -> BOOLEAN]
      /\ pc \in [Slot -> Answered \cup {"idle", "presented", "waiting", "remote"}]
  BY DEF TypeOK
<1> QED
  BY <1>1, <1>2, <1>3

\* Where the platform does not move, and no time passes.
LEMMA RequestStep ==
    ASSUME Inv, UNCHANGED <<platform, now, cache>>,
           \/ UNCHANGED <<fetch, asked>>
           \/ Ask,
           token' \in [Slot -> Credential],
           pc' \in [Slot -> Answered \cup {"idle", "presented", "waiting", "remote"}],
           unlucky' \in [Slot -> BOOLEAN], RequestInv', TokenInv'
    PROVE  Inv'
<1>1. UNCHANGED <<config, key, since, now, cache>>
  BY DEF platform
<1>2. /\ fetch' \in Key \cup {0, None} /\ asked' \in Time
      /\ fetch' # None => asked' <= now /\ now <= asked' + Timeout
      /\ fetch' \in Key => fetch' = fetch /\ asked' = asked
  <2>1. CASE UNCHANGED <<fetch, asked>>
    BY <2>1 DEF Inv, TypeOK, FetchInv
  <2>2. CASE fetch' = 0 /\ asked' = now
    <3>1. 0 \notin Key
      BY DEF Key
    <3> QED
      BY <2>2, <3>1, Numbers, Instant DEF Inv, TypeOK
  <2> QED
    BY <2>1, <2>2 DEF Ask
<1>3. TypeOK'
  BY <1>1, <1>2 DEF Inv, TypeOK
<1>4. FetchInv'
  BY <1>1, <1>2 DEF Inv, FetchInv
<1>5. CacheInv'
  BY <1>1 DEF Inv, CacheInv
<1>6. KeyInv'
  BY <1>1 DEF Inv, KeyInv
<1> QED
  BY <1>3, <1>4, <1>5, <1>6 DEF Inv

LEMMA AskedThen == ASSUME Ask PROVE fetch' # None
  BY Numbers DEF Ask

-----------------------------------------------------------------------------
(* The invariant                                                           *)

LEMMA InvInit == Init => Inv
<1> SUFFICES ASSUME Init PROVE Inv
  OBVIOUS
<1>1. NoCredential \in Credential /\ 0 \in Time /\ 1 \in Key
  BY Numbers DEF NoCredential, Credential, Time, Key
<1>2. TypeOK
  BY <1>1 DEF Init, TypeOK
<1>3. FetchInv /\ CacheInv /\ RequestInv
  BY Numbers DEF Init, FetchInv, CacheInv, RequestInv
<1>4. KeyInv
  BY <1>1 DEF Init, KeyInv, Key
<1>5. TokenInv
  BY DEF Init, TokenInv, NoCredential
<1> QED
  BY <1>2, <1>3, <1>4, <1>5 DEF Inv

\* Where a request keeps its token or forgets it, and no key is replaced.
LEMMA TokensKept ==
    ASSUME TypeOK, TokenInv, now' \in Nat, now <= now', UNCHANGED <<key, since>>,
           \A r \in Slot : token'[r] = token[r] \/ token'[r] = NoCredential
    PROVE  TokenInv'
<1> SUFFICES ASSUME NEW r \in Slot, token'[r].kind = "EdDSA", token'[r].genuine
             PROVE  /\ token'[r].kid \in 1 .. key
                    /\ token'[r].kid < key =>
                          token'[r].exp <= since[token'[r].kid + 1] + Life
                    /\ token'[r].kid = key => token'[r].exp <= now' + Life
  BY DEF TokenInv
<1>1. token'[r] = token[r]
  BY DEF NoCredential
<1>2. /\ token[r].kid \in 1 .. key
      /\ token[r].kid < key => token[r].exp <= since[token[r].kid + 1] + Life
      /\ token[r].kid = key => token[r].exp <= now + Life
  BY <1>1 DEF TokenInv
<1>3. token[r] \in Credential
  BY DEF TypeOK
<1>4. token[r].exp \in 0 .. MaxTime + Life
  BY <1>3 DEF Credential
<1>5. token[r].exp \in Nat
  BY <1>4, Numbers
<1> QED
  BY <1>1, <1>2, <1>5, Instant, Numbers

\* A token that is presented ends at most a life after its key.
LEMMA PresentedToken ==
    ASSUME TypeOK, KeyInv, NEW c \in Presentable, c.kind = "EdDSA", c.genuine
    PROVE  /\ c.kid \in 1 .. key
           /\ c.kid < key => c.exp <= since[c.kid + 1] + Life
           /\ c.kid = key => c.exp <= now + Life
<1>1. c \notin Legacy /\ c \notin Foreign /\ c \notin ApiKeys
  BY DEF Legacy, Foreign, ApiKeys
<1>2. PICK k \in 1 .. key : c \in SignedBy(k)
  BY <1>1 DEF Presentable
<1>3. k \in Key /\ k \in Nat /\ k <= key
  BY <1>2, KeyOrder
<1>4. PICK t \in {since[k], IF k < key THEN since[k + 1] ELSE now} :
         c = [kind |-> "EdDSA", kid |-> k, genuine |-> TRUE, exp |-> t + Life]
  BY <1>2 DEF SignedBy
<1>5. /\ since[k] <= now
      /\ k < key => since[k] <= since[k + 1]
  BY <1>2 DEF KeyInv
<1>6. /\ since[k] \in Nat
      /\ k < key => since[k + 1] \in Nat
  BY <1>3, Instant
<1>7. /\ k < key => t <= since[k + 1]
      /\ k = key => t <= now
      /\ t \in Nat
  BY <1>3, <1>4, <1>5, <1>6, Instant
<1>8. c.kid = k /\ c.exp = t + Life
  BY <1>4
<1> QED
  BY <1>3, <1>6, <1>7, <1>8, Instant, Numbers

LEMMA InvRotate ==
    ASSUME Inv, Rotate
    PROVE  Inv'
<1>0. /\ key < MaxKeys /\ key' = key + 1 /\ since' = [since EXCEPT ![key + 1] = now]
      /\ UNCHANGED <<config, now, cache, fetch, asked, requests>>
  BY DEF Rotate
<1>1. TypeOK /\ FetchInv /\ CacheInv /\ KeyInv /\ TokenInv /\ RequestInv /\ key + 1 \in Key
  BY <1>0, Instant, Numbers DEF Inv, Key
<1>2. /\ since'[key + 1] = now
      /\ \A k \in Key : k # key + 1 => since'[k] = since[k]
  BY <1>0, <1>1 DEF TypeOK
<1>3. TypeOK'
  BY <1>0, <1>1 DEF TypeOK, requests
<1>4. FetchInv'
  <2> SUFFICES ASSUME fetch \in Key
               PROVE  fetch <= key + 1 /\ asked <= since'[fetch + 1] + Reuse
    BY <1>0, <1>1 DEF FetchInv
  <2>1. fetch <= key /\ (fetch < key => asked <= since[fetch + 1] + Reuse) /\ asked <= now
    BY <1>1, Numbers DEF FetchInv
  <2>2. fetch < key => fetch + 1 \in Key /\ fetch + 1 # key + 1
    BY <1>1, Instant
  <2>3. fetch = key \/ fetch < key
    BY <1>1, <2>1, Instant
  <2>4. fetch = key => asked <= since'[fetch + 1] + Reuse
    BY <1>1, <1>2, <2>1, Instant, Numbers
  <2> QED
    BY <1>1, <1>2, <2>1, <2>2, <2>3, <2>4, Instant
<1>5. CacheInv'
  <2> SUFFICES ASSUME cache # None
               PROVE  cache.key <= key + 1 /\ cache.at <= since'[cache.key + 1] + Reuse + Timeout
    BY <1>0, <1>1 DEF CacheInv
  <2>1. /\ cache.key <= key /\ cache.at <= now
        /\ cache.key < key => cache.at <= since[cache.key + 1] + Reuse + Timeout
    BY <1>1 DEF CacheInv
  <2>2. cache.key \in Key /\ cache.at \in Nat /\ cache.key \in Nat
    BY <1>1, Instant
  <2>3. cache.key < key => cache.key + 1 \in Key /\ cache.key + 1 # key + 1
    BY <1>1, <2>2, Instant
  <2>4. cache.key = key \/ cache.key < key
    BY <1>1, <2>1, <2>2, Instant
  <2>5. cache.key = key => cache.at <= since'[cache.key + 1] + Reuse + Timeout
    BY <1>1, <1>2, <2>1, <2>2, Instant, Numbers
  <2> QED
    BY <1>1, <1>2, <2>1, <2>2, <2>3, <2>4, <2>5, Instant
<1>6. RequestInv'
  BY <1>0, <1>1 DEF RequestInv, requests
<1>7. KeyInv'
  <2> SUFFICES ASSUME NEW k \in 1 .. key + 1
               PROVE  /\ since'[k] <= now
                      /\ k < key + 1 => since'[k] <= since'[k + 1]
    BY <1>0 DEF KeyInv
  <2>1. CASE k = key + 1
    BY <1>1, <1>2, <2>1, Instant
  <2>2. CASE k # key + 1
    <3>1. k \in 1 .. key /\ k \in Key /\ k \in Nat
      <4>1. k \in 1 .. key
        BY <1>1, <2>2, Instant
      <4> QED
        BY <1>1, <4>1, KeyOrder
    <3>2. since'[k] = since[k] /\ since[k] <= now
      <4>1. KeyInv
        BY <1>1
      <4>2. since[k] <= now
        BY <3>1, <4>1 DEF KeyInv
      <4> QED
        BY <1>2, <2>2, <3>1, <4>2
    <3>3. CASE k = key
      BY <1>2, <3>2, <3>3
    <3>4. CASE k < key
      <4>1. k + 1 \in Key /\ k + 1 # key + 1
        BY <1>1, <3>1, <3>4, Instant
      <4>2. since'[k + 1] = since[k + 1] /\ since[k] <= since[k + 1]
        <5>1. KeyInv
          BY <1>1
        <5>2. since[k] <= since[k + 1]
          BY <3>1, <3>4, <5>1 DEF KeyInv
        <5> QED
          BY <1>2, <4>1, <5>2
      <4> QED
        BY <3>2, <4>2
    <3> QED
      BY <1>1, <3>1, <3>3, <3>4, Instant
  <2> QED
    BY <2>1, <2>2
<1>8. TokenInv'
  <2> SUFFICES ASSUME NEW r \in Slot, token[r].kind = "EdDSA", token[r].genuine
               PROVE  /\ token[r].kid \in 1 .. key + 1
                      /\ token[r].kid < key + 1 =>
                            token[r].exp <= since'[token[r].kid + 1] + Life
                      /\ token[r].kid = key + 1 => token[r].exp <= now + Life
    BY <1>0 DEF TokenInv, requests
  <2>1. /\ token[r].kid \in 1 .. key
        /\ token[r].kid < key => token[r].exp <= since[token[r].kid + 1] + Life
        /\ token[r].kid = key => token[r].exp <= now + Life
    BY <1>1 DEF TokenInv
  <2>2. token[r].kid \in Key /\ token[r].kid \in Nat /\ token[r].kid <= key
    BY <1>1, <2>1, KeyOrder
  <2>3. CASE token[r].kid = key
    BY <1>1, <1>2, <2>1, <2>3, Instant
  <2>4. CASE token[r].kid < key
    <3>1. token[r].kid + 1 \in Key /\ token[r].kid + 1 # key + 1
      BY <1>1, <2>2, <2>4, Instant
    <3>2. since'[token[r].kid + 1] = since[token[r].kid + 1]
      BY <1>2, <3>1
    <3> QED
      BY <1>1, <2>1, <2>2, <2>4, <3>2, Instant
  <2> QED
    BY <1>1, <2>2, <2>3, <2>4, Instant
<1> QED
  BY <1>3, <1>4, <1>5, <1>6, <1>7, <1>8 DEF Inv

LEMMA InvTick ==
    ASSUME Inv, Tick
    PROVE  Inv'
<1>0. /\ now < MaxTime /\ now' = now + 1
      /\ fetch # None => now < asked + Timeout
      /\ cache' = IF cache # None /\ now + 1 = cache.at + MaxAge THEN None ELSE cache
      /\ UNCHANGED <<platform, fetch, asked, requests>>
  BY DEF Tick
<1>1. TypeOK /\ FetchInv /\ CacheInv /\ KeyInv /\ TokenInv /\ RequestInv
  BY DEF Inv
<1>2. TypeOK'
  <2>1. now + 1 \in Time
    BY <1>0, <1>1, Instant, Numbers DEF Time
  <2> QED
    BY <1>0, <1>1, <2>1 DEF TypeOK, platform, requests
<1>3. FetchInv'
  BY <1>0, <1>1, Instant, Numbers DEF FetchInv, platform
<1>4. CacheInv'
  <2>1. CASE cache' = None
    BY <2>1 DEF CacheInv
  <2>2. CASE cache' = cache /\ cache # None /\ now + 1 # cache.at + MaxAge
    BY <1>0, <1>1, <2>2, Instant, Numbers DEF CacheInv, platform
  <2> QED
    BY <1>0, <2>1, <2>2
<1>5. RequestInv'
  BY <1>0, <1>1 DEF RequestInv, platform, requests
<1>6. KeyInv'
  <2> SUFFICES ASSUME NEW k \in 1 .. key
               PROVE  /\ since[k] <= now + 1
                      /\ k < key => since[k] <= since[k + 1]
    BY <1>0 DEF KeyInv, platform
  <2>1. k \in Key
    BY <1>1, KeyOrder
  <2>2. since[k] \in Nat /\ now \in Nat
    BY <1>1, <2>1, Instant
  <2>3. since[k] <= now /\ (k < key => since[k] <= since[k + 1])
    BY <1>1 DEF KeyInv
  <2> QED
    BY <2>2, <2>3
<1>7. TokenInv'
  <2>1. now' \in Nat /\ now <= now'
    BY <1>0, <1>1, Instant
  <2>2. UNCHANGED <<key, since>> /\ \A r \in Slot : token'[r] = token[r]
    BY <1>0 DEF platform, requests
  <2> QED
    BY <1>1, <2>1, <2>2, TokensKept
<1> QED
  BY <1>2, <1>3, <1>4, <1>5, <1>6, <1>7 DEF Inv

LEMMA InvPublish ==
    ASSUME Inv, Publish
    PROVE  Inv'
<1>0. fetch = 0 /\ UNCHANGED <<platform, now, cache, asked, requests>>
  BY DEF Publish
<1>1. TypeOK /\ FetchInv /\ CacheInv /\ KeyInv /\ TokenInv /\ RequestInv
  BY DEF Inv
<1>2. PICK k \in 1 .. key : fetch' = k /\ (k < key => now <= since[k + 1] + Reuse)
  BY DEF Publish
<1>3. k \in Key /\ k # None /\ k <= key
  BY <1>1, <1>2, Numbers, Instant DEF Key
<1>4. TypeOK'
  BY <1>0, <1>1, <1>2, <1>3 DEF TypeOK, platform, requests
<1>5. FetchInv'
  <2>1. asked <= now /\ now <= asked + Timeout
    BY <1>0, <1>1, Numbers DEF FetchInv
  <2>2. k < key => asked <= since[k + 1] + Reuse
    <3> HAVE k < key
    <3>1. k + 1 \in Key
      BY <1>1, <1>3, Instant
    <3>2. since[k + 1] \in Nat
      BY <1>1, <3>1, Instant
    <3> QED
      BY <1>1, <1>2, <2>1, <3>2, Instant, Numbers
  <2> QED
    BY <1>0, <1>2, <1>3, <2>1, <2>2 DEF FetchInv, platform
<1>6. CacheInv' /\ RequestInv'
  BY <1>0, <1>1, <1>2, <1>3 DEF CacheInv, RequestInv, platform, requests
<1>7. KeyInv' /\ TokenInv'
  BY <1>0, <1>1 DEF KeyInv, TokenInv, platform, requests
<1> QED
  BY <1>4, <1>5, <1>6, <1>7 DEF Inv

\* What the key set's arrival decides.
After(r) == LET v == Verdict(token[r], fetch) IN IF v = "unknown" THEN "denied" ELSE v

LEMMA Arriving ==
    ASSUME Inv, Arrive, NEW r \in Slot
    PROVE  /\ pc'[r] = IF pc[r] = "waiting" THEN After(r) ELSE pc[r]
           /\ token'[r] = IF pc[r] = "waiting" /\ After(r) \in Answered
                          THEN NoCredential ELSE token[r]
           /\ UNCHANGED unlucky
           /\ After(r) \in Answered \cup {"remote"}
           /\ After(r) = "remote" => config.sdkLegacy
<1>1. /\ pc' = [q \in Slot |-> IF pc[q] = "waiting" THEN After(q) ELSE pc[q]]
      /\ token' = [q \in Slot |-> IF pc[q] = "waiting" /\ After(q) \in Answered
                                  THEN NoCredential ELSE token[q]]
      /\ UNCHANGED unlucky
  BY DEF Arrive, After
<1>2. /\ After(r) \in Answered \cup {"remote"}
      /\ After(r) = "remote" => config.sdkLegacy
  BY DEF After, Verdict, Answered
<1> QED
  BY <1>1, <1>2

LEMMA InvArrive ==
    ASSUME Inv, Arrive
    PROVE  Inv'
<1>0. /\ fetch \in Key /\ cache' = [key |-> fetch, at |-> now]
      /\ fetch' = None /\ asked' = 0 /\ UNCHANGED <<platform, now>>
  BY DEF Arrive
<1>1. TypeOK /\ FetchInv /\ CacheInv /\ KeyInv /\ TokenInv /\ RequestInv
  BY DEF Inv
<1>2. cache'.key = fetch /\ cache'.at = now /\ cache' \in [key : Key, at : Time]
  BY <1>0, <1>1 DEF TypeOK
<1>3. TypeOK'
  <2>1. NoCredential \in Credential /\ 0 \in Time
    BY Numbers DEF NoCredential, Credential, Time
  <2>2. token' \in [Slot -> Credential]
    <3>1. token' = [q \in Slot |-> IF pc[q] = "waiting" /\ After(q) \in Answered
                                   THEN NoCredential ELSE token[q]]
      BY DEF Arrive, After
    <3> QED
      BY <1>1, <2>1, <3>1 DEF TypeOK
  <2>3. pc' \in [Slot -> Answered \cup {"idle", "presented", "waiting", "remote"}]
    <3>1. pc' = [q \in Slot |-> IF pc[q] = "waiting" THEN After(q) ELSE pc[q]]
      BY DEF Arrive, After
    <3>2. \A q \in Slot : After(q) \in Answered \cup {"remote"}
      BY Arriving
    <3> QED
      BY <1>1, <3>1, <3>2 DEF TypeOK
  <2>4. unlucky' = unlucky
    BY DEF Arrive
  <2> QED
    BY <1>0, <1>1, <1>2, <2>1, <2>2, <2>3, <2>4 DEF TypeOK, platform
<1>4. FetchInv'
  BY <1>0, Numbers DEF FetchInv
<1>5. CacheInv'
  <2>1. /\ fetch <= key /\ asked <= now /\ now <= asked + Timeout
        /\ fetch < key => asked <= since[fetch + 1] + Reuse
    BY <1>0, <1>1, Numbers DEF FetchInv
  <2>2. now < now + MaxAge /\ now <= now
    BY <1>1, Instant, Numbers
  <2>3. fetch < key => now <= since[fetch + 1] + Reuse + Timeout
    <3> HAVE fetch < key
    <3>1. fetch + 1 \in Key
      BY <1>0, <1>1, Instant
    <3>2. since[fetch + 1] \in Nat
      BY <1>1, <3>1, Instant
    <3> QED
      BY <1>1, <2>1, <3>2, Instant, Numbers
  <2> QED
    BY <1>0, <1>2, <2>1, <2>2, <2>3 DEF CacheInv, platform
<1>6. RequestInv'
  <2> SUFFICES ASSUME NEW r \in Slot
               PROVE  /\ pc'[r] # "waiting"
                      /\ pc'[r] = "remote" /\ token'[r].kind = "HS256" =>
                            config'.sdkLegacy \/ unlucky'[r]
    BY DEF RequestInv
  <2>1. config' = config
    BY <1>0 DEF platform
  <2> QED
    BY <1>1, <2>1, Arriving DEF RequestInv, Answered
<1>7. UNCHANGED <<key, since, now>>
  BY <1>0 DEF platform
<1>8. TokenInv'
  <2>1. \A r \in Slot : token'[r] = token[r] \/ token'[r] = NoCredential
    BY Arriving
  <2>2. now' \in Nat /\ now <= now'
    BY <1>1, <1>7, Instant
  <2> QED
    BY <1>1, <1>7, <2>1, <2>2, TokensKept
<1>9. KeyInv'
  BY <1>1, <1>7 DEF KeyInv
<1> QED
  BY <1>3, <1>4, <1>5, <1>6, <1>8, <1>9 DEF Inv

LEMMA InvFetchFails ==
    ASSUME Inv, FetchFails
    PROVE  Inv'
<1>0. /\ fetch' = None /\ asked' = 0 /\ UNCHANGED <<platform, now, cache, token>>
      /\ pc' = [r \in Slot |-> IF pc[r] = "waiting" THEN "remote" ELSE pc[r]]
      /\ unlucky' = [r \in Slot |-> unlucky[r] \/ pc[r] = "waiting"]
  BY DEF FetchFails
<1>1. TypeOK /\ FetchInv /\ CacheInv /\ KeyInv /\ TokenInv /\ RequestInv
  BY DEF Inv
<1>2. TypeOK'
  <2>1. 0 \in Time
    BY Numbers DEF Time
  <2>2. \A r \in Slot : (unlucky[r] \/ pc[r] = "waiting") \in BOOLEAN
    OBVIOUS
  <2>3. unlucky' \in [Slot -> BOOLEAN]
    BY <1>0, <2>2
  <2> QED
    BY <1>0, <1>1, <2>1, <2>3 DEF TypeOK, platform
<1>3. FetchInv' /\ CacheInv'
  BY <1>0, <1>1, Numbers DEF FetchInv, CacheInv, platform
<1>4. RequestInv'
  BY <1>0, <1>1 DEF RequestInv, platform
<1>5. KeyInv' /\ TokenInv'
  BY <1>0, <1>1 DEF KeyInv, TokenInv, platform
<1> QED
  BY <1>2, <1>3, <1>4, <1>5 DEF Inv

LEMMA InvRequests ==
    ASSUME Inv, NEW r \in Slot,
           Present(r) \/ Decide(r) \/ RemoteAnswer(r) \/ RemoteFails(r)
    PROVE  Inv'
<1>0. UNCHANGED <<platform, now, cache>> /\ UNCHANGED <<config, key, since>>
  BY DEF Present, Decide, RemoteAnswer, RemoteFails, platform
<1>1. TypeOK /\ KeyInv /\ TokenInv /\ RequestInv
  BY DEF Inv
<1>2. CASE Present(r)
  <2>1. PICK c \in Presentable : token' = [token EXCEPT ![r] = c]
    BY <1>2 DEF Present
  <2>2. pc' = [pc EXCEPT ![r] = "presented"] /\ UNCHANGED <<fetch, asked, unlucky>>
    BY <1>2 DEF Present
  <2>3. c \in Credential
    BY <1>1, PresentableType
  <2>4. /\ token' \in [Slot -> Credential] /\ unlucky' \in [Slot -> BOOLEAN]
        /\ pc' \in [Slot -> Answered \cup {"idle", "presented", "waiting", "remote"}]
    BY <1>1, <2>1, <2>2, <2>3 DEF TypeOK
  <2>5. RequestInv'
    BY <1>0, <1>1, <2>1, <2>2 DEF RequestInv, TypeOK
  <2>6. TokenInv'
    <3> SUFFICES ASSUME NEW q \in Slot, token'[q].kind = "EdDSA", token'[q].genuine
                 PROVE  /\ token'[q].kid \in 1 .. key
                        /\ token'[q].kid < key =>
                              token'[q].exp <= since[token'[q].kid + 1] + Life
                        /\ token'[q].kid = key => token'[q].exp <= now + Life
      BY <1>0 DEF TokenInv
    <3>1. CASE q = r
      <4>1. token'[q] = c
        BY <1>1, <2>1, <3>1 DEF TypeOK
      <4> QED
        BY <1>1, <4>1, PresentedToken
    <3>2. CASE q # r
      <4>1. token'[q] = token[q]
        BY <1>1, <2>1, <3>2 DEF TypeOK
      <4> QED
        BY <1>1, <4>1 DEF TokenInv
    <3> QED
      BY <3>1, <3>2
  <2> QED
    BY <1>0, <2>2, <2>4, <2>5, <2>6, RequestStep
<1>3. ASSUME NEW a \in Answered \cup {"waiting", "remote"}, Goto(r, a),
             UNCHANGED <<fetch, asked>> \/ Ask,
             a = "waiting" => Ask /\ token[r].kind # "ApiKey",
             a = "remote" => token[r].kind # "HS256" \/ config.sdkLegacy
      PROVE  Inv'
  <2>1. /\ token' \in [Slot -> Credential] /\ unlucky' \in [Slot -> BOOLEAN]
        /\ pc' \in [Slot -> Answered \cup {"idle", "presented", "waiting", "remote"}]
        /\ pc'[r] = a /\ \A q \in Slot : q # r => /\ pc'[q] = pc[q] /\ token'[q] = token[q]
                                                  /\ unlucky'[q] = unlucky[q]
        /\ a \notin Answered => UNCHANGED <<token, unlucky>>
    BY <1>1, <1>3, GotoType
  <2>2. "waiting" \notin Answered /\ "remote" \notin Answered
    BY DEF Answered
  <2>3. fetch # None => fetch' # None
    BY <1>3, AskedThen
  <2>4. RequestInv'
    <3>1. a = "waiting" => fetch' # None
      BY <1>3, AskedThen
    <3> QED
      BY <1>0, <1>1, <1>3, <2>1, <2>2, <2>3, <3>1 DEF RequestInv
  <2>5. \A q \in Slot : token'[q] = token[q] \/ token'[q] = NoCredential
    BY <1>1, <1>3, <2>1 DEF Goto, TypeOK
  <2>6. TokenInv'
    BY <1>0, <1>1, <2>5, TokensKept, Instant
  <2> QED
    BY <1>0, <1>3, <2>1, <2>4, <2>6, RequestStep
<1>4. CASE Decide(r)
  <2> DEFINE c == token[r]
             v == Verdict(c, cache.key)
  <2>1. CASE c.kind = "ApiKey" /\ Goto(r, "remote") /\ UNCHANGED <<fetch, asked>>
    BY <1>3, <2>1
  <2>2. CASE c.kind # "ApiKey" /\ Goto(r, "waiting") /\ Ask
    BY <1>3, <2>2
  <2>3. CASE /\ c.kind # "ApiKey"
             /\ Goto(r, IF v = "unknown" THEN "denied" ELSE v)
             /\ UNCHANGED <<fetch, asked>>
    <3> DEFINE a == IF v = "unknown" THEN "denied" ELSE v
    <3>1. a \in Answered \cup {"remote"} /\ (a = "remote" => config.sdkLegacy)
      BY DEF Verdict, Answered
    <3>2. a # "waiting"
      BY <3>1 DEF Answered
    <3>3. Goto(r, a)
      BY <2>3
    <3> HIDE DEF a
    <3> QED
      BY <1>3, <2>3, <3>1, <3>2, <3>3
  <2> QED
    BY <1>4, <2>1, <2>2, <2>3 DEF Decide
<1>5. CASE RemoteAnswer(r) \/ RemoteFails(r)
  <2>1. PICK a \in Answered : Goto(r, a)
    BY <1>5 DEF RemoteAnswer, RemoteFails, Answered
  <2>2. UNCHANGED <<fetch, asked>> /\ a # "waiting" /\ a # "remote"
    BY <1>5 DEF RemoteAnswer, RemoteFails, Answered
  <2> QED
    BY <1>3, <2>1, <2>2
<1> QED
  BY <1>2, <1>4, <1>5

LEMMA InvStep == Inv /\ [Next]_vars => Inv'
<1> SUFFICES ASSUME Inv, [Next]_vars PROVE Inv'
  OBVIOUS
<1>1. CASE UNCHANGED vars
  BY <1>1 DEF vars, platform, requests, Inv, TypeOK, FetchInv, CacheInv, KeyInv, TokenInv,
             RequestInv
<1>2. CASE Next
  BY <1>2, InvRotate, InvPublish, InvArrive, InvFetchFails, InvTick, InvRequests DEF Next
<1> QED
  BY <1>1, <1>2

\* At every moment every variable of SigningKeys has its type.
THEOREM TypeCorrect == Spec => []TypeOK
<1>1. Inv => TypeOK
  BY DEF Inv
<1> QED
  BY <1>1, InvInit, InvStep, PTL DEF Spec

\* Nobody waits for a request for the key set that is not under way.
THEOREM NobodyForgottenHolds == Spec => []NobodyForgotten
<1>1. Inv => NobodyForgotten
  BY DEF Inv, RequestInv, NobodyForgotten
<1> QED
  BY <1>1, InvInit, InvStep, PTL DEF Spec

-----------------------------------------------------------------------------
(* Answers                                                                 *)

\* A request is let in or refused by the key set it found, by the one it waited
\* for, or by the platform.
LEMMA Answering ==
    ASSUME Inv, Next, NEW r \in Slot, NEW a \in {"accepted", "denied"}, Becomes(r, a)
    PROVE  \/ /\ token[r].kind # "ApiKey" /\ cache # None /\ UNCHANGED cache
              /\ \/ Verdict(token[r], cache.key) = a
                 \/ /\ Verdict(token[r], cache.key) = "unknown" /\ a = "denied"
                    /\ CoolingDown
           \/ Arrive /\ pc[r] = "waiting" /\ After(r) = a
           \/ pc[r] = "remote" /\ a = IF Verifies(token[r]) THEN "accepted" ELSE "denied"
<1>0. TypeOK /\ r \in DOMAIN pc /\ pc[r] # a /\ pc'[r] = a
  BY DEF Inv, TypeOK, Becomes
<1>1. CASE Rotate \/ Publish \/ Tick
  BY <1>0, <1>1 DEF Rotate, Publish, Tick, requests
<1>2. CASE Arrive
  BY <1>0, <1>2, Arriving
<1>3. CASE FetchFails
  BY <1>0, <1>3 DEF FetchFails
<1>4. ASSUME NEW q \in Slot, NEW b, pc' = [pc EXCEPT ![q] = b]
      PROVE  q = r /\ b = a
  BY <1>0, <1>4
<1>5. ASSUME NEW q \in Slot, Present(q)
      PROVE  FALSE
  <2>1. pc' = [pc EXCEPT ![q] = "presented"]
    BY <1>5 DEF Present
  <2> QED
    BY <1>0, <2>1
<1>6. ASSUME NEW q \in Slot, Decide(q)
      PROVE  /\ token[r].kind # "ApiKey" /\ cache # None /\ UNCHANGED cache
             /\ \/ Verdict(token[r], cache.key) = a
                \/ /\ Verdict(token[r], cache.key) = "unknown" /\ a = "denied"
                   /\ CoolingDown
  <2> DEFINE c == token[q]
             v == Verdict(c, cache.key)
             b == IF v = "unknown" THEN "denied" ELSE v
  <2>1. CASE Goto(q, "remote") \/ Goto(q, "waiting")
    BY <1>4, <2>1 DEF Goto
  <2>2. CASE /\ c.kind # "ApiKey" /\ Fresh /\ (v # "unknown" \/ CoolingDown)
             /\ Goto(q, b)
    <3>1. pc' = [pc EXCEPT ![q] = b]
      BY <2>2 DEF Goto
    <3>2. q = r /\ b = a
      BY <1>4, <3>1
    <3> QED
      BY <1>6, <2>2, <3>2 DEF Decide, Fresh
  <2> QED
    BY <1>6, <2>1, <2>2 DEF Decide
<1>7. ASSUME NEW q \in Slot, RemoteAnswer(q)
      PROVE  pc[r] = "remote" /\ a = IF Verifies(token[r]) THEN "accepted" ELSE "denied"
  <2> DEFINE b == IF Verifies(token[q]) THEN "accepted" ELSE "denied"
  <2>1. pc' = [pc EXCEPT ![q] = b] /\ pc[q] = "remote"
    BY <1>7 DEF RemoteAnswer, Goto
  <2>2. q = r /\ b = a
    BY <1>4, <2>1
  <2> QED
    BY <2>1, <2>2
<1>8. ASSUME NEW q \in Slot, RemoteFails(q)
      PROVE  FALSE
  <2>1. pc' = [pc EXCEPT ![q] = "unavailable"]
    BY <1>8 DEF RemoteFails, Goto
  <2> QED
    BY <1>0, <2>1
<1> QED
  BY <1>1, <1>2, <1>3, <1>5, <1>6, <1>7, <1>8 DEF Next

\* What a key set decides of a token.
LEMMA Verdicts ==
    ASSUME TypeOK, NEW r \in Slot, NEW k, token[r].kind # "ApiKey"
    PROVE  LET c == token[r] IN
           /\ Verdict(c, k) = "accepted" =>
                 c.kind = "EdDSA" /\ c.kid = k /\ c.genuine /\ Unexpired(c)
           /\ Verdict(c, k) = "denied" =>
                 \/ c.kind = "HS256" /\ ~config.sdkLegacy
                 \/ ~(c.genuine /\ Unexpired(c))
           /\ Verdict(c, k) = "unknown" => c.kind = "EdDSA" /\ c.kid # k
<1>1. token[r].kind \in {"EdDSA", "HS256"}
  BY DEF TypeOK, Credential
<1> QED
  BY <1>1 DEF Verdict

LEMMA OldKeys ==
    ASSUME Inv, Next, NEW r \in Slot, Becomes(r, "accepted")
    PROVE  LET c == token[r] IN
           /\ c.genuine
           /\ c.kind # "ApiKey" => Unexpired(c)
           /\ c.kind = "EdDSA" /\ c.kid < key =>
                 /\ now < since[c.kid + 1] + Life
                 /\ now < since[c.kid + 1] + Reuse + Timeout + MaxAge
<1> DEFINE c == token[r]
           Bound(k) == k < key => now < since[k + 1] + Reuse + Timeout + MaxAge
<1>0. TypeOK /\ FetchInv /\ CacheInv /\ TokenInv /\ RequestInv
  BY DEF Inv
<1>1. ASSUME c.genuine, c.kind # "ApiKey" => Unexpired(c),
             c.kind = "EdDSA" => Bound(c.kid)
      PROVE  /\ c.genuine
             /\ c.kind # "ApiKey" => Unexpired(c)
             /\ c.kind = "EdDSA" /\ c.kid < key =>
                   /\ now < since[c.kid + 1] + Life
                   /\ now < since[c.kid + 1] + Reuse + Timeout + MaxAge
  <2> SUFFICES ASSUME c.kind = "EdDSA", c.kid < key
               PROVE  now < since[c.kid + 1] + Life
    BY <1>1
  <2>1. now < c.exp
    BY <1>1 DEF Unexpired
  <2>2. c.kid \in 1 .. key /\ c.exp <= since[c.kid + 1] + Life
    BY <1>0, <1>1 DEF TokenInv
  <2>3. c \in Credential
    BY <1>0 DEF TypeOK
  <2>4. c.exp \in 0 .. MaxTime + Life
    BY <2>3 DEF Credential
  <2>5. c.kid \in Key /\ c.kid + 1 \in Key
    BY <1>0, <1>1, <2>2, KeyOrder, Instant
  <2>6. since[c.kid + 1] \in Nat
    BY <1>0, <2>5, Instant
  <2> QED
    BY <1>0, <2>1, <2>2, <2>4, <2>6, Instant, Numbers
<1>2. CASE /\ c.kind # "ApiKey" /\ cache # None
           /\ Verdict(c, cache.key) = "accepted"
  <2>1. c.kid = cache.key /\ c.genuine /\ Unexpired(c)
    BY <1>0, <1>2, Verdicts
  <2>2. Bound(cache.key)
    <3> HAVE cache.key < key
    <3>1. cache.key + 1 \in Key /\ cache.at \in Nat /\ now \in Nat
      BY <1>0, <1>2, Instant
    <3>2. since[cache.key + 1] \in Nat
      BY <1>0, <3>1, Instant
    <3>3. now < cache.at + MaxAge /\ cache.at <= since[cache.key + 1] + Reuse + Timeout
      BY <1>0, <1>2 DEF CacheInv
    <3> QED
      BY <3>1, <3>2, <3>3, Numbers
  <2> HIDE DEF Bound
  <2> QED
    BY <1>1, <2>1, <2>2
<1>3. CASE Arrive /\ pc[r] = "waiting" /\ After(r) = "accepted"
  <2>1. fetch \in Key /\ c.kind # "ApiKey" /\ Verdict(c, fetch) = "accepted"
    BY <1>0, <1>3 DEF Arrive, After, RequestInv
  <2>2. c.kid = fetch /\ c.genuine /\ Unexpired(c)
    BY <1>0, <2>1, Verdicts
  <2>3. Bound(fetch)
    <3> HAVE fetch < key
    <3>1. fetch + 1 \in Key /\ asked \in Nat /\ now \in Nat
      BY <1>0, <2>1, Instant
    <3>2. since[fetch + 1] \in Nat
      BY <1>0, <3>1, Instant
    <3>3. now <= asked + Timeout /\ asked <= since[fetch + 1] + Reuse
      BY <1>0, <2>1, Numbers DEF FetchInv
    <3> QED
      BY <3>1, <3>2, <3>3, Numbers
  <2> HIDE DEF Bound
  <2> QED
    BY <1>1, <2>2, <2>3
<1>4. CASE Verifies(c)
  <2>1. /\ c.genuine /\ (c.kind = "EdDSA" => c.kid = key)
        /\ c.kind # "ApiKey" => Unexpired(c)
    BY <1>4 DEF Verifies, VerifiesToken
  <2>2. c.kind = "EdDSA" => Bound(c.kid)
    BY <1>0, <2>1, Instant
  <2> HIDE DEF Bound
  <2> QED
    BY <1>1, <2>1, <2>2
<1> QED
  BY <1>2, <1>3, <1>4, Answering

LEMMA Denied ==
    ASSUME Inv, Next, NEW r \in Slot, Becomes(r, "denied"), Verifies(token[r])
    PROVE  \/ token[r].kind = "HS256" /\ ~config.sdkLegacy
           \/ /\ cache' # None
              /\ token[r].kid # cache'.key
              /\ now < cache'.at + Cooldown
<1> DEFINE c == token[r]
<1>0. TypeOK /\ RequestInv
  BY DEF Inv
<1>1. c.kind # "ApiKey" => c.genuine /\ Unexpired(c)
  BY DEF Verifies, VerifiesToken
<1>2. CASE /\ c.kind # "ApiKey" /\ cache # None /\ UNCHANGED cache
           /\ \/ Verdict(c, cache.key) = "denied"
              \/ Verdict(c, cache.key) = "unknown" /\ CoolingDown
  BY <1>0, <1>1, <1>2, Verdicts DEF CoolingDown
<1>3. CASE Arrive /\ pc[r] = "waiting" /\ After(r) = "denied"
  <2>1. /\ fetch \in Key /\ c.kind # "ApiKey" /\ Verdict(c, fetch) \in {"denied", "unknown"}
        /\ cache' = [key |-> fetch, at |-> now]
    BY <1>0, <1>3 DEF Arrive, After, RequestInv
  <2>2. cache' # None
    BY <1>0, <2>1, Numbers DEF TypeOK
  <2>3. cache'.key = fetch /\ cache'.at = now /\ now < now + Cooldown
    BY <1>0, <2>1, Instant, Numbers
  <2> QED
    BY <1>0, <1>1, <2>1, <2>2, <2>3, Verdicts
<1> QED
  BY <1>2, <1>3, Answering

LEMMA LegacyTokens ==
    ASSUME Inv, Next, NEW r \in Slot, Becomes(r, "accepted"), token[r].kind = "HS256"
    PROVE  /\ config.keyed => config.platformLegacy
           /\ config.sdkLegacy \/ unlucky[r]
<1>0. TypeOK /\ RequestInv
  BY DEF Inv
<1>1. \A k : Verdict(token[r], k) # "accepted"
  BY <1>0, Verdicts
<1>2. After(r) # "accepted"
  BY <1>1 DEF After
<1>3. pc[r] = "remote" /\ Verifies(token[r])
  BY <1>1, <1>2, Answering
<1> QED
  BY <1>0, <1>3 DEF RequestInv, Verifies, VerifiesToken

\* What a consumer accepts is genuine, a token unexpired, and an old key's token
\* passes neither beyond a token's life nor longer than the published key may be
\* reused on the way and a key set that holds it be cached.
THEOREM OldKeysDieHolds == Spec => OldKeysDie
<1> DEFINE A == \A r \in Slot : Becomes(r, "accepted") =>
                   LET c == token[r] IN
                   /\ c.genuine
                   /\ c.kind # "ApiKey" => Unexpired(c)
                   /\ c.kind = "EdDSA" /\ c.kid < key =>
                         /\ now < since[c.kid + 1] + Life
                         /\ now < since[c.kid + 1] + Reuse + Timeout + MaxAge
<1>1. Inv /\ [Next]_vars => [A]_vars
  BY OldKeys
<1>2. Spec => [][A]_vars
  BY <1>1, InvInit, InvStep, PTL DEF Spec
<1> QED
  BY <1>2 DEF OldKeysDie

\* What the platform would accept is refused only for a legacy token the consumer
\* did not opt into, and a kid that a key set just fetched does not have.
THEOREM DeniedRightlyHolds == Spec => DeniedRightly
<1> DEFINE A == \A r \in Slot : Becomes(r, "denied") /\ Verifies(token[r]) =>
                   \/ token[r].kind = "HS256" /\ ~config.sdkLegacy
                   \/ /\ cache' # None
                      /\ token[r].kid # cache'.key
                      /\ now < cache'.at + Cooldown
<1>1. Inv /\ [Next]_vars => [A]_vars
  BY Denied
<1>2. Spec => [][A]_vars
  BY <1>1, InvInit, InvStep, PTL DEF Spec
<1> QED
  BY <1>2 DEF DeniedRightly

\* A legacy token passes where the platform allows it, and the consumer opted in
\* or could not fetch the key set.
THEOREM LegacyOnlyAskedHolds == Spec => LegacyOnlyAsked
<1> DEFINE A == \A r \in Slot : Becomes(r, "accepted") /\ token[r].kind = "HS256" =>
                   /\ config.keyed => config.platformLegacy
                   /\ config.sdkLegacy \/ unlucky[r]
<1>1. Inv /\ [Next]_vars => [A]_vars
  BY LegacyTokens
<1>2. Spec => [][A]_vars
  BY <1>1, InvInit, InvStep, PTL DEF Spec
<1> QED
  BY <1>2 DEF LegacyOnlyAsked
=============================================================================
