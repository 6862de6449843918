----------------------------- MODULE SigningKeys -----------------------------
(* How a consumer decides about a credential while the platform's signing  *)
(* key is rotated and the platform comes and goes: the SDK's middleware    *)
(* over its cached key set (sdk/auth-client.ts), the key the platform      *)
(* publishes and verifies with (services/token.ts, routes/jwks.ts), and    *)
(* POST /auth/verify, the fallback (routes/verify.ts).  The key set's      *)
(* cache is the jose library's, modelled from the options the SDK gives.   *)
(*                                                                         *)
(* Keys are 1, 2, ... in the order they replace each other; a key's kid    *)
(* changes with it, as the runbook demands.  Time is in ticks.             *)
EXTENDS Integers, FiniteSets

CONSTANTS
    Slot,         \* requests the consumer handles at once
    MaxKeys,      \* bound: keys the platform ever has
    MaxTime,      \* bound: the last tick
    Life,         \* JWT_ACCESS_EXPIRY
    MaxAge,       \* cacheMaxAge of the key set
    Cooldown,     \* cooldownDuration of the key set
    Timeout,      \* the longest the key set's request takes
    Reuse,        \* max-age and stale-while-revalidate of the published key:
                  \* the oldest answer a cache on the way gives, 0 without one
    None          \* no key set, no request for it

ASSUME SigningAssumption ==
    /\ MaxKeys \in Nat \ {0}
    /\ MaxTime \in Nat
    /\ Life \in Nat \ {0}
    /\ Cooldown \in Nat \ {0}
    /\ MaxAge \in Nat \ {0}
    /\ Cooldown <= MaxAge
    /\ Timeout \in Nat
    /\ Reuse \in Nat
    /\ None \notin 0 .. MaxKeys
    /\ None \notin [key : 1 .. MaxKeys, at : 0 .. MaxTime]

Time == 0 .. MaxTime
Key == 1 .. MaxKeys

\* The deployment: signing keys or the keyless development mode, and the two
\* switches of the legacy migration, ALLOW_LEGACY_HS256 and allowLegacyHs256.
\* The keyless mode needs no switch.
Config == {c \in [keyed : BOOLEAN, platformLegacy : BOOLEAN, sdkLegacy : BOOLEAN] :
              c.platformLegacy => c.keyed}

\* A credential.  kid is the key its header names; genuine says whether that
\* key (the shared secret, the database) really vouches for it.
Credential == [kind : {"EdDSA", "HS256", "ApiKey"}, kid : 0 .. MaxKeys,
               genuine : BOOLEAN, exp : 0 .. MaxTime + Life]
NoCredential == [kind |-> "EdDSA", kid |-> 0, genuine |-> FALSE, exp |-> 0]

VARIABLES
    config,       \* never changes
    now,
    key,          \* the platform's signing key
    since,        \* when each key took over
    cache,        \* the consumer's key set, and when it arrived
    fetch,        \* the one request for the key set that may be under way
    asked,        \* when that request was sent
    token,        \* what each request presents
    pc,           \* where each request is
    unlucky       \* history: the request fell back because a fetch failed

platform == <<config, key, since>>
requests == <<token, pc, unlucky>>
vars == <<platform, now, cache, fetch, asked, requests>>

Answered == {"accepted", "denied", "unavailable"}

TypeOK ==
    /\ config \in Config
    /\ now \in Time
    /\ key \in Key
    /\ since \in [Key -> Time]
    /\ cache \in [key : Key, at : Time] \cup {None}
    /\ fetch \in Key \cup {0, None}
    /\ asked \in Time
    /\ token \in [Slot -> Credential]
    /\ pc \in [Slot -> Answered \cup {"idle", "presented", "waiting", "remote"}]
    /\ unlucky \in [Slot -> BOOLEAN]

Init ==
    /\ config \in Config
    /\ now = 0
    /\ key = 1
    /\ since = [k \in Key |-> 0]
    /\ cache = None
    /\ fetch = None
    /\ asked = 0
    /\ token = [r \in Slot |-> NoCredential]
    /\ pc = [r \in Slot |-> "idle"]
    /\ unlucky = [r \in Slot |-> FALSE]

-----------------------------------------------------------------------------
(* Credentials that exist                                                  *)

\* signAccessToken: with the current key, or HS256 without one.  Of a key's
\* tokens, the first and the last it signs.
SignedBy(k) ==
    LET ends == IF k < key THEN since[k + 1] ELSE now IN
    {[kind |-> "EdDSA", kid |-> k, genuine |-> TRUE, exp |-> t + Life] :
        t \in {since[k], ends}}

\* Left over from a deployment before time 0, or signed by a keyless one.
Legacy ==
    {[kind |-> "HS256", kid |-> 0, genuine |-> TRUE, exp |-> e] :
        e \in IF config.keyed THEN {1, Life} ELSE {now, now + Life}}

\* Not signed by the key its header names, or by a key nobody knows.
Foreign ==
    {[kind |-> "EdDSA", kid |-> k, genuine |-> FALSE, exp |-> now + Life] :
        k \in {0, key}} \cup
    {[kind |-> s, kid |-> 0, genuine |-> FALSE, exp |-> now + Life] :
        s \in {"HS256", "ApiKey"}}

ApiKeys == {[kind |-> "ApiKey", kid |-> 0, genuine |-> TRUE, exp |-> now + Life]}

Presentable ==
    Legacy \cup Foreign \cup ApiKeys \cup
        (IF config.keyed THEN UNION {SignedBy(k) : k \in 1 .. key} ELSE {})

Unexpired(c) == now < c.exp

-----------------------------------------------------------------------------
(* The platform                                                            *)

\* A restart with a new pair and a new kid.
Rotate ==
    /\ config.keyed
    /\ key < MaxKeys
    /\ key' = key + 1
    /\ since' = [since EXCEPT ![key + 1] = now]
    /\ UNCHANGED <<config, now, cache, fetch, asked, requests>>

\* The platform verifies HS256 whatever its switch says.
VerifiesToken_NoSwitch(c) ==
    /\ c.genuine
    /\ Unexpired(c)
    /\ c.kind = "HS256" \/ (c.kind = "EdDSA" /\ config.keyed /\ c.kid = key)

\* verifyAccessToken: the algorithm picks the key, the kid does not matter.
VerifiesToken(c) ==
    /\ c.genuine
    /\ Unexpired(c)
    /\ \/ c.kind = "HS256" /\ (config.keyed => config.platformLegacy)
       \/ c.kind = "EdDSA" /\ config.keyed /\ c.kid = key

\* POST /auth/verify.  Which API keys are valid is Authorization's subject.
Verifies(c) == IF c.kind = "ApiKey" THEN c.genuine ELSE VerifiesToken(c)

-----------------------------------------------------------------------------
(* The consumer                                                            *)

\* A request that is answered is forgotten.
Goto(r, a) ==
    /\ pc' = [pc EXCEPT ![r] = a]
    /\ IF a \in Answered
       THEN /\ token' = [token EXCEPT ![r] = NoCredential]
            /\ unlucky' = [unlucky EXCEPT ![r] = FALSE]
       ELSE UNCHANGED <<token, unlucky>>

\* Tick drops a key set at the end of its age.
Fresh == cache # None
CoolingDown == cache # None /\ now < cache.at + Cooldown

\* All waiters share one request for the key set.
Ask ==
    IF fetch = None THEN fetch' = 0 /\ asked' = now
                    ELSE UNCHANGED <<fetch, asked>>

\* The middleware runs to its first await before it takes another request.
Deciding == \E r \in Slot : pc[r] = "presented"

\* A request reaches requireAuth or requireApiKey.
Present(r) ==
    /\ ~Deciding
    /\ pc[r] \in Answered \cup {"idle"}
    /\ \E c \in Presentable : token' = [token EXCEPT ![r] = c]
    /\ pc' = [pc EXCEPT ![r] = "presented"]
    /\ UNCHANGED <<platform, now, cache, fetch, asked, unlucky>>

\* The end of a token's life is not looked at.
Verdict_AnyAge(c, k) ==
    CASE c.kind = "HS256" -> IF config.sdkLegacy THEN "remote" ELSE "denied"
      [] c.kind = "EdDSA" /\ c.kid # k -> "unknown"
      [] OTHER -> IF c.genuine THEN "accepted" ELSE "denied"

\* jwtVerify over the key set with key k.  An HS256 token has no key in any
\* set, and goes to the platform only if the consumer opted in.
Verdict(c, k) ==
    CASE c.kind = "HS256" -> IF config.sdkLegacy THEN "remote" ELSE "denied"
      [] c.kind = "EdDSA" /\ c.kid # k -> "unknown"
      [] OTHER -> IF c.genuine /\ Unexpired(c) THEN "accepted" ELSE "denied"

\* An API key is verified remotely.  A token is verified with the key set, which
\* is fetched if it is missing or stale, and fetched again for a kid that is not
\* in it unless it has just been fetched.
Decide(r) ==
    LET c == token[r] IN
    /\ pc[r] = "presented"
    /\ \/ /\ c.kind = "ApiKey"
          /\ Goto(r, "remote")
          /\ UNCHANGED <<fetch, asked>>
       \/ /\ c.kind # "ApiKey" /\ ~Fresh
          /\ Goto(r, "waiting")
          /\ Ask
       \/ /\ c.kind # "ApiKey" /\ Fresh
          /\ LET v == Verdict(c, cache.key) IN
             \/ /\ v = "unknown" /\ ~CoolingDown
                /\ Goto(r, "waiting")
                /\ Ask
             \/ /\ v # "unknown" \/ CoolingDown
                /\ Goto(r, IF v = "unknown" THEN "denied" ELSE v)
                /\ UNCHANGED <<fetch, asked>>
    /\ UNCHANGED <<platform, now, cache>>

\* GET /.well-known/jwks.json is answered with the key of that moment, or by a
\* cache on the way with a key the platform published at most Reuse ago ...
Publish ==
    /\ fetch = 0
    /\ config.keyed
    /\ \E k \in 1 .. key :
          /\ k < key => now <= since[k + 1] + Reuse
          /\ fetch' = k
    /\ UNCHANGED <<platform, now, cache, asked, requests>>

\* ... and the answer arrives: every request that waited is decided with it,
\* and the set has just been fetched, so no kid fetches it again.
Arrive ==
    /\ fetch \in Key
    /\ cache' = [key |-> fetch, at |-> now]
    /\ fetch' = None /\ asked' = 0
    /\ LET After(r) == LET v == Verdict(token[r], fetch) IN
                       IF v = "unknown" THEN "denied" ELSE v
           Ends(r) == pc[r] = "waiting" /\ After(r) \in Answered
       IN
          /\ pc' = [r \in Slot |-> IF pc[r] = "waiting" THEN After(r) ELSE pc[r]]
          /\ token' = [r \in Slot |-> IF Ends(r) THEN NoCredential ELSE token[r]]
          /\ UNCHANGED unlucky
    /\ UNCHANGED <<platform, now>>

\* A refused connection, a lost answer, a timeout, the keyless mode's 503 (an
\* outage is a run of these and of RemoteFails, which every state allows):
\* there is no local answer, and every request that waited asks the platform.
FetchFails ==
    /\ fetch # None
    /\ fetch' = None /\ asked' = 0
    /\ pc' = [r \in Slot |-> IF pc[r] = "waiting" THEN "remote" ELSE pc[r]]
    /\ unlucky' = [r \in Slot |-> unlucky[r] \/ pc[r] = "waiting"]
    /\ UNCHANGED <<platform, now, cache, token>>

RemoteAnswer(r) ==
    /\ pc[r] = "remote"
    /\ Goto(r, IF Verifies(token[r]) THEN "accepted" ELSE "denied")
    /\ UNCHANGED <<platform, now, cache, fetch, asked>>

\* An unanswered verification is taken for a refusal.
RemoteFails_Denies(r) ==
    /\ pc[r] = "remote"
    /\ Goto(r, "denied")
    /\ UNCHANGED <<platform, now, cache, fetch, asked>>

\* respondPlatformUnavailable: no answer is not a refusal.
RemoteFails(r) ==
    /\ pc[r] = "remote"
    /\ Goto(r, "unavailable")
    /\ UNCHANGED <<platform, now, cache, fetch, asked>>

-----------------------------------------------------------------------------
(* Time                                                                    *)

\* cacheMaxAge: Infinity.
Tick_KeepsTheSet ==
    /\ now < MaxTime
    /\ ~Deciding
    /\ fetch # None => now < asked + Timeout
    /\ now' = now + 1
    /\ UNCHANGED <<platform, cache, fetch, asked, requests>>

\* Time does not pass a request's timeout.  A key set that has become stale is
\* never looked at again: it is dropped.
Tick ==
    /\ now < MaxTime
    /\ ~Deciding
    /\ fetch # None => now < asked + Timeout
    /\ now' = now + 1
    /\ cache' = IF cache # None /\ now + 1 = cache.at + MaxAge THEN None ELSE cache
    /\ UNCHANGED <<platform, fetch, asked, requests>>

Next ==
    \/ Rotate \/ Publish \/ Arrive \/ FetchFails \/ Tick
    \/ \E r \in Slot :
          Present(r) \/ Decide(r) \/ RemoteAnswer(r) \/ RemoteFails(r)

Spec == Init /\ [][Next]_vars

-----------------------------------------------------------------------------
(* Properties                                                              *)

\* Requests share one request for the key set, and each of them is settled by
\* its end: nobody waits for a request that is not under way.
NobodyForgotten == (\E r \in Slot : pc[r] = "waiting") => fetch # None

Becomes(r, a) == pc[r] # a /\ pc'[r] = a

\* What is accepted is genuine, a token among it unexpired, and an old key's
\* token passes neither beyond the life it can have had nor longer than the
\* published key may be reused on the way and a key set that holds it be cached:
\* wherever tokens are verified the key is dead then, and nobody acts by hand.
OldKeysDie ==
    [][\A r \in Slot : Becomes(r, "accepted") =>
          LET c == token[r] IN
          /\ c.genuine
          /\ c.kind # "ApiKey" => Unexpired(c)
          /\ c.kind = "EdDSA" /\ c.kid < key =>
                /\ now < since[c.kid + 1] + Life
                /\ now < since[c.kid + 1] + Reuse + Timeout + MaxAge]_vars

\* A credential the platform would accept is answered 401 in two cases only: a
\* legacy token at a consumer that did not opt in, and a new key's token at one
\* that has just fetched a key set without that key.  An outage, a lost answer
\* or a rotation is never a 401.
DeniedRightly ==
    [][\A r \in Slot : Becomes(r, "denied") /\ Verifies(token[r]) =>
          \/ token[r].kind = "HS256" /\ ~config.sdkLegacy
          \/ /\ cache' # None
             /\ token[r].kid # cache'.key
             /\ now < cache'.at + Cooldown]_vars

\* A legacy token passes only where the platform allows it, and either the
\* consumer does too or a fetch of the key set failed under the request.
LegacyOnlyAsked ==
    [][\A r \in Slot : Becomes(r, "accepted") /\ token[r].kind = "HS256" =>
          /\ config.keyed => config.platformLegacy
          /\ config.sdkLegacy \/ unlucky[r]]_vars
=============================================================================
