----------------------------- MODULE LoginGuard -----------------------------
(* POST /auth/login behind its two limiters (middleware/rateLimit.ts), with *)
(* the audit row every judged attempt leaves.  The counters live in Redis, *)
(* which may refuse, lose an answer or restart empty; the limiters then    *)
(* fail open.  Requests count, check and write in separate round trips.    *)
EXTENDS AuditTrail

CONSTANTS
    Ip,
    Account,      \* pairs of a client and an email
    Window,       \* windowMs of both limiters
    MaxIp,        \* max of loginIpLimiter
    MaxAccount,   \* max of loginAccountLimiter
    MaxFaults     \* bound: failures of Redis

ASSUME GuardAssumption ==
    /\ Window \in Nat \ {0}
    /\ MaxIp \in Nat \ {0}
    /\ MaxAccount \in Nat \ {0}
    /\ MaxFaults \in Nat

\* A counter of each layer's: the IP's and the account's at that IP.
IpKey == Ip \X {None}
AccountKey == Ip \X Account
Counter == IpKey \cup AccountKey
Allowance(k) == IF k \in IpKey THEN MaxIp ELSE MaxAccount

VARIABLES
    count,        \* INCR's value and the TTL's end; n = 0 where no key exists
    pc,           \* where each request is
    from,         \* the account at an IP each request tries
    faults,       \* failures of Redis so far
    arrived,      \* requests so far
    passed        \* history: requests each counter let through before each
                  \* tick, for a tick to come those of so far

redis == <<count, faults>>
requests == <<arrived, pc, from>>
vars == <<now, trail, redis, requests, passed>>

TypeOK ==
    /\ TrailTypeOK
    /\ count \in [Counter -> [n : Nat, ends : 0 .. MaxTime + Window]]
    /\ pc \in [Writer -> {"idle", "ip", "account", "judged", "auditing"}]
    /\ from \in [Writer -> AccountKey \cup {None}]
    /\ faults \in 0 .. MaxFaults
    /\ arrived \in 0 .. MaxRows
    /\ passed \in [Counter -> [0 .. MaxTime + 1 -> Nat]]

Init ==
    /\ TrailInit
    /\ count = [k \in Counter |-> [n |-> 0, ends |-> 0]]
    /\ pc = [w \in Writer |-> "idle"]
    /\ from = [w \in Writer |-> None]
    /\ faults = 0
    /\ arrived = 0
    /\ passed = [k \in Counter |-> [t \in 0 .. MaxTime + 1 |-> 0]]

-----------------------------------------------------------------------------
(* rateLimit                                                               *)

Goto(w, a) == pc' = [pc EXCEPT ![w] = a] /\ UNCHANGED <<arrived, from>>

Finish(w) ==
    /\ pc' = [pc EXCEPT ![w] = "idle"]
    /\ from' = [from EXCEPT ![w] = None]
    /\ UNCHANGED arrived

\* EXPIRE without NX: every attempt renews the window.
Incremented_Renews(c) == [n |-> c.n + 1, ends |-> now + Window]

\* MULTI INCR, EXPIRE NX, TTL: only a counter without an end gets one.
Incremented(c) ==
    [n |-> c.n + 1, ends |-> IF c.ends = 0 THEN now + Window ELSE c.ends]

KeyOf(w) == IF pc[w] = "ip" THEN <<from[w][1], None>> ELSE from[w]

Pass(w, k) ==
    /\ passed' = [passed EXCEPT ![k] = [t \in 0 .. MaxTime + 1 |->
                     IF t > now THEN passed[k][t] + 1 ELSE passed[k][t]]]
    /\ Goto(w, IF pc[w] = "ip" THEN "account" ELSE "judged")

\* The IP's counter is read in one round trip and incremented in the next, where
\* another request has read it too.
Limiter_ChecksFirst(w) ==
    LET k == KeyOf(w)
        ip == <<from[w][1], None>> IN
    /\ pc[w] \in {"ip", "account"}
    /\ count' = IF k = ip THEN count ELSE [count EXCEPT ![ip] = Incremented(@),
                                                       ![k] = Incremented(@)]
    /\ IF (k = ip /\ count[k].n >= MaxIp) \/ count'[k].n > Allowance(k)
       THEN Finish(w) /\ UNCHANGED passed
       ELSE Pass(w, k)
    /\ UNCHANGED <<now, trail, faults>>

\* The limiter's answer: 429 beyond the allowance.
Limiter(w) ==
    LET k == KeyOf(w) IN
    /\ pc[w] \in {"ip", "account"}
    /\ count' = [count EXCEPT ![k] = Incremented(@)]
    /\ IF count'[k].n > Allowance(k) THEN Finish(w) /\ UNCHANGED passed
                               ELSE Pass(w, k)
    /\ UNCHANGED <<now, trail, faults>>

\* Redis refuses, or its answer is lost after it has counted: fail open.
FailOpen(w) ==
    LET k == KeyOf(w) IN
    /\ pc[w] \in {"ip", "account"}
    /\ faults < MaxFaults
    /\ faults' = faults + 1
    /\ count' \in {count, [count EXCEPT ![k] = Incremented(@)]}
    /\ Pass(w, k)
    /\ UNCHANGED <<now, trail>>

\* Redis restarts without its counters.
LoseCounters ==
    /\ faults < MaxFaults
    /\ faults' = faults + 1
    /\ count' = [k \in Counter |-> [n |-> 0, ends |-> 0]]
    /\ UNCHANGED <<now, trail, requests, passed>>

-----------------------------------------------------------------------------
(* POST /auth/login                                                        *)

Arrive(w) ==
    /\ pc[w] = "idle"
    /\ arrived < MaxRows
    /\ arrived' = arrived + 1
    /\ \E a \in AccountKey : from' = [from EXCEPT ![w] = a]
    /\ pc' = [pc EXCEPT ![w] = "ip"]
    /\ UNCHANGED <<now, trail, redis, passed>>

\* A malformed body or wrong client credentials: nothing is recorded.
Reject(w) ==
    /\ pc[w] = "judged"
    /\ Finish(w)
    /\ UNCHANGED <<now, trail, redis, passed>>

\* The audit write is not awaited.
Judge_NotAwaited(w) ==
    /\ pc[w] = "judged"
    /\ BeginInsert(w)
    /\ Finish(w)
    /\ UNCHANGED <<now, redis, passed>>

\* The password has been looked at: user.login_failed or user.login.
Judge(w) ==
    /\ pc[w] = "judged"
    /\ BeginInsert(w)
    /\ Goto(w, "auditing")
    /\ UNCHANGED <<now, redis, passed>>

\* The insert is awaited: the answer goes out with the row written, or with
\* the write failed.
Answer(w) ==
    /\ CommitInsert(w) \/ FailInsert(w)
    /\ Finish(w)
    /\ UNCHANGED <<now, redis, passed>>

\* Rows of requests that were answered; without the await, a row may still be
\* on its way.
Promised == rows \cup {insert[w] : w \in {v \in Writer : insert[v] # NoRow
                                                       /\ pc[v] = "idle"}}

Read == StartReading(Promised) /\ UNCHANGED <<redis, requests, passed>>
ReadOn == NextPage /\ UNCHANGED <<redis, requests, passed>>
Cleanup == CleanupExpiredAuditLogs /\ UNCHANGED <<redis, requests, passed>>

\* Redis drops the counters that have come to their end.
Tick ==
    /\ now < MaxTime
    /\ now' = now + 1
    /\ count' = [k \in Counter |-> IF count[k].ends = now + 1
                                   THEN [n |-> 0, ends |-> 0] ELSE count[k]]
    /\ UNCHANGED <<trail, faults, requests, passed>>

Next ==
    \/ LoseCounters \/ Read \/ ReadOn \/ Cleanup \/ Tick
    \/ \E w \in Writer : Arrive(w) \/ Limiter(w) \/ FailOpen(w) \/ Reject(w)
                         \/ Judge(w) \/ Answer(w)

Spec == Init /\ [][Next]_vars

-----------------------------------------------------------------------------
(* Properties                                                              *)

\* Let through in the last Window ticks, the present one among them.
Earliest == IF now + 1 >= Window THEN now + 1 - Window ELSE 0
PassedLately(k) == passed[k][now + 1] - passed[k][Earliest]

\* Fixed windows: in any time as long as a window pass less than two allowances,
\* and one more for each failure of Redis.
AllowanceHolds ==
    \A k \in Counter : PassedLately(k) < (2 + faults) * Allowance(k)

\* A request is refused by a counter only if that counter let through a whole
\* allowance in the last window: trying on after a refusal keeps nobody locked
\* out for longer.  The IP's counter refuses an account for what others at the
\* address did; an account's own counter, only for attempts on that account.
RefusedForCause ==
    [][\A w \in Writer :
          pc[w] \in {"ip", "account"} /\ pc'[w] = "idle" =>
              PassedLately(KeyOf(w)) >= Allowance(KeyOf(w))]_vars
=============================================================================
