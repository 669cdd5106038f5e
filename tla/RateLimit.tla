----------------------------- MODULE RateLimit -----------------------------
(***************************************************************************)
(* The token bucket of a key (pkg/ratelimit/token_bucket.go) and how the   *)
(* gateway uses it (internal/ratelimit): an image takes one RPM token, a   *)
(* chat over a channel takes two (the entry and the channel branch both    *)
(* ask), and TPM takes the estimate first and the difference afterwards,   *)
(* if it is positive and there is enough left.  The time is read in the    *)
(* caller before the script runs, so scripts of different callers run with *)
(* times out of order.  One tick is the time in which RRefill tokens flow  *)
(* back.                                                                   *)
(***************************************************************************)
EXTENDS Integers, Sequences, FiniteSets, FiniteSetsExt

CONSTANTS
    RCap,           \* tokens of a full bucket
    RRefill,        \* tokens per tick
    RHandlers,      \* HTTP requests
    RMaxDelay,      \* ticks from reading the clock to the script: the timeouts of
                    \* the Redis client keep it below the time to fill a bucket
    RMaxTime,       \* bound on the clock
    RMaxRequests    \* bound on the requests

ASSUME RateLimitAssumption ==
    /\ RCap \in Nat \ {0} /\ RRefill \in Nat \ {0} /\ RMaxTime \in Nat /\ RMaxRequests \in Nat
    /\ IsFiniteSet(RHandlers)
    /\ RMaxDelay \in Nat /\ RMaxDelay * RRefill <= RCap

VARIABLES
    rBucket,    \* the Redis hash: tokens, ts, and when the key expires
    rNow,       \* the clock of the server and of Redis
    rReq,       \* the requests: what they still ask for
    rGranted,   \* tokens taken so far
    rSpare,     \* tokens taken and not used; a request that was let through without
                \* an answer of Redis, or whose difference did not fit, takes none
    rCount      \* requests so far

rVars == <<rBucket, rNow, rReq, rGranted, rSpare, rCount>>

NoBucket == [tokens |-> 0, ts |-> 0, expires |-> -1]
RIdle == [pc |-> "idle"]

RInit ==
    /\ rBucket = NoBucket
    /\ rNow = 0
    /\ rReq = [h \in RHandlers |-> RIdle]
    /\ rGranted = 0 /\ rSpare = 0 /\ rCount = 0

\* Mutant: the key is forgotten before the bucket can be full again.
TTLHalf == RCap \div (2 * RRefill)

\* PEXPIRE: twice the time to fill an empty bucket (rounded up).
TTL == 2 * ((RCap + RRefill - 1) \div RRefill)

\* The bucket the script sees: a missing key is a full bucket.
Refilled(now) ==
    LET b == IF rBucket = NoBucket THEN [tokens |-> RCap, ts |-> now] ELSE rBucket
    IN Min({RCap, b.tokens + (now - b.ts) * RRefill})

\* The Lua script, run with the time the caller read.
Script(now, cost) ==
    LET tokens == Refilled(now)
        ok == tokens >= cost
    IN [ok |-> ok,
        bucket |-> [tokens |-> IF ok THEN tokens - cost ELSE tokens, ts |-> now,
                    expires |-> rNow + TTL]]

\* A request: what it asks for before it is served, and what it turns out
\* to need.  The last two are chats over ChatGPT, estimated at one token.
Kinds == {[ask |-> <<1>>, need |-> 1], [ask |-> <<1, 1>>, need |-> 1],
          [ask |-> <<1>>, need |-> 0], [ask |-> <<1>>, need |-> 2]}

\* AllowRPM and AllowTPM read the clock.
Allow(h, k) ==
    /\ rReq[h] = RIdle
    /\ rCount < RMaxRequests
    /\ rCount' = rCount + 1
    /\ rReq' = [rReq EXCEPT ![h] = [pc |-> "ask", left |-> k.ask, need |-> k.need, at |-> rNow]]
    /\ UNCHANGED <<rBucket, rNow, rGranted, rSpare>>

NextAsk(q) ==
    IF Len(q.left) > 1 THEN [q EXCEPT !.left = Tail(@), !.at = rNow]
    ELSE [q EXCEPT !.pc = "serve", !.left = <<>>, !.at = 0]

\* The script runs; the request is refused or goes on.
Asked(h) ==
    LET q == rReq[h]
        r == Script(q.at, Head(q.left))
    IN /\ q.pc = "ask"
       /\ rBucket' = r.bucket
       /\ rReq' = [rReq EXCEPT ![h] = IF r.ok THEN NextAsk(q) ELSE RIdle]
       /\ rGranted' = IF r.ok THEN rGranted + Head(q.left) ELSE rGranted
       /\ rSpare' = IF r.ok THEN rSpare + Head(q.left) ELSE rSpare
       /\ UNCHANGED <<rNow, rCount>>

\* Redis fails: err # nil lets the request through without a token.
AskFails(h) ==
    LET q == rReq[h]
    IN /\ q.pc = "ask"
       /\ rReq' = [rReq EXCEPT ![h] = NextAsk(q)]
       /\ rSpare' = rSpare + Head(q.left)
       /\ UNCHANGED <<rBucket, rNow, rGranted, rCount>>

\* What AdjustTPM is called with: only a positive difference reaches it.
Difference(need) == IF need > 1 THEN need - 1 ELSE 0

\* The request has been served; AdjustTPM ignores the answer of the script.
Served(h) ==
    LET q == rReq[h]
        d == Difference(q.need)
        r == Script(rNow, d)
    IN /\ q.pc = "serve"
       /\ rBucket' = IF d # 0 THEN r.bucket ELSE rBucket
       /\ rGranted' = IF d # 0 /\ r.ok THEN rGranted + d ELSE rGranted
       /\ rSpare' = rSpare + d - q.need
       /\ rReq' = [rReq EXCEPT ![h] = RIdle]
       /\ UNCHANGED <<rNow, rCount>>

\* Redis drops the key when its time has come.
RTick ==
    /\ rNow < RMaxTime
    /\ \A h \in RHandlers : rReq[h].pc = "ask" => rNow - rReq[h].at < RMaxDelay
    /\ rNow' = rNow + 1
    /\ rBucket' = IF rBucket # NoBucket /\ rBucket.expires <= rNow + 1 THEN NoBucket ELSE rBucket
    /\ UNCHANGED <<rReq, rGranted, rSpare, rCount>>

RNext ==
    \/ \E h \in RHandlers :
          Asked(h) \/ AskFails(h) \/ Served(h) \/ \E k \in Kinds : Allow(h, k)
    \/ RTick

RSpec == RInit /\ [][RNext]_rVars

-----------------------------------------------------------------------------
(* Properties.                                                             *)

\* The script never hands out more than a full bucket and what has flowed
\* back since, with clocks read in any order and through the expiry of the
\* key, as long as no call outlasts the time to fill a bucket; and every token
\* a request uses was taken or excused before: an overestimate is never given
\* back to be taken again.
RateBounded ==
    /\ rGranted <= RCap + RRefill * rNow
    /\ rSpare >= 0
=============================================================================
