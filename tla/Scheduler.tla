----------------------------- MODULE Scheduler -----------------------------
(***************************************************************************)
(* The account scheduler (internal/scheduler) with the Redis lock          *)
(* (pkg/lock), the account rows it reads and writes (internal/account) and *)
(* the proxy allocator (internal/proxy).                                   *)
(*                                                                         *)
(* A worker is a goroutine that serves one request: it lists the           *)
(* dispatchable accounts, walks that SNAPSHOT, takes the lock of the first *)
(* account that passes the checks, leases a proxy, uses the account and    *)
(* releases everything.  One step is one MySQL or Redis call.  Time is     *)
(* discrete; a Redis key is gone once its expiry is reached.               *)
(***************************************************************************)
EXTENDS Integers, FiniteSets

CONSTANTS
    Accounts, Proxies, Workers,
    MinInterval,        \* scheduler.min_interval_sec
    DailyImageQuota,    \* oai_accounts.daily_image_quota (0: no quota)
    RatioPct,           \* daily_usage_ratio, in percent
    LockTTL,            \* scheduler.lock_ttl_sec
    Cooldown429,        \* scheduler.cooldown_429_sec
    WarnedPause,        \* scheduler.warned_pause_hours
    QueueWait,          \* queueWait(): how long Dispatch polls
    MaxHold,            \* the longest time an account is held: the task context
    DayLength,          \* length of a day
    Answers,            \* how upstream calls end: subset of AllAnswers
    MaxTime,            \* bound: the clock stops here
    MaxCrashes          \* bound: process deaths

AllAnswers == {"ok", "rateLimited", "warned", "dead"}

ASSUME SchedulerAssumption ==
    /\ Answers \subseteq AllAnswers
    /\ IsFiniteSet(Workers)
    /\ {MinInterval, LockTTL, MaxHold, DayLength} \subseteq Nat \ {0}
    /\ {DailyImageQuota, RatioPct, Cooldown429, WarnedPause, QueueWait,
        MaxTime, MaxCrashes} \subseteq Nat

VARIABLES
    now,            \* the clock
    row,            \* oai_accounts
    acctLock,       \* Redis acct:lock:{id}
    proxyLock,      \* Redis proxy:lease:{id}
    pc,             \* where the worker is
    snap,           \* candidates it has not tried yet, as ListDispatchable saw them
    snapAt,         \* when it listed them
    deadline,       \* when Dispatch gives up
    wakeAt,         \* end of the back-off sleep
    acct,           \* the account it locked
    plist,          \* proxy candidates it has not tried yet
    proxy,          \* the proxy it leased, or Direct
    since,          \* when it locked the account
    crashes

lockVars == <<acctLock, proxyLock>>
waitVars == <<deadline, wakeAt>>
leaseVars == <<acct, plist, proxy, since>>
vars == <<now, row, lockVars, pc, snap, snapAt, waitVars, leaseVars, crashes>>

Never == -1                 \* SQL NULL for a time
NoOne == "none"             \* a Redis key that does not exist
Direct == "direct"          \* no proxy
NoAccount == "noAccount"

\* The lock tokens are fresh identifiers: none of them reads as "no key".
ASSUME TokenAssumption == NoOne \notin Workers

Statuses == {"healthy", "warned", "throttled", "dead"}
Times == 0 .. MaxTime
Rows == [status : Statuses, cooldown : Int, lastUsed : Times \cup {Never},
         usedDay : Int, usedCount : Nat]
Locks == [token : Workers \cup {NoOne}, expiry : Int]
HeldPcs == {"prepare", "proxy", "use", "markUsed", "releaseProxy", "releaseLock"}
Pcs == {"idle", "scan", "try", "wait", "sleep"} \cup HeldPcs

\* Every row, lock and worker register keeps its type; lastUsed is never in
\* the future.
TypeOK ==
    /\ now \in Times
    /\ row \in [Accounts -> Rows]
    /\ acctLock \in [Accounts -> Locks]
    /\ proxyLock \in [Proxies -> Locks]
    /\ pc \in [Workers -> Pcs]
    /\ DOMAIN snap = Workers
    /\ \A w \in Workers : \E S \in SUBSET Accounts : snap[w] \in [S -> Rows]
    /\ snapAt \in [Workers -> Times]
    /\ deadline \in [Workers -> Times]
    /\ wakeAt \in [Workers -> Nat]
    /\ acct \in [Workers -> Accounts \cup {NoAccount}]
    /\ plist \in [Workers -> SUBSET Proxies]
    /\ proxy \in [Workers -> Proxies \cup {Direct}]
    /\ since \in [Workers -> Times]
    /\ crashes \in 0 .. MaxCrashes
    /\ \A a \in Accounts : row[a].lastUsed <= now

NewRow == [status |-> "healthy", cooldown |-> Never, lastUsed |-> Never,
           usedDay |-> Never, usedCount |-> 0]
Unlocked == [token |-> NoOne, expiry |-> 0]
NoCandidates == [a \in {} |-> NewRow]

Init ==
    /\ now = 0
    /\ row = [a \in Accounts |-> NewRow]
    /\ acctLock = [a \in Accounts |-> Unlocked]
    /\ proxyLock = [p \in Proxies |-> Unlocked]
    /\ pc = [w \in Workers |-> "idle"]
    /\ snap = [w \in Workers |-> NoCandidates]
    /\ snapAt = [w \in Workers |-> 0]
    /\ deadline = [w \in Workers |-> 0]
    /\ wakeAt = [w \in Workers |-> 0]
    /\ acct = [w \in Workers |-> NoAccount]
    /\ plist = [w \in Workers |-> {}]
    /\ proxy = [w \in Workers |-> Direct]
    /\ since = [w \in Workers |-> 0]
    /\ crashes = 0

Goto(w, l) == pc' = [pc EXCEPT ![w] = l]

\* The request is over: the locals of its goroutine are gone.
Forget(w) ==
    /\ snap' = [snap EXCEPT ![w] = NoCandidates]
    /\ snapAt' = [snapAt EXCEPT ![w] = 0]
    /\ deadline' = [deadline EXCEPT ![w] = 0]
    /\ wakeAt' = [wakeAt EXCEPT ![w] = 0]
    /\ acct' = [acct EXCEPT ![w] = NoAccount]
    /\ plist' = [plist EXCEPT ![w] = {}]
    /\ proxy' = [proxy EXCEPT ![w] = Direct]
    /\ since' = [since EXCEPT ![w] = 0]

\* Dispatch returns a lease: the candidates and the deadline are gone.
ReturnLease(w) ==
    /\ Goto(w, "use")
    /\ snap' = [snap EXCEPT ![w] = NoCandidates]
    /\ deadline' = [deadline EXCEPT ![w] = 0]
    /\ plist' = [plist EXCEPT ![w] = {}]

Day(t) == t \div DayLength

-----------------------------------------------------------------------------
(* pkg/lock.                                                               *)

\* The token GET returns: NoOne if the key expired (Tick) or was deleted.
Holder(lock) == lock.token

\* Redis drops a key when its expiry is reached.
Expired(lock, t) == IF lock.expiry <= t THEN Unlocked ELSE lock

\* Mutant: SET NX without a TTL.
SetNXForever(w) == [token |-> w, expiry |-> MaxTime + 1]

\* Mutant: the TTL is passed in the wrong unit.
SetNXShort(w) == [token |-> w, expiry |-> now + 1]

\* Acquire: SET NX with a TTL.
SetNX(w) == [token |-> w, expiry |-> now + LockTTL]

\* Mutant: Release deletes the key whoever holds it.
ReleasedBlindly(lock, w) == Unlocked

\* Release: compare-and-delete; an uncompared key would be someone else's.
Released(lock, w) == IF Holder(lock) = w THEN Unlocked ELSE lock

-----------------------------------------------------------------------------
(* Dispatch: list, check, lock.                                            *)

Arrive(w) ==
    /\ pc[w] = "idle"
    /\ now + QueueWait + MaxHold <= MaxTime
    /\ deadline' = [deadline EXCEPT ![w] = now + QueueWait]
    /\ Goto(w, "scan")
    /\ UNCHANGED <<now, row, lockVars, snap, snapAt, wakeAt, leaseVars, crashes>>

\* The WHERE clause of ListDispatchable (tokens do not expire here).
Dispatchable(r) == r.status \in {"healthy", "warned"} /\ r.cooldown <= now

\* ListDispatchable; no candidate at all is ErrNoAvailable.
List(w) ==
    /\ pc[w] = "scan"
    /\ LET found == {a \in Accounts : Dispatchable(row[a])} IN
          /\ snap' = [snap EXCEPT ![w] = [a \in found |-> row[a]]]
          /\ Goto(w, IF found = {} THEN "wait" ELSE "try")
    /\ snapAt' = [snapAt EXCEPT ![w] = now]
    /\ UNCHANGED <<now, row, lockVars, waitVars, leaseVars, crashes>>

\* The query fails: Dispatch returns its error.
ListError(w) ==
    /\ pc[w] = "scan"
    /\ Goto(w, "idle")
    /\ Forget(w)
    /\ UNCHANGED <<now, row, lockVars, crashes>>

\* ORDER BY: healthy before warned, then the least recently used first.
Before(x, y) ==
    \/ x.status = "healthy" /\ y.status # "healthy"
    \/ (x.status = "healthy") = (y.status = "healthy") /\ x.lastUsed < y.lastUsed

IsNext(w, a) ==
    /\ a \in DOMAIN snap[w]
    /\ \A b \in DOMAIN snap[w] : ~Before(snap[w][b], snap[w][a])

DropCandidate(w, a) ==
    snap' = [snap EXCEPT ![w] = [b \in DOMAIN @ \ {a} |-> @[b]]]

\* Mutant: the min-interval comparison is off by one.
IntervalPassedEarly(r, t) == r.lastUsed = Never \/ t - r.lastUsed >= MinInterval - 1

\* last_used_at against min_interval_sec.
IntervalPassed(r, t) == r.lastUsed = Never \/ t - r.lastUsed >= MinInterval

\* int(daily_image_quota * ratio): truncated, and 0 means unlimited.
MaxUses == (DailyImageQuota * RatioPct) \div 100
UsedToday(r, t) == IF r.usedDay = Day(t) THEN r.usedCount ELSE 0

\* Mutant: usedToday > max.
UnderQuotaLoose(r, t) == MaxUses > 0 => UsedToday(r, t) <= MaxUses

UnderQuota(r, t) == MaxUses > 0 => UsedToday(r, t) < MaxUses

\* The checks of tryDispatchOnce, made on the listed row, not on the table.
Eligible(w, a) == IntervalPassed(snap[w][a], snapAt[w]) /\ UnderQuota(snap[w][a], snapAt[w])

\* The candidate fails a check, or another request holds its lock.
SkipCandidate(w, a) ==
    /\ pc[w] = "try"
    /\ IsNext(w, a)
    /\ ~Eligible(w, a) \/ Holder(acctLock[a]) # NoOne
    /\ DropCandidate(w, a)
    /\ UNCHANGED <<now, row, lockVars, pc, snapAt, waitVars, leaseVars, crashes>>

LockAccount(w, a) ==
    /\ pc[w] = "try"
    /\ IsNext(w, a)
    /\ Eligible(w, a)
    /\ Holder(acctLock[a]) = NoOne
    /\ acctLock' = [acctLock EXCEPT ![a] = SetNX(w)]
    /\ DropCandidate(w, a)
    /\ acct' = [acct EXCEPT ![w] = a]
    /\ since' = [since EXCEPT ![w] = now]
    /\ Goto(w, "prepare")
    /\ UNCHANGED <<now, row, proxyLock, snapAt, waitVars, plist, proxy, crashes>>

\* The snapshot is exhausted: ErrNoAvailable for this pass.
NoneAvailable(w) ==
    /\ pc[w] = "try"
    /\ DOMAIN snap[w] = {}
    /\ Goto(w, "wait")
    /\ UNCHANGED <<now, row, lockVars, snap, snapAt, waitVars, leaseVars, crashes>>

\* Decrypt the token, ensure the device ids, list the proxy candidates
\* (enabled, healthy): any subset of the proxies.
Prepare(w) ==
    /\ pc[w] = "prepare"
    /\ \E S \in SUBSET Proxies : plist' = [plist EXCEPT ![w] = S]
    /\ Goto(w, "proxy")
    /\ UNCHANGED <<now, row, lockVars, snap, snapAt, waitVars, acct, proxy, since, crashes>>

\* tryLock fails after Acquire (decryption, the proxy list, the proxy URL,
\* TouchLastUsed): it deletes the keys it took, and the next candidate is tried.
TryLockError(w) ==
    /\ pc[w] \in {"prepare", "proxy"}
    /\ acctLock' = [acctLock EXCEPT ![acct[w]] = Released(@, w)]
    /\ acct' = [acct EXCEPT ![w] = NoAccount]
    /\ since' = [since EXCEPT ![w] = 0]
    /\ plist' = [plist EXCEPT ![w] = {}]
    /\ Goto(w, "try")
    /\ UNCHANGED <<now, row, proxyLock, snap, snapAt, waitVars, proxy, crashes>>

\* The client goes away inside tryLock: the proxy calls fail, and so do the
\* Releases, which use the same context.  The keys stay until they expire.
TryLockCancelled(w) ==
    /\ pc[w] \in {"prepare", "proxy"}
    /\ \/ UNCHANGED proxyLock
       \/ \E p \in plist[w] :
             /\ Holder(proxyLock[p]) = NoOne
             /\ proxyLock' = [proxyLock EXCEPT ![p] = SetNX(w)]
    /\ Goto(w, "idle")
    /\ Forget(w)
    /\ UNCHANGED <<now, row, acctLock, crashes>>

\* Allocator.Lease takes the first free proxy of its list.
LeaseProxy(w, p) ==
    /\ pc[w] = "proxy"
    /\ p \in plist[w]
    /\ Holder(proxyLock[p]) = NoOne
    /\ proxyLock' = [proxyLock EXCEPT ![p] = SetNX(w)]
    /\ proxy' = [proxy EXCEPT ![w] = p]
    /\ ReturnLease(w)
    /\ UNCHANGED <<now, row, acctLock, snapAt, wakeAt, acct, since, crashes>>

\* Another request leases the proxy: the next one.
SkipProxy(w, p) ==
    /\ pc[w] = "proxy"
    /\ p \in plist[w]
    /\ Holder(proxyLock[p]) # NoOne
    /\ plist' = [plist EXCEPT ![w] = @ \ {p}]
    /\ UNCHANGED <<now, row, lockVars, pc, snap, snapAt, waitVars, acct, proxy, since, crashes>>

\* Every proxy is taken: the request connects directly.
GoDirect(w) ==
    /\ pc[w] = "proxy"
    /\ plist[w] = {}
    /\ ReturnLease(w)
    /\ UNCHANGED <<now, row, lockVars, snapAt, wakeAt, acct, proxy, since, crashes>>

\* Mutant: the deadline moves with every pass.
BackOffNoDeadline(w) ==
    /\ pc[w] = "wait"
    /\ wakeAt' = [wakeAt EXCEPT ![w] = now + 1]
    /\ deadline' = [deadline EXCEPT ![w] = now + 1]
    /\ Goto(w, "sleep")
    /\ UNCHANGED <<now, row, lockVars, snap, snapAt, leaseVars, crashes>>

\* Every candidate is busy or not ready, and the deadline is ahead: sleep
\* (the back-off is shorter than a tick or a few ticks; here it is one).
BackOff(w) ==
    /\ pc[w] = "wait"
    /\ now < deadline[w]
    /\ wakeAt' = [wakeAt EXCEPT ![w] = now + 1]
    /\ Goto(w, "sleep")
    /\ UNCHANGED <<now, row, lockVars, snap, snapAt, deadline, leaseVars, crashes>>

Wake(w) ==
    /\ pc[w] = "sleep"
    /\ now >= wakeAt[w]
    /\ wakeAt' = [wakeAt EXCEPT ![w] = 0]
    /\ Goto(w, "scan")
    /\ UNCHANGED <<now, row, lockVars, snap, snapAt, deadline, leaseVars, crashes>>

\* ErrNoAvailable: the deadline passed.
GiveUp(w) ==
    /\ pc[w] = "wait"
    /\ now >= deadline[w]
    /\ Goto(w, "idle")
    /\ Forget(w)
    /\ UNCHANGED <<now, row, lockVars, crashes>>

\* ctx.Done() while sleeping: the client went away.
Cancel(w) ==
    /\ pc[w] = "sleep"
    /\ Goto(w, "idle")
    /\ Forget(w)
    /\ UNCHANGED <<now, row, lockVars, crashes>>

-----------------------------------------------------------------------------
(* The lease in use, and its release.                                      *)

\* DAO.SetStatus overwrites status and cooldown_until.
SetStatus(a, s, until) == row' = [row EXCEPT ![a].status = s, ![a].cooldown = until]

\* The upstream call ends; depending on its answer the account is marked.
\* (A mark whose context is already cancelled is lost: the first case.)
UseEnds(w) ==
    /\ pc[w] = "use"
    /\ \/ "ok" \in Answers /\ UNCHANGED row
       \/ "rateLimited" \in Answers /\ SetStatus(acct[w], "throttled", now + Cooldown429)
       \/ "warned" \in Answers /\ SetStatus(acct[w], "warned", now + WarnedPause)
       \/ "dead" \in Answers /\ SetStatus(acct[w], "dead", Never)
    /\ Goto(w, "markUsed")
    /\ snapAt' = [snapAt EXCEPT ![w] = 0]
    /\ UNCHANGED <<now, lockVars, snap, waitVars, leaseVars, crashes>>

\* The deferred Release, first call: MarkUsed.  An error does not stop the
\* other two calls.
MarkUsed(w) ==
    /\ pc[w] = "markUsed"
    /\ \/ row' = [row EXCEPT ![acct[w]].lastUsed = now,
                             ![acct[w]].usedDay = Day(now),
                             ![acct[w]].usedCount = UsedToday(row[acct[w]], now) + 1]
       \/ UNCHANGED row
    /\ Goto(w, "releaseProxy")
    /\ UNCHANGED <<now, lockVars, snap, snapAt, waitVars, leaseVars, crashes>>

\* Second call: the proxy lease, if there is one.
ReleaseProxy(w) ==
    /\ pc[w] = "releaseProxy"
    /\ proxyLock' = IF proxy[w] = Direct THEN proxyLock
                    ELSE [proxyLock EXCEPT ![proxy[w]] = Released(@, w)]
    /\ proxy' = [proxy EXCEPT ![w] = Direct]
    /\ Goto(w, "releaseLock")
    /\ UNCHANGED <<now, row, acctLock, snap, snapAt, waitVars, acct, plist, since, crashes>>

\* Third call: the account lock.
ReleaseLock(w) ==
    /\ pc[w] = "releaseLock"
    /\ acctLock' = [acctLock EXCEPT ![acct[w]] = Released(@, w)]
    /\ Goto(w, "idle")
    /\ Forget(w)
    /\ UNCHANGED <<now, row, proxyLock, crashes>>

-----------------------------------------------------------------------------
(* The rest of the world.                                                  *)

Holds(w) == pc[w] \in HeldPcs

\* Time passes, but never so much that a task outlives its context.
Tick ==
    /\ now < MaxTime
    /\ \A w \in Workers : Holds(w) => now < since[w] + MaxHold
    /\ now' = now + 1
    /\ acctLock' = [a \in Accounts |-> Expired(acctLock[a], now + 1)]
    /\ proxyLock' = [p \in Proxies |-> Expired(proxyLock[p], now + 1)]
    /\ UNCHANGED <<row, pc, snap, snapAt, waitVars, leaseVars, crashes>>

\* The process of a worker dies: its Redis keys stay until they expire.
Crash(w) ==
    /\ crashes < MaxCrashes
    /\ pc[w] # "idle"
    /\ crashes' = crashes + 1
    /\ Goto(w, "idle")
    /\ Forget(w)
    /\ UNCHANGED <<now, row, lockVars>>

\* The administrator sets an account healthy; cooldown_until is not touched.
AdminRestore(a) ==
    /\ row[a].status # "healthy"
    /\ row' = [row EXCEPT ![a].status = "healthy"]
    /\ UNCHANGED <<now, lockVars, pc, snap, snapAt, waitVars, leaseVars, crashes>>

Dispatch(w) ==
    \/ List(w)
    \/ \E a \in Accounts : SkipCandidate(w, a) \/ LockAccount(w, a)
    \/ NoneAvailable(w)
    \/ Prepare(w)
    \/ TryLockError(w)
    \/ \E p \in Proxies : LeaseProxy(w, p) \/ SkipProxy(w, p)
    \/ GoDirect(w)
    \/ BackOff(w)
    \/ Wake(w)
    \/ GiveUp(w)

UseAndRelease(w) == UseEnds(w) \/ MarkUsed(w) \/ ReleaseProxy(w) \/ ReleaseLock(w)

Next ==
    \/ \E w \in Workers :
          Arrive(w) \/ Dispatch(w) \/ Cancel(w) \/ ListError(w) \/ TryLockCancelled(w) \/ UseAndRelease(w) \/ Crash(w)
    \/ Tick
    \/ \E a \in Accounts : AdminRestore(a)

Spec == Init /\ [][Next]_vars

\* Goroutines run, Redis and MySQL answer, the clock goes on.  Arrivals,
\* cancellations, crashes and the administrator owe nothing.
Fairness ==
    /\ \A w \in Workers : WF_vars(Dispatch(w)) /\ WF_vars(UseAndRelease(w))
    /\ WF_vars(Tick)

FairSpec == Spec /\ Fairness

-----------------------------------------------------------------------------
(* Properties.                                                             *)

\* A worker that holds an account still owns its Redis key: no lease lives
\* on after its lock (needs MaxHold < LockTTL; nobody calls Refresh).
LeaseBacked ==
    \A w \in Workers :
        Holds(w) => /\ Holder(acctLock[acct[w]]) = w
                    /\ proxy[w] # Direct => Holder(proxyLock[proxy[w]]) = w

\* One account, one request; one proxy, one request.
OneHolder ==
    \A v, w \in Workers :
        v # w /\ Holds(v) /\ Holds(w) =>
            /\ acct[v] # acct[w]
            /\ proxy[v] = Direct \/ proxy[v] # proxy[w]

\* min_interval_sec is missed only when the previous request released the
\* account after this one had listed it: the check uses the listed row.
IntervalMissedOnlyByStaleScan ==
    \A w \in Workers :
        pc[w] \in {"prepare", "proxy", "use"} =>
            LET r == row[acct[w]] IN
                \/ r.lastUsed = Never
                \/ since[w] - r.lastUsed >= MinInterval
                \/ r.lastUsed >= snapAt[w]

\* The stale check overshoots the daily quota by at most one request per
\* other worker.
QuotaOvershootBounded ==
    MaxUses > 0 =>
        \A a \in Accounts : row[a].usedCount <= MaxUses - 1 + Cardinality(Workers)

\* Release never deletes the key of a later holder, even when the lease
\* outlived its own key: an unexpired key only disappears by its owner.
OnlyOwnerUnlocks ==
    [][\A a \in Accounts : \A w \in Workers :
          Holder(acctLock[a]) = w /\ acctLock'[a] # acctLock[a] /\ now' = now =>
              pc[w] \in {"prepare", "proxy", "releaseLock"} /\ pc'[w] # pc[w]]_vars

\* Dispatch ends: with a lease, with ErrNoAvailable at the deadline, or
\* because its request went away.
DispatchEnds == \A w \in Workers : pc[w] = "scan" ~> pc[w] \in {"use", "idle"}

\* Whoever locked an account, and whether it released the key, crashed or
\* was cancelled inside tryLock: the account becomes free again (asked of
\* keys that can expire before the bound of the clock).
AccountFreed ==
    \A a \in Accounts :
        Holder(acctLock[a]) # NoOne /\ now + LockTTL <= MaxTime ~> Holder(acctLock[a]) = NoOne
=============================================================================
