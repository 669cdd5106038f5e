-------------------------- MODULE SchedulerProofs --------------------------
(***************************************************************************)
(* Proofs about Scheduler for every set of accounts, proxies and workers,  *)
(* every configuration and every bound.                                    *)
(***************************************************************************)
EXTENDS Scheduler, FiniteSetTheorems, TLAPS

\* The settings are numbers.
LEMMA Settings ==
  /\ MinInterval \in Nat /\ LockTTL \in Nat /\ MaxHold \in Nat /\ DayLength \in Nat \ {0}
  /\ DailyImageQuota \in Nat /\ RatioPct \in Nat /\ Cooldown429 \in Nat
  /\ WarnedPause \in Nat /\ QueueWait \in Nat /\ MaxTime \in Nat /\ MaxCrashes \in Nat
BY SchedulerAssumption

\* Days and quotas are numbers.
LEMMA DayType == \A t \in Nat : Day(t) \in Nat
BY Settings DEF Day

\* Later times are not on earlier days.
LEMMA DayMonotone ==
  ASSUME NEW s \in Nat, NEW t \in Nat, s <= t
  PROVE  Day(s) <= Day(t)
BY Settings DEF Day

LEMMA UsesType == MaxUses \in Nat
BY Settings DEF MaxUses

\* A request that ends leaves its registers typed.
LEMMA ForgetType ==
  ASSUME TypeOK, NEW w \in Workers, Forget(w)
  PROVE  /\ DOMAIN snap' = Workers
         /\ \A v \in Workers : \E S \in SUBSET Accounts : snap'[v] \in [S -> Rows]
         /\ snapAt' \in [Workers -> Times]
         /\ deadline' \in [Workers -> Times]
         /\ wakeAt' \in [Workers -> Nat]
         /\ acct' \in [Workers -> Accounts \cup {NoAccount}]
         /\ plist' \in [Workers -> SUBSET Proxies]
         /\ proxy' \in [Workers -> Proxies \cup {Direct}]
         /\ since' \in [Workers -> Times]
<1>1. 0 \in Times
  BY Settings DEF Times
<1>2. NoCandidates \in [{} -> Rows]
  BY DEF NoCandidates
<1>3. \A v \in Workers : \E S \in SUBSET Accounts : snap'[v] \in [S -> Rows]
  BY <1>2 DEF Forget, TypeOK
<1> QED  BY <1>1, <1>3 DEF Forget, TypeOK

\* Setting, releasing and expiring a key leaves a key.
LEMMA LockType ==
  ASSUME TypeOK, NEW w \in Workers
  PROVE  /\ SetNX(w) \in Locks
         /\ \A l \in Locks : Released(l, w) \in Locks
         /\ \A l \in Locks, t \in Int : Expired(l, t) \in Locks
BY Settings DEF TypeOK, Times, Locks, SetNX, Released, Holder, Unlocked, Expired

\* The marks of UseEnds and the administrator's restore touch nothing else.
LEMMA MarksKeepUsage ==
  ASSUME TypeOK, NEW a, SetStatus(a, "throttled", now + Cooldown429)
                        \/ SetStatus(a, "warned", now + WarnedPause)
                        \/ SetStatus(a, "dead", Never)
                        \/ row' = [row EXCEPT ![a].status = "healthy"]
  PROVE  /\ row' \in [Accounts -> Rows]
         /\ \A b \in Accounts : /\ row'[b].lastUsed = row[b].lastUsed
                                /\ row'[b].usedDay = row[b].usedDay
                                /\ row'[b].usedCount = row[b].usedCount
<1> DEFINE Kept(b) == /\ row'[b] \in Rows
                      /\ row'[b].lastUsed = row[b].lastUsed
                      /\ row'[b].usedDay = row[b].usedDay
                      /\ row'[b].usedCount = row[b].usedCount
<1>1. ASSUME NEW s \in Statuses, NEW until \in Int, SetStatus(a, s, until),
             NEW b \in Accounts
      PROVE  Kept(b)
  <2>1. row[b] \in Rows
    BY DEF TypeOK
  <2>2. row'[b] = IF b = a THEN [row[b] EXCEPT !.status = s, !.cooldown = until] ELSE row[b]
    BY <1>1 DEF SetStatus, TypeOK
  <2> QED  BY <2>1, <2>2 DEF Rows
<1>2. ASSUME row' = [row EXCEPT ![a].status = "healthy"], NEW b \in Accounts
      PROVE  Kept(b)
  <2>1. row[b] \in Rows
    BY DEF TypeOK
  <2>2. row'[b] = IF b = a THEN [row[b] EXCEPT !.status = "healthy"] ELSE row[b]
    BY <1>2 DEF TypeOK
  <2> QED  BY <2>1, <2>2 DEF Rows, Statuses
<1>3. row' = [b \in Accounts |-> row'[b]]
  BY DEF SetStatus, TypeOK
<1>4. /\ now + Cooldown429 \in Int /\ now + WarnedPause \in Int /\ Never \in Int
      /\ {"throttled", "warned", "dead"} \subseteq Statuses
  BY Settings DEF TypeOK, Times, Never, Statuses
<1> QED  BY <1>1, <1>2, <1>3, <1>4

\* MarkUsed writes the usage columns of one row.
LEMMA UsageWrite ==
  ASSUME TypeOK, NEW w \in Workers, MarkUsed(w), row' # row
  PROVE  /\ row' \in [Accounts -> Rows]
         /\ \A b \in Accounts :
               IF b = acct[w]
               THEN /\ row'[b].lastUsed = now
                    /\ row'[b].usedDay = Day(now)
                    /\ row'[b].usedCount = UsedToday(row[b], now) + 1
               ELSE row'[b] = row[b]
<1> DEFINE new(b) == [row[b] EXCEPT !.lastUsed = now, !.usedDay = Day(now),
                                    !.usedCount = UsedToday(row[b], now) + 1]
<1>1. row' = [b \in Accounts |-> IF b = acct[w] THEN new(b) ELSE row[b]]
  BY DEF MarkUsed, TypeOK
<1>2. ASSUME NEW b \in Accounts
      PROVE  /\ new(b) \in Rows /\ new(b).lastUsed = now /\ new(b).usedDay = Day(now)
             /\ new(b).usedCount = UsedToday(row[b], now) + 1
    <2>1. row[b] \in Rows /\ now \in Times /\ now \in Nat
      BY Settings DEF TypeOK, Times
    <2>2. Day(now) \in Int
      BY <2>1, DayType
    <2>3. UsedToday(row[b], now) \in Nat
      BY <2>1 DEF UsedToday, Rows
    <2> DEFINE x == [row[b] EXCEPT !.lastUsed = now]
               y == [x EXCEPT !.usedDay = Day(now)]
               z == [y EXCEPT !.usedCount = UsedToday(row[b], now) + 1]
    <2>4. x \in Rows /\ x.lastUsed = now
      BY <2>1 DEF Rows
    <2>5. y \in Rows /\ y.lastUsed = now /\ y.usedDay = Day(now)
      <3> HIDE DEF x
      <3> QED  BY <2>2, <2>4 DEF Rows
    <2>6. /\ z \in Rows /\ z.lastUsed = now /\ z.usedDay = Day(now)
          /\ z.usedCount = UsedToday(row[b], now) + 1
      <3> HIDE DEF y
      <3> QED  BY <2>3, <2>5 DEF Rows
    <2>7. z = new(b)
      OBVIOUS
    <2> QED  BY <2>6, <2>7
<1> HIDE DEF new
<1>3. ASSUME NEW b \in Accounts
      PROVE  /\ row'[b] \in Rows
             /\ IF b = acct[w]
                THEN /\ row'[b].lastUsed = now
                     /\ row'[b].usedDay = Day(now)
                     /\ row'[b].usedCount = UsedToday(row[b], now) + 1
                ELSE row'[b] = row[b]
  <2>1. row[b] \in Rows
    BY DEF TypeOK
  <2>2. row'[b] = IF b = acct[w] THEN new(b) ELSE row[b]
    BY <1>1
  <2> QED  BY <1>2, <2>1, <2>2
<1> QED  BY <1>1, <1>3

\* Every row, key and register of the scheduler keeps its type, and no
\* account was last used in the future.
THEOREM SchedulerType == Spec => []TypeOK
<1>1. Init => TypeOK
  <2> SUFFICES ASSUME Init PROVE TypeOK
    OBVIOUS
  <2>1. NewRow \in Rows /\ NewRow.lastUsed = -1
    BY Settings DEF NewRow, Rows, Statuses, Times, Never
  <2>2. NoCandidates \in [{} -> Rows]
    BY DEF NoCandidates
  <2>3. \A w \in Workers : \E S \in SUBSET Accounts : snap[w] \in [S -> Rows]
    BY <2>2 DEF Init
  <2> QED
    BY <2>1, <2>3, Settings DEF Init, TypeOK, Times, Locks, Unlocked, Pcs
<1>2. TypeOK /\ [Next]_vars => TypeOK'
  <2> SUFFICES ASSUME TypeOK, [Next]_vars PROVE TypeOK'
    OBVIOUS
  <2>0. now \in Nat /\ now \in Times /\ now <= MaxTime
    BY Settings DEF TypeOK, Times
  <2> USE Settings, <2>0 DEF Goto, lockVars, waitVars, leaseVars
  <2>1. ASSUME NEW w \in Workers, Arrive(w) PROVE TypeOK'
    BY <2>1 DEF Arrive, TypeOK, Pcs, Times
  <2>2. ASSUME NEW w \in Workers, Dispatch(w) PROVE TypeOK'
    <3>1. CASE List(w)
      <4> DEFINE found == {a \in Accounts : Dispatchable(row[a])}
      <4>1. [a \in found |-> row[a]] \in [found -> Rows] /\ found \subseteq Accounts
        BY DEF TypeOK
      <4> HIDE DEF found
      <4>2. snap' = [snap EXCEPT ![w] = [a \in found |-> row[a]]]
        BY <3>1 DEF List, found
      <4>3. \A v \in Workers : \E S \in SUBSET Accounts : snap'[v] \in [S -> Rows]
        BY <4>1, <4>2 DEF TypeOK
      <4>4. DOMAIN snap' = Workers
        BY <4>2 DEF TypeOK
      <4>5. pc' \in [Workers -> Pcs]
        BY <3>1 DEF List, TypeOK, Pcs
      <4> QED  BY <3>1, <4>3, <4>4, <4>5 DEF List, TypeOK
    <3>2. ASSUME NEW a \in Accounts, SkipCandidate(w, a) \/ LockAccount(w, a) PROVE TypeOK'
      <4>1. snap' = [snap EXCEPT ![w] = [b \in DOMAIN snap[w] \ {a} |-> snap[w][b]]]
        BY <3>2 DEF SkipCandidate, LockAccount, DropCandidate
      <4>2. PICK S \in SUBSET Accounts : snap[w] \in [S -> Rows]
        BY DEF TypeOK
      <4>3. [b \in DOMAIN snap[w] \ {a} |-> snap[w][b]] \in [S \ {a} -> Rows]
        BY <4>2
      <4>4. \A v \in Workers : \E T \in SUBSET Accounts : snap'[v] \in [T -> Rows]
        BY <4>1, <4>3 DEF TypeOK
      <4>5. DOMAIN snap' = Workers
        BY <4>1 DEF TypeOK
      <4>6. CASE SkipCandidate(w, a)
        BY <4>4, <4>5, <4>6 DEF SkipCandidate, TypeOK
      <4>7. CASE LockAccount(w, a)
        BY <4>4, <4>5, <4>7, LockType DEF LockAccount, TypeOK, Pcs, HeldPcs
      <4> QED  BY <3>2, <4>6, <4>7
    <3>3. CASE NoneAvailable(w)
      BY <3>3 DEF NoneAvailable, TypeOK, Pcs
    <3>4. CASE Prepare(w)
      BY <3>4 DEF Prepare, TypeOK, Pcs, HeldPcs
    <3>5. CASE TryLockError(w)
      <4>1. acctLock' \in [Accounts -> Locks]
        BY <3>5, LockType DEF TryLockError, TypeOK
      <4>2. pc' \in [Workers -> Pcs] /\ since' \in [Workers -> Times]
        BY <3>5 DEF TryLockError, TypeOK, Pcs, Times
      <4> QED  BY <3>5, <4>1, <4>2 DEF TryLockError, TypeOK
    <3>6. ASSUME NEW p \in Proxies, LeaseProxy(w, p) PROVE TypeOK'
      <4>1. proxyLock' \in [Proxies -> Locks]
        BY <3>6, LockType DEF LeaseProxy, TypeOK
      <4>2. NoCandidates \in [{} -> Rows]
        BY DEF NoCandidates
      <4>3. \A v \in Workers : \E S \in SUBSET Accounts : snap'[v] \in [S -> Rows]
        BY <3>6, <4>2 DEF LeaseProxy, ReturnLease, TypeOK
      <4>4. deadline' \in [Workers -> Times]
        BY <3>6 DEF LeaseProxy, ReturnLease, TypeOK, Times
      <4> QED
        BY <3>6, <4>1, <4>3, <4>4 DEF LeaseProxy, ReturnLease, TypeOK, Pcs, HeldPcs
    <3>7. ASSUME NEW p \in Proxies, SkipProxy(w, p) PROVE TypeOK'
      BY <3>7 DEF SkipProxy, TypeOK
    <3>8. CASE GoDirect(w)
      <4>1. NoCandidates \in [{} -> Rows]
        BY DEF NoCandidates
      <4>2. \A v \in Workers : \E S \in SUBSET Accounts : snap'[v] \in [S -> Rows]
        BY <3>8, <4>1 DEF GoDirect, ReturnLease, TypeOK
      <4>3. deadline' \in [Workers -> Times]
        BY <3>8 DEF GoDirect, ReturnLease, TypeOK, Times
      <4> QED  BY <3>8, <4>2, <4>3 DEF GoDirect, ReturnLease, TypeOK, Pcs, HeldPcs
    <3>9. CASE BackOff(w)
      BY <3>9 DEF BackOff, TypeOK, Pcs
    <3>10. CASE Wake(w)
      BY <3>10 DEF Wake, TypeOK, Pcs
    <3>11. CASE GiveUp(w)
      BY <3>11, ForgetType DEF GiveUp, TypeOK, Pcs
    <3> QED
      BY <2>2, <3>1, <3>2, <3>3, <3>4, <3>5, <3>6, <3>7, <3>8, <3>9, <3>10, <3>11
         DEF Dispatch
  <2>3. ASSUME NEW w \in Workers, Cancel(w) \/ ListError(w) PROVE TypeOK'
    BY <2>3, ForgetType DEF Cancel, ListError, TypeOK, Pcs
  <2>4. ASSUME NEW w \in Workers, TryLockCancelled(w) PROVE TypeOK'
    <3>1. proxyLock' \in [Proxies -> Locks]
      BY <2>4, LockType DEF TryLockCancelled, TypeOK
    <3> QED  BY <2>4, <3>1, ForgetType DEF TryLockCancelled, TypeOK, Pcs
  <2>5. ASSUME NEW w \in Workers, UseAndRelease(w) PROVE TypeOK'
    <3>1. CASE UseEnds(w)
      <4>1. row' \in [Accounts -> Rows] /\ \A a \in Accounts : row'[a].lastUsed = row[a].lastUsed
        BY <3>1, MarksKeepUsage DEF UseEnds, TypeOK
      <4>2. snapAt' \in [Workers -> Times]
        BY <3>1 DEF UseEnds, TypeOK, Times
      <4> QED  BY <3>1, <4>1, <4>2 DEF UseEnds, TypeOK, Pcs, HeldPcs
    <3>2. CASE MarkUsed(w)
      <4>1. CASE row' = row
        BY <3>2, <4>1 DEF MarkUsed, TypeOK, Pcs, HeldPcs
      <4>2. CASE row' # row
        <5>1. row' \in [Accounts -> Rows] /\ \A a \in Accounts : row'[a].lastUsed <= now
          BY <3>2, <4>2, UsageWrite DEF TypeOK
        <5> QED  BY <3>2, <5>1 DEF MarkUsed, TypeOK, Pcs, HeldPcs
      <4> QED  BY <4>1, <4>2
    <3>3. CASE ReleaseProxy(w)
      <4>1. proxyLock' \in [Proxies -> Locks]
        BY <3>3, LockType DEF ReleaseProxy, TypeOK
      <4> QED  BY <3>3, <4>1 DEF ReleaseProxy, TypeOK, Pcs, HeldPcs
    <3>4. CASE ReleaseLock(w)
      <4>1. acctLock' \in [Accounts -> Locks]
        BY <3>4, LockType DEF ReleaseLock, TypeOK
      <4> QED  BY <3>4, <4>1, ForgetType DEF ReleaseLock, TypeOK, Pcs
    <3> QED  BY <2>5, <3>1, <3>2, <3>3, <3>4 DEF UseAndRelease
  <2>6. ASSUME NEW w \in Workers, Crash(w) PROVE TypeOK'
    <3>1. crashes' \in 0 .. MaxCrashes
      BY <2>6 DEF Crash, TypeOK
    <3> QED  BY <2>6, <3>1, ForgetType DEF Crash, TypeOK, Pcs
  <2>7. CASE Tick
    <3>1. now' \in Times /\ now' = now + 1 /\ now + 1 \in Int
      BY <2>7 DEF Tick, Times
    <3>2. ASSUME NEW l \in Locks PROVE Expired(l, now + 1) \in Locks
      BY DEF Expired, Unlocked, Locks
    <3>3. acctLock' \in [Accounts -> Locks] /\ proxyLock' \in [Proxies -> Locks]
      BY <2>7, <3>2 DEF Tick, TypeOK
    <3>4. \A a \in Accounts : row[a].lastUsed \in Int /\ row[a].lastUsed <= now
      BY DEF TypeOK, Rows, Times, Never
    <3> QED  BY <2>7, <3>1, <3>3, <3>4 DEF Tick, TypeOK
  <2>8. ASSUME NEW a \in Accounts, AdminRestore(a) PROVE TypeOK'
    <3>1. row' \in [Accounts -> Rows] /\ \A b \in Accounts : row'[b].lastUsed = row[b].lastUsed
      BY <2>8, MarksKeepUsage DEF AdminRestore
    <3> QED  BY <2>8, <3>1 DEF AdminRestore, TypeOK
  <2>9. CASE UNCHANGED vars
    BY <2>9 DEF vars, TypeOK
  <2> QED
    BY <2>1, <2>2, <2>3, <2>4, <2>5, <2>6, <2>7, <2>8, <2>9 DEF Next
<1> QED  BY <1>1, <1>2, PTL DEF Spec

WorkerStep(w) ==
    Arrive(w) \/ Dispatch(w) \/ Cancel(w) \/ ListError(w) \/ TryLockCancelled(w)
      \/ UseAndRelease(w) \/ Crash(w)

\* The registers of worker v stay.
Idles(v) ==
    /\ pc'[v] = pc[v] /\ snap'[v] = snap[v] /\ snapAt'[v] = snapAt[v]
    /\ acct'[v] = acct[v] /\ proxy'[v] = proxy[v] /\ since'[v] = since[v]

\* A step of one worker leaves the clock and the registers of the others.
LEMMA WorkerLocal ==
  ASSUME TypeOK, NEW w \in Workers, WorkerStep(w)
  PROVE  now' = now /\ \A v \in Workers \ {w} : Idles(v)
<1> USE DEF TypeOK, Idles, Goto, Forget, ReturnLease, DropCandidate, leaseVars
<1>1. CASE Arrive(w) \/ Cancel(w) \/ ListError(w) \/ TryLockCancelled(w) \/ Crash(w)
  BY <1>1 DEF Arrive, Cancel, ListError, TryLockCancelled, Crash
<1>2. CASE Dispatch(w)
  <2>1. CASE List(w) \/ NoneAvailable(w) \/ Prepare(w) \/ TryLockError(w)
    BY <2>1 DEF List, NoneAvailable, Prepare, TryLockError
  <2>2. ASSUME NEW a \in Accounts, SkipCandidate(w, a) \/ LockAccount(w, a)
        PROVE  now' = now /\ \A v \in Workers \ {w} : Idles(v)
    BY <2>2 DEF SkipCandidate, LockAccount
  <2>3. ASSUME NEW p \in Proxies, LeaseProxy(w, p) \/ SkipProxy(w, p)
        PROVE  now' = now /\ \A v \in Workers \ {w} : Idles(v)
    BY <2>3 DEF LeaseProxy, SkipProxy
  <2>4. CASE GoDirect(w) \/ BackOff(w) \/ Wake(w) \/ GiveUp(w)
    BY <2>4 DEF GoDirect, BackOff, Wake, GiveUp
  <2> QED  BY <1>2, <2>1, <2>2, <2>3, <2>4 DEF Dispatch
<1>3. CASE UseAndRelease(w)
  BY <1>3 DEF UseAndRelease, UseEnds, MarkUsed, ReleaseProxy, ReleaseLock
<1> QED  BY <1>1, <1>2, <1>3 DEF WorkerStep

\* A step of one worker changes a key only where nobody holds it or where it
\* carries the worker's own token.
LEMMA ForeignKeysStay ==
  ASSUME TypeOK, NEW w \in Workers, WorkerStep(w), NEW v \in Workers, v # w
  PROVE  /\ \A a \in Accounts : acctLock[a].token = v => acctLock'[a] = acctLock[a]
         /\ \A p \in Proxies : proxyLock[p].token = v => proxyLock'[p] = proxyLock[p]
<1> USE TokenAssumption DEF TypeOK, Released, Holder, lockVars
<1>1. CASE Arrive(w) \/ Cancel(w) \/ ListError(w) \/ Crash(w)
  BY <1>1 DEF Arrive, Cancel, ListError, Crash
<1>2. CASE TryLockCancelled(w)
  BY <1>2 DEF TryLockCancelled
<1>3. CASE Dispatch(w)
  <2>1. CASE List(w) \/ NoneAvailable(w) \/ Prepare(w) \/ GoDirect(w) \/ BackOff(w)
             \/ Wake(w) \/ GiveUp(w)
    BY <2>1 DEF List, NoneAvailable, Prepare, GoDirect, BackOff, Wake, GiveUp
  <2>2. CASE TryLockError(w)
    BY <2>2 DEF TryLockError
  <2>3. ASSUME NEW a \in Accounts, SkipCandidate(w, a) \/ LockAccount(w, a)
        PROVE  /\ \A b \in Accounts : acctLock[b].token = v => acctLock'[b] = acctLock[b]
               /\ proxyLock' = proxyLock
    BY <2>3 DEF SkipCandidate, LockAccount
  <2>4. ASSUME NEW p \in Proxies, LeaseProxy(w, p) \/ SkipProxy(w, p)
        PROVE  /\ \A q \in Proxies : proxyLock[q].token = v => proxyLock'[q] = proxyLock[q]
               /\ acctLock' = acctLock
    BY <2>4 DEF LeaseProxy, SkipProxy
  <2> QED  BY <1>3, <2>1, <2>2, <2>3, <2>4 DEF Dispatch
<1>4. CASE UseAndRelease(w)
  BY <1>4 DEF UseAndRelease, UseEnds, MarkUsed, ReleaseProxy, ReleaseLock
<1> QED  BY <1>1, <1>2, <1>3, <1>4 DEF WorkerStep

\* What backs a lease, for one worker: the keys it set carry its token and
\* expire later than its task may run.
Lease(w) ==
    /\ ~Holds(w) \/ pc[w] \in {"prepare", "proxy", "releaseLock"} => proxy[w] = Direct
    /\ Holds(w) =>
          /\ acct[w] \in Accounts
          /\ acctLock[acct[w]].token = w
          /\ acctLock[acct[w]].expiry >= since[w] + LockTTL
          /\ since[w] <= now /\ now <= since[w] + MaxHold
          /\ proxy[w] # Direct =>
                /\ proxyLock[proxy[w]].token = w
                /\ proxyLock[proxy[w]].expiry >= since[w] + LockTTL

LeaseShape == \A w \in Workers : Lease(w)

\* LeaseShape is inductive when a task ends before its lock expires.
THEOREM SchedulerLeaseShape ==
  ASSUME MaxHold < LockTTL
  PROVE  Spec => []LeaseShape
<1>1. Init => LeaseShape
  BY DEF Init, LeaseShape, Lease, Holds, HeldPcs
<1>2. TypeOK /\ LeaseShape /\ [Next]_vars => LeaseShape'
  <2> SUFFICES ASSUME TypeOK, LeaseShape, [Next]_vars PROVE LeaseShape'
    OBVIOUS
  <2>0. now \in Nat /\ \A v \in Workers : since[v] \in Nat
    BY Settings DEF TypeOK, Times
  <2> USE Settings, <2>0
  <2>1. ASSUME NEW w \in Workers, WorkerStep(w) PROVE LeaseShape'
    <3>1. ASSUME NEW v \in Workers, v # w PROVE Lease(v)'
      <4>1. Lease(v)
        BY DEF LeaseShape
      <4>2. now' = now /\ Idles(v)
        BY <2>1, <3>1, WorkerLocal
      <4>3. /\ acct[v] \in Accounts /\ acctLock[acct[v]].token = v =>
                  acctLock'[acct[v]] = acctLock[acct[v]]
            /\ proxy[v] # Direct /\ proxyLock[proxy[v]].token = v =>
                  proxyLock'[proxy[v]] = proxyLock[proxy[v]]
        BY <2>1, <3>1, ForeignKeysStay DEF TypeOK
      <4> QED  BY <4>1, <4>2, <4>3 DEF Lease, Idles, Holds
    <3>2. Lease(w)'
      <4>1. Lease(w) /\ proxy[w] \in Proxies \cup {Direct} /\ acct[w] \in Accounts \cup {NoAccount}
        BY DEF LeaseShape, TypeOK
      <4> USE <4>1 DEF Lease, Holds, HeldPcs, TypeOK, Goto, lockVars, leaseVars
      <4>2. CASE Arrive(w)
        BY <4>2 DEF Arrive
      <4>3. CASE Cancel(w) \/ ListError(w) \/ TryLockCancelled(w) \/ Crash(w)
        BY <4>3 DEF Cancel, ListError, TryLockCancelled, Crash, Forget
      <4>4. CASE Dispatch(w)
        <5>1. CASE List(w)
          <6>1. pc'[w] \in {"wait", "try"} /\ proxy' = proxy
            BY <5>1 DEF List
          <6> QED  BY <5>1, <6>1 DEF List
        <5>2. CASE NoneAvailable(w) \/ BackOff(w) \/ Wake(w)
          BY <5>2 DEF NoneAvailable, BackOff, Wake
        <5>3. ASSUME NEW a \in Accounts, SkipCandidate(w, a) PROVE Lease(w)'
          BY <5>3 DEF SkipCandidate
        <5>4. ASSUME NEW a \in Accounts, LockAccount(w, a) PROVE Lease(w)'
          <6>1. /\ pc'[w] = "prepare" /\ acct'[w] = a /\ since'[w] = now /\ now' = now
                /\ proxy'[w] = Direct /\ acctLock'[a] = SetNX(w)
            BY <5>4 DEF LockAccount
          <6>2. acctLock'[a].token = w /\ acctLock'[a].expiry = now + LockTTL
            BY <6>1 DEF SetNX
          <6> QED  BY <6>1, <6>2
        <5>5. CASE Prepare(w)
          BY <5>5 DEF Prepare
        <5>6. CASE TryLockError(w)
          <6>1. pc'[w] = "try" /\ proxy'[w] = Direct
            BY <5>6 DEF TryLockError
          <6> QED  BY <6>1
        <5>7. ASSUME NEW p \in Proxies, LeaseProxy(w, p) PROVE Lease(w)'
          <6>1. /\ pc[w] = "proxy" /\ pc'[w] = "use" /\ proxy'[w] = p
                /\ proxyLock'[p] = SetNX(w)
                /\ UNCHANGED <<now, acctLock, acct, since>>
            BY <5>7 DEF LeaseProxy, ReturnLease
          <6>2. proxyLock'[p].token = w /\ proxyLock'[p].expiry = now + LockTTL
            BY <6>1 DEF SetNX
          <6> QED  BY <6>1, <6>2
        <5>8. ASSUME NEW p \in Proxies, SkipProxy(w, p) PROVE Lease(w)'
          BY <5>8 DEF SkipProxy
        <5>9. CASE GoDirect(w)
          BY <5>9 DEF GoDirect, ReturnLease
        <5>10. CASE GiveUp(w)
          BY <5>10 DEF GiveUp, Forget
        <5> QED
          BY <4>4, <5>1, <5>2, <5>3, <5>4, <5>5, <5>6, <5>7, <5>8, <5>9, <5>10 DEF Dispatch
      <4>5. CASE UseAndRelease(w)
        <5>1. CASE UseEnds(w) \/ MarkUsed(w)
          <6>1. /\ pc[w] \in {"use", "markUsed"} /\ pc'[w] \in {"markUsed", "releaseProxy"}
                /\ UNCHANGED <<now, acctLock, proxyLock, acct, proxy, since>>
            BY <5>1 DEF UseEnds, MarkUsed
          <6> QED  BY <6>1
        <5>2. CASE ReleaseProxy(w)
          BY <5>2 DEF ReleaseProxy
        <5>3. CASE ReleaseLock(w)
          BY <5>3 DEF ReleaseLock, Forget
        <5> QED  BY <4>5, <5>1, <5>2, <5>3 DEF UseAndRelease
      <4> QED  BY <2>1, <4>2, <4>3, <4>4, <4>5 DEF WorkerStep
    <3> QED  BY <3>1, <3>2 DEF LeaseShape, Lease
  <2>2. CASE Tick
    <3> SUFFICES ASSUME NEW v \in Workers PROVE Lease(v)'
      BY DEF LeaseShape, Lease
    <3>1. Lease(v) /\ proxy[v] \in Proxies \cup {Direct}
      BY DEF LeaseShape, TypeOK
    <3>2. now' = now + 1 /\ UNCHANGED <<pc, acct, proxy, since>>
      BY <2>2 DEF Tick, leaseVars
    <3>3. CASE Holds(v)
      <4>1. now + 1 <= since[v] + MaxHold /\ now + 1 < since[v] + LockTTL
        BY <2>2, <3>3 DEF Tick
      <4>2. acct[v] \in Accounts /\ acctLock[acct[v]].expiry \in Int
        BY <3>1, <3>3 DEF Lease, TypeOK, Locks
      <4>3. acctLock'[acct[v]] = acctLock[acct[v]]
        BY <2>2, <3>1, <3>3, <4>1, <4>2 DEF Lease, Tick, Expired
      <4>4. ASSUME proxy[v] # Direct PROVE proxyLock'[proxy[v]] = proxyLock[proxy[v]]
        <5>1. proxy[v] \in Proxies /\ proxyLock[proxy[v]].expiry \in Int
          BY <3>1, <4>4 DEF TypeOK, Locks
        <5> QED  BY <2>2, <3>1, <3>3, <4>1, <4>4, <5>1 DEF Lease, Tick, Expired
      <4> QED  BY <3>1, <3>2, <3>3, <4>1, <4>3, <4>4 DEF Lease, Holds
    <3>4. CASE ~Holds(v)
      BY <3>1, <3>2, <3>4 DEF Lease, Holds
    <3> QED  BY <3>3, <3>4
  <2>3. CASE (\E a \in Accounts : AdminRestore(a)) \/ UNCHANGED vars
    <3>1. UNCHANGED <<now, acctLock, proxyLock, pc, acct, proxy, since>>
      BY <2>3 DEF AdminRestore, vars, lockVars, leaseVars
    <3> QED  BY <3>1 DEF LeaseShape, Lease, Holds
  <2> QED  BY <2>1, <2>2, <2>3 DEF Next, WorkerStep
<1> QED  BY <1>1, <1>2, SchedulerType, PTL DEF Spec

\* With a task context shorter than lock_ttl_sec, whoever holds an account or
\* a proxy owns its Redis key, for any number of workers, whatever crashes or
\* is cancelled.  (The default settings do not meet the premise: the run
\* scheduler_lock_ttl shows what happens then.)
THEOREM SchedulerLeaseBacked ==
  ASSUME MaxHold < LockTTL
  PROVE  Spec => []LeaseBacked
<1>1. LeaseShape => LeaseBacked
  BY DEF LeaseShape, Lease, LeaseBacked, Holder
<1> QED  BY <1>1, SchedulerLeaseShape, PTL

\* ... and no account and no proxy serves two requests at once.
THEOREM SchedulerOneHolder ==
  ASSUME MaxHold < LockTTL
  PROVE  Spec => []OneHolder
<1>1. LeaseBacked => OneHolder
  BY DEF LeaseBacked, OneHolder
<1> QED  BY <1>1, SchedulerLeaseBacked, PTL

\* Release never deletes the key of another holder, whether or not tasks
\* outlive their locks: between two ticks a key disappears only by its owner.
THEOREM SchedulerOnlyOwnerUnlocks == Spec => OnlyOwnerUnlocks
<1> DEFINE Kept == \A a \in Accounts : \A w \in Workers :
                     Holder(acctLock[a]) = w /\ acctLock'[a] # acctLock[a] /\ now' = now =>
                       pc[w] \in {"prepare", "proxy", "releaseLock"} /\ pc'[w] # pc[w]
<1>1. TypeOK /\ [Next]_vars => [Kept]_vars
  <2> SUFFICES ASSUME TypeOK, Next, NEW a \in Accounts, NEW w \in Workers,
                      Holder(acctLock[a]) = w, acctLock'[a] # acctLock[a], now' = now
               PROVE  pc[w] \in {"prepare", "proxy", "releaseLock"} /\ pc'[w] # pc[w]
    OBVIOUS
  <2>1. ~Tick
    BY Settings DEF Tick, TypeOK, Times
  <2>2. ~\E b \in Accounts : AdminRestore(b)
    BY DEF AdminRestore, lockVars
  <2>3. PICK v \in Workers : WorkerStep(v)
    BY <2>1, <2>2 DEF Next, WorkerStep
  <2>4. v = w
    BY <2>3, ForeignKeysStay DEF Holder
  <2>5. TryLockError(w) \/ ReleaseLock(w) \/ \E b \in Accounts : LockAccount(w, b)
    BY <2>3, <2>4
       DEF WorkerStep, Arrive, Cancel, ListError, TryLockCancelled, Crash, Dispatch, List,
           SkipCandidate, NoneAvailable, Prepare, LeaseProxy, SkipProxy, GoDirect, BackOff,
           Wake, GiveUp, UseAndRelease, UseEnds, MarkUsed, ReleaseProxy, lockVars
  <2>6. ~\E b \in Accounts : LockAccount(w, b)
    BY TokenAssumption DEF LockAccount, Holder, TypeOK
  <2> QED  BY <2>5, <2>6 DEF TryLockError, ReleaseLock, Goto, TypeOK
<1> QED  BY <1>1, SchedulerType, PTL DEF Spec, OnlyOwnerUnlocks

\* What a listing still says about the accounts in it: a row that changed
\* since was used after the listing.
ScanFresh ==
    \A w \in Workers :
        /\ snapAt[w] <= now
        /\ Holds(w) => acct[w] \in Accounts
        /\ \A a \in DOMAIN snap[w] :
              \/ row[a].lastUsed = snap[w][a].lastUsed
              \/ row[a].lastUsed >= snapAt[w]

\* How last_used_at and the listings can change: a step of a worker that is
\* not MarkUsed leaves every last_used_at, and MarkUsed sets one to now.
LEMMA LastUsedMoves ==
  ASSUME TypeOK, Next, NEW a \in Accounts
  PROVE  row'[a].lastUsed = row[a].lastUsed \/ row'[a].lastUsed = now
<1>1. CASE \E b \in Accounts : AdminRestore(b)
  BY <1>1, MarksKeepUsage DEF AdminRestore
<1>2. CASE \E w \in Workers : UseEnds(w)
  BY <1>2, MarksKeepUsage DEF UseEnds
<1>3. CASE \E w \in Workers : MarkUsed(w)
  BY <1>3, UsageWrite
<1>4. CASE /\ ~\E b \in Accounts : AdminRestore(b)
           /\ ~\E w \in Workers : UseEnds(w)
           /\ ~\E w \in Workers : MarkUsed(w)
  <2>1. row' = row
    BY <1>4
       DEF Next, Arrive, Cancel, ListError, TryLockCancelled, Crash, Dispatch, List,
           SkipCandidate, LockAccount, NoneAvailable, Prepare, TryLockError, LeaseProxy,
           SkipProxy, GoDirect, BackOff, Wake, GiveUp, UseAndRelease, ReleaseProxy,
           ReleaseLock, Tick
  <2> QED  BY <2>1
<1> QED  BY <1>1, <1>2, <1>3, <1>4

\* What a step of worker w can do to its own listing: keep or drop it (ending
\* no lease it does not hold), take it from the table, or shorten it by the
\* candidate it skips or locks.
ListingKept(w) ==
    /\ snap'[w] = snap[w] \/ DOMAIN snap'[w] = {}
    /\ snapAt'[w] = snapAt[w] \/ snapAt'[w] = 0
    /\ Holds(w)' => Holds(w) /\ acct'[w] = acct[w]
ListingTaken(w) ==
    /\ ~Holds(w)'
    /\ snapAt'[w] = now
    /\ row' = row
    /\ \A a \in DOMAIN snap'[w] : a \in Accounts /\ snap'[w][a] = row[a]
ListingShortened(w, a) ==
    /\ SkipCandidate(w, a) \/ LockAccount(w, a)
    /\ snapAt'[w] = snapAt[w]
    /\ DOMAIN snap'[w] = DOMAIN snap[w] \ {a}
    /\ \A b \in DOMAIN snap'[w] : snap'[w][b] = snap[w][b]
    /\ Holds(w)' => acct'[w] = a

LEMMA ListingMoves ==
  ASSUME TypeOK, NEW w \in Workers, WorkerStep(w)
  PROVE  \/ ListingKept(w)
         \/ ListingTaken(w)
         \/ \E a \in Accounts : ListingShortened(w, a)
<1>0. DOMAIN NoCandidates = {}
  BY DEF NoCandidates
<1>1. CASE \/ Arrive(w) \/ Cancel(w) \/ ListError(w) \/ TryLockCancelled(w) \/ Crash(w)
           \/ GiveUp(w) \/ ReleaseLock(w)
  BY <1>0, <1>1
     DEF Arrive, Cancel, ListError, TryLockCancelled, Crash, GiveUp, ReleaseLock, Forget,
         ListingKept, TypeOK, Goto, Holds, HeldPcs, leaseVars
<1>2. CASE List(w)
  <2>1. /\ pc'[w] \in {"wait", "try"} /\ snapAt'[w] = now /\ row' = row
        /\ snap'[w] = [a \in {b \in Accounts : Dispatchable(row[b])} |-> row[a]]
    BY <1>2 DEF List, TypeOK, Goto
  <2> QED  BY <2>1 DEF ListingTaken, Holds, HeldPcs
<1>3. ASSUME NEW a \in Accounts, SkipCandidate(w, a) \/ LockAccount(w, a)
      PROVE  ListingShortened(w, a)
  BY <1>3
     DEF SkipCandidate, LockAccount, DropCandidate, ListingShortened, TypeOK, Goto, Holds,
         HeldPcs
<1>4. CASE NoneAvailable(w) \/ Prepare(w) \/ TryLockError(w) \/ BackOff(w) \/ Wake(w)
  BY <1>4
     DEF NoneAvailable, Prepare, TryLockError, BackOff, Wake, ListingKept, TypeOK, Goto,
         Holds, HeldPcs, leaseVars
<1>5. CASE (\E p \in Proxies : LeaseProxy(w, p) \/ SkipProxy(w, p)) \/ GoDirect(w)
  BY <1>0, <1>5
     DEF LeaseProxy, SkipProxy, GoDirect, ReturnLease, ListingKept, TypeOK, Goto, Holds,
         HeldPcs
<1>6. CASE UseEnds(w) \/ MarkUsed(w) \/ ReleaseProxy(w)
  BY <1>6
     DEF UseEnds, MarkUsed, ReleaseProxy, ListingKept, TypeOK, Goto, Holds, HeldPcs, leaseVars
<1> QED
  BY <1>1, <1>2, <1>3, <1>4, <1>5, <1>6 DEF WorkerStep, Dispatch, UseAndRelease

\* ScanFresh is inductive: only MarkUsed writes last_used_at, and it writes
\* the present.
THEOREM SchedulerScanFresh == Spec => []ScanFresh
<1>1. Init => ScanFresh
  BY DEF Init, ScanFresh, Holds, HeldPcs, NoCandidates
<1>2. TypeOK /\ ScanFresh /\ [Next]_vars => ScanFresh'
  <2> SUFFICES ASSUME TypeOK, ScanFresh, [Next]_vars, NEW w \in Workers
               PROVE  /\ snapAt'[w] <= now'
                      /\ Holds(w)' => acct'[w] \in Accounts
                      /\ \A a \in DOMAIN snap'[w] :
                            \/ row'[a].lastUsed = snap'[w][a].lastUsed
                            \/ row'[a].lastUsed >= snapAt'[w]
    BY DEF ScanFresh, Holds
  <2>0. /\ now \in Nat /\ snapAt[w] \in Nat /\ snapAt[w] <= now
        /\ Holds(w) => acct[w] \in Accounts
        /\ DOMAIN snap[w] \subseteq Accounts
        /\ \A a \in DOMAIN snap[w] :
              row[a].lastUsed = snap[w][a].lastUsed \/ row[a].lastUsed >= snapAt[w]
    BY Settings DEF ScanFresh, TypeOK, Times
  <2>1. \A a \in Accounts : row[a].lastUsed \in Int
    BY DEF TypeOK, Rows, Times, Never
  <2>2. CASE UNCHANGED vars
    BY <2>0, <2>2 DEF vars, leaseVars, Holds
  <2>3. CASE Next
    <3>1. \A a \in DOMAIN snap[w] :
             row'[a].lastUsed = snap[w][a].lastUsed \/ row'[a].lastUsed >= snapAt[w]
      BY <2>0, <2>1, <2>3, LastUsedMoves
    <3>2. \A a \in DOMAIN snap[w] :
             row'[a].lastUsed = snap[w][a].lastUsed \/ row'[a].lastUsed >= 0
      BY <2>0, <2>1, <2>3, LastUsedMoves
    <3>3. CASE WorkerStep(w)
      <4>0. now' = now
        BY <3>3, WorkerLocal
      <4>1. CASE ListingKept(w)
        BY <2>0, <3>1, <3>2, <4>0, <4>1 DEF ListingKept
      <4>2. CASE ListingTaken(w)
        BY <2>0, <4>0, <4>2 DEF ListingTaken
      <4>3. ASSUME NEW a \in Accounts, ListingShortened(w, a)
            PROVE  /\ snapAt'[w] <= now'
                   /\ Holds(w)' => acct'[w] \in Accounts
                   /\ \A b \in DOMAIN snap'[w] :
                         \/ row'[b].lastUsed = snap'[w][b].lastUsed
                         \/ row'[b].lastUsed >= snapAt'[w]
        BY <2>0, <3>1, <4>0, <4>3 DEF ListingShortened
      <4> QED  BY <3>3, <4>1, <4>2, <4>3, ListingMoves
    <3>4. CASE ~WorkerStep(w)
      <4>1. /\ pc'[w] = pc[w] /\ snap'[w] = snap[w] /\ snapAt'[w] = snapAt[w]
            /\ acct'[w] = acct[w] /\ now' >= now /\ now' \in Nat
        <5>1. CASE \E v \in Workers : WorkerStep(v)
          BY <2>0, <3>4, <5>1, WorkerLocal DEF Idles
        <5>2. CASE Tick \/ \E a \in Accounts : AdminRestore(a)
          BY <2>0, <5>2 DEF Tick, AdminRestore, leaseVars
        <5> QED  BY <2>3, <5>1, <5>2 DEF Next, WorkerStep
      <4> QED  BY <2>0, <3>1, <4>1 DEF Holds
    <3> QED  BY <3>3, <3>4
  <2> QED  BY <2>2, <2>3
<1> QED  BY <1>1, <1>2, SchedulerType, PTL DEF Spec

\* min_interval_sec is missed only by a listing that was read before the
\* previous request gave the account back, for any number of workers and
\* whether or not tasks outlive their locks.
THEOREM SchedulerIntervalMissed == Spec => []IntervalMissedOnlyByStaleScan
<1> DEFINE Kept(w) ==
             \/ row[acct[w]].lastUsed = Never
             \/ since[w] - row[acct[w]].lastUsed >= MinInterval
             \/ row[acct[w]].lastUsed >= snapAt[w]
           Early == {"prepare", "proxy", "use"}
<1>1. Init => IntervalMissedOnlyByStaleScan
  BY DEF Init, IntervalMissedOnlyByStaleScan
<1>2. TypeOK /\ ScanFresh /\ IntervalMissedOnlyByStaleScan /\ [Next]_vars
        => IntervalMissedOnlyByStaleScan'
  <2> SUFFICES ASSUME TypeOK, ScanFresh, IntervalMissedOnlyByStaleScan, [Next]_vars,
                      NEW w \in Workers, pc'[w] \in Early
               PROVE  Kept(w)'
    BY DEF IntervalMissedOnlyByStaleScan
  <2>0. /\ now \in Nat /\ snapAt[w] \in Nat /\ snapAt[w] <= now
        /\ pc[w] \in Early => acct[w] \in Accounts /\ Kept(w)
        /\ DOMAIN snap[w] \subseteq Accounts
        /\ \A a \in DOMAIN snap[w] :
              row[a].lastUsed = snap[w][a].lastUsed \/ row[a].lastUsed >= snapAt[w]
    BY Settings DEF ScanFresh, TypeOK, Times, IntervalMissedOnlyByStaleScan, Holds, HeldPcs
  <2>1. \A a \in Accounts : row[a].lastUsed \in Int
    BY DEF TypeOK, Rows, Times, Never
  <2>2. ASSUME pc[w] \in Early, acct'[w] = acct[w], since'[w] = since[w],
               snapAt'[w] = snapAt[w]
        PROVE  Kept(w)'
    <3>1. row'[acct[w]].lastUsed = row[acct[w]].lastUsed \/ row'[acct[w]].lastUsed = now
      <4>1. CASE UNCHANGED vars
        BY <4>1 DEF vars
      <4>2. CASE Next
        BY <2>0, <2>2, <4>2, LastUsedMoves
      <4> QED  BY <4>1, <4>2
    <3> QED  BY <2>0, <2>1, <2>2, <3>1
  <2>3. ASSUME NEW a \in Accounts, LockAccount(w, a) PROVE Kept(w)'
    <3>1. /\ acct'[w] = a /\ since'[w] = now /\ snapAt'[w] = snapAt[w] /\ row' = row
          /\ a \in DOMAIN snap[w] /\ IntervalPassed(snap[w][a], snapAt[w])
      BY <2>3 DEF LockAccount, IsNext, Eligible, TypeOK
    <3>2. row[a].lastUsed \in Int /\ MinInterval \in Nat
      BY <2>1, Settings
    <3> QED  BY <2>0, <3>1, <3>2 DEF IntervalPassed
  <2>4. CASE ~\E a \in Accounts : LockAccount(w, a)
    <3>1. /\ pc[w] \in Early /\ acct'[w] = acct[w] /\ since'[w] = since[w]
          /\ snapAt'[w] = snapAt[w]
      <4>1. CASE WorkerStep(w)
        BY <2>4, <4>1
           DEF WorkerStep, Arrive, Cancel, ListError, TryLockCancelled, Crash, Dispatch, List,
               SkipCandidate, NoneAvailable, Prepare, TryLockError, LeaseProxy, SkipProxy,
               GoDirect, BackOff, Wake, GiveUp, UseAndRelease, UseEnds, MarkUsed,
               ReleaseProxy, ReleaseLock, Goto, ReturnLease, TypeOK, leaseVars
      <4>2. CASE \E v \in Workers : v # w /\ WorkerStep(v)
        BY <4>2, WorkerLocal DEF Idles
      <4>3. CASE Tick \/ (\E a \in Accounts : AdminRestore(a)) \/ UNCHANGED vars
        BY <4>3 DEF Tick, AdminRestore, vars, leaseVars
      <4> QED  BY <4>1, <4>2, <4>3 DEF Next, WorkerStep
    <3> QED  BY <2>2, <3>1
  <2> QED  BY <2>3, <2>4
<1> QED  BY <1>1, <1>2, SchedulerType, SchedulerScanFresh, PTL DEF Spec

\* The workers that can still count one use of account a without listing it
\* again: those that passed or will pass the quota check of an old listing.
Counts(w, a) ==
    \/ pc[w] \in {"prepare", "proxy", "use", "markUsed"} /\ acct[w] = a
    \/ a \in DOMAIN snap[w] /\ UnderQuota(snap[w][a], snapAt[w])
Pending(a) == {w \in Workers : Counts(w, a)}

\* Dispatch drops its listing when it returns a lease.
ListingDropped ==
    \A w \in Workers : pc[w] \in HeldPcs \ {"prepare", "proxy"} => DOMAIN snap[w] = {}

\* Uses counted today and uses still to be counted together stay within the
\* bound; so does the counter of an earlier day.
QuotaShape ==
    \A a \in Accounts :
        /\ row[a].usedDay <= Day(now)
        /\ MaxUses > 0 =>
              /\ row[a].usedCount <= MaxUses - 1 + Cardinality(Workers)
              /\ UsedToday(row[a], now) + Cardinality(Pending(a)) <=
                    MaxUses - 1 + Cardinality(Workers)

\* ListingDropped is inductive given the types.
THEOREM SchedulerListingDropped == Spec => []ListingDropped
<1>1. Init => ListingDropped
  BY DEF Init, ListingDropped, NoCandidates
<1>2. TypeOK /\ ListingDropped /\ [Next]_vars => ListingDropped'
  <2> SUFFICES ASSUME TypeOK, ListingDropped, [Next]_vars, NEW w \in Workers,
                      pc'[w] \in HeldPcs \ {"prepare", "proxy"}
               PROVE  DOMAIN snap'[w] = {}
    BY DEF ListingDropped
  <2>0. DOMAIN NoCandidates = {}
    BY DEF NoCandidates
  <2>1. CASE WorkerStep(w)
    <3>1. CASE (\E p \in Proxies : LeaseProxy(w, p)) \/ GoDirect(w)
      BY <2>0, <3>1 DEF LeaseProxy, GoDirect, ReturnLease, TypeOK
    <3>2. CASE UseAndRelease(w)
      BY <2>0, <3>2
         DEF UseAndRelease, UseEnds, MarkUsed, ReleaseProxy, ReleaseLock, Forget,
             ListingDropped, HeldPcs, TypeOK
    <3>3. CASE \/ Arrive(w) \/ Cancel(w) \/ ListError(w) \/ TryLockCancelled(w) \/ Crash(w)
               \/ List(w) \/ NoneAvailable(w) \/ Prepare(w) \/ TryLockError(w)
               \/ BackOff(w) \/ Wake(w) \/ GiveUp(w)
      <4>1. pc'[w] \in {"idle", "scan", "try", "wait", "sleep", "proxy"}
        BY <3>3
           DEF Arrive, Cancel, ListError, TryLockCancelled, Crash, List, NoneAvailable,
               Prepare, TryLockError, BackOff, Wake, GiveUp, Goto, TypeOK
      <4> QED  BY <4>1 DEF HeldPcs
    <3>4. CASE \/ \E a \in Accounts : SkipCandidate(w, a) \/ LockAccount(w, a)
               \/ \E p \in Proxies : SkipProxy(w, p)
      BY <3>4 DEF SkipCandidate, LockAccount, SkipProxy, Goto, HeldPcs, TypeOK
    <3> QED  BY <2>1, <3>1, <3>2, <3>3, <3>4 DEF WorkerStep, Dispatch
  <2>2. CASE \E v \in Workers : v # w /\ WorkerStep(v)
    BY <2>2, WorkerLocal DEF Idles, ListingDropped
  <2>3. CASE Tick \/ (\E a \in Accounts : AdminRestore(a)) \/ UNCHANGED vars
    BY <2>3 DEF Tick, AdminRestore, vars, ListingDropped
  <2> QED  BY <2>1, <2>2, <2>3 DEF Next, WorkerStep
<1> QED  BY <1>1, <1>2, SchedulerType, PTL DEF Spec

\* Only a listing makes a worker count where it did not: a step of another
\* kind adds nobody to Pending, and MarkUsed takes its worker out.
LEMMA PendingShrinks ==
  ASSUME TypeOK, ListingDropped, NEW w \in Workers, WorkerStep(w), ~List(w),
         NEW a \in Accounts
  PROVE  /\ Counts(w, a)' => Counts(w, a)
         /\ MarkUsed(w) => ~Counts(w, a)'
<1>0. DOMAIN NoCandidates = {}
  BY DEF NoCandidates
<1> USE DEF Counts
<1>1. CASE \/ Arrive(w) \/ Cancel(w) \/ ListError(w) \/ TryLockCancelled(w) \/ Crash(w)
           \/ GiveUp(w) \/ ReleaseLock(w)
  BY <1>0, <1>1
     DEF Arrive, Cancel, ListError, TryLockCancelled, Crash, GiveUp, ReleaseLock, Forget,
         MarkUsed, Goto, TypeOK, leaseVars
<1>2. CASE NoneAvailable(w) \/ Prepare(w) \/ TryLockError(w) \/ BackOff(w) \/ Wake(w)
  BY <1>2
     DEF NoneAvailable, Prepare, TryLockError, BackOff, Wake, MarkUsed, Goto, TypeOK, leaseVars
<1>3. ASSUME NEW b \in Accounts, SkipCandidate(w, b) \/ LockAccount(w, b)
      PROVE  (Counts(w, a)' => Counts(w, a)) /\ ~MarkUsed(w)
  <2>1. /\ snapAt'[w] = snapAt[w]
        /\ DOMAIN snap'[w] = DOMAIN snap[w] \ {b}
        /\ \A c \in DOMAIN snap'[w] : snap'[w][c] = snap[w][c]
    BY <1>3 DEF SkipCandidate, LockAccount, DropCandidate, TypeOK
  <2>2. pc[w] = "try"
    BY <1>3 DEF SkipCandidate, LockAccount
  <2>3. CASE SkipCandidate(w, b)
    BY <2>1, <2>2, <2>3 DEF SkipCandidate, MarkUsed, TypeOK
  <2>4. CASE LockAccount(w, b)
    <3>1. acct'[w] = b /\ b \in DOMAIN snap[w] /\ UnderQuota(snap[w][b], snapAt[w])
      BY <2>4 DEF LockAccount, IsNext, Eligible, TypeOK
    <3> QED  BY <2>1, <2>2, <3>1 DEF MarkUsed
  <2> QED  BY <1>3, <2>3, <2>4
<1>4. CASE (\E p \in Proxies : LeaseProxy(w, p) \/ SkipProxy(w, p)) \/ GoDirect(w)
  BY <1>0, <1>4
     DEF LeaseProxy, SkipProxy, GoDirect, ReturnLease, MarkUsed, Goto, TypeOK
<1>5. CASE UseEnds(w) \/ MarkUsed(w) \/ ReleaseProxy(w)
  BY <1>5
     DEF UseEnds, MarkUsed, ReleaseProxy, ListingDropped, HeldPcs, Goto, TypeOK, leaseVars
<1> QED
  BY <1>1, <1>2, <1>3, <1>4, <1>5 DEF WorkerStep, Dispatch, UseAndRelease

\* The usage columns of an account move only by the MarkUsed of a worker that
\* holds it, which counts one more use of the day.
LEMMA UsageMoves ==
  ASSUME TypeOK, Next, NEW a \in Accounts
  PROVE  \/ row'[a].usedDay = row[a].usedDay /\ row'[a].usedCount = row[a].usedCount
         \/ \E w \in Workers :
               /\ MarkUsed(w) /\ acct[w] = a
               /\ row'[a].usedDay = Day(now)
               /\ row'[a].usedCount = UsedToday(row[a], now) + 1
<1>1. CASE \E b \in Accounts : AdminRestore(b)
  BY <1>1, MarksKeepUsage DEF AdminRestore
<1>2. CASE \E w \in Workers : UseEnds(w)
  BY <1>2, MarksKeepUsage DEF UseEnds
<1>3. CASE \E w \in Workers : MarkUsed(w)
  BY <1>3, UsageWrite
<1>4. CASE /\ ~\E b \in Accounts : AdminRestore(b)
           /\ ~\E w \in Workers : UseEnds(w)
           /\ ~\E w \in Workers : MarkUsed(w)
  <2>1. row' = row
    BY <1>4
       DEF Next, Arrive, Cancel, ListError, TryLockCancelled, Crash, Dispatch, List,
           SkipCandidate, LockAccount, NoneAvailable, Prepare, TryLockError, LeaseProxy,
           SkipProxy, GoDirect, BackOff, Wake, GiveUp, UseAndRelease, ReleaseProxy,
           ReleaseLock, Tick
  <2> QED  BY <2>1
<1> QED  BY <1>1, <1>2, <1>3, <1>4

\* Pending(a) is a finite set of workers.
LEMMA PendingFinite ==
  ASSUME NEW S, S \subseteq Workers
  PROVE  /\ IsFiniteSet(S) /\ Cardinality(S) \in Nat /\ Cardinality(Workers) \in Nat
         /\ Cardinality(S) <= Cardinality(Workers)
BY SchedulerAssumption, FS_Subset, FS_CardinalityType

\* QuotaShape is inductive: a listing that joins Pending saw the quota open.
THEOREM SchedulerQuotaShape == Spec => []QuotaShape
<1> DEFINE N == Cardinality(Workers)
<1>0. N \in Nat /\ MaxUses \in Nat
  BY PendingFinite, UsesType
<1>1. Init => QuotaShape
  <2> SUFFICES ASSUME Init, NEW a \in Accounts
               PROVE  /\ row[a].usedDay <= Day(now)
                      /\ MaxUses > 0 =>
                            /\ row[a].usedCount <= MaxUses - 1 + N
                            /\ UsedToday(row[a], now) + Cardinality(Pending(a)) <= MaxUses - 1 + N
    BY DEF QuotaShape
  <2>1. row[a].usedDay = -1 /\ row[a].usedCount = 0 /\ now = 0
    BY DEF Init, NewRow, Never
  <2>2. Day(now) \in Nat
    BY <2>1, DayType
  <2>3. UsedToday(row[a], now) = 0
    BY <2>1, <2>2 DEF UsedToday
  <2>4. Pending(a) = {}
    BY DEF Init, Pending, Counts, NoCandidates
  <2>5. Cardinality(Pending(a)) = 0
    BY <2>4, FS_EmptySet
  <2> HIDE DEF N
  <2> QED  BY <1>0, <2>1, <2>2, <2>3, <2>5
<1>2. TypeOK /\ ListingDropped /\ QuotaShape /\ [Next]_vars => QuotaShape'
  <2> SUFFICES ASSUME TypeOK, ListingDropped, QuotaShape, [Next]_vars, NEW a \in Accounts
               PROVE  /\ row'[a].usedDay <= Day(now')
                      /\ MaxUses > 0 =>
                            /\ row'[a].usedCount <= MaxUses - 1 + N
                            /\ UsedToday(row'[a], now') + Cardinality(Pending(a)') <=
                                  MaxUses - 1 + N
    BY DEF QuotaShape, Pending, Counts
  <2> DEFINE u == UsedToday(row[a], now)
             P == Pending(a)
  <2>1. /\ now \in Nat /\ Day(now) \in Nat /\ u \in Nat
        /\ row[a].usedDay \in Int /\ row[a].usedCount \in Nat /\ row[a].usedDay <= Day(now)
        /\ MaxUses > 0 => row[a].usedCount <= MaxUses - 1 + N
        /\ MaxUses > 0 => u + Cardinality(P) <= MaxUses - 1 + N
    <3>1. now \in Nat /\ row[a] \in Rows
      BY Settings DEF TypeOK, Times
    <3>2. row[a].usedDay \in Int /\ row[a].usedCount \in Nat
      BY <3>1 DEF Rows
    <3> QED  BY <3>1, <3>2, DayType DEF QuotaShape, UsedToday
  <2>2. /\ P \subseteq Workers /\ Pending(a)' \subseteq Workers
        /\ Cardinality(P) \in Nat /\ Cardinality(P) <= N /\ IsFiniteSet(P)
        /\ Cardinality(Pending(a)') \in Nat /\ Cardinality(Pending(a)') <= N
    <3>1. P \subseteq Workers /\ Pending(a)' \subseteq Workers
      BY DEF Pending
    <3> HIDE DEF P
    <3> QED  BY <3>1, PendingFinite
  <2>3. ASSUME Pending(a)' \subseteq P PROVE Cardinality(Pending(a)') <= Cardinality(P)
    <3> HIDE DEF P
    <3> QED  BY <2>2, <2>3, FS_Subset
  <2>4. ASSUME row'[a].usedDay = row[a].usedDay, row'[a].usedCount = row[a].usedCount,
               now' = now
        PROVE  UsedToday(row'[a], now') = u /\ row'[a].usedDay <= Day(now')
    BY <2>1, <2>4 DEF UsedToday
  <2> DEFINE Goal == /\ row'[a].usedDay <= Day(now')
                     /\ MaxUses > 0 =>
                           /\ row'[a].usedCount <= MaxUses - 1 + N
                           /\ UsedToday(row'[a], now') + Cardinality(Pending(a)') <=
                                 MaxUses - 1 + N
  <2>5. ASSUME row'[a].usedDay = row[a].usedDay, row'[a].usedCount = row[a].usedCount,
               now' = now, Pending(a)' \subseteq P
        PROVE  Goal
    <3> HIDE DEF P, u, N
    <3> QED  BY <1>0, <2>1, <2>2, <2>3, <2>4, <2>5
  <2>6. CASE UNCHANGED vars
    <3>1. row' = row /\ now' = now /\ Pending(a)' = P
      BY <2>6 DEF vars, leaseVars, Pending, Counts
    <3> HIDE DEF P
    <3> QED  BY <2>5, <3>1
  <2>7. CASE Tick
    <3>1. row' = row /\ now' = now + 1 /\ Pending(a)' = P
      BY <2>7 DEF Tick, leaseVars, Pending, Counts
    <3>2. Day(now) <= Day(now + 1) /\ Day(now + 1) \in Nat
      BY <2>1, DayMonotone, DayType
    <3>3. UsedToday(row[a], now + 1) \in {0, u}
      BY <2>1, <3>2 DEF UsedToday
    <3> HIDE DEF P, u, N
    <3> QED  BY <1>0, <2>1, <2>2, <3>1, <3>2, <3>3
  <2>8. CASE \E b \in Accounts : AdminRestore(b)
    <3>1. now' = now /\ Pending(a)' = P
      BY <2>8 DEF AdminRestore, leaseVars, Pending, Counts
    <3>2. row'[a].usedDay = row[a].usedDay /\ row'[a].usedCount = row[a].usedCount
      BY <2>8, MarksKeepUsage DEF AdminRestore
    <3> HIDE DEF P
    <3> QED  BY <2>5, <3>1, <3>2
  <2>9. ASSUME NEW w \in Workers, WorkerStep(w) PROVE Goal
    <3>1. now' = now /\ Next
      BY <2>9, WorkerLocal DEF Next, WorkerStep
    <3>2. ASSUME NEW v \in Workers \ {w} PROVE Counts(v, a)' <=> Counts(v, a)
      <4>1. Idles(v)
        BY <2>9, WorkerLocal
      <4> QED  BY <4>1 DEF Idles, Counts
    <3>3. CASE List(w)
      <4>1. row' = row
        BY <3>3 DEF List
      <4>2. CASE Counts(w, a)'
        <5>1. UnderQuota(row[a], now)
          BY <3>3, <4>2 DEF List, Counts, Goto, TypeOK
        <5>2. MaxUses > 0 => u <= MaxUses - 1
          BY <1>0, <2>1, <5>1 DEF UnderQuota
        <5> HIDE DEF u, N
        <5> QED  BY <1>0, <2>1, <2>2, <2>4, <3>1, <4>1, <5>2
      <4>3. CASE ~Counts(w, a)'
        <5>1. Pending(a)' \subseteq P
          BY <3>2, <4>3 DEF Pending, Counts
        <5> HIDE DEF P, Goal
        <5> QED  BY <2>5, <3>1, <4>1, <5>1
      <4> QED  BY <4>2, <4>3
    <3>4. CASE ~List(w)
      <4>1. Counts(w, a)' => Counts(w, a)
        BY <2>9, <3>4, PendingShrinks
      <4>2. Pending(a)' \subseteq P
        BY <3>2, <4>1 DEF Pending, Counts
      <4>3. CASE row'[a].usedDay = row[a].usedDay /\ row'[a].usedCount = row[a].usedCount
        <5> HIDE DEF P, Goal
        <5> QED  BY <2>5, <3>1, <4>2, <4>3
      <4>4. ASSUME NEW v \in Workers, MarkUsed(v), acct[v] = a,
                   row'[a].usedDay = Day(now), row'[a].usedCount = u + 1
            PROVE  Goal
        <5>1. v = w
          <6>1. pc'[v] # pc[v]
            BY <4>4 DEF MarkUsed, Goto, TypeOK
          <6> QED  BY <2>9, <6>1, WorkerLocal DEF Idles
        <5>2. w \in P
          BY <4>4, <5>1 DEF Pending, Counts, MarkUsed
        <5>3. w \notin Pending(a)'
          <6>1. ~Counts(w, a)'
            BY <2>9, <3>4, <4>4, <5>1, PendingShrinks
          <6> QED  BY <6>1 DEF Pending, Counts
        <5>4. UsedToday(row'[a], now') = u + 1
          BY <3>1, <4>4 DEF UsedToday
        <5>5. Pending(a)' \subseteq P \ {w}
          BY <4>2, <5>3
        <5> HIDE DEF P, u, N
        <5>6. Cardinality(P \ {w}) = Cardinality(P) - 1 /\ IsFiniteSet(P \ {w})
          BY <2>2, <5>2, FS_RemoveElement
        <5>7. Cardinality(Pending(a)') <= Cardinality(P) - 1
          BY <5>5, <5>6, FS_Subset
        <5> QED  BY <1>0, <2>1, <2>2, <3>1, <4>4, <5>4, <5>7
      <4> QED
        BY <3>1, <4>3, <4>4, UsageMoves
    <3> QED  BY <3>3, <3>4
  <2> QED  BY <2>6, <2>7, <2>8, <2>9 DEF Next, WorkerStep
<1> QED  BY <1>1, <1>2, SchedulerType, SchedulerListingDropped, PTL DEF Spec

\* However stale the listings are, the daily quota of an account is overshot
\* by at most one request per other worker, for every number of workers.
THEOREM SchedulerQuotaOvershoot == Spec => []QuotaOvershootBounded
<1>1. QuotaShape => QuotaOvershootBounded
  BY DEF QuotaShape, QuotaOvershootBounded
<1> QED  BY <1>1, SchedulerQuotaShape, PTL
=============================================================================
