----------------------------- MODULE PoolProofs -----------------------------
(***************************************************************************)
(* Proofs about the resources requests are sent through: the scores of the *)
(* proxies (ProxyHealth), the external channels (ChannelRoutes), the image *)
(* quota of the accounts (QuotaProbe), their tokens (AccountUpkeep) and    *)
(* their import (Imports).  They have the same hazard, a result computed   *)
(* from a row that was read earlier; each proof rests on what such a       *)
(* result may say by the time it is written.                               *)
(***************************************************************************)
EXTENDS AccountUpkeep, MCPool, DataProofs

-----------------------------------------------------------------------------
(* The scores of the proxies.                                              *)

\* What a probe of a proxy holds at each of its steps.
PProbeStates ==
    [pc : {"idle"}]
    \cup [pc : {"probing"}, id : Proxies, score : 0 .. Full]
    \cup [pc : {"apply"}, id : Proxies, score : 0 .. Full, ok : BOOLEAN]

\* ScoreExactUnlessRaced with the types its proof needs.
ProxyInv ==
    /\ proxy \in [Proxies -> [score : 0 .. Full, on : BOOLEAN, live : BOOLEAN]]
    /\ up \subseteq Proxies
    /\ pprobe \in [PProbes -> PProbeStates]
    /\ please \in [PLeases -> Proxies \cup {Direct}]
    /\ pfair \in [Proxies -> 0 .. Full]
    /\ \A p \in Proxies : p \notin praced => proxy[p].score = pfair[p]

\* A probe's result and a deduction keep a score in its range, and the
\* deduction that a failed lease makes in SQL is the penalty of a probe.
LEMMA ScoreRange ==
    ASSUME NEW s \in 0 .. Full, NEW ok \in BOOLEAN
    PROVE  Scored(s, ok) \in 0 .. Full /\ Deducted(s) \in 0 .. Full
BY SMT DEF Scored, Deducted, Full, Reward, Penalty

\* Proxies start with the score they are to have.
LEMMA ProxyStart == PInit => ProxyInv
<1> SUFFICES ASSUME PInit PROVE ProxyInv
  OBVIOUS
<1>1. proxy \in [Proxies -> [score : 0 .. Full, on : BOOLEAN, live : BOOLEAN]]
  <2>1. {1, Full} \subseteq 0 .. Full /\ {TRUE} \subseteq BOOLEAN
    BY DEF Full
  <2>2. [score : {1, Full}, on : {TRUE}, live : {TRUE}]
           \subseteq [score : 0 .. Full, on : BOOLEAN, live : BOOLEAN]
    BY <2>1
  <2> QED BY <2>2 DEF PInit
<1>2. pprobe \in [PProbes -> PProbeStates]
  BY DEF PInit, PIdle, PProbeStates
<1>3. /\ up \subseteq Proxies
      /\ please \in [PLeases -> Proxies \cup {Direct}]
      /\ pfair \in [Proxies -> 0 .. Full]
      /\ \A p \in Proxies : p \notin praced => proxy[p].score = pfair[p]
  BY <1>1 DEF PInit
<1> QED BY <1>1, <1>2, <1>3 DEF ProxyInv

\* Every step keeps ProxyInv.
LEMMA ProxyStep == ProxyInv /\ [PNext]_pVars => ProxyInv'
<1> SUFFICES ASSUME ProxyInv, [PNext]_pVars PROVE ProxyInv'
  OBVIOUS
<1> USE DEF ProxyInv
<1>1. CASE ProbeRound
  <2>1. pprobe' \in [PProbes -> PProbeStates]
    <3> SUFFICES ASSUME NEW w \in PProbes
                 PROVE  (IF w \in ListAllEnabled THEN PBegin(w) ELSE pprobe[w]) \in PProbeStates
      BY <1>1 DEF ProbeRound
    <3> QED BY DEF ListAllEnabled, PBegin, PProbeStates
  <2> QED BY <1>1, <2>1 DEF ProbeRound
<1>2. ASSUME NEW w \in PProbes, ProbeEnds(w) PROVE ProxyInv'
  <2>1. pprobe[w] \in PProbeStates /\ pprobe[w].pc = "probing"
    BY <1>2 DEF ProbeEnds
  <2>2. pprobe[w].id \in Proxies /\ pprobe[w].score \in 0 .. Full
    BY <2>1 DEF PProbeStates
  <2>3. Reaches(pprobe[w].id) \in BOOLEAN
    BY DEF Reaches
  <2>4. [pc |-> "apply", id |-> pprobe[w].id, score |-> pprobe[w].score,
         ok |-> Reaches(pprobe[w].id)] \in PProbeStates
    BY <2>2, <2>3 DEF PProbeStates
  <2>5. pprobe' \in [PProbes -> PProbeStates]
    BY <1>2, <2>4 DEF ProbeEnds
  <2> QED BY <1>2, <2>5 DEF ProbeEnds
<1>3. ASSUME NEW w \in PProbes, ApplyResult(w) PROVE ProxyInv'
  <2>1. pprobe[w] \in PProbeStates /\ pprobe[w].pc = "apply"
    BY <1>3 DEF ApplyResult
  <2>2. pprobe[w].id \in Proxies /\ pprobe[w].score \in 0 .. Full /\ pprobe[w].ok \in BOOLEAN
    BY <2>1 DEF PProbeStates
  <2> DEFINE p == pprobe[w].id
             s == pprobe[w].score
             ok == pprobe[w].ok
  <2>3. /\ proxy' = [proxy EXCEPT ![p].score = Scored(s, ok)]
        /\ pfair' = [pfair EXCEPT ![p] = Scored(@, ok)]
        /\ praced' = IF s # proxy[p].score THEN praced \cup {p} ELSE praced
        /\ pprobe' = [pprobe EXCEPT ![w] = PIdle]
        /\ up' = up /\ please' = please
    BY <1>3 DEF ApplyResult, Scored
  <2> p \in Proxies /\ s \in 0 .. Full /\ ok \in BOOLEAN
    BY <2>2
  <2> HIDE DEF p, s, ok
  <2>4. Scored(s, ok) \in 0 .. Full /\ Scored(pfair[p], ok) \in 0 .. Full
    BY ScoreRange
  <2>5. proxy' \in [Proxies -> [score : 0 .. Full, on : BOOLEAN, live : BOOLEAN]]
    BY <2>3, <2>4
  <2>6. pfair' \in [Proxies -> 0 .. Full]
    BY <2>3, <2>4
  <2>7. pprobe' \in [PProbes -> PProbeStates]
    BY <2>3 DEF PIdle, PProbeStates
  <2>8. ASSUME NEW q \in Proxies, q \notin praced' PROVE proxy'[q].score = pfair'[q]
    <3>1. CASE q = p
      BY <2>3, <2>8, <3>1
    <3>2. CASE q # p
      BY <2>3, <2>8, <3>2
    <3> QED BY <3>1, <3>2
  <2> QED BY <2>3, <2>5, <2>6, <2>7, <2>8
<1>4. ASSUME NEW w \in PProbes, ApplyFails(w) PROVE ProxyInv'
  BY <1>4 DEF ApplyFails, PIdle, PProbeStates
<1>5. ASSUME NEW p \in Proxies, ProbeByID(p) PROVE ProxyInv'
  <2>1. PBegin(p) \in PProbeStates
    BY DEF PBegin, PProbeStates
  <2> QED BY <1>5, <2>1 DEF ProbeByID
<1>6. ASSUME NEW p \in Proxies, Outage(p) \/ UpdateProxy(p) \/ DeleteProxy(p) PROVE ProxyInv'
  <2>1. CASE Outage(p)
    BY <2>1 DEF Outage
  <2>2. CASE UpdateProxy(p)
    BY <2>2 DEF UpdateProxy
  <2>3. CASE DeleteProxy(p)
    BY <2>3 DEF DeleteProxy
  <2> QED BY <1>6, <2>1, <2>2, <2>3
<1>7. ASSUME NEW p \in Proxies, NEW on \in BOOLEAN, ImportProxy(p, on) PROVE ProxyInv'
  BY <1>7 DEF ImportProxy
<1>8. ASSUME NEW l \in PLeases, LeaseFails(l) PROVE ProxyInv'
  <2> DEFINE p == please[l]
  <2>1. /\ p \in Proxies
        /\ proxy' = IF proxy[p].live THEN [proxy EXCEPT ![p].score = Deducted(@)] ELSE proxy
        /\ pfair' = IF proxy[p].live THEN [pfair EXCEPT ![p] = Deducted(@)] ELSE pfair
        /\ please' = [please EXCEPT ![l] = Direct]
        /\ UNCHANGED <<up, pprobe, praced>>
    BY <1>8 DEF LeaseFails, Deducted
  <2> HIDE DEF p
  <2>2. Deducted(proxy[p].score) \in 0 .. Full /\ Deducted(pfair[p]) \in 0 .. Full
    BY <2>1, ScoreRange
  <2>3. /\ proxy' \in [Proxies -> [score : 0 .. Full, on : BOOLEAN, live : BOOLEAN]]
        /\ pfair' \in [Proxies -> 0 .. Full]
        /\ please' \in [PLeases -> Proxies \cup {Direct}]
    BY <2>1, <2>2
  <2>4. ASSUME NEW q \in Proxies, q \notin praced PROVE proxy'[q].score = pfair'[q]
    <3>1. CASE q = p
      BY <2>1, <2>4, <3>1
    <3>2. CASE q # p
      BY <2>1, <2>4, <3>2
    <3> QED BY <3>1, <3>2
  <2> QED BY <2>1, <2>3, <2>4
<1>9. ASSUME NEW l \in PLeases, LeaseEnds(l) PROVE ProxyInv'
  BY <1>9 DEF LeaseEnds
<1>10. ASSUME NEW l \in PLeases, NEW p \in Proxies, PLease(l, p) PROVE ProxyInv'
  BY <1>10 DEF PLease
<1>11. CASE UNCHANGED pVars
  BY <1>11 DEF pVars
<1> QED BY <1>1, <1>2, <1>3, <1>4, <1>5, <1>6, <1>7, <1>8, <1>9, <1>10, <1>11 DEF PNext

\* ProxyInv implies what the run checks.
LEMMA ProxyInvSound == ProxyInv => ScoreExactUnlessRaced
<1> SUFFICES ASSUME ProxyInv PROVE ScoreExactUnlessRaced
  OBVIOUS
<1>1. \A w \in PProbes : pprobe[w].pc \in {"idle", "probing", "apply"}
  BY DEF ProxyInv, PProbeStates
<1> QED BY <1>1 DEF ProxyInv, ScoreExactUnlessRaced, ProxyType

\* The score of a proxy is what probes and runtime failures add up to unless
\* a probe wrote over a score it had not read: holds for every set of
\* proxies, leases and targets and every order of probes, failures and edits.
THEOREM ProxyScoreExact == PSpec => []ScoreExactUnlessRaced
BY ProxyStart, ProxyStep, ProxyInvSound, PTL DEF PSpec

-----------------------------------------------------------------------------
(* External channels.                                                      *)

\* Rows whose status says what their count says, and the copies of such rows
\* that a request or a test holds.
SoundRows == {rw \in Rows : rw.status = "unhealthy" <=> rw.fails >= UnhealthyAt}
SoundRoutes == [id : Channels, row : SoundRows]

\* A request under way.
Serving ==
    [pc : {"try", "report", "stream"}, kind : CKinds, routes : Seq(SoundRoutes),
     failed : Seq(SoundRoutes), at : Nat, got : Nat, calls : Nat, reported : Nat]

\* How far it is: one failed route per route passed, and the images of the
\* current route only.
Progressed(q) ==
    /\ \A i, j \in DOMAIN q.routes : i < j => RouteBefore(q.routes[i], q.routes[j])
    /\ q.at \in 1 .. Len(q.routes) + 1
    /\ Len(q.failed) = q.at - 1
    /\ q.reported <= Len(q.failed)
    /\ q.pc \in {"try", "stream"} => q.at <= Len(q.routes)
    /\ q.kind # "chat" =>
          /\ q.calls <= MaxCalls
          /\ q.got <= Wanted
          /\ q.pc = "try" => q.calls < MaxCalls /\ q.got < Wanted
          /\ q.pc = "report" /\ q.at <= Len(q.routes) => q.got = Wanted

ReqStates ==
    [pc : {"idle", "done"}]
    \cup [pc : {"ping"}, route : SoundRoutes]
    \cup {q \in Serving : Progressed(q)}

\* The rows and what is recorded about them.
HealthInv ==
    /\ channel \in [Channels -> SoundRows]
    /\ streak \in [Channels -> Nat]
    /\ overlap \subseteq Channels
    /\ \A c \in Channels : c \notin overlap => channel[c].fails = streak[c]

ChannelInv == HealthInv /\ creq \in [CRequests \cup CTests -> ReqStates]

\* A report from any copy of a row, however old, leaves rows whose status
\* matches their count, and counts that are exact unless it is marked.
LEMMA MarkHealthSound ==
    ASSUME HealthInv, NEW route \in SoundRoutes, NEW ok \in BOOLEAN, MarkHealth(route, ok)
    PROVE  HealthInv'
<1> DEFINE c == route.id
           m == Marked(route.row, ok)
           row1 == [channel[c] EXCEPT !.fails = m.fails]
           row2 == [row1 EXCEPT !.status = m.status]
<1>1. c \in Channels /\ route.row \in Rows /\ route.row.fails \in Nat /\ route.row.status \in HealthStatuses
      /\ (route.row.status = "unhealthy" <=> route.row.fails >= UnhealthyAt)
  BY DEF SoundRoutes, SoundRows, Rows
<1>2. /\ m.fails \in Nat
      /\ m.status \in HealthStatuses
      /\ m.status = "unhealthy" <=> m.fails >= UnhealthyAt
      /\ ok => m.fails = 0
      /\ ~ok => m.fails = route.row.fails + 1
  <2>1. CASE ok
    BY <2>1 DEF Marked, UnhealthyAt, HealthStatuses
  <2>2. CASE ~ok
    BY <1>1, <2>2 DEF Marked, UnhealthyAt, HealthStatuses
  <2> QED BY <2>1, <2>2
<1>3. channel' = [channel EXCEPT ![c] = row2]
  <2>1. channel' = [channel EXCEPT ![c].fails = m.fails, ![c].status = m.status]
    BY DEF MarkHealth
  <2> HIDE DEF m, c
  <2> QED BY <1>1, <2>1 DEF HealthInv
<1>4. /\ streak' = [streak EXCEPT ![c] = IF ok THEN 0 ELSE @ + 1]
      /\ overlap' = IF ok THEN overlap \ {c}
                    ELSE IF route.row.fails # channel[c].fails THEN overlap \cup {c} ELSE overlap
  BY DEF MarkHealth
<1>5. row2 \in SoundRows /\ row2.fails = m.fails
  <2> HIDE DEF m, c
  <2>1. channel[c] \in Rows
    BY <1>1 DEF HealthInv, SoundRows
  <2>2. row1 \in Rows /\ row1.fails = m.fails
    BY <1>2, <2>1 DEF Rows
  <2> HIDE DEF row1
  <2>3. row2 \in Rows /\ row2.fails = m.fails /\ row2.status = m.status
    BY <1>2, <2>2 DEF Rows
  <2> QED BY <1>2, <2>3 DEF SoundRows
<1> HIDE DEF row2, row1, m, c
<1>6. channel' \in [Channels -> SoundRows]
  BY <1>1, <1>3, <1>5 DEF HealthInv
<1>7. streak' \in [Channels -> Nat] /\ overlap' \subseteq Channels
  BY <1>1, <1>4 DEF HealthInv
<1>8. ASSUME NEW d \in Channels, d \notin overlap' PROVE channel'[d].fails = streak'[d]
  <2>1. CASE d = c /\ ok
    BY <1>2, <1>3, <1>4, <1>5, <2>1 DEF HealthInv
  <2>2. CASE d = c /\ ~ok
    <3>1. route.row.fails = channel[c].fails /\ c \notin overlap
      BY <1>4, <1>8, <2>2
    <3>2. route.row.fails = streak[c]
      BY <1>1, <3>1 DEF HealthInv
    <3>3. channel'[c].fails = route.row.fails + 1
      BY <1>1, <1>2, <1>3, <1>5, <2>2 DEF HealthInv
    <3>4. streak'[c] = streak[c] + 1
      BY <1>1, <1>4, <2>2 DEF HealthInv
    <3> QED BY <2>2, <3>2, <3>3, <3>4
  <2>3. CASE d # c
    BY <1>3, <1>4, <1>8, <2>3 DEF HealthInv
  <2> QED BY <2>1, <2>2, <2>3
<1> QED BY <1>6, <1>7, <1>8 DEF HealthInv

\* Leaving a route that has failed: the next one starts from nothing, and
\* after the last the failures are left to report.
LEMMA NextRouteSound ==
    ASSUME NEW q \in Serving, q.pc = "try",
           \A i, j \in DOMAIN q.routes : i < j => RouteBefore(q.routes[i], q.routes[j]),
           q.at \in 1 .. Len(q.routes), Len(q.failed) = q.at, q.reported <= Len(q.failed),
           q.kind # "chat" => q.calls <= MaxCalls /\ q.got <= Wanted
    PROVE  /\ NextRoute(q) \in Serving /\ Progressed(NextRoute(q))
           /\ NextRoute(q).failed = q.failed /\ NextRoute(q).reported = q.reported
<1>1. MaxCalls \in Nat /\ MaxCalls > 0 /\ Wanted \in Nat /\ Wanted > 0
  BY ChannelRoutesAssumption DEF MaxCalls
<1> DEFINE n == NextRoute(q)
<1>2. CASE q.at < Len(q.routes)
  <2> DEFINE a1 == [q EXCEPT !.pc = "try"]
             a2 == [a1 EXCEPT !.at = @ + 1]
             a3 == [a2 EXCEPT !.got = 0]
             a4 == [a3 EXCEPT !.calls = 0]
  <2>1. n = a4
    BY <1>2, SMT DEF NextRoute
  <2>2. a1 = q
    BY DEF Serving
  <2> HIDE DEF a1
  <2>3. a2 \in Serving /\ a2.pc = "try" /\ a2.kind = q.kind /\ a2.routes = q.routes
        /\ a2.failed = q.failed /\ a2.at = q.at + 1 /\ a2.reported = q.reported
    BY <2>2 DEF Serving
  <2> HIDE DEF a2
  <2>4. a3 \in Serving /\ a3.pc = "try" /\ a3.kind = q.kind /\ a3.routes = q.routes
        /\ a3.failed = q.failed /\ a3.at = q.at + 1 /\ a3.reported = q.reported /\ a3.got = 0
    BY <2>3 DEF Serving
  <2> HIDE DEF a3
  <2>5. a4 \in Serving /\ a4.pc = "try" /\ a4.kind = q.kind /\ a4.routes = q.routes
        /\ a4.failed = q.failed /\ a4.at = q.at + 1 /\ a4.reported = q.reported /\ a4.got = 0
        /\ a4.calls = 0
    BY <2>4 DEF Serving
  <2> HIDE DEF a4, n
  <2>6. Len(q.routes) \in Nat /\ q.at \in Nat
    BY DEF Serving
  <2>7. Progressed(a4)
    BY <1>1, <1>2, <2>5, <2>6 DEF Progressed
  <2> QED BY <2>1, <2>5, <2>7 DEF n
<1>3. CASE ~(q.at < Len(q.routes))
  <2> DEFINE a1 == [q EXCEPT !.pc = "report"]
             a2 == [a1 EXCEPT !.at = @ + 1]
  <2>1. n = a2
    BY <1>3, SMT DEF NextRoute
  <2>2. a1 \in Serving /\ a1.pc = "report" /\ a1.kind = q.kind /\ a1.routes = q.routes
        /\ a1.failed = q.failed /\ a1.at = q.at /\ a1.reported = q.reported
        /\ a1.got = q.got /\ a1.calls = q.calls
    BY DEF Serving
  <2> HIDE DEF a1
  <2>3. a2 \in Serving /\ a2.pc = "report" /\ a2.kind = q.kind /\ a2.routes = q.routes
        /\ a2.failed = q.failed /\ a2.at = q.at + 1 /\ a2.reported = q.reported
        /\ a2.got = q.got /\ a2.calls = q.calls
    BY <2>2 DEF Serving
  <2> HIDE DEF a2, n
  <2>4. Len(q.routes) \in Nat /\ q.at \in Nat
    BY DEF Serving
  <2>5. Progressed(a2)
    BY <1>1, <1>3, <2>3, <2>4 DEF Progressed
  <2> QED BY <2>1, <2>3, <2>5 DEF n
<1> QED BY <1>2, <1>3

\* A report leaves the request with one more failure reported, and nothing
\* else changed.
LEMMA ReportedSound ==
    ASSUME NEW q \in Serving, Progressed(q), q.reported < Len(q.failed)
    PROVE  Reported(q) \in ReqStates
<1> DEFINE n == Reported(q)
<1>1. n \in Serving /\ n.pc = q.pc /\ n.kind = q.kind /\ n.routes = q.routes
      /\ n.failed = q.failed /\ n.at = q.at /\ n.reported = q.reported + 1
      /\ n.got = q.got /\ n.calls = q.calls
  BY DEF Serving, Reported
<1> HIDE DEF n
<1>2. Len(q.failed) \in Nat /\ q.reported \in Nat
  BY DEF Serving
<1>3. Progressed(n)
  BY <1>1, <1>2 DEF Progressed
<1> QED BY <1>1, <1>3 DEF ReqStates, n

\* A request only ever holds copies of sound rows.
LEMMA ArrivesSound ==
    ASSUME HealthInv, NEW kind \in CKinds, NEW routes \in Routes(kind), routes # <<>>
    PROVE  [pc |-> "try", kind |-> kind, routes |-> routes, failed |-> <<>>,
            at |-> 1, got |-> 0, calls |-> 0, reported |-> 0] \in ReqStates
<1> DEFINE S == {route \in Resolve : kind = "edit" => route.id \in RefChannels}
           q == [pc |-> "try", kind |-> kind, routes |-> routes, failed |-> <<>>,
                 at |-> 1, got |-> 0, calls |-> 0, reported |-> 0]
<1>1. S \subseteq SoundRoutes
  BY DEF Resolve, ResolveByLocalModel, Route, SoundRoutes, HealthInv
<1>2. IsFiniteSet(S)
  <2>1. IsFiniteSet(Channels)
    BY ChannelRoutesAssumption
  <2> DEFINE T == {Route(c) : c \in Channels}
             F == [c \in Channels |-> Route(c)]
  <2>2. F \in Surjection(Channels, T)
    BY DEF Surjection
  <2>3. S \subseteq T
    BY DEF Resolve, ResolveByLocalModel
  <2> HIDE DEF S, T, F
  <2> QED BY <2>1, <2>2, <2>3, FS_Surjection, FS_Subset
<1>3. Cardinality(S) \in Nat
  BY <1>2, FS_CardinalityType
<1>4. /\ routes \in [1 .. Cardinality(S) -> S]
      /\ \A i, j \in DOMAIN routes : i < j => RouteBefore(routes[i], routes[j])
  BY DEF Routes, RouteOrder, SetToSeqs
<1> HIDE DEF S
<1>5. routes \in Seq(SoundRoutes)
  BY <1>1, <1>3, <1>4
<1>6. Len(routes) \in Nat /\ Len(routes) >= 1
  BY <1>5
<1>7. q \in Serving
  BY <1>5 DEF Serving
<1>8. MaxCalls \in Nat /\ MaxCalls > 0 /\ Wanted \in Nat /\ Wanted > 0
  BY ChannelRoutesAssumption DEF MaxCalls
<1>9. Progressed(q)
  BY <1>4, <1>6, <1>8 DEF Progressed
<1> QED BY <1>7, <1>9 DEF ReqStates

\* Giving up the current route, after reporting it (a chat) or before.
LEMMA PassOverSound ==
    ASSUME NEW p \in Serving, p.pc = "try",
           \A i, j \in DOMAIN p.routes : i < j => RouteBefore(p.routes[i], p.routes[j]),
           p.at \in 1 .. Len(p.routes), Len(p.failed) = p.at - 1, p.reported <= Len(p.failed),
           p.kind # "chat" => p.calls <= MaxCalls /\ p.got <= Wanted,
           NEW route \in SoundRoutes
    PROVE  PassOver(p, route) \in ReqStates /\ Reported(PassOver(p, route)) \in ReqStates
<1>1. p.at \in Nat /\ Len(p.routes) \in Nat /\ p.reported \in Nat /\ p.failed \in Seq(SoundRoutes)
  BY DEF Serving
<1> DEFINE f == Append(p.failed, route)
           d == [p EXCEPT !.failed = f]
<1>2. f \in Seq(SoundRoutes) /\ Len(f) = p.at
  BY <1>1
<1>3. PassOver(p, route) = NextRoute(d)
  BY DEF PassOver
<1> HIDE DEF f
<1>4. d \in Serving /\ d.pc = "try" /\ d.kind = p.kind /\ d.routes = p.routes
      /\ d.failed = f /\ d.at = p.at /\ d.reported = p.reported
      /\ d.calls = p.calls /\ d.got = p.got
  BY <1>2 DEF Serving
<1> HIDE DEF d
<1>5. d.reported <= Len(d.failed)
  BY <1>1, <1>2, <1>4
<1>6. /\ NextRoute(d) \in Serving /\ Progressed(NextRoute(d))
      /\ NextRoute(d).failed = f /\ NextRoute(d).reported = p.reported
  BY <1>2, <1>4, <1>5, NextRouteSound
<1>7. NextRoute(d).reported < Len(NextRoute(d).failed)
  BY <1>1, <1>2, <1>6
<1>8. Reported(NextRoute(d)) \in ReqStates
  BY <1>6, <1>7, ReportedSound
<1> QED BY <1>3, <1>6, <1>8 DEF ReqStates

\* An image call that fills the order ends the search at this route; one that
\* does not is repeated, or gives the route up.
LEMMA ImageCallSound ==
    ASSUME NEW p \in Serving, Progressed(p), p.pc = "try", p.kind # "chat",
           NEW n \in 0 .. Wanted + 1, NEW route \in SoundRoutes
    PROVE  AfterCall(Called(p, n), route) \in ReqStates
<1>1. MaxCalls \in Nat /\ Wanted \in Nat
  BY ChannelRoutesAssumption DEF MaxCalls
<1>2. /\ p.at \in 1 .. Len(p.routes) /\ Len(p.failed) = p.at - 1
      /\ p.reported <= Len(p.failed)
      /\ p.calls \in Nat /\ p.calls < MaxCalls /\ p.got \in Nat /\ p.got < Wanted
      /\ p.at \in Nat /\ Len(p.routes) \in Nat /\ p.reported \in Nat
      /\ \A i, j \in DOMAIN p.routes : i < j => RouteBefore(p.routes[i], p.routes[j])
  BY DEF Serving, Progressed
<1> DEFINE g == p.got + Trim(n, Wanted - p.got)
           c == [p EXCEPT !.calls = @ + 1]
           q == Called(p, n)
<1>3. g \in Nat /\ g <= Wanted
  BY <1>1, <1>2 DEF Trim
<1>4. q = [c EXCEPT !.got = g]
  BY DEF Called, Serving
<1> HIDE DEF g
<1>5. c \in Serving /\ c.pc = "try" /\ c.kind = p.kind /\ c.routes = p.routes
      /\ c.failed = p.failed /\ c.at = p.at /\ c.reported = p.reported /\ c.calls = p.calls + 1
  BY DEF Serving
<1> HIDE DEF c, q
<1>6. q \in Serving /\ q.pc = "try" /\ q.kind = p.kind /\ q.routes = p.routes
      /\ q.failed = p.failed /\ q.at = p.at /\ q.reported = p.reported
      /\ q.calls = p.calls + 1 /\ q.got = g
  BY <1>3, <1>4, <1>5 DEF Serving
<1>7. CASE HasAll(q)
  <2> DEFINE d == [q EXCEPT !.pc = "report"]
  <2>1. d \in Serving /\ d.pc = "report" /\ d.kind = p.kind /\ d.routes = p.routes
        /\ d.failed = p.failed /\ d.at = p.at /\ d.reported = p.reported
        /\ d.calls = p.calls + 1 /\ d.got = g
    BY <1>6 DEF Serving
  <2>2. g = Wanted
    BY <1>1, <1>3, <1>6, <1>7 DEF HasAll
  <2>3. AfterCall(q, route) = d
    BY <1>7 DEF AfterCall
  <2> HIDE DEF d
  <2>4. Progressed(d)
    BY <1>1, <1>2, <2>1, <2>2 DEF Progressed
  <2> QED BY <2>1, <2>3, <2>4 DEF ReqStates, q
<1>8. CASE ~HasAll(q) /\ q.calls < MaxCalls
  <2>1. g < Wanted
    BY <1>1, <1>3, <1>6, <1>8 DEF HasAll
  <2>2. Progressed(q)
    BY <1>1, <1>2, <1>3, <1>6, <1>8, <2>1 DEF Progressed
  <2>3. AfterCall(q, route) = q
    BY <1>8 DEF AfterCall
  <2> QED BY <1>6, <2>2, <2>3 DEF ReqStates, q
<1>9. CASE ~HasAll(q) /\ ~(q.calls < MaxCalls)
  <2>1. AfterCall(q, route) = PassOver(q, route)
    BY <1>9 DEF AfterCall
  <2>2. /\ q.at \in 1 .. Len(q.routes) /\ Len(q.failed) = q.at - 1
        /\ q.reported <= Len(q.failed) /\ q.calls <= MaxCalls /\ q.got <= Wanted
    BY <1>1, <1>2, <1>3, <1>6
  <2>3. \A i, j \in DOMAIN q.routes : i < j => RouteBefore(q.routes[i], q.routes[j])
    BY <1>2, <1>6
  <2>4. PassOver(q, route) \in ReqStates
    BY <1>6, <2>2, <2>3, PassOverSound
  <2> QED BY <2>1, <2>4 DEF q
<1> QED BY <1>7, <1>8, <1>9

\* What a request's or a test's step tells about what it holds.
LEMMA HeldByPc ==
    ASSUME NEW q \in ReqStates
    PROVE  /\ q.pc \in {"try", "report", "stream"} => q \in Serving /\ Progressed(q)
           /\ q.pc = "ping" => q.route \in SoundRoutes
           /\ q.pc \in {"idle", "try", "report", "stream", "done", "ping"}
BY DEF ReqStates, Serving

\* The route being tried, and one waiting to be reported, are sound copies.
LEMMA HeldRoutes ==
    ASSUME NEW q \in Serving, Progressed(q)
    PROVE  /\ q.at <= Len(q.routes) => q.routes[q.at] \in SoundRoutes
           /\ q.reported < Len(q.failed) => q.failed[q.reported + 1] \in SoundRoutes
BY DEF Serving, Progressed

\* Channels start with a count that agrees with their status.
LEMMA ChannelStart == CInit => ChannelInv
<1> SUFFICES ASSUME CInit PROVE ChannelInv
  OBVIOUS
<1>1. channel \in [Channels -> SoundRows]
  <2> SUFFICES ASSUME NEW c \in Channels PROVE channel[c] \in SoundRows
    BY DEF CInit
  <2> QED BY DEF CInit, SoundRows, Rows, HealthStatuses, UnhealthyAt
<1>2. streak \in [Channels -> Nat] /\ \A c \in Channels : channel[c].fails = streak[c]
  BY <1>1 DEF CInit, SoundRows, Rows
<1>3. creq \in [CRequests \cup CTests -> ReqStates]
  BY DEF CInit, CIdle, ReqStates
<1> QED BY <1>1, <1>2, <1>3 DEF CInit, ChannelInv, HealthInv

\* Every step keeps ChannelInv.
LEMMA ChannelStep == ChannelInv /\ [CNext]_cVars => ChannelInv'
<1> SUFFICES ASSUME ChannelInv, [CNext]_cVars PROVE ChannelInv'
  OBVIOUS
<1>0. /\ HealthInv
      /\ creq \in [CRequests \cup CTests -> ReqStates]
      /\ CDone \in ReqStates
  BY DEF ChannelInv, CDone, ReqStates
<1>a. UNCHANGED <<channel, streak, overlap>> => HealthInv'
  BY <1>0 DEF HealthInv
<1>1. ASSUME NEW r \in CRequests, CArrive(r) PROVE ChannelInv'
  <2>a. PICK kind \in CKinds : \E routes \in Routes(kind) :
           creq' = [creq EXCEPT ![r] =
            IF routes = <<>>
            THEN CDone
            ELSE [pc |-> "try", kind |-> kind, routes |-> routes, failed |-> <<>>,
                  at |-> 1, got |-> 0, calls |-> 0, reported |-> 0]]
    BY <1>1 DEF CArrive
  <2>1. PICK routes \in Routes(kind) :
           creq' = [creq EXCEPT ![r] =
            IF routes = <<>>
            THEN CDone
            ELSE [pc |-> "try", kind |-> kind, routes |-> routes, failed |-> <<>>,
                  at |-> 1, got |-> 0, calls |-> 0, reported |-> 0]]
    BY <2>a
  <2>2. routes # <<>> =>
          [pc |-> "try", kind |-> kind, routes |-> routes, failed |-> <<>>,
           at |-> 1, got |-> 0, calls |-> 0, reported |-> 0] \in ReqStates
    BY <1>0, ArrivesSound
  <2>3. creq' \in [CRequests \cup CTests -> ReqStates]
    BY <1>0, <2>1, <2>2
  <2> QED BY <1>1, <1>a, <2>3 DEF CArrive, ChannelInv
<1>2. ASSUME NEW r \in CRequests, ChatFails(r) PROVE ChannelInv'
  <2>1. creq[r] \in Serving /\ Progressed(creq[r]) /\ creq[r].pc = "try"
    BY <1>0, <1>2, HeldByPc DEF ChatFails
  <2>2. Current(r) \in SoundRoutes
    BY <2>1, HeldRoutes DEF Current, Progressed
  <2>3. HealthInv'
    BY <1>0, <1>2, <2>2, MarkHealthSound DEF ChatFails
  <2>4. creq' = [creq EXCEPT ![r] = Reported(PassOver(creq[r], Current(r)))]
    BY <1>2 DEF ChatFails
  <2>5. Reported(PassOver(creq[r], Current(r))) \in ReqStates
    BY <2>1, <2>2, PassOverSound DEF Progressed
  <2> QED BY <1>0, <2>3, <2>4, <2>5 DEF ChannelInv
<1>3. ASSUME NEW r \in CRequests, ChatOpens(r) PROVE ChannelInv'
  <2>1. creq[r] \in Serving /\ Progressed(creq[r]) /\ creq[r].pc = "try" /\ creq[r].kind = "chat"
    BY <1>0, <1>3, HeldByPc DEF ChatOpens
  <2>2. Current(r) \in SoundRoutes
    BY <2>1, HeldRoutes DEF Current, Progressed
  <2>3. HealthInv'
    BY <1>0, <1>3, <2>2, MarkHealthSound DEF ChatOpens
  <2> DEFINE n == [creq[r] EXCEPT !.pc = "stream"]
  <2>4. creq' = [creq EXCEPT ![r] = n]
    BY <1>0, <1>3 DEF ChatOpens
  <2>5. n \in Serving /\ n.pc = "stream" /\ n.kind = "chat" /\ n.routes = creq[r].routes
        /\ n.failed = creq[r].failed /\ n.at = creq[r].at /\ n.reported = creq[r].reported
    BY <2>1 DEF Serving
  <2> HIDE DEF n
  <2>6. Progressed(n)
    BY <2>1, <2>5 DEF Progressed
  <2>7. n \in ReqStates
    BY <2>5, <2>6 DEF ReqStates
  <2> QED BY <1>0, <2>3, <2>4, <2>7 DEF ChannelInv
<1>4. ASSUME NEW r \in CRequests, ChatEnds(r) PROVE ChannelInv'
  BY <1>0, <1>a, <1>4 DEF ChatEnds, ChannelInv
<1>5. ASSUME NEW r \in CRequests, ImageCall(r) PROVE ChannelInv'
  <2>1. creq[r] \in Serving /\ Progressed(creq[r]) /\ creq[r].pc = "try" /\ creq[r].kind # "chat"
    BY <1>0, <1>5, HeldByPc DEF ImageCall
  <2>2. Current(r) \in SoundRoutes
    BY <2>1, HeldRoutes DEF Current, Progressed
  <2>3. PICK n \in 0 .. Wanted + 1 :
           creq' = [creq EXCEPT ![r] = AfterCall(Called(creq[r], n), Current(r))]
    BY <1>5 DEF ImageCall
  <2>4. AfterCall(Called(creq[r], n), Current(r)) \in ReqStates
    BY <2>1, <2>2, ImageCallSound
  <2> QED BY <1>0, <1>5, <1>a, <2>3, <2>4 DEF ImageCall, ChannelInv
<1>6. ASSUME NEW r \in CRequests, ReferencesUnsupported(r) PROVE ChannelInv'
  <2>1. creq[r] \in Serving /\ Progressed(creq[r]) /\ creq[r].pc = "try"
    BY <1>0, <1>6, HeldByPc DEF ReferencesUnsupported
  <2>2. Current(r) \in SoundRoutes
    BY <2>1, HeldRoutes DEF Current, Progressed
  <2>3. creq' = [creq EXCEPT ![r] = PassOver(creq[r], Current(r))]
    BY <1>6 DEF ReferencesUnsupported
  <2>4. PassOver(creq[r], Current(r)) \in ReqStates
    BY <2>1, <2>2, PassOverSound DEF Progressed
  <2> QED BY <1>0, <1>6, <1>a, <2>3, <2>4 DEF ReferencesUnsupported, ChannelInv
<1>7. ASSUME NEW r \in CRequests, Report(r) PROVE ChannelInv'
  <2> DEFINE q == creq[r]
  <2>1. q \in Serving /\ Progressed(q) /\ q.pc = "report"
    BY <1>0, <1>7, HeldByPc DEF Report
  <2>2. CASE /\ q.reported < Len(q.failed)
             /\ MarkHealth(q.failed[q.reported + 1], FALSE)
             /\ creq' = [creq EXCEPT ![r] = Reported(q)]
    <3>1. HealthInv'
      BY <1>0, <2>1, <2>2, HeldRoutes, MarkHealthSound
    <3>2. Reported(q) \in ReqStates
      BY <2>1, <2>2, ReportedSound
    <3> QED BY <1>0, <2>2, <3>1, <3>2 DEF ChannelInv
  <2>3. CASE /\ q.at <= Len(q.routes)
             /\ MarkHealth(q.routes[q.at], TRUE)
             /\ creq' = [creq EXCEPT ![r] = CDone]
    <3>1. HealthInv'
      BY <1>0, <2>1, <2>3, HeldRoutes, MarkHealthSound
    <3> QED BY <1>0, <2>3, <3>1 DEF ChannelInv
  <2>4. CASE creq' = [creq EXCEPT ![r] = CDone] /\ UNCHANGED <<channel, streak, overlap>>
    BY <1>0, <1>a, <2>4 DEF ChannelInv
  <2> QED BY <1>7, <2>2, <2>3, <2>4 DEF Report
<1>8. ASSUME NEW t \in CTests, TestEnds(t) PROVE ChannelInv'
  <2>1. creq[t].route \in SoundRoutes
    BY <1>0, <1>8, HeldByPc DEF TestEnds
  <2>2. HealthInv'
    BY <1>0, <1>8, <2>1, MarkHealthSound DEF TestEnds
  <2> QED BY <1>0, <1>8, <2>2 DEF TestEnds, ChannelInv
<1>9. ASSUME NEW t \in CTests, NEW c \in Channels, TestBegins(t, c) PROVE ChannelInv'
  <2>1. [pc |-> "ping", route |-> Route(c)] \in ReqStates
    BY <1>0 DEF HealthInv, Route, SoundRoutes, ReqStates
  <2> QED BY <1>0, <1>9, <1>a, <2>1 DEF TestBegins, ChannelInv
<1>10. ASSUME NEW c \in Channels, UpdateChannel(c) PROVE ChannelInv'
  <2>1. PICK on \in BOOLEAN, key \in BOOLEAN :
           channel' = [channel EXCEPT ![c].on = on, ![c].key = key]
    BY <1>10 DEF UpdateChannel
  <2> DEFINE row1 == [channel[c] EXCEPT !.on = on]
             row2 == [row1 EXCEPT !.key = key]
  <2>2. channel' = [channel EXCEPT ![c] = row2]
    BY <1>0, <2>1 DEF HealthInv
  <2>3. row1 \in SoundRows /\ row1.fails = channel[c].fails
    BY <1>0 DEF HealthInv, SoundRows, Rows
  <2> HIDE DEF row1
  <2>4. row2 \in SoundRows /\ row2.fails = channel[c].fails
    BY <2>3 DEF SoundRows, Rows
  <2> HIDE DEF row2
  <2>5. channel' \in [Channels -> SoundRows]
        /\ \A d \in Channels : channel'[d].fails = channel[d].fails
    BY <1>0, <2>2, <2>4 DEF HealthInv
  <2> QED BY <1>0, <1>10, <2>5 DEF UpdateChannel, ChannelInv, HealthInv
<1>11. CASE UNCHANGED cVars
  BY <1>0, <1>a, <1>11 DEF cVars, ChannelInv
<1> QED BY <1>1, <1>2, <1>3, <1>4, <1>5, <1>6, <1>7, <1>8, <1>9, <1>10, <1>11 DEF CNext

\* ChannelInv implies what the run checks.
LEMMA ChannelInvSound == ChannelInv => ChannelsSound
<1> SUFFICES ASSUME ChannelInv PROVE ChannelsSound
  OBVIOUS
<1>1. \A r \in CRequests \cup CTests : creq[r] \in ReqStates
  BY DEF ChannelInv
<1>2. ChannelType
  BY <1>1, HeldByPc DEF ChannelInv, HealthInv, ChannelType, SoundRows
<1>3. StatusMatchesCount /\ CountExactUnlessOverlapped
  BY DEF ChannelInv, HealthInv, SoundRows, StatusMatchesCount, CountExactUnlessOverlapped
<1>4. ASSUME NEW r \in CRequests, creq[r].pc \in {"try", "report", "stream"}
      PROVE  /\ creq[r] \in Serving /\ Progressed(creq[r])
             /\ \A i, j \in DOMAIN creq[r].routes : i < j =>
                   \/ creq[r].routes[i].row.status = "healthy"
                   \/ creq[r].routes[j].row.status = "unhealthy"
             /\ creq[r].at > Len(creq[r].routes) => Len(creq[r].failed) = Len(creq[r].routes)
  <2> DEFINE q == creq[r]
  <2>1. q \in Serving /\ Progressed(q)
    BY <1>1, <1>4, HeldByPc
  <2>2. /\ \A i \in DOMAIN q.routes : q.routes[i].row.status \in HealthStatuses
        /\ q.at \in Nat /\ Len(q.routes) \in Nat
    <3>1. q.routes \in Seq(SoundRoutes) /\ q.at \in Nat
      BY <2>1 DEF Serving
    <3>2. \A route \in SoundRoutes : route.row.status \in HealthStatuses
      BY DEF SoundRoutes, SoundRows, Rows
    <3> HIDE DEF q
    <3> QED BY <3>1, <3>2
  <2>3. ASSUME NEW i \in DOMAIN q.routes, NEW j \in DOMAIN q.routes, i < j
        PROVE  q.routes[i].row.status = "healthy" \/ q.routes[j].row.status = "unhealthy"
    BY <2>1, <2>2, <2>3 DEF Progressed, RouteBefore, HealthStatuses
  <2>4. q.at > Len(q.routes) => Len(q.failed) = Len(q.routes)
    BY <2>1, <2>2 DEF Progressed
  <2> QED BY <2>1, <2>3, <2>4
<1>5. NoRouteLeftBehind
  BY <1>4 DEF NoRouteLeftBehind
<1>6. ExactImages
  BY <1>4 DEF ExactImages, Progressed
<1> QED BY <1>2, <1>3, <1>5, <1>6 DEF ChannelsSound

\* Status and count of every channel agree whatever stale copies reports are
\* computed from, the count is exact unless reports overlapped, a request
\* that gives up has tried every usable channel, unhealthy ones last, and one
\* that succeeds has exactly the images asked for.
THEOREM ChannelsStaySound == CSpec => []ChannelsSound
BY ChannelStart, ChannelStep, ChannelInvSound, PTL DEF CSpec

-----------------------------------------------------------------------------
(* The image quota of the accounts.                                        *)

QRows == [remaining : Unknown .. QCap + 1, total : Int,
          reset : {"null", "future", "past"},
          status : {"healthy", "other", "deleted"}]

\* What a probe has been told.
QOutcomes == [remaining : Unknown .. QCap + 1, total : Int, reset : {"null", "future"}]

QProbeStates ==
    [pc : {"idle"}]
    \cup [pc : {"listed"}, account : QAccounts, used : Nat]
    \cup [pc : {"write"}, account : QAccounts, out : QOutcomes, late : Nat]

\* An answer a probe is about to write is not above what ChatGPT has left
\* plus the images generated since, deducted (late) or not (qPending).
AnswerCovered(p) ==
    qProbe[p].pc = "write" =>
        qProbe[p].out.remaining
            <= qUp[qProbe[p].account] + qPending[qProbe[p].account] + qProbe[p].late

\* The two properties of the rows with the types and the fact about answers
\* under way that make them inductive.
QuotaInv ==
    /\ qRow \in [QAccounts -> QRows]
    /\ qOrder \in Seq(QAccounts) /\ Len(qOrder) = Cardinality(QAccounts)
    /\ qDue \subseteq QAccounts
    /\ qUp \in [QAccounts -> 0 .. QCap]
    /\ qUsed \in [QAccounts -> Nat]
    /\ qPending \in [QAccounts -> Nat]
    /\ qLost \in [QAccounts -> Nat]
    /\ qProbe \in [QProbes -> QProbeStates]
    /\ \A p \in QProbes : AnswerCovered(p)
    /\ QuotaTotalCovers
    /\ QuotaOverstatedOnlyByRace

\* The smaller of two numbers and the largest of three.
LEMMA MinOfTwo ==
    ASSUME NEW x \in Int, NEW y \in Int, x <= y
    PROVE  Min({x, y}) = x /\ Min({x}) = x
<1>1. x \in {x, y} /\ \A z \in {x, y} : x <= z
  OBVIOUS
<1>2. \A w \in {x, y} : (\A z \in {x, y} : w <= z) => w = x
  OBVIOUS
<1>3. Min({x, y}) = x
  BY <1>1, <1>2 DEF Min
<1>4. Min({x}) = x
  BY DEF Min
<1> QED BY <1>3, <1>4

LEMMA MaxOfThree ==
    ASSUME NEW x \in Int, NEW y \in Int, NEW z \in Int
    PROVE  /\ Max({x, y, z}) \in Int
           /\ Max({x, y, z}) >= x /\ Max({x, y, z}) >= y /\ Max({x, y, z}) >= z
<1>1. \E m \in {x, y, z} : \A w \in {x, y, z} : m >= w
  <2>1. CASE x >= y /\ x >= z
    BY <2>1
  <2>2. CASE y >= x /\ y >= z
    BY <2>2
  <2>3. CASE z >= x /\ z >= y
    BY <2>3
  <2> QED BY <2>1, <2>2, <2>3
<1>2. Max({x, y, z}) \in {x, y, z} /\ \A w \in {x, y, z} : Max({x, y, z}) >= w
  BY <1>1 DEF Max
<1> QED BY <1>2

LEMMA MaxOfTwo ==
    ASSUME NEW x \in Int, NEW y \in Int
    PROVE  Max({x, y}) \in {x, y} /\ Max({x, y}) >= x /\ Max({x, y}) >= y
<1>1. \E m \in {x, y} : \A w \in {x, y} : m >= w
  <2>1. CASE x >= y
    BY <2>1
  <2>2. CASE y >= x
    BY <2>2
  <2> QED BY <2>1, <2>2
<1>2. Max({x, y}) \in {x, y} /\ \A w \in {x, y} : Max({x, y}) >= w
  BY <1>1 DEF Max
<1> QED BY <1>2

\* Whatever entries ChatGPT lists, the outcome of a probe does not promise
\* more than ChatGPT has left.
LEMMA ProbeTellsTruth ==
    ASSUME QuotaInv, NEW a \in QAccounts, NEW items \in QAnswers(a), NEW used \in Nat
    PROVE  doProbe(items, used) \in QOutcomes /\ doProbe(items, used).remaining <= qUp[a]
<1> DEFINE u == qUp[a]
           rems == Known({i.remaining : i \in items})
           caps == Known({i.cap : i \in items})
           rem == IF rems = {} THEN Unknown ELSE Min(rems)
           cap == IF caps = {} THEN Unknown ELSE Max(caps)
           tot == IF cap <= 0 /\ rem >= 0 /\ used + rem > 0 THEN used + rem ELSE cap
           rst == IF \E i \in items : i.reset THEN "future" ELSE "null"
<1>1. u \in 0 .. QCap /\ QCap \in Nat /\ u \in Int
  BY QuotaProbeAssumption DEF QuotaInv
<1>2. doProbe(items, used) = [remaining |-> rem, total |-> tot, reset |-> rst]
  BY DEF doProbe
<1>3. rem \in Unknown .. QCap /\ rem <= u /\ cap \in Int
  <2>1. CASE items = {}
    <3>1. rems = {} /\ caps = {}
      BY <2>1 DEF Known
    <3> QED BY <1>1, <3>1 DEF Unknown
  <2>2. CASE items = {QItem(u, Unknown, TRUE)}
    <3>1. rems = {u}
      BY <1>1, <2>2 DEF Known, QItem, Unknown
    <3>2. caps = {}
      BY <2>2 DEF Known, QItem
    <3>3. Min({u}) = u
      BY <1>1, MinOfTwo
    <3> QED BY <1>1, <3>1, <3>2, <3>3 DEF Unknown
  <2>3. CASE items = {QItem(u, QCap, TRUE), QItem(QCap + 1, QCap + 1, FALSE)}
    <3>1. rems = {u, QCap + 1}
      BY <1>1, <2>3 DEF Known, QItem, Unknown
    <3>2. caps = {QCap, QCap + 1}
      BY <1>1, <2>3 DEF Known, QItem, Unknown
    <3> DEFINE k == QCap + 1
    <3>3. k \in Int /\ QCap \in Int /\ u <= k
      BY <1>1
    <3> HIDE DEF k, u
    <3>4. Min({u, k}) = u
      BY <1>1, <3>3, MinOfTwo
    <3>5. Max({QCap, k}) \in {QCap, k}
      BY <3>3, MaxOfTwo
    <3>6. rem = u /\ cap = Max({QCap, k})
      BY <3>1, <3>2, <3>4 DEF k
    <3> QED BY <1>1, <3>3, <3>5, <3>6 DEF Unknown
  <2> QED BY <2>1, <2>2, <2>3 DEF QAnswers
<1> HIDE DEF rem, cap, u
<1>4. tot \in Int /\ rst \in {"null", "future"} /\ rem \in Unknown .. QCap + 1
  BY <1>1, <1>3 DEF Unknown
<1> HIDE DEF tot, rst
<1> QED BY <1>2, <1>3, <1>4 DEF QOutcomes, u

\* A deduction takes one off what is known, and turns unknown into nothing.
LEMMA DecrementedIs ==
    ASSUME NEW n \in Int, n >= -1
    PROVE  Decremented(n) = IF n > 0 THEN n - 1 ELSE 0
<1>1. Max({0, n - 1}) \in {0, n - 1} /\ Max({0, n - 1}) >= 0 /\ Max({0, n - 1}) >= n - 1
  BY MaxOfTwo
<1> QED BY <1>1 DEF Decremented

\* What a probe holds at each of its steps.
LEMMA ProbeHolds ==
    ASSUME NEW s \in QProbeStates
    PROVE  /\ s.pc \in {"idle", "listed", "write"}
           /\ s.pc = "listed" => s.account \in QAccounts /\ s.used \in Nat
           /\ s.pc = "write" => s.account \in QAccounts /\ s.out \in QOutcomes /\ s.late \in Nat
BY DEF QProbeStates

\* Taking one element out of a sequence.
LEMMA RemoveAtIs ==
    ASSUME NEW S, NEW s \in Seq(S), NEW i \in 1 .. Len(s)
    PROVE  RemoveAt(s, i) \in Seq(S) /\ Len(RemoveAt(s, i)) = Len(s) - 1
<1> DEFINE n == Len(s)
           h == i - 1
           m == i + 1
<1>1. n \in Int /\ h \in Int /\ m \in Int /\ i \in 1 .. n
  OBVIOUS
<1>2. (\A k \in 1 .. h : s[k] \in S) /\ (\A k \in m .. n : s[k] \in S)
  OBVIOUS
<1>3. RemoveAt(s, i) = SubSeq(s, 1, h) \o SubSeq(s, m, n)
  BY DEF RemoveAt
<1>4. h = i - 1 /\ m = i + 1
  OBVIOUS
<1> HIDE DEF n, h, m
<1>5. SubSeq(s, 1, h) \in Seq(S) /\ Len(SubSeq(s, 1, h)) = IF 1 <= h THEN h - 1 + 1 ELSE 0
  BY <1>1, <1>2, SubSeqProperties
<1>6. SubSeq(s, m, n) \in Seq(S) /\ Len(SubSeq(s, m, n)) = IF m <= n THEN n - m + 1 ELSE 0
  BY <1>1, <1>2, SubSeqProperties
<1> DEFINE x == SubSeq(s, 1, h)
           y == SubSeq(s, m, n)
<1>7. Len(x) = i - 1 /\ Len(y) = n - i
  BY <1>1, <1>4, <1>5, <1>6
<1>8. x \in Seq(S) /\ y \in Seq(S) /\ RemoveAt(s, i) = x \o y
  BY <1>3, <1>5, <1>6
<1> HIDE DEF x, y
<1>9. x \o y \in Seq(S) /\ Len(x \o y) = Len(x) + Len(y)
  BY <1>8, ConcatProperties
<1> QED BY <1>1, <1>7, <1>8, <1>9 DEF n

\* A row after ApplyQuotaResult: a known count is taken over, an unknown one
\* keeps the old, and the total covers both.
LEMMA AppliedIs ==
    ASSUME NEW rw \in QRows, NEW out \in QOutcomes
    PROVE  /\ Applied(rw, out) \in QRows
           /\ Applied(rw, out).remaining = IF out.remaining < 0 THEN rw.remaining ELSE out.remaining
           /\ Applied(rw, out).total >= rw.total
           /\ out.remaining >= 0 => Applied(rw, out).total >= out.remaining
           /\ Applied(rw, out).status = rw.status
<1> DEFINE x == IF out.total < 0 THEN 0 ELSE out.total
           y == IF out.remaining < 0 THEN 0 ELSE out.remaining
           m == Max({rw.total, x, y})
           rem == IF out.remaining < 0 THEN rw.remaining ELSE out.remaining
           w1 == [rw EXCEPT !.remaining = rem]
           w2 == [w1 EXCEPT !.total = m]
           w3 == [w2 EXCEPT !.reset = out.reset]
<1>1. /\ rw.total \in Int /\ out.total \in Int /\ QCap \in Nat
      /\ out.remaining \in Unknown .. QCap + 1 /\ rw.remaining \in Unknown .. QCap + 1
      /\ out.reset \in {"null", "future", "past"}
      /\ out.remaining \in Int
  BY QuotaProbeAssumption DEF QRows, QOutcomes, Unknown
<1>2. x \in Int /\ y \in Int /\ rem \in Unknown .. QCap + 1
  BY <1>1
<1>3. out.remaining >= 0 => y = out.remaining
  BY <1>1
<1>4. Applied(rw, out) = w3
  BY DEF Applied, QRows
<1> HIDE DEF x, y
<1>5. m \in Int /\ m >= rw.total /\ m >= y
  BY <1>1, <1>2, MaxOfThree
<1>6. rem = IF out.remaining < 0 THEN rw.remaining ELSE out.remaining
  OBVIOUS
<1> HIDE DEF m, rem
<1>7. w1 \in QRows /\ w1.remaining = rem /\ w1.status = rw.status
  BY <1>2 DEF QRows
<1> HIDE DEF w1
<1>8. w2 \in QRows /\ w2.remaining = rem /\ w2.total = m /\ w2.status = rw.status
  BY <1>5, <1>7 DEF QRows
<1> HIDE DEF w2
<1>9. w3 \in QRows /\ w3.remaining = rem /\ w3.total = m /\ w3.status = rw.status
  BY <1>1, <1>8 DEF QRows
<1> HIDE DEF w3
<1> QED BY <1>3, <1>4, <1>5, <1>6, <1>9

\* No image has been made, no probe has begun.
LEMMA QuotaStart == QInit => QuotaInv
<1> SUFFICES ASSUME QInit PROVE QuotaInv
  OBVIOUS
<1>1. QCap \in Nat
  BY QuotaProbeAssumption
<1>2. qRow \in [QAccounts -> QRows]
  BY <1>1 DEF QInit, QRows, Unknown
<1>3. qOrder \in Seq(QAccounts) /\ Len(qOrder) = Cardinality(QAccounts)
  <2> DEFINE n == Cardinality(QAccounts)
  <2>1. n \in Nat /\ ExistsBijection(1 .. n, QAccounts)
    BY FS_CardinalityType, QuotaProbeAssumption
  <2>2. \E f \in [1 .. n -> QAccounts] : IsInjective(f)
    BY <2>1 DEF ExistsBijection, Bijection, Injection, IsInjective
  <2>3. SetToSeq(QAccounts) \in [1 .. n -> QAccounts]
    BY <2>2 DEF SetToSeq
  <2> QED BY <2>1, <2>3 DEF QInit
<1>4. qProbe \in [QProbes -> QProbeStates] /\ \A p \in QProbes : AnswerCovered(p)
  BY DEF QInit, QIdle, QProbeStates, AnswerCovered
<1>5. QuotaTotalCovers /\ QuotaOverstatedOnlyByRace
  BY <1>1 DEF QInit, QuotaTotalCovers, QuotaOverstatedOnlyByRace, Unknown
<1> QED BY <1>1, <1>2, <1>3, <1>4, <1>5 DEF QInit, QuotaInv

\* Every step of a probe, an image and the upstream keeps the invariant.
LEMMA QuotaStep == QuotaInv /\ [QNext]_qVars => QuotaInv'
<1> SUFFICES ASSUME QuotaInv, [QNext]_qVars PROVE QuotaInv'
  OBVIOUS
<1>0. /\ qRow \in [QAccounts -> QRows]
      /\ qOrder \in Seq(QAccounts) /\ Len(qOrder) = Cardinality(QAccounts)
      /\ qUp \in [QAccounts -> 0 .. QCap]
      /\ qUsed \in [QAccounts -> Nat]
      /\ qPending \in [QAccounts -> Nat]
      /\ qLost \in [QAccounts -> Nat]
      /\ qProbe \in [QProbes -> QProbeStates]
      /\ \A p \in QProbes : AnswerCovered(p)
      /\ QIdle \in QProbeStates
      /\ QCap \in Nat
  BY QuotaProbeAssumption DEF QuotaInv, QIdle, QProbeStates
<1>a. ASSUME UNCHANGED <<qRow, qOrder, qDue, qUp, qUsed, qPending, qLost>>,
             qProbe' \in [QProbes -> QProbeStates],
             \A p \in QProbes : AnswerCovered(p)'
      PROVE  QuotaInv'
  BY <1>a DEF QuotaInv, QuotaTotalCovers, QuotaOverstatedOnlyByRace
<1>b. ASSUME NEW p \in QProbes, qProbe'[p] = qProbe[p], UNCHANGED <<qUp, qPending>>
      PROVE  AnswerCovered(p)'
  BY <1>b, <1>0 DEF AnswerCovered
<1>c. ASSUME NEW p \in QProbes, qProbe'[p].pc # "write"
      PROVE  AnswerCovered(p)'
  BY <1>c DEF AnswerCovered
<1>1. CASE QScan
  <2>1. QListed \subseteq QAccounts
    <3> DEFINE K == {k \in DOMAIN qOrder :
                       /\ QCandidate(qOrder[k])
                       /\ Cardinality({j \in 1 .. k - 1 : QCandidate(qOrder[j])}) < QLimit}
    <3>1. K \subseteq DOMAIN qOrder /\ QListed = {qOrder[i] : i \in K}
      BY DEF QListed
    <3> HIDE DEF K
    <3> QED BY <1>0, <3>1
  <2>2. ASSUME NEW p \in QProbes
        PROVE  qProbe'[p] \in QProbeStates /\ AnswerCovered(p)'
    <3>1. CASE p \in QListed
      <4>1. qProbe'[p] = [pc |-> "listed", account |-> p, used |-> qUsed[p]]
        BY <1>1, <3>1 DEF QScan, QBegin
      <4>2. qUsed[p] \in Nat
        BY <1>0, <2>1, <3>1
      <4> QED BY <1>c, <2>1, <3>1, <4>1, <4>2 DEF QProbeStates
    <3>2. CASE p \notin QListed
      <4>1. qProbe'[p] = qProbe[p]
        BY <1>1, <3>2 DEF QScan
      <4>2. UNCHANGED <<qUp, qPending>>
        BY <1>1 DEF QScan
      <4> QED BY <1>0, <1>b, <4>1, <4>2
    <3> QED BY <3>1, <3>2
  <2>3. qProbe' \in [QProbes -> QProbeStates]
    BY <1>1, <2>2 DEF QScan
  <2> QED BY <1>1, <1>a, <2>2, <2>3 DEF QScan
<1>2. CASE QElapse
  <2>1. UNCHANGED <<qRow, qOrder, qUp, qUsed, qPending, qProbe, qLost>>
    BY <1>2 DEF QElapse
  <2>2. qDue' \subseteq QAccounts
    BY <1>0, <1>2 DEF QElapse, QuotaInv
  <2>3. \A p \in QProbes : AnswerCovered(p)'
    BY <1>b, <2>1
  <2> QED BY <2>1, <2>2, <2>3 DEF QuotaInv, QuotaTotalCovers, QuotaOverstatedOnlyByRace
<1>3. ASSUME NEW p \in QProbes, NEW a \in QAccounts, NEW out \in QOutcomes,
             qProbe' = [qProbe EXCEPT ![p] = [pc |-> "write", account |-> a,
                                              out |-> out, late |-> 0]],
             out.remaining <= qUp[a],
             UNCHANGED <<qRow, qOrder, qDue, qUp, qUsed, qPending, qLost>>
      PROVE  QuotaInv'
  <2> DEFINE stat == [pc |-> "write", account |-> a, out |-> out, late |-> 0]
  <2>1. stat \in QProbeStates
    BY DEF QProbeStates
  <2>2. qProbe' = [qProbe EXCEPT ![p] = stat]
    BY <1>3
  <2>3. stat.account = a /\ stat.out = out /\ stat.late = 0
    OBVIOUS
  <2> HIDE DEF stat
  <2>4. qProbe' \in [QProbes -> QProbeStates]
    BY <1>0, <2>1, <2>2
  <2>5. ASSUME NEW q \in QProbes PROVE AnswerCovered(q)'
    <3>1. CASE q = p
      <4>1. qProbe'[q] = stat
        BY <1>0, <2>2, <3>1
      <4>2. out.remaining \in Int /\ qUp[a] \in Int /\ qPending[a] \in Nat
        BY <1>0 DEF QOutcomes, Unknown
      <4>3. out.remaining <= qUp[a] + qPending[a] + 0
        BY <1>3, <4>2
      <4> QED BY <1>3, <2>3, <4>1, <4>3 DEF AnswerCovered
    <3>2. CASE q # p
      <4>1. qProbe'[q] = qProbe[q]
        BY <1>0, <2>2, <3>2
      <4> QED BY <1>3, <1>b, <4>1
    <3> QED BY <3>1, <3>2
  <2> QED BY <1>3, <1>a, <2>4, <2>5
<1>4. ASSUME NEW p \in QProbes, QAnswer(p) PROVE QuotaInv'
  <2> DEFINE a == qProbe[p].account
             u == qProbe[p].used
  <2>1. qProbe[p].pc = "listed" /\ a \in QAccounts /\ u \in Nat
    BY <1>0, <1>4, ProbeHolds DEF QAnswer
  <2>2. PICK items \in QAnswers(a) : QGot(p, doProbe(items, u))
    BY <1>4 DEF QAnswer
  <2>3. doProbe(items, u) \in QOutcomes /\ doProbe(items, u).remaining <= qUp[a]
    BY <2>1, ProbeTellsTruth
  <2>4. qProbe' = [qProbe EXCEPT ![p] = [pc |-> "write", account |-> a,
                                         out |-> doProbe(items, u), late |-> 0]]
    BY <2>2 DEF QGot
  <2>5. UNCHANGED <<qRow, qOrder, qDue, qUp, qUsed, qPending, qLost>>
    BY <1>4 DEF QAnswer
  <2> HIDE DEF a, u
  <2> QED BY <1>3, <2>1, <2>3, <2>4, <2>5
<1>5. ASSUME NEW p \in QProbes, QAnswerFails(p) PROVE QuotaInv'
  <2> DEFINE a == qProbe[p].account
  <2>1. qProbe[p].pc = "listed" /\ a \in QAccounts
    BY <1>0, <1>5, ProbeHolds DEF QAnswerFails
  <2>2. qProbe' = [qProbe EXCEPT ![p] = [pc |-> "write", account |-> a,
                                         out |-> QFailed, late |-> 0]]
    BY <1>5 DEF QAnswerFails, QGot
  <2>3. QFailed \in QOutcomes /\ QFailed.remaining <= qUp[a]
    BY <1>0, <2>1 DEF QFailed, QOutcomes, Unknown
  <2>4. UNCHANGED <<qRow, qOrder, qDue, qUp, qUsed, qPending, qLost>>
    BY <1>5 DEF QAnswerFails
  <2> HIDE DEF a
  <2> QED BY <1>3, <2>1, <2>2, <2>3, <2>4
<1>6. ASSUME NEW p \in QProbes, qProbe' = [qProbe EXCEPT ![p] = QIdle],
             UNCHANGED <<qUp, qPending>>
      PROVE  qProbe' \in [QProbes -> QProbeStates] /\ \A q \in QProbes : AnswerCovered(q)'
  <2>1. qProbe' \in [QProbes -> QProbeStates]
    BY <1>0, <1>6
  <2>2. ASSUME NEW q \in QProbes PROVE AnswerCovered(q)'
    <3>1. CASE q = p
      <4>1. qProbe'[q].pc = "idle"
        BY <1>0, <1>6, <3>1 DEF QIdle
      <4> QED BY <1>c, <4>1
    <3>2. CASE q # p
      <4>1. qProbe'[q] = qProbe[q]
        BY <1>0, <1>6, <3>2
      <4> QED BY <1>6, <1>b, <4>1
    <3> QED BY <3>1, <3>2
  <2> QED BY <2>1, <2>2
<1>7. ASSUME NEW p \in QProbes, ApplyQuotaResult(p) PROVE QuotaInv'
  <2> DEFINE a == qProbe[p].account
             out == qProbe[p].out
             late == qProbe[p].late
             rw == Applied(qRow[a], out)
  <2>1. qProbe[p].pc = "write" /\ a \in QAccounts /\ out \in QOutcomes /\ late \in Nat
    BY <1>0, <1>7, ProbeHolds DEF ApplyQuotaResult
  <2>2. qProbe' = [qProbe EXCEPT ![p] = QIdle] /\ UNCHANGED <<qUp, qUsed, qPending>>
    BY <1>7 DEF ApplyQuotaResult
  <2>3. qProbe' \in [QProbes -> QProbeStates] /\ \A q \in QProbes : AnswerCovered(q)'
    BY <1>6, <2>2
  <2>4. CASE qRow[a].status = "deleted"
    <3>1. UNCHANGED <<qRow, qOrder, qDue, qLost>>
      BY <1>7, <2>4 DEF ApplyQuotaResult
    <3> QED BY <1>a, <2>2, <2>3, <3>1
  <2>5. CASE qRow[a].status # "deleted"
    <3>1. /\ qRow' = [qRow EXCEPT ![a] = rw]
          /\ QTouched(a, out)
          /\ qLost' = [qLost EXCEPT ![a] = IF out.remaining < 0 THEN @ ELSE late]
      BY <1>7, <2>5 DEF ApplyQuotaResult
    <3>2. out.remaining <= qUp[a] + qPending[a] + late
      BY <1>0, <2>1 DEF AnswerCovered
    <3> HIDE DEF a, out, late
    <3>3. /\ rw \in QRows
          /\ rw.remaining = IF out.remaining < 0 THEN qRow[a].remaining ELSE out.remaining
          /\ rw.total >= qRow[a].total
          /\ out.remaining >= 0 => rw.total >= out.remaining
      BY <1>0, <2>1, AppliedIs
    <3> HIDE DEF rw
    <3>4. qOrder' \in Seq(QAccounts) /\ Len(qOrder') = Cardinality(QAccounts) /\ qDue' \subseteq QAccounts
      <4>1. PICK i \in DOMAIN qOrder : qOrder' = Append(RemoveAt(qOrder, i), a)
        BY <3>1 DEF QTouched
      <4>2. i \in 1 .. Len(qOrder) /\ Len(qOrder) \in Nat
        BY <1>0, <4>1
      <4>5. RemoveAt(qOrder, i) \in Seq(QAccounts) /\ Len(RemoveAt(qOrder, i)) = Len(qOrder) - 1
        BY <1>0, <4>2, RemoveAtIs
      <4>6. qOrder' \in Seq(QAccounts) /\ Len(qOrder') = Len(qOrder)
        BY <2>1, <4>1, <4>2, <4>5
      <4> QED BY <1>0, <3>1, <4>6 DEF QTouched, QuotaInv
    <3>5. qRow' \in [QAccounts -> QRows] /\ qLost' \in [QAccounts -> Nat]
      BY <1>0, <2>1, <3>1, <3>3
    <3>6. ASSUME NEW b \in QAccounts
          PROVE  /\ qRow'[b].remaining > 0 => qRow'[b].total >= qRow'[b].remaining
                 /\ qRow'[b].remaining <= qUp'[b] + qPending'[b] + qLost'[b]
      <4>1. /\ qRow[b].remaining > 0 => qRow[b].total >= qRow[b].remaining
            /\ qRow[b].remaining <= qUp[b] + qPending[b] + qLost[b]
        BY DEF QuotaInv, QuotaTotalCovers, QuotaOverstatedOnlyByRace
      <4>2. CASE b # a
        BY <1>0, <2>2, <3>1, <4>1, <4>2
      <4>3. CASE b = a
        <5>1. qRow'[b] = rw /\ qLost'[b] = IF out.remaining < 0 THEN qLost[b] ELSE late
          BY <1>0, <3>1, <4>3
        <5>2. /\ rw.total \in Int /\ rw.remaining \in Int /\ qRow[a].total \in Int
              /\ qRow[a].remaining \in Int /\ out.remaining \in Int
          <6>1. rw.total \in Int /\ rw.remaining \in Int
            BY <1>0, <3>3 DEF QRows, Unknown
          <6>2. qRow[a].total \in Int /\ qRow[a].remaining \in Int
            BY <1>0, <2>1 DEF QRows, Unknown
          <6>3. out.remaining \in Int
            BY <1>0, <2>1 DEF QOutcomes, Unknown
          <6> QED BY <6>1, <6>2, <6>3
        <5>3. CASE out.remaining < 0
          BY <2>2, <3>3, <4>1, <4>3, <5>1, <5>2, <5>3
        <5>4. CASE ~(out.remaining < 0)
          BY <2>2, <3>2, <3>3, <4>3, <5>1, <5>2, <5>4
        <5> QED BY <5>3, <5>4
      <4> QED BY <4>2, <4>3
    <3>7. QuotaTotalCovers' /\ QuotaOverstatedOnlyByRace'
      BY <3>6 DEF QuotaTotalCovers, QuotaOverstatedOnlyByRace
    <3> QED BY <1>0, <2>2, <2>3, <3>4, <3>5, <3>7 DEF QuotaInv
  <2> QED BY <2>4, <2>5
<1>8. ASSUME NEW p \in QProbes, QWriteFails(p) PROVE QuotaInv'
  <2>1. /\ qProbe' = [qProbe EXCEPT ![p] = QIdle]
        /\ UNCHANGED <<qRow, qOrder, qDue, qUp, qUsed, qPending, qLost>>
    BY <1>8 DEF QWriteFails
  <2> QED BY <1>6, <1>a, <2>1
<1>9. ASSUME NEW a \in QAccounts, QProbeByID(a) PROVE QuotaInv'
  <2> DEFINE stat == [pc |-> "listed", account |-> a, used |-> qUsed[a]]
  <2>1. /\ qProbe' = [qProbe EXCEPT ![QAdmin] = stat]
        /\ UNCHANGED <<qRow, qOrder, qDue, qUp, qUsed, qPending, qLost>>
    BY <1>9 DEF QProbeByID, QBegin
  <2>2. stat \in QProbeStates /\ stat.pc # "write"
    BY <1>0 DEF QProbeStates
  <2> HIDE DEF stat
  <2>3. qProbe' \in [QProbes -> QProbeStates]
    BY <1>0, <2>1, <2>2
  <2>4. ASSUME NEW q \in QProbes PROVE AnswerCovered(q)'
    <3>1. CASE q = QAdmin
      <4>1. qProbe'[q].pc # "write"
        BY <1>0, <2>1, <2>2, <3>1
      <4> QED BY <1>c, <4>1
    <3>2. CASE q # QAdmin
      <4>1. qProbe'[q] = qProbe[q]
        BY <1>0, <2>1, <3>2
      <4> QED BY <1>b, <2>1, <4>1
    <3> QED BY <3>1, <3>2
  <2> QED BY <1>a, <2>1, <2>3, <2>4
<1>10. ASSUME NEW a \in QAccounts, QGenerate(a) PROVE QuotaInv'
  <2>1. /\ qUp[a] > 0
        /\ qUp' = [qUp EXCEPT ![a] = @ - 1]
        /\ qUsed' = [qUsed EXCEPT ![a] = @ + 1]
        /\ qPending' = [qPending EXCEPT ![a] = @ + 1]
        /\ UNCHANGED <<qRow, qOrder, qDue, qProbe, qLost>>
    BY <1>10 DEF QGenerate
  <2>2. /\ qUp' \in [QAccounts -> 0 .. QCap] /\ qUsed' \in [QAccounts -> Nat]
        /\ qPending' \in [QAccounts -> Nat]
    BY <1>0, <2>1
  <2>3. \A b \in QAccounts : qUp'[b] + qPending'[b] = qUp[b] + qPending[b]
    BY <1>0, <2>1
  <2>4. ASSUME NEW q \in QProbes PROVE AnswerCovered(q)'
    <3>1. qProbe'[q] = qProbe[q]
      BY <2>1
    <3>2. CASE qProbe[q].pc # "write"
      BY <1>c, <3>1, <3>2
    <3>3. CASE qProbe[q].pc = "write"
      <4>1. qProbe[q].account \in QAccounts /\ qProbe[q].late \in Nat
        BY <1>0, <3>3, ProbeHolds
      <4> QED BY <1>0, <2>2, <2>3, <3>1, <3>3, <4>1 DEF AnswerCovered
    <3> QED BY <3>2, <3>3
  <2>5. QuotaTotalCovers' /\ QuotaOverstatedOnlyByRace'
    BY <1>0, <2>1, <2>2, <2>3 DEF QuotaInv, QuotaTotalCovers, QuotaOverstatedOnlyByRace
  <2> QED BY <2>1, <2>2, <2>4, <2>5 DEF QuotaInv
<1>11. ASSUME NEW a \in QAccounts, QDecrQuota(a) PROVE QuotaInv'
  <2>1. /\ qPending[a] > 0
        /\ qPending' = [qPending EXCEPT ![a] = @ - 1]
        /\ qRow' = IF qRow[a].status = "deleted" THEN qRow
                   ELSE [qRow EXCEPT ![a].remaining = Decremented(@)]
        /\ qLost' = IF qRow[a].status = "deleted" THEN [qLost EXCEPT ![a] = @ + 1] ELSE qLost
        /\ UNCHANGED <<qOrder, qDue, qUp, qUsed>>
    BY <1>11 DEF QDecrQuota
  <2>2. qPending' \in [QAccounts -> Nat] /\ qLost' \in [QAccounts -> Nat]
    BY <1>0, <2>1
  <2>3. ASSUME NEW q \in QProbes
        PROVE  qProbe'[q] \in QProbeStates /\ AnswerCovered(q)'
    <3>1. CASE qProbe[q].pc = "write" /\ qProbe[q].account = a
      <4> DEFINE stat == [qProbe[q] EXCEPT !.late = @ + 1]
      <4>1. qProbe'[q] = stat
        BY <1>11, <3>1 DEF QDecrQuota
      <4>2. /\ qProbe[q] \in [pc : {"write"}, account : QAccounts, out : QOutcomes, late : Nat]
        BY <1>0, <3>1 DEF QProbeStates
      <4>3. /\ stat \in QProbeStates /\ stat.pc = "write" /\ stat.account = a
            /\ stat.out = qProbe[q].out /\ stat.late = qProbe[q].late + 1
        BY <3>1, <4>2 DEF QProbeStates
      <4>4. qProbe[q].out.remaining <= qUp[a] + qPending[a] + qProbe[q].late
        BY <1>0, <3>1 DEF AnswerCovered
      <4>5. /\ qProbe[q].out.remaining \in Int /\ qUp[a] \in Int /\ qPending[a] \in Int
            /\ qProbe[q].late \in Int
        BY <1>0, <4>2 DEF QOutcomes, Unknown
      <4>6. qPending'[a] = qPending[a] - 1 /\ qUp'[a] = qUp[a]
        BY <1>0, <2>1
      <4> HIDE DEF stat
      <4>7. stat.out.remaining <= qUp'[a] + qPending'[a] + stat.late
        BY <4>3, <4>4, <4>5, <4>6
      <4> QED BY <4>1, <4>3, <4>7 DEF AnswerCovered
    <3>2. CASE ~(qProbe[q].pc = "write" /\ qProbe[q].account = a)
      <4>1. qProbe'[q] = qProbe[q]
        BY <1>11, <3>2 DEF QDecrQuota
      <4>2. CASE qProbe[q].pc # "write"
        BY <1>0, <1>c, <4>1, <4>2
      <4>3. CASE qProbe[q].pc = "write"
        <5>1. qProbe[q].account \in QAccounts /\ qProbe[q].account # a
          BY <1>0, <3>2, <4>3, ProbeHolds
        <5>2. qPending'[qProbe[q].account] = qPending[qProbe[q].account]
          BY <1>0, <2>1, <5>1
        <5> QED BY <1>0, <2>1, <4>1, <4>3, <5>2 DEF AnswerCovered
      <4> QED BY <4>2, <4>3
    <3> QED BY <3>1, <3>2
  <2>4. qProbe' \in [QProbes -> QProbeStates]
    BY <1>11, <2>3 DEF QDecrQuota
  <2>5. ASSUME NEW b \in QAccounts
        PROVE  /\ qRow'[b] \in QRows
               /\ qRow'[b].remaining > 0 => qRow'[b].total >= qRow'[b].remaining
               /\ qRow'[b].remaining <= qUp'[b] + qPending'[b] + qLost'[b]
    <3>1. /\ qRow[b].remaining > 0 => qRow[b].total >= qRow[b].remaining
          /\ qRow[b].remaining <= qUp[b] + qPending[b] + qLost[b]
      BY DEF QuotaInv, QuotaTotalCovers, QuotaOverstatedOnlyByRace
    <3>2. /\ qRow[b] \in QRows /\ qRow[b].remaining \in Unknown .. QCap + 1
          /\ qRow[b].total \in Int /\ qRow[b].remaining \in Int
          /\ qUp[b] \in Nat /\ qPending[b] \in Nat /\ qLost[b] \in Nat
      BY <1>0 DEF QRows, Unknown
    <3>3. CASE b # a
      BY <1>0, <2>1, <3>1, <3>2, <3>3
    <3>4. CASE b = a /\ qRow[a].status = "deleted"
      BY <1>0, <2>1, <3>1, <3>2, <3>4
    <3>5. CASE b = a /\ qRow[a].status # "deleted"
      <4> DEFINE d == Decremented(qRow[b].remaining)
                 rw == [qRow[b] EXCEPT !.remaining = d]
      <4>1. qRow'[b] = rw
        BY <1>0, <2>1, <3>5
      <4>2. d = IF qRow[b].remaining > 0 THEN qRow[b].remaining - 1 ELSE 0
        <5>1. qRow[b].remaining \in Int /\ qRow[b].remaining >= -1
          BY <3>2 DEF Unknown
        <5> QED BY <5>1, DecrementedIs
      <4>3. d \in Unknown .. QCap + 1 /\ d \in Int /\ d >= 0
        <5> DEFINE n == qRow[b].remaining
        <5>1. n \in Int /\ n <= QCap + 1 /\ QCap \in Nat /\ d = IF n > 0 THEN n - 1 ELSE 0
          BY <1>0, <3>2, <4>2 DEF Unknown
        <5> HIDE DEF n, d
        <5> QED BY <5>1 DEF Unknown
      <4> HIDE DEF d
      <4>4. rw \in QRows /\ rw.remaining = d /\ rw.total = qRow[b].total
        BY <3>2, <4>3 DEF QRows
      <4> HIDE DEF rw
      <4>5. qPending'[b] = qPending[b] - 1 /\ qLost'[b] = qLost[b] /\ qUp'[b] = qUp[b] /\ qPending[b] > 0
        BY <1>0, <2>1, <3>5
      <4>6. rw.remaining > 0 => rw.total >= rw.remaining
        BY <3>1, <3>2, <4>2, <4>3, <4>4
      <4>7. rw.remaining <= qUp'[b] + qPending'[b] + qLost'[b]
        BY <3>1, <3>2, <4>2, <4>3, <4>4, <4>5
      <4> QED BY <4>1, <4>4, <4>6, <4>7
    <3> QED BY <3>3, <3>4, <3>5
  <2>6. qRow' \in [QAccounts -> QRows]
    <3>1. DOMAIN qRow' = QAccounts /\ qRow' = [b \in QAccounts |-> qRow'[b]]
      BY <1>0, <2>1
    <3> QED BY <2>5, <3>1
  <2>7. QuotaTotalCovers' /\ QuotaOverstatedOnlyByRace'
    BY <2>5 DEF QuotaTotalCovers, QuotaOverstatedOnlyByRace
  <2> QED BY <1>0, <2>1, <2>2, <2>3, <2>4, <2>6, <2>7 DEF QuotaInv
<1>12. ASSUME NEW a \in QAccounts, QReset(a) PROVE QuotaInv'
  <2>1. /\ qUp' = [qUp EXCEPT ![a] = QCap]
        /\ qUsed' \in {qUsed, [qUsed EXCEPT ![a] = 0]}
        /\ qRow' = [qRow EXCEPT ![a].reset = IF @ = "future" THEN "past" ELSE @]
        /\ UNCHANGED <<qOrder, qDue, qPending, qProbe, qLost>>
    BY <1>12 DEF QReset
  <2>2. /\ qUp' \in [QAccounts -> 0 .. QCap] /\ qUsed' \in [QAccounts -> Nat]
        /\ \A b \in QAccounts : qUp'[b] >= qUp[b]
    <3>1. qUp' \in [QAccounts -> 0 .. QCap]
      BY <1>0, <2>1
    <3>2. qUsed' \in [QAccounts -> Nat]
      <4>1. CASE qUsed' = qUsed
        BY <1>0, <4>1
      <4>2. CASE qUsed' = [qUsed EXCEPT ![a] = 0]
        BY <1>0, <4>2
      <4> QED BY <2>1, <4>1, <4>2
    <3>3. ASSUME NEW b \in QAccounts PROVE qUp'[b] >= qUp[b]
      BY <1>0, <2>1
    <3> QED BY <3>1, <3>2, <3>3
  <2>3. /\ qRow' \in [QAccounts -> QRows]
        /\ \A b \in QAccounts : qRow'[b].remaining = qRow[b].remaining
                                /\ qRow'[b].total = qRow[b].total
    <3> DEFINE x == IF qRow[a].reset = "future" THEN "past" ELSE qRow[a].reset
               rw == [qRow[a] EXCEPT !.reset = x]
    <3>1. qRow' = [qRow EXCEPT ![a] = rw]
      BY <2>1
    <3>2. x \in {"null", "future", "past"}
      BY <1>0 DEF QRows
    <3> HIDE DEF x
    <3>3. rw \in QRows /\ rw.remaining = qRow[a].remaining /\ rw.total = qRow[a].total
      BY <1>0, <3>2 DEF QRows
    <3> HIDE DEF rw
    <3> QED BY <1>0, <3>1, <3>3
  <2>4. ASSUME NEW q \in QProbes PROVE AnswerCovered(q)'
    <3>1. qProbe'[q] = qProbe[q]
      BY <2>1
    <3>2. CASE qProbe[q].pc # "write"
      BY <1>c, <3>1, <3>2
    <3>3. CASE qProbe[q].pc = "write"
      <4> DEFINE b == qProbe[q].account
                 n == qProbe[q].out.remaining
      <4>1. b \in QAccounts /\ qProbe[q].late \in Nat /\ n \in Int
        BY <1>0, <3>3, ProbeHolds DEF QOutcomes, Unknown
      <4>2. n <= qUp[b] + qPending[b] + qProbe[q].late
        BY <1>0, <3>3 DEF AnswerCovered
      <4>3. qUp[b] \in Int /\ qUp'[b] \in Int /\ qUp'[b] >= qUp[b] /\ qPending[b] \in Int
        BY <1>0, <2>2, <4>1
      <4>4. n <= qUp'[b] + qPending[b] + qProbe[q].late
        BY <4>1, <4>2, <4>3
      <4> QED BY <2>1, <3>1, <4>4 DEF AnswerCovered
    <3> QED BY <3>2, <3>3
  <2>5. QuotaTotalCovers'
    BY <2>3 DEF QuotaInv, QuotaTotalCovers
  <2>6. QuotaOverstatedOnlyByRace'
    <3> SUFFICES ASSUME NEW b \in QAccounts
                 PROVE  qRow'[b].remaining <= qUp'[b] + qPending'[b] + qLost'[b]
      BY DEF QuotaOverstatedOnlyByRace
    <3>1. qRow[b].remaining <= qUp[b] + qPending[b] + qLost[b]
      BY DEF QuotaInv, QuotaOverstatedOnlyByRace
    <3>2. /\ qRow[b].remaining \in Int /\ qUp[b] \in Int /\ qUp'[b] \in Int
          /\ qPending[b] \in Int /\ qLost[b] \in Int
      BY <1>0, <2>2 DEF QRows, Unknown
    <3>3. /\ qUp'[b] >= qUp[b] /\ qRow'[b].remaining = qRow[b].remaining
          /\ qPending'[b] = qPending[b] /\ qLost'[b] = qLost[b]
      BY <2>1, <2>2, <2>3
    <3> QED BY <3>1, <3>2, <3>3
  <2> QED BY <2>1, <2>2, <2>3, <2>4, <2>5, <2>6 DEF QuotaInv
<1>13. ASSUME NEW a \in QAccounts, QStatus(a) PROVE QuotaInv'
  <2>1. PICK s \in {"healthy", "other", "deleted"} : qRow' = [qRow EXCEPT ![a].status = s]
    BY <1>13 DEF QStatus
  <2>2. UNCHANGED <<qOrder, qDue, qUp, qUsed, qPending, qProbe, qLost>>
    BY <1>13 DEF QStatus
  <2>3. /\ qRow' \in [QAccounts -> QRows]
        /\ \A b \in QAccounts : qRow'[b].remaining = qRow[b].remaining
                                /\ qRow'[b].total = qRow[b].total
    BY <1>0, <2>1 DEF QRows
  <2>4. \A q \in QProbes : AnswerCovered(q)'
    BY <1>b, <2>2
  <2> QED BY <2>2, <2>3, <2>4 DEF QuotaInv, QuotaTotalCovers, QuotaOverstatedOnlyByRace
<1>14. CASE UNCHANGED qVars
  <2>1. \A q \in QProbes : AnswerCovered(q)'
    BY <1>b, <1>14 DEF qVars
  <2> QED BY <1>0, <1>a, <1>14, <2>1 DEF qVars
<1> QED BY <1>1, <1>2, <1>4, <1>5, <1>7, <1>8, <1>9, <1>10, <1>11, <1>12, <1>13, <1>14 DEF QNext

LEMMA QuotaInvSound == QuotaInv => QuotaType /\ QuotaTotalCovers /\ QuotaOverstatedOnlyByRace
<1> SUFFICES ASSUME QuotaInv PROVE QuotaType
  BY DEF QuotaInv
<1>1. \A p \in QProbes : qProbe[p].pc \in {"idle", "listed", "write"}
  BY ProbeHolds DEF QuotaInv
<1> QED BY <1>1 DEF QuotaInv, QuotaType, QRows

\* The total on a row covers what it shows as remaining, and that is never
\* above what ChatGPT has left except by deductions that are still to come or
\* were overtaken by a probe, for every number of accounts and every order of
\* probes, images, deductions and window resets.
THEOREM QuotaHonest ==
    QSpec => [](QuotaType /\ QuotaTotalCovers /\ QuotaOverstatedOnlyByRace)
BY QuotaStart, QuotaStep, QuotaInvSound, PTL DEF QSpec

-----------------------------------------------------------------------------
(* The tokens of an account, for any number of concurrent refreshes and    *)
(* any lifetime of the tokens.                                             *)

\* A refresher holds a refresh token only between the exchange and the write.
GotInFlight ==
    \A r \in Refreshers : got[r].rt = "live" => pc[r] \in {"verify", "apply"}

UpkeepInv == TypeOK /\ GotInFlight

\* The steps of one refresher, under one name.
StepOf(r) == RefreshByID(r) \/ RefreshStep(r) \/ RequestCancelled(r)

\* Spending a token keeps it a token, and leaves no live one.
LEMMA SpentType == \A t \in Tokens : Spent(t) \in Tokens /\ Spent(t) # "live"
  BY DEF Spent, Tokens

\* A revived status is a status.
LEMMA RevivedType == \A s \in Statuses : Revived(s) \in Statuses
  BY DEF Revived, Statuses

\* The starting row is well typed and nobody holds a token.
LEMMA InitUpkeep == Init => UpkeepInv
  BY UpkeepAssumption
  DEF Init, UpkeepInv, TypeOK, GotInFlight, Tokens, Statuses, NothingGot, NoEdit

\* Every step keeps the types (TypeOK is inductive).
LEMMA TypeStep == TypeOK /\ [Next]_vars => TypeOK'
<1> SUFFICES ASSUME TypeOK, [Next]_vars PROVE TypeOK'
  OBVIOUS
<1> USE UpkeepAssumption, SpentType, RevivedType
<1>1. CASE ListNeedRefresh
  BY <1>1 DEF ListNeedRefresh, TypeOK, row, Tokens
<1>2. CASE StartListed
  BY <1>2 DEF StartListed, TypeOK, row, FirstStep
<1>3. ASSUME NEW r \in Refreshers, StepOf(r) PROVE TypeOK'
  <2>1. CASE RefreshByID(r)
    BY <2>1 DEF RefreshByID, TypeOK, row, Tokens
  <2>2. CASE RTRotated(r)
    <3>1. PICK w \in BOOLEAN :
            got' = GotAfterRotation(r, [rt |-> "live", web |-> w])
      BY <2>2 DEF RTRotated
    <3>2. got' \in [Refreshers -> [rt : Tokens, web : BOOLEAN]]
      BY <3>1 DEF GotAfterRotation, TypeOK, Tokens
    <3>3. rt' \in Tokens /\ snap' \in [Refreshers -> [rt : Tokens, st : BOOLEAN]]
      BY <2>2 DEF RTRotated, SpendCopies, TypeOK
    <3> QED
      BY <2>2, <3>2, <3>3 DEF RTRotated, TypeOK
  <2>3. CASE RTUnrotated(r)
    BY <2>3 DEF RTUnrotated, TypeOK, row, Tokens
  <2>4. CASE RTFailed(r)
    BY <2>4 DEF RTFailed, TypeOK, row
  <2>5. CASE RTAnswerLost(r)
    BY <2>5 DEF RTAnswerLost, TypeOK, SpendCopies, GotAfterRotation, NothingGot, Tokens
  <2>6. CASE VerifyOK(r)
    BY <2>6 DEF VerifyOK, TypeOK, row
  <2>7. CASE DropGot(r)
    BY <2>7 DEF DropGot, TypeOK, row, NothingGot, Tokens
  <2>8. CASE STRefreshed(r)
    BY <2>8 DEF STRefreshed, TypeOK, row, Tokens
  <2>9. CASE STFailed(r)
    BY <2>9 DEF STFailed, TypeOK, row
  <2>10. CASE ApplyRefreshResult(r)
    BY <2>10 DEF ApplyRefreshResult, Finish, TypeOK, NothingGot, Tokens, Listed
  <2>11. CASE RecordRefreshError(r)
    BY <2>11 DEF RecordRefreshError, Finish, TypeOK, NothingGot, Tokens, Statuses
  <2>12. CASE WriteError(r)
    BY <2>12 DEF WriteError, Finish, TypeOK, row, NothingGot, Tokens
  <2>13. CASE RequestCancelled(r)
    BY <2>13 DEF RequestCancelled, Finish, TypeOK, row, NothingGot, Tokens
  <2> QED
    BY <1>3, <2>1, <2>2, <2>3, <2>4, <2>5, <2>6, <2>7, <2>8, <2>9, <2>10,
       <2>11, <2>12, <2>13
    DEF StepOf, RefreshStep, VerifyRefused, VerifyTransient
<1>4. CASE OpenForm \/ CloseForm \/ ImportRead
  BY <1>4 DEF OpenForm, CloseForm, ImportRead, NoEdit, TypeOK, row, refresh, Tokens
<1>5. CASE Update
  <2>1. rt' \in Tokens /\ left' \in 0 .. Life /\ status' \in Statuses
    BY <1>5 DEF Update, TypeOK
  <2> QED
    BY <1>5, <2>1 DEF Update, NoEdit, TypeOK, refresh, Tokens
<1>6. CASE ImportReadRT
  <2>1. rt' \in Tokens /\ snap' \in [Refreshers -> [rt : Tokens, st : BOOLEAN]]
    BY <1>6 DEF ImportReadRT, SpendCopies, TypeOK
  <2>2. got' \in [Refreshers -> [rt : Tokens, web : BOOLEAN]]
    BY <1>6 DEF ImportReadRT, TypeOK
  <2> QED
    BY <1>6, <2>1, <2>2 DEF ImportReadRT, TypeOK, Tokens
<1>7. CASE ImportWrite
  <2>1. status' \in Statuses
    BY <1>7, Zenon DEF ImportWrite, TypeOK
  <2>2. st' \in BOOLEAN
    BY <1>7, Zenon DEF ImportWrite, TypeOK
  <2>3. (rt' = edit.rt /\ left' = Life) \/ (rt' = rt /\ left' = left)
    BY <1>7, Zenon DEF ImportWrite
  <2>4. rt' \in Tokens /\ left' \in 0 .. Life
    BY <2>3 DEF TypeOK
  <2> QED
    BY <1>7, <2>1, <2>2, <2>4 DEF ImportWrite, NoEdit, TypeOK, refresh, Tokens
<1>8. CASE SoftDelete \/ Restore \/ Purge
  <2>1. CASE SoftDelete \/ Restore
    BY <2>1 DEF SoftDelete, Restore, TypeOK, refresh
  <2>2. CASE Purge
    <3>1. st' \in BOOLEAN
      BY <2>2, Zenon DEF Purge
    <3>2. left' \in 0 .. Life
      BY <2>2 DEF Purge
    <3> QED
      BY <2>2, <3>1, <3>2 DEF Purge, TypeOK, refresh, Tokens, Statuses
  <2> QED
    BY <1>8, <2>1, <2>2
<1>9. CASE SetStatus \/ Tick
  BY <1>9 DEF SetStatus, Tick, TypeOK, refresh, Statuses
<1>10. CASE RevokeRT
  BY <1>10 DEF RevokeRT, SpendCopies, TypeOK, Tokens
<1>11. CASE UNCHANGED vars
  BY <1>11 DEF vars, row, refresh, TypeOK
<1> QED
  BY <1>1, <1>2, <1>3, <1>4, <1>5, <1>6, <1>7, <1>8, <1>9, <1>10, <1>11
  DEF Next, StepOf

\* Every step keeps the invariant: a rotated token is in the hands of a
\* refresher only while that refresher verifies or writes.
LEMMA UpkeepStep == UpkeepInv /\ [Next]_vars => UpkeepInv'
<1> SUFFICES ASSUME TypeOK, GotInFlight, [Next]_vars PROVE GotInFlight'
  BY TypeStep DEF UpkeepInv
<1> USE SpentType DEF GotInFlight
<1>1. CASE ListNeedRefresh
  BY <1>1 DEF ListNeedRefresh, TypeOK
<1>2. CASE StartListed
  BY <1>2 DEF StartListed, TypeOK
<1>3. ASSUME NEW r \in Refreshers, StepOf(r) PROVE GotInFlight'
  <2>1. CASE RefreshByID(r)
    BY <2>1 DEF RefreshByID, TypeOK
  <2>2. CASE RTRotated(r)
    <3>1. PICK w \in BOOLEAN :
            got' = GotAfterRotation(r, [rt |-> "live", web |-> w])
      BY <2>2 DEF RTRotated
    <3>2. \A q \in Refreshers : q # r => got'[q].rt # "live"
      BY <3>1 DEF GotAfterRotation, TypeOK
    <3>3. pc'[r] = "verify"
      BY <2>2 DEF RTRotated, TypeOK
    <3> QED
      BY <3>2, <3>3
  <2>3. CASE RTUnrotated(r)
    BY <2>3 DEF RTUnrotated, TypeOK
  <2>4. CASE RTFailed(r)
    BY <2>4 DEF RTFailed, TypeOK
  <2>5. CASE RTAnswerLost(r)
    BY <2>5 DEF RTAnswerLost, TypeOK, GotAfterRotation, NothingGot
  <2>6. CASE VerifyOK(r)
    BY <2>6 DEF VerifyOK, TypeOK
  <2>7. CASE DropGot(r)
    BY <2>7 DEF DropGot, TypeOK, NothingGot
  <2>8. CASE STRefreshed(r)
    BY <2>8 DEF STRefreshed, TypeOK
  <2>9. CASE STFailed(r)
    BY <2>9 DEF STFailed, TypeOK
  <2>10. CASE ApplyRefreshResult(r)
    BY <2>10 DEF ApplyRefreshResult, Finish, TypeOK, NothingGot
  <2>11. CASE RecordRefreshError(r)
    BY <2>11 DEF RecordRefreshError, Finish, TypeOK, NothingGot
  <2>12. CASE WriteError(r)
    BY <2>12 DEF WriteError, Finish, TypeOK, NothingGot
  <2>13. CASE RequestCancelled(r)
    BY <2>13 DEF RequestCancelled, Finish, TypeOK, NothingGot
  <2> QED
    BY <1>3, <2>1, <2>2, <2>3, <2>4, <2>5, <2>6, <2>7, <2>8, <2>9, <2>10,
       <2>11, <2>12, <2>13
    DEF StepOf, RefreshStep, VerifyRefused, VerifyTransient
<1>4. CASE OpenForm \/ CloseForm \/ ImportRead \/ Update \/ ImportWrite
  BY <1>4 DEF OpenForm, CloseForm, ImportRead, Update, ImportWrite, refresh
<1>5. CASE ImportReadRT \/ RevokeRT
  <2>1. \A q \in Refreshers : got'[q].rt # "live"
    BY <1>5 DEF ImportReadRT, RevokeRT, TypeOK
  <2> QED
    BY <2>1
<1>6. CASE SoftDelete \/ Restore \/ Purge \/ SetStatus \/ Tick
  BY <1>6 DEF SoftDelete, Restore, Purge, SetStatus, Tick, refresh
<1>7. CASE UNCHANGED vars
  BY <1>7 DEF vars, refresh
<1> QED
  BY <1>1, <1>2, <1>3, <1>4, <1>5, <1>6, <1>7 DEF Next, StepOf

\* The invariant holds in every reachable state.
THEOREM UpkeepInvariant == Spec => []UpkeepInv
  BY InitUpkeep, UpkeepStep, PTL DEF Spec

\* The types hold in every reachable state.
THEOREM UpkeepTypeCorrect == Spec => []TypeOK
  BY UpkeepInvariant, PTL DEF UpkeepInv

\* One step keeps a usable refresh token, unless it is one of LosesRT.
LEMMA RTKeptStep ==
  ASSUME UpkeepInv, [Next]_vars, HasRT PROVE HasRT' \/ LosesRT
<1> USE DEF UpkeepInv, TypeOK, GotInFlight
<1>1. CASE ListNeedRefresh \/ StartListed
  BY <1>1 DEF ListNeedRefresh, StartListed, HasRT, row
<1>2. ASSUME NEW r \in Refreshers, StepOf(r) PROVE HasRT' \/ LosesRT
  <2>1. CASE RefreshByID(r) \/ RTFailed(r) \/ VerifyOK(r) \/ STFailed(r)
    BY <2>1 DEF RefreshByID, RTFailed, VerifyOK, STFailed, HasRT, row
  <2>2. CASE RTRotated(r)
    <3>1. got'[r].rt = "live"
      BY <2>2 DEF RTRotated, GotAfterRotation
    <3> QED
      BY <3>1 DEF HasRT
  <2>3. CASE RTUnrotated(r) \/ STRefreshed(r)
    <3>1. \A q \in Refreshers : got[q].rt = "live" => got'[q].rt = "live"
      BY <2>3 DEF RTUnrotated, STRefreshed
    <3> QED
      BY <2>3, <3>1 DEF RTUnrotated, STRefreshed, HasRT, row
  <2>4. CASE RTAnswerLost(r) \/ DropGot(r) \/ WriteError(r) \/ RequestCancelled(r)
    BY <2>4 DEF LosesRT
  <2>5. CASE ApplyRefreshResult(r)
    <3>1. CASE ~Listed \/ got[r].rt = "used"
      BY <2>5, <3>1 DEF LosesRT
    <3>2. CASE Listed /\ got[r].rt # "used"
      <4>1. \A q \in Refreshers : q # r => got'[q] = got[q]
        BY <2>5 DEF ApplyRefreshResult, Finish
      <4>2. got[r].rt = "live" => rt' = "live"
        BY <2>5, <3>2 DEF ApplyRefreshResult
      <4>3. got[r].rt = "none" => rt' = rt
        BY <2>5, <3>2 DEF ApplyRefreshResult
      <4>4. edit' = edit /\ got[r].rt \in {"live", "none"}
        BY <2>5, <3>2 DEF ApplyRefreshResult, Tokens
      <4> QED
        BY <4>1, <4>2, <4>3, <4>4 DEF HasRT
    <3> QED
      BY <3>1, <3>2
  <2>6. CASE RecordRefreshError(r)
    <3>1. \A q \in Refreshers : got[q].rt = "live" => got'[q] = got[q]
      BY <2>6 DEF RecordRefreshError, Finish
    <3> QED
      BY <2>6, <3>1 DEF RecordRefreshError, HasRT
  <2> QED
    BY <1>2, <2>1, <2>2, <2>3, <2>4, <2>5, <2>6
    DEF StepOf, RefreshStep, VerifyRefused, VerifyTransient
<1>3. CASE OpenForm \/ CloseForm \/ ImportRead
  BY <1>3 DEF OpenForm, CloseForm, ImportRead, NoEdit, HasRT, row, refresh
<1>4. CASE Update \/ ImportWrite
  <2>1. CASE ~Listed \/ edit.rt # rt
    BY <1>4, <2>1 DEF LosesRT
  <2>2. CASE Listed /\ edit.rt = rt
    <3>1. rt' = rt /\ got' = got
      BY <1>4, <2>2, Zenon DEF Update, ImportWrite, refresh
    <3> QED
      BY <2>2, <3>1 DEF HasRT
  <2> QED
    BY <2>1, <2>2
<1>5. CASE ImportReadRT
  BY <1>5 DEF ImportReadRT, HasRT
<1>6. CASE SoftDelete \/ Restore \/ SetStatus \/ Tick
  BY <1>6 DEF SoftDelete, Restore, SetStatus, Tick, HasRT, refresh
<1>7. CASE Purge \/ RevokeRT
  BY <1>7 DEF LosesRT
<1>8. CASE UNCHANGED vars
  BY <1>8 DEF vars, row, refresh, HasRT
<1> QED
  BY <1>1, <1>2, <1>3, <1>4, <1>5, <1>6, <1>7, <1>8 DEF Next, StepOf

\* Overlapping refreshes, marks and the recycle bin do not lose the refresh
\* token, whatever their number.
THEOREM RefreshTokenKept == Spec => RTKept
<1>1. UpkeepInv /\ [Next]_vars => [HasRT /\ ~HasRT' => LosesRT]_vars
  BY RTKeptStep
<1> QED
  BY <1>1, UpkeepInvariant, PTL DEF Spec, RTKept

\* The steps that leave the row alone, or change nothing in it but its tokens.
LEMMA StatusKept ==
  ASSUME NEW r \in Refreshers,
         StepOf(r), ~ApplyRefreshResult(r), ~RecordRefreshError(r)
  PROVE  status' = status /\ place' = place /\ st' = st /\ left' = left
         /\ rt' \in {rt, Spent(rt)}
  BY Zenon
  DEF StepOf, RefreshStep, RefreshByID, RTRotated, RTUnrotated, RTFailed,
      RTAnswerLost, VerifyOK, VerifyRefused, VerifyTransient, DropGot,
      STRefreshed, STFailed, WriteError, RequestCancelled, SpendCopies, row

\* No refresh kills an account whose access token is good, whatever it read.
THEOREM NeverKillsLive == Spec => DeadOnlyExpired
<1>1. ASSUME TypeOK, [Next]_vars, status # "dead", status' = "dead"
      PROVE  left = 0 \/ Condemned
  <2>1. CASE ListNeedRefresh \/ StartListed
    BY <1>1, <2>1 DEF ListNeedRefresh, StartListed, row
  <2>2. ASSUME NEW r \in Refreshers, StepOf(r) PROVE left = 0
    <3>1. CASE ApplyRefreshResult(r)
      BY <1>1, <3>1 DEF ApplyRefreshResult, Revived
    <3>2. CASE RecordRefreshError(r)
      <4>1. ~(left > 0)
        BY <1>1, <3>2 DEF RecordRefreshError
      <4> QED
        BY <1>1, <4>1 DEF TypeOK
    <3> QED
      BY <1>1, <2>2, <3>1, <3>2, StatusKept
  <2>3. CASE OpenForm \/ CloseForm \/ ImportRead \/ ImportReadRT
    BY <1>1, <2>3 DEF OpenForm, CloseForm, ImportRead, ImportReadRT, row
  <2>4. CASE ImportWrite
    BY <1>1, <2>4, Zenon DEF ImportWrite, Revived
  <2>5. CASE Update \/ SetStatus \/ Purge
    BY <2>5 DEF Condemned
  <2>6. CASE SoftDelete \/ Restore \/ RevokeRT \/ Tick
    BY <1>1, <2>6 DEF SoftDelete, Restore, RevokeRT, Tick
  <2>7. CASE UNCHANGED vars
    BY <1>1, <2>7 DEF vars, row
  <2> QED
    BY <1>1, <2>1, <2>2, <2>3, <2>4, <2>5, <2>6, <2>7 DEF Next, StepOf
<1> QED
  BY <1>1, UpkeepTypeCorrect, PTL DEF Spec, DeadOnlyExpired

\* A deleted account keeps its credentials, whatever was in flight when it
\* was deleted.
THEOREM DeletedKept == Spec => DeletedFrozen
<1>1. ASSUME TypeOK, [Next]_vars, ~Listed, place' = "deleted"
      PROVE  /\ rt' \in {rt, Spent(rt)}
             /\ st' = st
             /\ left' <= left
             /\ status' = status \/ SetStatus
  <2> USE <1>1 DEF Listed
  <2>1. left <= left
    BY UpkeepAssumption DEF TypeOK
  <2>2. CASE ListNeedRefresh \/ StartListed \/ OpenForm \/ CloseForm
    BY <2>1, <2>2 DEF ListNeedRefresh, StartListed, OpenForm, CloseForm, row
  <2>3. ASSUME NEW r \in Refreshers, StepOf(r)
        PROVE  rt' \in {rt, Spent(rt)} /\ st' = st /\ left' = left /\ status' = status
    <3>1. CASE ApplyRefreshResult(r) \/ RecordRefreshError(r)
      BY <3>1 DEF ApplyRefreshResult, RecordRefreshError
    <3> QED
      BY <2>3, <3>1, StatusKept
  <2>4. CASE Update \/ ImportRead \/ ImportReadRT \/ ImportWrite
    BY <2>1, <2>4 DEF Update, ImportRead, ImportReadRT, ImportWrite, row
  <2>5. CASE SoftDelete \/ Restore \/ Purge \/ SetStatus \/ RevokeRT
    BY <2>1, <2>5 DEF SoftDelete, Restore, Purge, SetStatus, RevokeRT, SpendCopies
  <2>6. CASE Tick
    BY <2>6, UpkeepAssumption DEF Tick, TypeOK
  <2>7. CASE UNCHANGED vars
    BY <2>1, <2>7 DEF vars, row
  <2> QED
    BY <2>1, <2>2, <2>3, <2>4, <2>5, <2>6, <2>7 DEF Next, StepOf
<1> QED
  BY <1>1, UpkeepTypeCorrect, PTL DEF Spec, DeletedFrozen

-----------------------------------------------------------------------------
(* The import of accounts, for any number of lines and accounts and any    *)
(* batch size.                                                             *)

ImRTs == {NoRT} \cup [line : Nat, gen : {0, 1}]
ImItem == [email : ImEmails, rt : ImRTs]
ImRows == {NotListed} \cup {ImAccount(r) : r \in ImRTs}
ImSums == [total : Nat, created : Nat, updated : Nat, skipped : Nat, failed : Nat]

\* What the import was asked for, and what was there before.
ImportInput ==
    /\ imMode \in {"json", "at", "rt", "st"} /\ imUpdates \in BOOLEAN
    /\ imEmail \in [ImRange -> ImEmails]
    /\ imRow0 \in [ImEmails -> ImRows]
    /\ \A e \in ImEmails :
          imRow0[e].listed = TRUE =>
              \/ imRow0[e].rt \in {NoRT, RT(0, 0)}
              \/ imRow0[e].rt = RT(1, 0) /\ (1 \in ImRange => imEmail[1] = e)

ImportShape ==
    /\ imPc \in {"convert", "rows", "found", "done"} /\ imAt \in Nat
    /\ imItems \in Seq(ImItem) /\ imSum \in ImSums
    /\ imRow \in [ImEmails -> ImRows] /\ imFound \in ImRows
    /\ imSpent \subseteq ImRange /\ (imMode # "rt" => imSpent = {})
    /\ imFaults \in Nat /\ imCancelled \in BOOLEAN

Outcomes(s) == s.created + s.updated + s.skipped + s.failed

\* Every line has its place: it failed, is an item still to come, or has its outcome.
ImportCounts ==
    /\ imPc = "convert" => /\ imAt \in 1 .. ImLines + 1
                           /\ imSum.total = Outcomes(imSum)
                           /\ imSum.total + Len(imItems) = imAt - 1
    /\ imPc \in {"rows", "found"} =>
           /\ imAt \in 1 .. Len(imItems) + 1 /\ imSum.total <= ImLines
           /\ imSum.total = Outcomes(imSum) + (Len(imItems) - imAt + 1)
    /\ imPc = "found" => imAt <= Len(imItems)
    /\ imPc = "done" => imSum.total = Outcomes(imSum) /\ imSum.total <= ImLines

\* Nothing has failed, nobody has interfered.
Calm == imFaults = 0 /\ imCancelled = FALSE

\* The refresh token a line has once it was converted.
LineRT(i) ==
    CASE imMode = "rt"   -> RT(i, IF i \in imSpent THEN 1 ELSE 0)
      [] imMode = "json" -> RT(i, 0)
      [] OTHER           -> NoRT

LastOf(e, i) == i \in ImRange /\ imEmail[i] = e /\ \A j \in ImRange : imEmail[j] = e => j <= i

\* The items are the lines, in their order; then one for each account, of its
\* last line.
LinesAsItems ==
    /\ imSum.total = 0 /\ Len(imItems) = imAt - 1 /\ imRow = imRow0
    /\ \A i \in imSpent : i < imAt
    /\ \A i \in 1 .. Len(imItems) : imItems[i] = [email |-> imEmail[i], rt |-> LineRT(i)]

OneItemEach ==
    /\ \A k \in 1 .. Len(imItems) : \E i : LastOf(imItems[k].email, i) /\ imItems[k].rt = LineRT(i)
    /\ \A i \in ImRange : \E k \in 1 .. Len(imItems) : imItems[k].email = imEmail[i]
    /\ \A k, l \in 1 .. Len(imItems) : imItems[k].email = imItems[l].email => k = l

\* What an item makes of the account it is of.
Imported(item) ==
    LET was == imRow0[item.email]
    IN  IF ~was.listed THEN ImAccount(item.rt)
        ELSE IF imUpdates THEN ImAccount(IF item.rt # NoRT THEN item.rt ELSE was.rt)
        ELSE was

RowsImported ==
    /\ \A k \in 1 .. Len(imItems) : k < imAt => imRow[imItems[k].email] = Imported(imItems[k])
    /\ \A e \in ImEmails :
          (\A k \in 1 .. Len(imItems) : k < imAt => imItems[k].email # e) => imRow[e] = imRow0[e]

ImportCalm ==
    Calm =>
        /\ imPc = "convert" => LinesAsItems
        /\ imPc # "convert" => /\ imSum.total = Cardinality({imEmail[i] : i \in ImRange})
                               /\ OneItemEach /\ RowsImported
        /\ imPc = "found" => imFound = imRow0[Item.email]
        /\ imPc = "done" => imAt > Len(imItems)

ImportInv == ImportInput /\ ImportShape /\ ImportCounts /\ ImportCalm

\* One item for each account: that of its last line.
OneForEach(items, d) ==
    LET n == Len(items)
    IN  /\ Len(d) <= n
        /\ \A k \in 1 .. Len(d) : \E i \in 1 .. n :
              d[k] = items[i] /\ \A j \in 1 .. n : items[j].email = items[i].email => j <= i
        /\ \A i \in 1 .. n : \E k \in 1 .. Len(d) : d[k].email = items[i].email
        /\ \A k, l \in 1 .. Len(d) : d[k].email = d[l].email => k = l
        /\ Len(d) = Cardinality({items[i].email : i \in 1 .. n})

\* That is what ImportBatch leaves.
LEMMA DedupFacts ==
    ASSUME NEW X, NEW items \in Seq(X)
    PROVE  Dedup(items) \in Seq(X) /\ OneForEach(items, Dedup(items))
<1> DEFINE d == Dedup(items)
           n == Len(items)
           em(i) == items[i].email
           ids == [i \in 1 .. n |-> i]
           F == {i \in 1 .. n : \A j \in 1 .. i - 1 : em(j) # em(i)}
           f == Only(ids, F)
           m == Len(f)
           E == {em(i) : i \in 1 .. n}
           last(e) == Max({i \in 1 .. n : em(i) = e})
<1>1. n \in Nat /\ DOMAIN items = 1 .. n /\ \A i \in 1 .. n : items[i] \in X
  OBVIOUS
<1>2. f \in Seq(1 .. n) /\ ToSet(f) = F /\ IsInjective(f)
  <2>1. ids \in Seq(1 .. n) /\ DOMAIN ids = 1 .. n /\ \A i \in 1 .. n : ids[i] = i
    BY <1>1
  <2>2. ToSet(ids) = 1 .. n /\ IsInjective(ids)
    BY <2>1 DEF ToSet, IsInjective
  <2>3. F \subseteq 1 .. n
    OBVIOUS
  <2> DEFINE D == 1 .. n
  <2>4. ids \in Seq(D) /\ ToSet(ids) = D /\ IsInjective(ids) /\ F \subseteq D
    BY <2>1, <2>2, <2>3
  <2> HIDE DEF ids, F, D
  <2>5. f \in Seq(D) /\ ToSet(f) = D \cap F /\ IsInjective(f)
    BY <2>4, OnlyFacts
  <2>6. f \in Seq(D) /\ ToSet(f) = F /\ IsInjective(f)
    BY <2>4, <2>5
  <2> QED BY <2>6 DEF D
<1>3. f = Firsts(items)
  BY DEF Firsts
<1> HIDE DEF f, n
<1>4. m \in Nat /\ DOMAIN f = 1 .. m /\ \A k \in 1 .. m : f[k] \in 1 .. n
  <2> DEFINE D == 1 .. n
  <2>1. f \in Seq(D)
    BY <1>2
  <2> HIDE DEF D
  <2>2. m \in Nat /\ DOMAIN f = 1 .. m /\ \A k \in 1 .. m : f[k] \in D
    BY <2>1
  <2> QED BY <2>2 DEF D
<1>5. /\ \A k \in 1 .. m : f[k] \in F
      /\ \A i \in F : \E k \in 1 .. m : f[k] = i
      /\ \A k, l \in 1 .. m : f[k] = f[l] => k = l
  BY <1>2, <1>4 DEF ToSet, IsInjective
<1> HIDE DEF m
<1>6. m <= n
  <2>1. m = Cardinality(F)
    BY <1>2, InjectiveCard DEF m
  <2>2. F \subseteq 1 .. n /\ IsFiniteSet(1 .. n) /\ Cardinality(1 .. n) = n
    BY <1>1, FS_Interval
  <2> HIDE DEF F
  <2> QED BY <2>1, <2>2, FS_Subset
<1>7. \A i, j \in F : em(i) = em(j) => i = j
  <2> SUFFICES ASSUME NEW i \in F, NEW j \in F, em(i) = em(j), i < j PROVE FALSE
    BY <1>1
  <2>1. i \in 1 .. j - 1
    BY <1>1
  <2> QED BY <2>1
<1>8. \A i \in 1 .. n : \E j \in F : em(j) = em(i)
  <2> SUFFICES ASSUME NEW i \in 1 .. n PROVE \E j \in F : em(j) = em(i)
    OBVIOUS
  <2> DEFINE S == {j \in 1 .. n : em(j) = em(i)}
  <2>1. S \subseteq Nat /\ i \in S
    BY <1>1
  <2>2. PICK j \in S : \A k \in S : j <= k
    <3> HIDE DEF S
    <3> QED BY <2>1, NatLeast
  <2>3. j \in 1 .. n /\ em(j) = em(i)
    BY <2>2
  <2>4. ASSUME NEW k \in 1 .. j - 1 PROVE em(k) # em(j)
    <3>1. k \in 1 .. n /\ k < j
      BY <1>1, <2>3
    <3> QED BY <2>2, <2>3, <3>1
  <2> QED BY <2>3, <2>4
<1>9. ASSUME NEW i \in 1 .. n
      PROVE  last(em(i)) \in 1 .. n /\ em(last(em(i))) = em(i) /\ \A j \in 1 .. n : em(j) = em(i) => j <= last(em(i))
  <2> DEFINE S == {j \in 1 .. n : em(j) = em(i)}
  <2>1. S \subseteq 1 .. n /\ i \in S
    OBVIOUS
  <2>2. Max(S) \in S /\ \A j \in S : Max(S) >= j
    <3> HIDE DEF S
    <3> QED BY <1>1, <2>1, MaxBelow
  <2>3. Max(S) = last(em(i))
    OBVIOUS
  <2>4. Max(S) \in 1 .. n /\ em(Max(S)) = em(i)
    <3> DEFINE w == Max(S)
    <3> HIDE DEF w
    <3>1. w \in S
      BY <2>2 DEF w
    <3> QED BY <3>1 DEF w
  <2>5. \A j \in 1 .. n : em(j) = em(i) => j <= Max(S)
    <3> DEFINE w == Max(S)
    <3> HIDE DEF w
    <3>1. w \in S /\ \A j \in S : w >= j
      BY <2>2 DEF w
    <3>2. \A j \in 1 .. n : em(j) = em(i) => w >= j
      BY <3>1
    <3>3. w \in 1 .. n
      BY <3>1
    <3> QED BY <1>1, <3>2, <3>3 DEF w
  <2> QED BY <2>3, <2>4, <2>5
<1> DEFINE at(k) == last(em(f[k]))
<1>10. \A k \in 1 .. m : /\ at(k) \in 1 .. n /\ em(at(k)) = em(f[k])
                         /\ \A j \in 1 .. n : em(j) = em(f[k]) => j <= at(k)
  BY <1>4, <1>9
<1>11. d = [k \in 1 .. m |-> items[at(k)]]
  BY <1>3, <1>4 DEF Dedup, n
<1> HIDE DEF d, at, last
<1>12. \A k \in 1 .. m : d[k] = items[at(k)] /\ d[k] \in X /\ d[k].email = em(f[k])
  BY <1>1, <1>10, <1>11
<1>13. d \in Seq(X) /\ Len(d) = m
  BY <1>4, <1>11, <1>12
<1>14. \A k \in 1 .. m : \E i \in 1 .. n :
          d[k] = items[i] /\ \A j \in 1 .. n : items[j].email = items[i].email => j <= i
  <2> SUFFICES ASSUME NEW k \in 1 .. m
               PROVE  /\ at(k) \in 1 .. n /\ d[k] = items[at(k)]
                      /\ \A j \in 1 .. n : em(j) = em(at(k)) => j <= at(k)
    OBVIOUS
  <2> QED BY <1>10, <1>12
<1>15. \A i \in 1 .. n : \E k \in 1 .. m : d[k].email = em(i)
  <2> HIDE DEF F, em
  <2> QED BY <1>5, <1>8, <1>12
<1>16. \A k, l \in 1 .. m : d[k].email = d[l].email => k = l
  <2> HIDE DEF F, em
  <2> QED BY <1>5, <1>7, <1>12
<1>17. m = Cardinality(E)
  <2> DEFINE g == [k \in 1 .. m |-> em(f[k])]
  <2>0. \A k \in 1 .. m : em(f[k]) \in E
    BY <1>4
  <2>1. g \in Seq(E) /\ Len(g) = m /\ DOMAIN g = 1 .. m /\ \A k \in 1 .. m : g[k] = em(f[k])
    <3> HIDE DEF E, em
    <3> QED BY <1>4, <2>0
  <2> HIDE DEF g
  <2>2. (\A i \in 1 .. n : \E k \in 1 .. m : g[k] = em(i)) /\ (\A k, l \in 1 .. m : g[k] = g[l] => k = l)
    <3>1. \A k \in 1 .. m : g[k] = d[k].email
      BY <1>12, <2>1
    <3> HIDE DEF em
    <3> QED BY <1>15, <1>16, <3>1
  <2>3. \A x : x \in ToSet(g) <=> \E k \in 1 .. m : g[k] = x
    BY <2>1 DEF ToSet
  <2>4. \A x : x \in E <=> \E i \in 1 .. n : em(i) = x
    OBVIOUS
  <2>5. \A k \in 1 .. m : \E i \in 1 .. n : em(i) = g[k]
    <3> HIDE DEF em
    <3> QED BY <1>4, <2>1
  <2> HIDE DEF E, em
  <2>6. ToSet(g) = E
    <3>1. \A x : x \in ToSet(g) => x \in E
      BY <2>3, <2>4, <2>5
    <3>2. \A x : x \in E => x \in ToSet(g)
      BY <2>2, <2>3, <2>4
    <3> DEFINE A == ToSet(g)
    <3> HIDE DEF A
    <3>3. A = E
      BY <3>1, <3>2 DEF A
    <3> QED BY <3>3 DEF A
  <2>7. IsInjective(g)
    BY <2>1, <2>2 DEF IsInjective
  <2> QED BY <2>1, <2>6, <2>7, InjectiveCard
<1>18. /\ Len(d) <= n /\ Len(d) = Cardinality(E)
       /\ \A k \in 1 .. Len(d) : \E i \in 1 .. n :
             d[k] = items[i] /\ \A j \in 1 .. n : items[j].email = items[i].email => j <= i
       /\ \A i \in 1 .. n : \E k \in 1 .. Len(d) : d[k].email = items[i].email
       /\ \A k, l \in 1 .. Len(d) : d[k].email = d[l].email => k = l
  BY <1>6, <1>13, <1>14, <1>15, <1>16, <1>17
<1>19. OneForEach(items, d)
  BY <1>18 DEF OneForEach, n
<1> QED BY <1>13, <1>19 DEF d

LEMMA ImSumFields ==
    \A s \in ImSums : /\ s.total \in Nat /\ s.created \in Nat /\ s.updated \in Nat
                      /\ s.skipped \in Nat /\ s.failed \in Nat /\ Outcomes(s) \in Nat
BY DEF ImSums, Outcomes

\* A line that was tried and failed.
LEMMA LineFailed ==
    \A s \in ImSums :
        LET t == [[s EXCEPT !["failed"] = @ + 1] EXCEPT !.total = @ + 1]
        IN  t \in ImSums /\ t.total = s.total + 1 /\ Outcomes(t) = Outcomes(s) + 1
<1> SUFFICES ASSUME NEW s \in ImSums
             PROVE  LET t == [[s EXCEPT !["failed"] = @ + 1] EXCEPT !.total = @ + 1]
                    IN  t \in ImSums /\ t.total = s.total + 1 /\ Outcomes(t) = Outcomes(s) + 1
  OBVIOUS
<1> DEFINE u == [s EXCEPT !["failed"] = @ + 1]
           t == [u EXCEPT !.total = @ + 1]
<1>1. u \in ImSums /\ u.total = s.total /\ Outcomes(u) = Outcomes(s) + 1
  BY DEF ImSums, Outcomes
<1> HIDE DEF u
<1>2. t \in ImSums /\ t.total = u.total + 1 /\ Outcomes(t) = Outcomes(u)
  BY <1>1 DEF ImSums, Outcomes
<1>3. Outcomes(u) = Outcomes(s) + 1 /\ t.total = s.total + 1
  BY <1>1, <1>2
<1> QED BY <1>2, <1>3 DEF u

\* An item that got its outcome.
LEMMA ItemCounted ==
    ASSUME NEW s \in ImSums, NEW field \in {"created", "updated", "skipped", "failed"}
    PROVE  LET t == [s EXCEPT ![field] = @ + 1]
           IN  t \in ImSums /\ t.total = s.total /\ Outcomes(t) = Outcomes(s) + 1
<1>1. CASE field = "created"
  BY <1>1 DEF ImSums, Outcomes
<1>2. CASE field = "updated"
  BY <1>2 DEF ImSums, Outcomes
<1>3. CASE field = "skipped"
  BY <1>3 DEF ImSums, Outcomes
<1>4. CASE field = "failed"
  BY <1>4 DEF ImSums, Outcomes
<1> QED BY <1>1, <1>2, <1>3, <1>4

LEMMA RTTypes ==
    /\ \A i \in Nat : RT(i, 0) \in ImRTs /\ RT(i, 1) \in ImRTs
    /\ \A i \in Nat : RT(i, 0) # NoRT /\ RT(i, 1) # NoRT
    /\ NoRT \in ImRTs
    /\ \A i, g : RT(i, g).line = i /\ RT(i, g).gen = g
    /\ \A r \in ImRTs : ImAccount(r) \in ImRows /\ ImAccount(r).listed = TRUE /\ ImAccount(r).rt = r
    /\ NotListed \in ImRows /\ NotListed.listed = FALSE
<1>1. /\ \A i \in Nat : RT(i, 0) \in ImRTs /\ RT(i, 1) \in ImRTs
      /\ NoRT \in ImRTs
      /\ \A i, g : RT(i, g).line = i /\ RT(i, g).gen = g
  BY DEF RT, ImRTs
<1>2. \A i \in Nat : RT(i, 0) # NoRT /\ RT(i, 1) # NoRT
  <2>1. NoRT.line \notin Nat
    BY DEF NoRT
  <2>2. \A i \in Nat : RT(i, 0).line = i /\ RT(i, 1).line = i
    BY <1>1
  <2> QED BY <2>1, <2>2
<1>3. \A r \in ImRTs : ImAccount(r) \in ImRows /\ ImAccount(r).listed = TRUE /\ ImAccount(r).rt = r
  BY DEF ImAccount, ImRows
<1>4. NotListed \in ImRows /\ NotListed.listed = FALSE
  BY DEF ImRows, NotListed
<1> QED BY <1>1, <1>2, <1>3, <1>4

LEMMA ConvertKeeps ==
    ASSUME ImportInv, NEW rotated \in BOOLEAN, Convert(rotated) PROVE ImportInv'
<1> DEFINE new == NewRT(rotated)
           item == [email |-> imEmail[imAt], rt |-> new]
           n == Len(imItems)
<1>0. /\ ImportInput /\ ImportShape /\ ImportCounts /\ ImportCalm /\ ImLines \in Nat
      /\ imPc = "convert" /\ imAt <= ImLines /\ (rotated = TRUE => imMode = "rt")
      /\ imSpent' = IF rotated THEN imSpent \cup {imAt} ELSE imSpent
      /\ imItems' = Append(imItems, item) /\ imAt' = imAt + 1
      /\ UNCHANGED <<imInput, imRow, imPc, imSum, imFound, imCancelled, imFaults>>
  BY ImportsAssumption DEF ImportInv, Convert, Converting
<1>1. imAt \in ImRange /\ imAt \in Nat /\ n \in Nat /\ n + 1 \in Nat
      /\ imSum.total + n = imAt - 1 /\ imSum.total \in Nat
  BY <1>0, ImSumFields DEF ImportCounts, ImportShape, ImRange
<1>2. new \in ImRTs
  <2>1. new \in {RT(imAt, 0), RT(imAt, 1), NoRT}
    BY DEF NewRT
  <2> QED BY <1>1, <2>1, RTTypes
<1>3. item \in ImItem /\ item.email = imEmail[imAt] /\ item.rt = new
  BY <1>0, <1>1, <1>2 DEF ImItem, ImportInput
<1> HIDE DEF item, n
<1>4. /\ imItems' \in Seq(ImItem) /\ Len(imItems') = n + 1 /\ imItems'[n + 1] = item
      /\ \A i \in 1 .. n : imItems'[i] = imItems[i]
  BY <1>0, <1>3 DEF ImportShape, n
<1>5. ImportInput'
  BY <1>0 DEF ImportInput, imInput
<1>6. ImportShape'
  <2>1. imSpent' \subseteq ImRange /\ (imMode' # "rt" => imSpent' = {})
    BY <1>0, <1>1 DEF ImportShape, imInput
  <2> QED BY <1>0, <1>1, <1>4, <2>1 DEF ImportShape
<1>7. ImportCounts'
  <2>1. /\ imPc' = "convert" /\ imAt' = imAt + 1 /\ imSum' = imSum /\ Len(imItems') = n + 1
        /\ imSum.total = Outcomes(imSum) /\ imAt <= ImLines /\ ImLines \in Nat
    BY <1>0, <1>4 DEF ImportCounts
  <2>2. imAt' \in 1 .. ImLines + 1 /\ imSum'.total + Len(imItems') = imAt' - 1
    BY <1>1, <2>1
  <2> QED BY <2>1, <2>2 DEF ImportCounts
<1>8. ImportCalm'
  <2> SUFFICES ASSUME Calm' PROVE LinesAsItems'
    BY <1>0 DEF ImportCalm
  <2>1. LinesAsItems
    BY <1>0 DEF Calm, ImportCalm
  <2>2. n = imAt - 1 /\ imSum.total = 0 /\ imRow = imRow0 /\ \A i \in imSpent : i < imAt
    BY <2>1 DEF LinesAsItems, n
  <2>3. \A i \in 1 .. n : LineRT(i)' = LineRT(i)
    <3>1. \A i \in 1 .. n : i # imAt
      BY <1>1, <2>2
    <3> QED BY <1>0, <3>1 DEF LineRT, imInput
  <2>4. ASSUME NEW i, i = imAt PROVE LineRT(i)' = new
    <3>1. i \notin imSpent /\ imMode' = imMode
      BY <1>0, <1>1, <2>2, <2>4 DEF imInput
    <3>2. imMode = "rt" => (i \in imSpent' <=> rotated = TRUE)
      BY <1>0, <2>4, <3>1
    <3>3. LineRT(i)' = CASE imMode = "rt"   -> RT(i, IF i \in imSpent' THEN 1 ELSE 0)
                         [] imMode = "json" -> RT(i, 0)
                         [] OTHER           -> NoRT
      BY <3>1 DEF LineRT
    <3>4. CASE imMode = "rt"
      BY <2>4, <3>2, <3>3, <3>4 DEF NewRT
    <3>5. CASE imMode # "rt"
      BY <2>4, <3>3, <3>5 DEF NewRT
    <3> QED BY <3>4, <3>5
  <2>5. ASSUME NEW i \in 1 .. n + 1
        PROVE  imItems'[i] = [email |-> imEmail[i], rt |-> LineRT(i)']
    <3>1. CASE i = n + 1
      <4>1. i = imAt
        BY <1>1, <2>2, <3>1
      <4>2. imItems'[i] = [email |-> imEmail[imAt], rt |-> new]
        BY <1>4, <3>1 DEF item
      <4> HIDE DEF new
      <4> QED BY <2>4, <4>1, <4>2
    <3>2. CASE i \in 1 .. n
      BY <1>4, <2>1, <2>3, <3>2 DEF LinesAsItems, n
    <3>3. i = n + 1 \/ i \in 1 .. n
      BY <1>1
    <3> QED BY <3>1, <3>2, <3>3
  <2>6. \A i \in imSpent' : i < imAt'
    <3>1. imSpent \subseteq Nat
      BY <1>0 DEF ImportShape, ImRange
    <3> QED BY <1>0, <1>1, <2>2, <3>1
  <2>7. imEmail' = imEmail
    BY <1>0 DEF imInput
  <2> QED BY <1>0, <1>1, <1>4, <2>2, <2>5, <2>6, <2>7 DEF LinesAsItems, imInput
<1> QED BY <1>5, <1>6, <1>7, <1>8 DEF ImportInv

LEMMA ConvertFailsKeeps ==
    ASSUME ImportInv, NEW rotated \in BOOLEAN, ConvertFails(rotated) PROVE ImportInv'
<1>0. /\ ImportInput /\ ImportShape /\ ImportCounts /\ ImLines \in Nat
      /\ imPc = "convert" /\ imAt <= ImLines /\ (rotated = TRUE => imMode = "rt")
      /\ imSpent' = IF rotated THEN imSpent \cup {imAt} ELSE imSpent
      /\ imAt' = imAt + 1 /\ imFaults' = imFaults + 1
      /\ UNCHANGED <<imInput, imRow, imPc, imItems, imFound, imCancelled>>
  BY ImportsAssumption DEF ImportInv, ConvertFails, Converting, ImFault
<1> DEFINE n == Len(imItems)
<1>1. /\ imAt \in ImRange /\ imAt \in Nat /\ n \in Nat
      /\ imSum.total + n = imAt - 1 /\ imSum.total \in Nat
  BY <1>0, ImSumFields DEF ImportCounts, ImportShape, ImRange
<1>2. imSum' \in ImSums /\ imSum'.total = imSum.total + 1 /\ Outcomes(imSum') = Outcomes(imSum) + 1
  BY <1>0, LineFailed DEF ImportShape, ConvertFails, Counted
<1>3. ImportInput'
  BY <1>0 DEF ImportInput, imInput
<1>4. ImportShape'
  <2>1. imSpent' \subseteq ImRange /\ (imMode' # "rt" => imSpent' = {})
    BY <1>0, <1>1 DEF ImportShape, imInput
  <2> QED BY <1>0, <1>1, <1>2, <2>1 DEF ImportShape
<1>5. ImportCounts'
  BY <1>0, <1>1, <1>2 DEF ImportCounts
<1>6. ImportCalm'
  BY <1>0 DEF ImportCalm, Calm, ImportShape
<1> QED BY <1>3, <1>4, <1>5, <1>6 DEF ImportInv

LEMMA CancelKeeps ==
    ASSUME ImportInv, Cancel PROVE ImportInv'
<1>0. /\ ImportInput /\ ImportShape /\ ImportCounts /\ imCancelled' = TRUE
      /\ UNCHANGED <<imInput, imRow, imSpent, imPc, imAt, imItems, imSum, imFound, imFaults>>
  BY DEF ImportInv, Cancel
<1>1. ImportInput'
  BY <1>0 DEF ImportInput, imInput
<1>2. ImportShape'
  BY <1>0 DEF ImportShape, imInput
<1>3. ImportCounts'
  BY <1>0 DEF ImportCounts
<1>4. ImportCalm'
  BY <1>0 DEF ImportCalm, Calm
<1> QED BY <1>1, <1>2, <1>3, <1>4 DEF ImportInv

LEMMA ItemsAdded ==
    ASSUME NEW s \in ImSums, NEW k \in Nat
    PROVE  LET t == [s EXCEPT !.total = @ + k]
           IN  t \in ImSums /\ t.total = s.total + k /\ Outcomes(t) = Outcomes(s)
BY DEF ImSums, Outcomes

LEMMA RestFailed ==
    ASSUME NEW s \in ImSums, NEW k \in Nat
    PROVE  LET t == [s EXCEPT !.failed = @ + k]
           IN  t \in ImSums /\ t.total = s.total /\ Outcomes(t) = Outcomes(s) + k
BY DEF ImSums, Outcomes

LEMMA LinesSame ==
    ASSUME UNCHANGED <<imInput, imSpent>>
    PROVE  /\ imMode' = imMode /\ imUpdates' = imUpdates /\ imEmail' = imEmail /\ imRow0' = imRow0
           /\ \A i : LineRT(i)' = LineRT(i)
           /\ \A e, i : LastOf(e, i)' <=> LastOf(e, i)
<1>1. imMode' = imMode /\ imUpdates' = imUpdates /\ imEmail' = imEmail /\ imRow0' = imRow0 /\ imSpent' = imSpent
  BY DEF imInput
<1> QED BY <1>1 DEF LineRT, LastOf

LEMMA BatchKeeps ==
    ASSUME ImportInv, ImportBatch PROVE ImportInv'
<1> DEFINE n == Len(imItems)
           d == Dedup(imItems)
<1>0. /\ ImportInput /\ ImportShape /\ ImportCounts /\ ImportCalm /\ ImLines \in Nat
      /\ imPc = "convert" /\ (imAt > ImLines \/ imCancelled = TRUE)
      /\ imItems' = d /\ imPc' = "rows" /\ imAt' = 1
      /\ UNCHANGED <<imInput, imRow, imSpent, imFound, imCancelled, imFaults>>
  BY ImportsAssumption DEF ImportInv, ImportBatch, Stopped, ImportShape
<1>1. /\ d \in Seq(ImItem) /\ Len(d) <= n
      /\ \A k \in 1 .. Len(d) : \E i \in 1 .. n :
            d[k] = imItems[i] /\ \A j \in 1 .. n : imItems[j].email = imItems[i].email => j <= i
      /\ \A i \in 1 .. n : \E k \in 1 .. Len(d) : d[k].email = imItems[i].email
      /\ \A k, l \in 1 .. Len(d) : d[k].email = d[l].email => k = l
  <2>1. d \in Seq(ImItem) /\ OneForEach(imItems, d)
    BY <1>0, DedupFacts DEF ImportShape
  <2> HIDE DEF d
  <2> QED BY <2>1 DEF OneForEach
<1>10. Len(d) = Cardinality({imItems[i].email : i \in 1 .. n})
  <2>1. OneForEach(imItems, d)
    BY <1>0, DedupFacts DEF ImportShape
  <2> HIDE DEF d
  <2> QED BY <2>1 DEF OneForEach
<1> HIDE DEF d
<1>2. imSum' \in ImSums /\ imSum'.total = imSum.total + Len(d) /\ Outcomes(imSum') = Outcomes(imSum)
  <2>1. Len(d) \in Nat
    BY <1>1
  <2>2. imSum' = [imSum EXCEPT !.total = @ + Len(d)]
    BY <1>0 DEF ImportBatch
  <2> QED BY <1>0, <2>1, <2>2, ItemsAdded DEF ImportShape
<1>3. /\ imAt \in 1 .. ImLines + 1 /\ imSum.total = Outcomes(imSum) /\ imSum.total \in Nat
      /\ imSum.total + n = imAt - 1 /\ n \in Nat /\ Len(d) \in Nat
  BY <1>0, <1>1, ImSumFields DEF ImportCounts, ImportShape
<1>4. ImportInput'
  BY <1>0 DEF ImportInput, imInput
<1>5. ImportShape'
  BY <1>0, <1>1, <1>2 DEF ImportShape, imInput
<1>6. ImportCounts'
  BY <1>0, <1>1, <1>2, <1>3 DEF ImportCounts
<1>7. ImportCalm'
  <2> SUFFICES ASSUME Calm'
               PROVE  imSum'.total = Cardinality({imEmail'[i] : i \in ImRange}) /\ OneItemEach' /\ RowsImported'
    BY <1>0 DEF ImportCalm
  <2>0. Calm /\ LinesAsItems /\ imAt = ImLines + 1
    BY <1>0, <1>3 DEF Calm, ImportCalm
  <2>1. imSum.total = 0 /\ n = ImLines /\ imRow = imRow0
    <3>1. imSum.total = 0 /\ Len(imItems) = imAt - 1 /\ imRow = imRow0
      BY <2>0 DEF LinesAsItems
    <3> QED BY <1>3, <2>0, <3>1, ImportsAssumption
  <2>a. \A i \in ImRange : imItems[i].email = imEmail[i] /\ imItems[i].rt = LineRT(i)
    <3> SUFFICES ASSUME NEW i \in ImRange PROVE imItems[i].email = imEmail[i] /\ imItems[i].rt = LineRT(i)
      OBVIOUS
    <3> DEFINE w == LineRT(i)
    <3>1. imItems[i] = [email |-> imEmail[i], rt |-> w]
      BY <2>0, <2>1 DEF LinesAsItems, ImRange
    <3> HIDE DEF w
    <3>2. imItems[i].email = imEmail[i] /\ imItems[i].rt = w
      BY <3>1
    <3> QED BY <3>2 DEF w
  <2>2. imSum'.total = Cardinality({imEmail'[i] : i \in ImRange})
    <3>1. {imItems[i].email : i \in 1 .. n} = {imEmail[i] : i \in ImRange}
      BY <2>1, <2>a DEF ImRange
    <3>2. imEmail' = imEmail
      BY <1>0 DEF imInput
    <3> DEFINE c == Cardinality({imEmail[i] : i \in ImRange})
    <3>3. Len(d) = c
      BY <1>10, <3>1
    <3>4. imSum'.total = Len(d)
      BY <1>2, <1>3, <2>1
    <3>5. c = Cardinality({imEmail'[i] : i \in ImRange})
      BY <3>2
    <3> HIDE DEF c
    <3> QED BY <3>3, <3>4, <3>5
  <2>3. (\A i : LineRT(i)' = LineRT(i)) /\ (\A e, i : LastOf(e, i)' <=> LastOf(e, i)) /\ imEmail' = imEmail /\ imRow0' = imRow0
    BY <1>0, LinesSame
  <2>4. OneItemEach'
    <3>1. \A k \in 1 .. Len(d) : \E i \in ImRange :
             d[k] = imItems[i] /\ \A j \in ImRange : imItems[j].email = imItems[i].email => j <= i
      BY <1>1, <2>1 DEF ImRange
    <3>2. \A k \in 1 .. Len(d) : \E i \in ImRange :
             /\ imEmail[i] = d[k].email /\ d[k].rt = LineRT(i)
             /\ \A j \in ImRange : imEmail[j] = d[k].email => j <= i
      BY <2>a, <3>1
    <3>3. \A i \in ImRange : \E k \in 1 .. Len(d) : d[k].email = imEmail[i]
      <4>1. \A i \in ImRange : \E k \in 1 .. Len(d) : d[k].email = imItems[i].email
        BY <1>1, <2>1 DEF ImRange
      <4> QED BY <2>a, <4>1
    <3> QED BY <1>0, <1>1, <2>3, <3>2, <3>3 DEF OneItemEach, LastOf
  <2>5. RowsImported'
    <3>1. imRow' = imRow0' /\ imAt' = 1 /\ Len(imItems') \in Nat
      BY <1>0, <1>1, <2>1, <2>3
    <3> QED BY <3>1 DEF RowsImported
  <2> QED BY <2>2, <2>4, <2>5
<1> QED BY <1>4, <1>5, <1>6, <1>7 DEF ImportInv

LEMMA ImportCancelledKeeps ==
    ASSUME ImportInv, ImportCancelled PROVE ImportInv'
<1> DEFINE n == Len(imItems)
<1>0. /\ ImportInput /\ ImportShape /\ ImportCounts
      /\ imPc = "rows" /\ imAt <= n /\ imCancelled = TRUE /\ imPc' = "done"
      /\ UNCHANGED <<imInput, imRow, imSpent, imAt, imItems, imFound, imCancelled, imFaults>>
  BY DEF ImportInv, ImportCancelled, ImportShape
<1>1. imAt \in Nat /\ n \in Nat /\ imAt \in 1 .. n + 1 /\ imSum.total <= ImLines
      /\ imSum.total = Outcomes(imSum) + (n - imAt + 1)
  BY <1>0 DEF ImportCounts, ImportShape
<1>2. n - imAt + 1 \in Nat
  BY <1>0, <1>1
<1>3. imSum' \in ImSums /\ imSum'.total = imSum.total /\ Outcomes(imSum') = Outcomes(imSum) + (n - imAt + 1)
  <2>1. imSum' = [imSum EXCEPT !.failed = @ + (n - imAt + 1)]
    BY DEF ImportCancelled
  <2> QED BY <1>0, <1>2, <2>1, RestFailed DEF ImportShape
<1>4. ImportInput'
  BY <1>0 DEF ImportInput, imInput
<1>5. ImportShape'
  BY <1>0, <1>3 DEF ImportShape, imInput
<1>6. ImportCounts'
  BY <1>0, <1>1, <1>3 DEF ImportCounts
<1>7. ImportCalm'
  BY <1>0 DEF ImportCalm, Calm
<1> QED BY <1>4, <1>5, <1>6, <1>7 DEF ImportInv

\* The items, the lines and the accounts are what they were.
LEMMA ItemsStay ==
    ASSUME UNCHANGED <<imInput, imSpent, imItems>>, OneItemEach PROVE OneItemEach'
<1>1. (\A i : LineRT(i)' = LineRT(i)) /\ (\A e, i : LastOf(e, i)' <=> LastOf(e, i)) /\ imEmail' = imEmail
  BY LinesSame
<1> QED BY <1>1 DEF OneItemEach

LEMMA ImportOverKeeps ==
    ASSUME ImportInv, ImportOver PROVE ImportInv'
<1> DEFINE n == Len(imItems)
<1>0. /\ ImportInput /\ ImportShape /\ ImportCounts /\ ImportCalm
      /\ imPc = "rows" /\ imAt > n /\ imPc' = "done"
      /\ UNCHANGED <<imInput, imRow, imSpent, imAt, imItems, imSum, imFound, imCancelled, imFaults>>
  BY DEF ImportInv, ImportOver
<1>1. imAt \in Nat /\ n \in Nat /\ imAt \in 1 .. n + 1 /\ imSum.total <= ImLines
      /\ imSum.total = Outcomes(imSum) + (n - imAt + 1) /\ Outcomes(imSum) \in Nat
  BY <1>0, ImSumFields DEF ImportCounts, ImportShape
<1>2. ImportInput'
  BY <1>0 DEF ImportInput, imInput
<1>3. ImportShape'
  BY <1>0 DEF ImportShape, imInput
<1>4. ImportCounts'
  BY <1>0, <1>1 DEF ImportCounts
<1>5. ImportCalm'
  <2> SUFFICES ASSUME Calm'
               PROVE  imSum'.total = Cardinality({imEmail'[i] : i \in ImRange}) /\ OneItemEach' /\ RowsImported'
    BY <1>0 DEF ImportCalm
  <2>1. imSum.total = Cardinality({imEmail[i] : i \in ImRange}) /\ OneItemEach /\ RowsImported
    BY <1>0 DEF ImportCalm, Calm
  <2>2. OneItemEach'
    BY <1>0, <2>1, ItemsStay
  <2> QED BY <1>0, <2>1, <2>2 DEF RowsImported, Imported, imInput
<1> QED BY <1>2, <1>3, <1>4, <1>5 DEF ImportInv

\* An item gets its outcome, and the account it is of changes as it says.
LEMMA ItemDone ==
    ASSUME ImportInv, imPc \in {"rows", "found"}, imAt <= Len(imItems),
           NEW field \in {"created", "updated", "skipped", "failed"}, ImNext(field),
           UNCHANGED <<imInput, imSpent, imItems, imFound, imCancelled>>,
           imRow' \in [ImEmails -> ImRows], imFaults' \in Nat,
           Calm' => /\ Calm /\ imRow'[Item.email] = Imported(Item)
                    /\ \A e \in ImEmails : e # Item.email => imRow'[e] = imRow[e]
    PROVE  ImportInv'
<1> DEFINE n == Len(imItems)
<1>0. /\ ImportInput /\ ImportShape /\ ImportCounts /\ ImportCalm
      /\ imPc' = "rows" /\ imAt' = imAt + 1
      /\ UNCHANGED <<imInput, imSpent, imItems, imFound, imCancelled>>
  BY DEF ImportInv, ImNext
<1>1. imAt \in Nat /\ n \in Nat /\ imAt \in 1 .. n /\ imSum.total <= ImLines
      /\ imSum.total = Outcomes(imSum) + (n - imAt + 1) /\ Outcomes(imSum) \in Nat
  BY <1>0, ImSumFields DEF ImportCounts, ImportShape
<1>2. imSum' \in ImSums /\ imSum'.total = imSum.total /\ Outcomes(imSum') = Outcomes(imSum) + 1
  BY <1>0, ItemCounted DEF ImportShape, ImNext, Counted
<1>3. ImportInput'
  BY <1>0 DEF ImportInput, imInput
<1>4. ImportShape'
  BY <1>0, <1>1, <1>2 DEF ImportShape, imInput
<1>5. ImportCounts'
  BY <1>0, <1>1, <1>2 DEF ImportCounts
<1>6. ImportCalm'
  <2> SUFFICES ASSUME Calm'
               PROVE  imSum'.total = Cardinality({imEmail'[i] : i \in ImRange}) /\ OneItemEach' /\ RowsImported'
    BY <1>0 DEF ImportCalm
  <2>1. imSum.total = Cardinality({imEmail[i] : i \in ImRange}) /\ OneItemEach /\ RowsImported
    BY <1>0 DEF ImportCalm
  <2>2. OneItemEach'
    BY <1>0, <2>1, ItemsStay
  <2>3. imSum'.total = Cardinality({imEmail'[i] : i \in ImRange})
    <3>1. imEmail' = imEmail
      BY <1>0 DEF imInput
    <3> DEFINE c == Cardinality({imEmail[i] : i \in ImRange})
    <3>2. c = Cardinality({imEmail'[i] : i \in ImRange})
      BY <3>1
    <3>3. imSum.total = c
      BY <2>1
    <3> HIDE DEF c
    <3> QED BY <1>2, <3>2, <3>3
  <2>4. /\ \A k \in 1 .. n : imItems[k] \in ImItem /\ imItems[k].email \in ImEmails
        /\ \A k, l \in 1 .. n : imItems[k].email = imItems[l].email => k = l
    <3>1. \A k \in 1 .. n : imItems[k] \in ImItem
      BY <1>0 DEF ImportShape
    <3>2. \A item \in ImItem : item.email \in ImEmails
      BY DEF ImItem
    <3> QED BY <2>1, <3>1, <3>2 DEF OneItemEach
  <2>5. \A item : Imported(item)' = Imported(item)
    BY <1>0, LinesSame DEF Imported
  <2>6. \A k \in 1 .. n : k # imAt => imRow'[imItems[k].email] = imRow[imItems[k].email]
    BY <1>1, <2>4 DEF Item
  <2>7. ASSUME NEW k \in 1 .. n, k < imAt + 1 PROVE imRow'[imItems[k].email] = Imported(imItems[k])
    <3>1. CASE k = imAt
      BY <3>1 DEF Item
    <3>2. CASE k # imAt
      <4>1. k < imAt
        BY <1>1, <2>7, <3>2
      <4>2. imRow[imItems[k].email] = Imported(imItems[k])
        BY <2>1, <4>1 DEF RowsImported
      <4> QED BY <2>6, <3>2, <4>2
    <3> QED BY <3>1, <3>2
  <2>8. ASSUME NEW e \in ImEmails, \A k \in 1 .. n : k < imAt + 1 => imItems[k].email # e
        PROVE  imRow'[e] = imRow0[e]
    <3>1. Item.email # e
      BY <1>1, <2>8 DEF Item
    <3>2. \A k \in 1 .. n : k < imAt => imItems[k].email # e
      BY <1>1, <2>8
    <3>3. imRow[e] = imRow0[e]
      BY <2>1, <3>2 DEF RowsImported
    <3> QED BY <3>1, <3>3
  <2>9. imItems' = imItems /\ imAt' = imAt + 1 /\ imRow0' = imRow0
    BY <1>0, LinesSame
  <2>10. RowsImported'
    <3>1. \A k \in 1 .. n : k < imAt + 1 => imRow'[imItems[k].email] = Imported(imItems[k])'
      BY <2>5, <2>7, <2>9
    <3> QED BY <2>8, <2>9, <3>1 DEF RowsImported
  <2> QED BY <2>2, <2>3, <2>10
<1> QED BY <1>3, <1>4, <1>5, <1>6 DEF ImportInv

\* What holds of the item that is next.
LEMMA NextItem ==
    ASSUME ImportInv, imPc \in {"rows", "found"}, imAt <= Len(imItems)
    PROVE  /\ imAt \in 1 .. Len(imItems) /\ Item \in ImItem
           /\ Item.email \in ImEmails /\ Item.rt \in ImRTs
           /\ imRow[Item.email] \in ImRows
           /\ Calm => imRow[Item.email] = imRow0[Item.email]
<1>0. ImportShape /\ ImportCounts /\ ImportCalm
  BY DEF ImportInv
<1>1. imAt \in 1 .. Len(imItems) /\ imAt \in Nat /\ Len(imItems) \in Nat
  BY <1>0 DEF ImportCounts, ImportShape
<1>2. Item \in ImItem /\ Item.email \in ImEmails /\ Item.rt \in ImRTs
  <2>1. Item \in ImItem
    BY <1>0, <1>1 DEF Item, ImportShape
  <2> QED BY <2>1 DEF ImItem
<1>3. ASSUME Calm PROVE imRow[Item.email] = imRow0[Item.email]
  <2>1. OneItemEach /\ RowsImported
    BY <1>0, <1>3 DEF ImportCalm
  <2>2. \A k \in 1 .. Len(imItems) : k < imAt => imItems[k].email # Item.email
    BY <1>1, <2>1 DEF OneItemEach, Item
  <2> QED BY <1>2, <2>1, <2>2 DEF RowsImported
<1> QED BY <1>0, <1>1, <1>2, <1>3 DEF ImportShape

LEMMA GetByEmailKeeps ==
    ASSUME ImportInv, GetByEmail PROVE ImportInv'
<1>0. /\ ImportInput /\ ImportShape /\ ImportCounts /\ ImportCalm
      /\ imPc = "rows" /\ imAt <= Len(imItems) /\ imFound' = imRow[Item.email] /\ imPc' = "found"
      /\ UNCHANGED <<imInput, imRow, imSpent, imAt, imItems, imSum, imCancelled, imFaults>>
  BY DEF ImportInv, GetByEmail, RowsGoOn
<1>1. /\ imAt \in 1 .. Len(imItems) /\ imRow[Item.email] \in ImRows
      /\ Calm => imRow[Item.email] = imRow0[Item.email]
  BY <1>0, NextItem
<1>2. ImportInput'
  BY <1>0 DEF ImportInput, imInput
<1>3. ImportShape'
  BY <1>0, <1>1 DEF ImportShape, imInput
<1>4. ImportCounts'
  BY <1>0, <1>1 DEF ImportCounts
<1>5. ImportCalm'
  <2> SUFFICES ASSUME Calm'
               PROVE  /\ imSum'.total = Cardinality({imEmail'[i] : i \in ImRange}) /\ OneItemEach' /\ RowsImported'
                      /\ imFound' = imRow0'[Item'.email]
    BY <1>0 DEF ImportCalm
  <2>1. Calm /\ imSum.total = Cardinality({imEmail[i] : i \in ImRange}) /\ OneItemEach /\ RowsImported
    BY <1>0 DEF ImportCalm, Calm
  <2>2. OneItemEach'
    BY <1>0, <2>1, ItemsStay
  <2>3. Item' = Item /\ imRow0' = imRow0 /\ imEmail' = imEmail /\ imUpdates' = imUpdates
    BY <1>0 DEF Item, imInput
  <2>4. imFound' = imRow0'[Item'.email]
    BY <1>0, <1>1, <2>1, <2>3
  <2>5. RowsImported'
    BY <1>0, <2>1, <2>3 DEF RowsImported, Imported
  <2> QED BY <1>0, <2>1, <2>2, <2>3, <2>4, <2>5
<1> QED BY <1>2, <1>3, <1>4, <1>5 DEF ImportInv

LEMMA ImportFailsKeeps ==
    ASSUME ImportInv, Fails PROVE ImportInv'
<1>0. /\ ImportShape /\ ImportCounts /\ imPc \in {"rows", "found"} /\ imAt <= Len(imItems)
      /\ UNCHANGED <<imInput, imRow, imSpent, imItems, imFound, imCancelled>>
      /\ \/ imCancelled = TRUE /\ imFaults' = imFaults
         \/ imCancelled = FALSE /\ imFaults' = imFaults + 1
  <2>1. ImportShape /\ ImportCounts
    BY DEF ImportInv
  <2>2. imPc \in {"rows", "found"} /\ imAt <= Len(imItems)
    BY <2>1 DEF Fails, RowsGoOn, ImportCounts
  <2>3. \/ imCancelled = TRUE /\ imFaults' = imFaults
        \/ imCancelled = FALSE /\ imFaults' = imFaults + 1
    BY <2>1 DEF Fails, ImFault, ImportShape
  <2> QED BY <2>1, <2>2, <2>3 DEF Fails
<1>1. ImNext("failed")
  BY DEF Fails
<1>2. imRow' \in [ImEmails -> ImRows] /\ imFaults' \in Nat /\ ~Calm'
  BY <1>0 DEF ImportShape, Calm
<1> QED BY <1>0, <1>1, <1>2, ItemDone

LEMMA CreateAccountKeeps ==
    ASSUME ImportInv, CreateAccount PROVE ImportInv'
<1>0. /\ ImportShape /\ ImportCounts /\ ImportCalm /\ imPc = "found" /\ imAt <= Len(imItems)
      /\ ~imFound.listed
      /\ UNCHANGED <<imInput, imSpent, imItems, imFound, imCancelled, imFaults>>
  BY DEF ImportInv, CreateAccount, ImportCounts
<1> DEFINE e == Item.email
<1>1. /\ e \in ImEmails /\ Item.rt \in ImRTs /\ imRow[e] \in ImRows
      /\ Calm => imRow[e] = imRow0[e] /\ imFound = imRow0[e]
  BY <1>0, NextItem DEF ImportCalm
<1>2. Calm' => Calm
  BY <1>0 DEF Calm
<1>3. CASE imRow[e].listed
  <2>1. ImNext("failed") /\ imRow' = imRow
    BY <1>3 DEF CreateAccount
  <2>2. ~Calm
    BY <1>0, <1>1, <1>3
  <2> QED BY <1>0, <1>2, <2>1, <2>2, ItemDone DEF ImportShape
<1>4. CASE ~imRow[e].listed
  <2>1. ImNext("created") /\ imRow' = [imRow EXCEPT ![e] = ImAccount(Item.rt)]
    BY <1>4 DEF CreateAccount
  <2>2. ImAccount(Item.rt) \in ImRows
    BY <1>1 DEF ImRows
  <2>3. /\ imRow' \in [ImEmails -> ImRows] /\ imRow'[e] = ImAccount(Item.rt)
        /\ \A x \in ImEmails : x # e => imRow'[x] = imRow[x]
    BY <1>0, <1>1, <2>1, <2>2 DEF ImportShape
  <2>4. Calm => imRow'[e] = Imported(Item)
    BY <1>0, <1>1, <2>3 DEF Imported
  <2> QED BY <1>0, <1>2, <2>1, <2>3, <2>4, ItemDone DEF ImportShape
<1> QED BY <1>3, <1>4

LEMMA SkipExistingKeeps ==
    ASSUME ImportInv, SkipExisting PROVE ImportInv'
<1>0. /\ ImportShape /\ ImportCounts /\ ImportCalm /\ imPc = "found" /\ imAt <= Len(imItems)
      /\ imFound.listed /\ ~imUpdates /\ ImNext("skipped")
      /\ UNCHANGED <<imInput, imRow, imSpent, imItems, imFound, imCancelled, imFaults>>
  BY DEF ImportInv, SkipExisting, ImportCounts
<1>1. Calm => imRow[Item.email] = imRow0[Item.email] /\ imFound = imRow0[Item.email]
  BY <1>0, NextItem DEF ImportCalm
<1>2. Calm' => Calm
  BY <1>0 DEF Calm
<1>3. Calm => imRow'[Item.email] = Imported(Item)
  BY <1>0, <1>1 DEF Imported
<1> QED BY <1>0, <1>2, <1>3, ItemDone DEF ImportShape

LEMMA UpdateExistingKeeps ==
    ASSUME ImportInv, UpdateExisting PROVE ImportInv'
<1> DEFINE e == Item.email
           to == IF imRow[e].listed THEN ImAccount(KeptRT) ELSE imRow[e]
<1>0. /\ ImportShape /\ ImportCounts /\ ImportCalm /\ imPc = "found" /\ imAt <= Len(imItems)
      /\ imFound.listed /\ imUpdates /\ ImNext("updated")
      /\ UNCHANGED <<imInput, imSpent, imItems, imFound, imCancelled, imFaults>>
  BY DEF ImportInv, UpdateExisting, ImportCounts
<1>1. /\ e \in ImEmails /\ Item.rt \in ImRTs /\ imRow[e] \in ImRows
      /\ Calm => imRow[e] = imRow0[e] /\ imFound = imRow0[e]
  BY <1>0, NextItem DEF ImportCalm
<1>2. Calm' => Calm
  BY <1>0 DEF Calm
<1>3. \A r \in ImRows : r.listed => r.rt \in ImRTs
  <2>1. NotListed.listed = FALSE /\ \A r \in ImRTs : ImAccount(r).rt = r
    BY RTTypes
  <2> QED BY <2>1 DEF ImRows
<1>4. KeptRT \in ImRTs
  BY <1>0, <1>1, <1>3 DEF KeptRT, ImportShape
<1>5. to \in ImRows
  BY <1>1, <1>4 DEF ImRows
<1>6. imRow' = [imRow EXCEPT ![e] = to]
  BY <1>0, <1>1 DEF UpdateExisting, ImportShape
<1> HIDE DEF to
<1>7. /\ imRow' \in [ImEmails -> ImRows] /\ imRow'[e] = to
      /\ \A x \in ImEmails : x # e => imRow'[x] = imRow[x]
  BY <1>0, <1>1, <1>5, <1>6 DEF ImportShape
<1>8. Calm => to = Imported(Item)
  BY <1>0, <1>1 DEF Imported, to, KeptRT
<1> QED BY <1>0, <1>2, <1>7, <1>8, ItemDone DEF ImportShape

LEMMA AdministratorKeeps ==
    ASSUME ImportInv, NEW e \in ImEmails, Administrator(e) PROVE ImportInv'
<1>0. /\ ImportInput /\ ImportShape /\ ImportCounts /\ imFaults' = imFaults + 1
      /\ UNCHANGED <<imInput, imSpent, imPc, imAt, imItems, imSum, imFound, imCancelled>>
  BY DEF ImportInv, Administrator, ImFault
<1> DEFINE to == IF imRow[e].listed THEN NotListed ELSE ImAccount(RT(0, 0))
<1>1. to \in ImRows
  BY RTTypes
<1>2. imRow' = [imRow EXCEPT ![e] = to]
  BY <1>0 DEF Administrator, ImportShape
<1> HIDE DEF to
<1>3. imRow' \in [ImEmails -> ImRows]
  BY <1>0, <1>1, <1>2 DEF ImportShape
<1>4. ImportInput'
  BY <1>0 DEF ImportInput, imInput
<1>5. ImportShape'
  BY <1>0, <1>3 DEF ImportShape, imInput
<1>6. ImportCounts'
  BY <1>0 DEF ImportCounts
<1>7. ImportCalm'
  BY <1>0 DEF ImportCalm, Calm, ImportShape
<1> QED BY <1>4, <1>5, <1>6, <1>7 DEF ImportInv

LEMMA ImportStutter ==
    ASSUME ImportInv, UNCHANGED imVars PROVE ImportInv'
<1>0. ImportInput /\ ImportShape /\ ImportCounts /\ ImportCalm
  BY DEF ImportInv
<1>1. /\ UNCHANGED <<imMode, imUpdates, imEmail, imRow0, imRow, imSpent, imPc, imAt, imItems, imSum>>
      /\ UNCHANGED <<imFound, imCancelled, imFaults>>
      /\ UNCHANGED <<imInput, imSpent, imItems>>
  BY DEF imVars, imInput
<1>2. ImportInput'
  BY <1>0, <1>1 DEF ImportInput
<1>3. ImportShape'
  BY <1>0, <1>1 DEF ImportShape
<1>4. ImportCounts'
  BY <1>0, <1>1 DEF ImportCounts
<1>5. Calm' <=> Calm
  BY <1>1 DEF Calm
<1>6. LinesAsItems => LinesAsItems'
  BY <1>1 DEF LinesAsItems, LineRT
<1>7. OneItemEach => OneItemEach'
  BY <1>1, ItemsStay
<1>8. RowsImported => RowsImported'
  BY <1>1 DEF RowsImported, Imported
<1>9. Item' = Item
  BY <1>1 DEF Item
<1>10. ImportCalm'
  BY <1>0, <1>1, <1>5, <1>6, <1>7, <1>8, <1>9 DEF ImportCalm
<1> QED BY <1>2, <1>3, <1>4, <1>10 DEF ImportInv

LEMMA ImportStep == ImportInv /\ [ImportNext]_imVars => ImportInv'
<1> SUFFICES ASSUME ImportInv, [ImportNext]_imVars PROVE ImportInv'
  OBVIOUS
<1>1. ASSUME NEW rotated \in BOOLEAN, Convert(rotated) PROVE ImportInv'
  BY <1>1, ConvertKeeps
<1>2. ASSUME NEW rotated \in BOOLEAN, ConvertFails(rotated) PROVE ImportInv'
  BY <1>2, ConvertFailsKeeps
<1>3. CASE Cancel \/ ImportBatch
  BY <1>3, CancelKeeps, BatchKeeps
<1>4. CASE ImportCancelled \/ ImportOver
  BY <1>4, ImportCancelledKeeps, ImportOverKeeps
<1>5. CASE GetByEmail \/ Fails
  BY <1>5, GetByEmailKeeps, ImportFailsKeeps
<1>6. CASE CreateAccount \/ SkipExisting \/ UpdateExisting
  BY <1>6, CreateAccountKeeps, SkipExistingKeeps, UpdateExistingKeeps
<1>7. ASSUME NEW e \in ImEmails, Administrator(e) PROVE ImportInv'
  BY <1>7, AdministratorKeeps
<1>8. CASE UNCHANGED imVars
  BY <1>8, ImportStutter
<1> QED BY <1>1, <1>2, <1>3, <1>4, <1>5, <1>6, <1>7, <1>8 DEF ImportNext

LEMMA ImportStart == ImInit => ImportInv
<1> SUFFICES ASSUME ImInit PROVE ImportInv
  OBVIOUS
<1>0. ImLines \in Nat
  BY ImportsAssumption
<1>1. /\ imPc = "convert" /\ imAt = 1 /\ imItems = <<>> /\ imSpent = {} /\ imRow0 = imRow
      /\ imFound = NotListed /\ imFaults = 0 /\ imCancelled = FALSE
      /\ imMode \in {"json", "at", "rt", "st"} /\ imUpdates \in BOOLEAN
      /\ imEmail \in [ImRange -> ImEmails]
  BY DEF ImInit
<1>2. /\ imSum \in ImSums /\ imSum.total = 0 /\ Outcomes(imSum) = 0
  <2>1. imSum = [total |-> 0, created |-> 0, updated |-> 0, skipped |-> 0, failed |-> 0]
    BY DEF ImInit
  <2> QED BY <2>1 DEF ImSums, Outcomes
<1>3. /\ imRow \in [ImEmails -> ImRows]
      /\ \A e \in ImEmails :
            imRow[e].listed = TRUE =>
               \/ imRow[e].rt \in {NoRT, RT(0, 0)}
               \/ imRow[e].rt = RT(1, 0) /\ imEmail[1] = e
  <2> DEFINE Before == {NotListed, ImAccount(NoRT), ImAccount(RT(0, 0)), ImAccount(RT(1, 0))}
  <2>1. imRow \in [ImEmails -> Before] /\ \A e \in ImEmails : imRow[e] = ImAccount(RT(1, 0)) => imEmail[1] = e
    BY DEF ImInit
  <2>2. NoRT \in ImRTs /\ RT(0, 0) \in ImRTs /\ RT(1, 0) \in ImRTs
    BY RTTypes
  <2>3. /\ Before \subseteq ImRows /\ NotListed.listed = FALSE
        /\ ImAccount(NoRT).rt = NoRT /\ ImAccount(RT(0, 0)).rt = RT(0, 0) /\ ImAccount(RT(1, 0)).rt = RT(1, 0)
    BY <2>2, RTTypes
  <2> QED BY <2>1, <2>3
<1>4. ImportInput
  BY <1>1, <1>3 DEF ImportInput
<1>5. ImportShape
  <2>1. imFound \in ImRows
    BY <1>1, RTTypes
  <2>2. imItems \in Seq(ImItem)
    BY <1>1
  <2> QED BY <1>1, <1>2, <1>3, <2>1, <2>2 DEF ImportShape
<1>6. ImportCounts
  <2>1. Len(imItems) = 0
    BY <1>1
  <2> QED BY <1>0, <1>1, <1>2, <2>1 DEF ImportCounts
<1>7. ImportCalm
  <2>1. Len(imItems) = 0 /\ 1 .. 0 = {}
    BY <1>1
  <2>2. LinesAsItems
    BY <1>1, <1>2, <2>1 DEF LinesAsItems
  <2> QED BY <1>1, <2>2 DEF ImportCalm
<1> QED BY <1>4, <1>5, <1>6, <1>7 DEF ImportInv

\* What an import that nobody disturbed has left.
LEMMA ImportLeft ==
    ASSUME ImportInv, Undisturbed
    PROVE  /\ imSum.total = Cardinality({imEmail[i] : i \in ImRange})
           /\ \A i \in ImRange : \E j \in ImRange, item \in ImItem :
                 /\ LastOf(imEmail[i], j) /\ item.email = imEmail[i] /\ item.rt = LineRT(j)
                 /\ imRow[item.email] = Imported(item)
           /\ \A e \in ImEmails : (\A i \in ImRange : imEmail[i] # e) => imRow[e] = imRow0[e]
<1>0. /\ imSum.total = Cardinality({imEmail[i] : i \in ImRange})
      /\ OneItemEach /\ RowsImported /\ imAt > Len(imItems) /\ ImportShape
  BY DEF Undisturbed, ImportInv, ImportCalm, Calm, ImportShape
<1>1. imItems \in Seq(ImItem) /\ imAt \in Nat /\ Len(imItems) \in Nat
  BY <1>0 DEF ImportShape
<1>2. \A k \in 1 .. Len(imItems) : k < imAt /\ imItems[k] \in ImItem /\ imRow[imItems[k].email] = Imported(imItems[k])
  BY <1>0, <1>1 DEF RowsImported
<1>3. ASSUME NEW i \in ImRange
      PROVE  \E j \in ImRange, item \in ImItem :
                 /\ LastOf(imEmail[i], j) /\ item.email = imEmail[i] /\ item.rt = LineRT(j)
                 /\ imRow[item.email] = Imported(item)
  <2>1. PICK k \in 1 .. Len(imItems) : imItems[k].email = imEmail[i]
    BY <1>0 DEF OneItemEach
  <2>2. PICK j : LastOf(imItems[k].email, j) /\ imItems[k].rt = LineRT(j)
    BY <1>0 DEF OneItemEach
  <2>3. j \in ImRange
    BY <2>2 DEF LastOf
  <2> QED BY <1>2, <2>1, <2>2, <2>3
<1>4. ASSUME NEW e \in ImEmails, \A i \in ImRange : imEmail[i] # e PROVE imRow[e] = imRow0[e]
  <2>1. ASSUME NEW k \in 1 .. Len(imItems) PROVE imItems[k].email # e
    <3>1. PICK j : LastOf(imItems[k].email, j)
      BY <1>0 DEF OneItemEach
    <3> QED BY <1>4, <3>1 DEF LastOf
  <2> QED BY <1>0, <2>1 DEF RowsImported
<1>5. imSum.total = Cardinality({imEmail[i] : i \in ImRange})
  BY <1>0
<1> QED BY <1>3, <1>4, <1>5

LEMMA ImportInvSound == ImportInv => ImportsSound
<1> SUFFICES ASSUME ImportInv PROVE ImportsSound
  OBVIOUS
<1>0. ImportInput /\ ImportShape /\ ImportCounts
  BY DEF ImportInv
<1>1. SummaryAddsUp
  <2>1. imPc = "done" => imSum.total = Outcomes(imSum) /\ imSum.total <= ImLines
    BY <1>0 DEF ImportCounts
  <2>2. Undisturbed => imSum.total = Cardinality({imEmail[i] : i \in ImRange})
    BY ImportLeft
  <2> QED BY <2>1, <2>2 DEF SummaryAddsUp, Outcomes
<1>2. ASSUME Undisturbed, NEW i \in imSpent
      PROVE  \/ imRow[imEmail[i]] = ImAccount(RT(i, 1))
             \/ \E j \in ImRange : j > i /\ imEmail[j] = imEmail[i]
             \/ imRow0[imEmail[i]].listed /\ ~imUpdates
  <2>1. i \in ImRange /\ imMode = "rt" /\ i \in Nat /\ ImRange \subseteq Nat
    BY <1>0 DEF ImportShape, ImRange
  <2>2. PICK j \in ImRange, item \in ImItem :
            /\ LastOf(imEmail[i], j) /\ item.email = imEmail[i] /\ item.rt = LineRT(j)
            /\ imRow[item.email] = Imported(item)
    BY <1>2, <2>1, ImportLeft
  <2>3. i <= j /\ imEmail[j] = imEmail[i]
    BY <2>1, <2>2 DEF LastOf
  <2>4. CASE j = i
    <3>1. LineRT(j) = RT(i, 1) /\ RT(i, 1) # NoRT
      BY <2>1, <2>4, RTTypes DEF LineRT
    <3> QED BY <2>2, <3>1 DEF Imported
  <2>5. CASE j # i
    BY <2>1, <2>3, <2>5
  <2> QED BY <2>4, <2>5
<1>3. ASSUME Undisturbed, NEW e \in ImEmails, imRow0[e].listed, imRow0[e].rt # NoRT
      PROVE  \/ imRow[e].rt # NoRT /\ Usable(imRow[e].rt)
             \/ ~imUpdates /\ imRow0[e].rt.line \in imSpent
  <2> DEFINE rt0 == imRow0[e].rt
  <2>0. /\ rt0 = RT(0, 0) \/ (rt0 = RT(1, 0) /\ (1 \in ImRange => imEmail[1] = e))
        /\ imSpent \subseteq ImRange /\ 0 \notin ImRange /\ (imMode # "rt" => imSpent = {})
        /\ ImRange \subseteq Nat
    <3>1. imRow0[e] \in ImRows
      BY <1>0 DEF ImportInput
    <3>2. imRow0[e].listed = TRUE
      <4>1. \A r \in ImRows : r = NotListed \/ r.listed = TRUE
        BY RTTypes DEF ImRows
      <4> QED BY <1>3, <3>1, <4>1, RTTypes
    <3> QED BY <1>0, <1>3, <3>2 DEF ImportInput, ImportShape, ImRange
  <2>1. /\ rt0.line \in {0, 1} /\ (rt0.line = 0 \/ (1 \in ImRange => imEmail[1] = e))
        /\ rt0.line \notin imSpent => Usable(rt0)
    BY <2>0, RTTypes DEF Usable, Accepted
  <2> HIDE DEF rt0
  <2>2. CASE \A i \in ImRange : imEmail[i] # e
    <3>1. imRow[e] = imRow0[e]
      BY <1>3, <2>2, ImportLeft
    <3>2. rt0.line \notin imSpent
      BY <2>0, <2>1, <2>2
    <3> QED BY <1>3, <2>1, <3>1, <3>2 DEF rt0
  <2>3. CASE \E i \in ImRange : imEmail[i] = e
    <3>1. PICK i \in ImRange : imEmail[i] = e
      BY <2>3
    <3>2. PICK j \in ImRange, item \in ImItem :
            /\ LastOf(imEmail[i], j) /\ item.email = imEmail[i] /\ item.rt = LineRT(j)
            /\ imRow[item.email] = Imported(item)
      BY <1>3, <3>1, ImportLeft
    <3>3. imRow[e] = Imported(item) /\ item.email = e
      BY <3>1, <3>2
    <3>4. CASE ~imUpdates
      <4>1. imRow[e] = imRow0[e]
        BY <1>3, <3>3, <3>4 DEF Imported
      <4> QED BY <1>3, <2>1, <3>4, <4>1 DEF rt0
    <3>5. CASE imUpdates
      <4>1. imRow[e] = ImAccount(IF item.rt # NoRT THEN item.rt ELSE rt0)
        BY <1>3, <3>3, <3>5 DEF Imported, rt0
      <4>2. imRow[e].rt = IF item.rt # NoRT THEN item.rt ELSE rt0
        BY <4>1 DEF ImAccount
      <4>3. j \in Nat
        BY <2>0
      <4>4. CASE imMode = "rt"
        <5>1. item.rt = RT(j, IF j \in imSpent THEN 1 ELSE 0)
          BY <3>2, <4>4 DEF LineRT
        <5>2. item.rt # NoRT /\ Usable(item.rt)
          BY <4>3, <5>1, RTTypes DEF Usable, Accepted
        <5> QED BY <4>2, <5>2
      <4>5. CASE imMode = "json"
        <5>1. item.rt = RT(j, 0) /\ imSpent = {}
          BY <2>0, <3>2, <4>5 DEF LineRT
        <5>2. item.rt # NoRT /\ Usable(item.rt)
          BY <4>3, <5>1, RTTypes DEF Usable, Accepted
        <5> QED BY <4>2, <5>2
      <4>6. CASE imMode \notin {"rt", "json"}
        <5>1. item.rt = NoRT /\ imSpent = {}
          BY <2>0, <3>2, <4>6 DEF LineRT
        <5> QED BY <1>3, <2>1, <4>2, <5>1 DEF rt0
      <4> QED BY <4>4, <4>5, <4>6
    <3> QED BY <3>4, <3>5
  <2> QED BY <2>2, <2>3
<1>4. SuccessorsStored
  BY <1>2 DEF SuccessorsStored
<1>5. AccountsKeepRT
  BY <1>3 DEF AccountsKeepRT
<1> QED BY <1>1, <1>4, <1>5 DEF ImportsSound

\* Whatever fails, is cancelled or changes meanwhile, the summary of an import
\* adds up; and what an undisturbed one exchanged, it has stored.
THEOREM ImportsStaySound == ImportsSpec => []ImportsSound
<1> QED BY ImportStart, ImportStep, ImportInvSound, PTL DEF ImportsSpec

-----------------------------------------------------------------------------
(* The resources together: whatever component a behaviour exercises, its   *)
(* invariant holds, and those of the others are left alone.                *)

PoolInv == ImportInv /\ QuotaInv /\ ChannelInv /\ ProxyInv

\* A step of the pool is a step, or none, of every component.
LEMMA PoolStep == PoolInv /\ [PoolNext]_poolVars => PoolInv'
<1> SUFFICES ASSUME PoolInv, [PoolNext]_poolVars PROVE PoolInv'
  OBVIOUS
<1>1. [ImportNext]_imVars /\ [QNext]_qVars /\ [CNext]_cVars /\ [PNext]_pVars
  BY DEF PoolNext, Importing, Quota, Routing, Probing, poolVars
<1> QED BY <1>1, ImportStep, QuotaStep, ChannelStep, ProxyStep DEF PoolInv

\* The invariants of the four components hold of the pool.
THEOREM PoolInvariant == PoolSpec => []PoolInv
<1>1. PoolInit => PoolInv
  BY ImportStart, QuotaStart, ChannelStart, ProxyStart DEF PoolInit, PoolInv
<1> QED BY <1>1, PoolStep, PTL DEF PoolSpec

\* The accounts keep what was imported into them and their quota is overstated
\* only by a race with a probe; the channels and the scores of the proxies say
\* what was last found out about them.
THEOREM PoolStaysSound == PoolSpec => [](AccountsSound /\ ChannelsSound /\ ScoreExactUnlessRaced)
<1>1. PoolInv => AccountsSound
  BY ImportInvSound, QuotaInvSound DEF PoolInv, AccountsSound
<1>2. PoolInv => ChannelsSound /\ ScoreExactUnlessRaced
  BY ChannelInvSound, ProxyInvSound DEF PoolInv
<1> QED BY <1>1, <1>2, PoolInvariant, PTL

=============================================================================
