---------------------------- MODULE ProxyHealth ----------------------------
(***************************************************************************)
(* The health score of the outgoing proxies (internal/proxy) and its two   *)
(* kinds of writers: the prober, which reads a row, tries the proxy for    *)
(* seconds and writes a score computed from what it read, and the requests *)
(* whose lease failed, which deduct from the score in the UPDATE itself.   *)
(* Leases and their locks are modelled in Scheduler.                       *)
(***************************************************************************)
EXTENDS Integers, FiniteSets

CONSTANTS
    Proxies,        \* the proxies
    PLeases,        \* requests that use a proxy
    Targets,        \* candidateTargets: the configured one, or the built-in chain
    Blocked,        \* targets that do not answer through any proxy
    PMaxEvents      \* bound on outages, edits, leases and requested probes

ASSUME ProxyHealthAssumption ==
    /\ IsFiniteSet(Proxies)
    /\ IsFiniteSet(PLeases)
    /\ IsFiniteSet(Targets) /\ Targets # {}
    /\ Blocked \subseteq Targets
    /\ PMaxEvents \in Nat

\* Scores in tens: 100 is 10.
Full == 10
Reward == 1
Penalty == 2

\* The goroutine of a round for a proxy, and an administrator's probe.
PAdmin == "admin"
PProbes == Proxies \cup {PAdmin}

VARIABLES
    proxy,      \* score, enabled and not deleted
    up,         \* proxies that work
    pprobe,     \* the probes
    please,     \* the proxy a request goes through
    pfair,      \* the score if every probe and failure had been applied in turn
    praced,     \* proxies of which a probe overwrote a score it had not read
    pevents     \* events so far

pVars == <<proxy, up, pprobe, please, pfair, praced, pevents>>

PIdle == [pc |-> "idle"]
Direct == "direct"

\* Types of the proxy rows and of the probes.
ProxyType ==
    /\ proxy \in [Proxies -> [score : 0 .. Full, on : BOOLEAN, live : BOOLEAN]]
    /\ up \subseteq Proxies
    /\ \A w \in PProbes : pprobe[w].pc \in {"idle", "probing", "apply"}
    /\ please \in [PLeases -> Proxies \cup {Direct}]

\* New proxies have the full score, older ones may be down to a rest.
PInit ==
    /\ proxy \in [Proxies -> [score : {1, Full}, on : {TRUE}, live : {TRUE}]]
    /\ up \in SUBSET Proxies
    /\ pprobe = [w \in PProbes |-> PIdle]
    /\ please = [l \in PLeases |-> Direct]
    /\ pfair = [p \in Proxies |-> proxy[p].score]
    /\ praced = {}
    /\ pevents = 0

PEvent == pevents < PMaxEvents /\ pevents' = pevents + 1

-----------------------------------------------------------------------------
(* The prober.                                                             *)

\* ListAllEnabled: whatever their score.
ListAllEnabled == {p \in Proxies : proxy[p].live /\ proxy[p].on}

PBegin(p) == [pc |-> "probing", id |-> p, score |-> proxy[p].score]

\* runOnce(0), or ProbeAll: every enabled proxy, and the round waits for all.
ProbeRound ==
    /\ \A p \in Proxies : pprobe[p].pc = "idle"
    /\ ListAllEnabled # {}
    /\ pprobe' = [w \in PProbes |-> IF w \in ListAllEnabled THEN PBegin(w) ELSE pprobe[w]]
    /\ UNCHANGED <<proxy, up, please, pfair, praced, pevents>>

\* An administrator's probe of one proxy, enabled or not.
ProbeByID(p) ==
    /\ pprobe[PAdmin].pc = "idle"
    /\ proxy[p].live
    /\ PEvent
    /\ pprobe' = [pprobe EXCEPT ![PAdmin] = PBegin(p)]
    /\ UNCHANGED <<proxy, up, please, pfair, praced>>

\* probe: one target that answers is enough.
Reaches(p) == p \in up /\ \E t \in Targets : t \notin Blocked

ProbeEnds(w) ==
    /\ pprobe[w].pc = "probing"
    /\ pprobe' = [pprobe EXCEPT ![w] = [pc |-> "apply", id |-> @.id, score |-> @.score,
                                        ok |-> Reaches(@.id)]]
    /\ UNCHANGED <<proxy, up, please, pfair, praced, pevents>>

\* Mutant: a failure is recorded and costs nothing.
ScoredKindly(score, ok) ==
    IF ok THEN (IF score + Reward > Full THEN Full ELSE score + Reward) ELSE score

\* The arithmetic of applyResult.
Scored(score, ok) ==
    IF ok THEN (IF score + Reward > Full THEN Full ELSE score + Reward)
    ELSE (IF score - Penalty < 0 THEN 0 ELSE score - Penalty)

\* applyResult and UpdateHealth: the score that was read, changed, is
\* written over whatever the row holds by now.
ApplyResult(w) ==
    LET p == pprobe[w].id
        ok == pprobe[w].ok
    IN /\ pprobe[w].pc = "apply"
       /\ proxy' = [proxy EXCEPT ![p].score = Scored(pprobe[w].score, ok)]
       /\ pfair' = [pfair EXCEPT ![p] = IF ok THEN (IF @ + Reward > Full THEN Full ELSE @ + Reward)
                                        ELSE (IF @ - Penalty < 0 THEN 0 ELSE @ - Penalty)]
       /\ praced' = IF pprobe[w].score # proxy[p].score THEN praced \cup {p} ELSE praced
       /\ pprobe' = [pprobe EXCEPT ![w] = PIdle]
       /\ UNCHANGED <<up, please, pevents>>

\* The UPDATE fails and is logged.
ApplyFails(w) ==
    /\ pprobe[w].pc = "apply"
    /\ PEvent
    /\ pprobe' = [pprobe EXCEPT ![w] = PIdle]
    /\ UNCHANGED <<proxy, up, please, pfair, praced>>

-----------------------------------------------------------------------------
(* Requests and administrators.                                            *)

\* ListRuntimeCandidates.
PCandidate(p) == proxy[p].live /\ proxy[p].on /\ proxy[p].score > 0

PLease(l, p) ==
    /\ please[l] = Direct
    /\ PCandidate(p)
    /\ \A m \in PLeases : please[m] # p
    /\ PEvent
    /\ please' = [please EXCEPT ![l] = p]
    /\ UNCHANGED <<proxy, up, pprobe, pfair, praced>>

\* Mutant: one failure costs the whole score.
DeductedAll(score) == 0

\* CASE WHEN health_score > 20 THEN health_score - 20 ELSE 0.
Deducted(score) == IF score > Penalty THEN score - Penalty ELSE 0

\* The proxy fails the request: MarkFailure, once, then the release.
LeaseFails(l) ==
    LET p == please[l]
    IN /\ p # Direct
       /\ p \notin up
       /\ proxy' = IF proxy[p].live THEN [proxy EXCEPT ![p].score = Deducted(@)] ELSE proxy
       /\ pfair' = IF proxy[p].live
                   THEN [pfair EXCEPT ![p] = IF @ > Penalty THEN @ - Penalty ELSE 0] ELSE pfair
       /\ please' = [please EXCEPT ![l] = Direct]
       /\ UNCHANGED <<up, pprobe, praced, pevents>>

LeaseEnds(l) ==
    /\ please[l] # Direct
    /\ please' = [please EXCEPT ![l] = Direct]
    /\ UNCHANGED <<proxy, up, pprobe, pfair, praced, pevents>>

\* A proxy goes down or comes back.
Outage(p) ==
    /\ PEvent
    /\ up' = IF p \in up THEN up \ {p} ELSE up \cup {p}
    /\ UNCHANGED <<proxy, pprobe, please, pfair, praced>>

\* Update and ImportBatch over an existing row: the score is not a column
\* of their UPDATE.
UpdateProxy(p) ==
    /\ PEvent
    /\ proxy[p].live
    /\ proxy' = [proxy EXCEPT ![p].on = ~@]
    /\ UNCHANGED <<up, pprobe, please, pfair, praced>>

\* Mutant: the overwritten proxy starts with the full score again.
ImportProxyResets(p, on) ==
    /\ PEvent
    /\ proxy[p].live
    /\ proxy' = [proxy EXCEPT ![p].on = on, ![p].score = Full]
    /\ UNCHANGED <<up, pprobe, please, pfair, praced>>

\* A line of an import that names the endpoint of this proxy and may
\* overwrite it: everything but the score.
ImportProxy(p, on) ==
    /\ PEvent
    /\ proxy[p].live
    /\ proxy' = [proxy EXCEPT ![p].on = on]
    /\ UNCHANGED <<up, pprobe, please, pfair, praced>>

DeleteProxy(p) ==
    /\ PEvent
    /\ proxy[p].live
    /\ proxy' = [proxy EXCEPT ![p].live = FALSE]
    /\ UNCHANGED <<up, pprobe, please, pfair, praced>>

PProbeStep(w) == ProbeEnds(w) \/ ApplyResult(w)

PNext ==
    \/ ProbeRound
    \/ \E w \in PProbes : ProbeEnds(w) \/ ApplyResult(w) \/ ApplyFails(w)
    \/ \E p \in Proxies : ProbeByID(p) \/ Outage(p) \/ UpdateProxy(p) \/ DeleteProxy(p)
    \/ \E p \in Proxies, on \in BOOLEAN : ImportProxy(p, on)
    \/ \E l \in PLeases : LeaseFails(l) \/ LeaseEnds(l) \/ \E p \in Proxies : PLease(l, p)

PSpec == PInit /\ [][PNext]_pVars

-----------------------------------------------------------------------------
(* Properties.                                                             *)

\* The score is what probes and runtime failures add up to, unless a probe
\* wrote over a score that changed while it was under way; it stays in its
\* range even then.
ScoreExactUnlessRaced ==
    /\ ProxyType
    /\ \A p \in Proxies : p \notin praced => proxy[p].score = pfair[p]

\* A proxy that stays down stops being handed out, although stale probe
\* results may raise its score again for a while.
DeadProxyExcluded ==
    \A p \in Proxies :
        <>[](proxy[p].live /\ proxy[p].on /\ p \notin up) => <>[](proxy[p].score = 0)

\* A proxy that works again gets back into use: the prober also probes those
\* with score 0, and one reachable target is enough.
LiveProxyRestored ==
    \A p \in Proxies :
        <>[](proxy[p].live /\ proxy[p].on /\ p \in up) => <>[](proxy[p].score > 0)
=============================================================================
