------------------------------- MODULE MCPool -------------------------------
(***************************************************************************)
(* The resources requests are sent through: the import of accounts, their  *)
(* image quota, the external channels and the proxies.  The components     *)
(* share no state that these modules describe, so one behaviour exercises  *)
(* one of them, chosen at the start.                                       *)
(***************************************************************************)
EXTENDS Imports, QuotaProbe, ChannelRoutes, ProxyHealth

CONSTANTS q1, q2, r1, r2, t1, p1, l1, e1, e2

VARIABLE part       \* the component a behaviour exercises

poolVars == <<part, qVars, cVars, pVars, imVars>>

PoolInit ==
    /\ part \in {"imports", "quota", "channels", "proxies"}
    /\ QInit /\ CInit /\ PInit /\ ImInit
    /\ part # "proxies" => up = {} /\ \A p \in Proxies : proxy[p].score = Full
    /\ part # "imports" =>
        /\ imMode = "json" /\ imUpdates
        /\ imRow = [e \in ImEmails |-> NotListed]
        /\ imEmail = [i \in ImRange |-> e1]

Importing(A) == part = "imports" /\ A /\ UNCHANGED <<part, qVars, cVars, pVars>>
Quota(A) == part = "quota" /\ A /\ UNCHANGED <<part, cVars, pVars, imVars>>
Routing(A) == part = "channels" /\ A /\ UNCHANGED <<part, qVars, pVars, imVars>>
Probing(A) == part = "proxies" /\ A /\ UNCHANGED <<part, qVars, cVars, imVars>>

PoolNext ==
    \/ Importing(ImportNext)
    \/ Quota(QNext)
    \/ Routing(CNext)
    \/ Probing(PNext)

\* The loops of the two probers go on, their HTTP calls time out, and so do
\* the calls to a channel.
PoolSpec ==
    /\ PoolInit /\ [][PoolNext]_poolVars
    /\ WF_poolVars(Quota(QScan))
    /\ \A a \in QAccounts : WF_poolVars(Quota(QProbeStep(a)))
    /\ \A r \in CRequests : WF_poolVars(Routing(CRequestStep(r)))
    /\ WF_poolVars(Probing(ProbeRound))
    /\ \A w \in PProbes : WF_poolVars(Probing(PProbeStep(w)))

-----------------------------------------------------------------------------
(* Properties.                                                             *)

\* The accounts: an import keeps the refresh tokens it exchanges and accounts
\* for every line, and the image quota on a row exceeds what upstream grants
\* only by a race with a probe (ImportsSound, QuotaTotalCovers,
\* QuotaOverstatedOnlyByRace).
AccountsSound ==
    ImportsSound /\ QuotaType /\ QuotaTotalCovers /\ QuotaOverstatedOnlyByRace

\* Nothing is left out for good: a failing quota probe keeps no other account
\* out of the batch, every request gets to the end of its routes, a proxy that
\* stays down is no longer handed out and one that works again comes back
\* (QuotaNoStarvation, RoutingEnds, DeadProxyExcluded, LiveProxyRestored, each
\* for the behaviours of its component; liveness).
PoolRecovers ==
    /\ part = "quota" => QuotaNoStarvation
    /\ part = "channels" => RoutingEnds
    /\ part = "proxies" => DeadProxyExcluded /\ LiveProxyRestored
=============================================================================
