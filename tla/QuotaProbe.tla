---------------------------- MODULE QuotaProbe ----------------------------
(***************************************************************************)
(* The image quota columns of oai_accounts and their writers: the          *)
(* background prober (internal/account/quota.go), an administrator's probe *)
(* and DecrQuota, which the image runner calls after a success.            *)
(*                                                                         *)
(* A probe reads the account's row, asks ChatGPT, and writes what it was   *)
(* told; images are generated and deducted meanwhile.  The semaphore of a  *)
(* scan only delays a listed row and is left out.  ChatGPT's own counter   *)
(* is qUp; only this server uses the accounts.                             *)
(***************************************************************************)
EXTENDS Integers, Sequences, FiniteSets, FiniteSetsExt, SequencesExt

CONSTANTS
    QAccounts,      \* the accounts
    QCap,           \* ChatGPT's image limit per window
    QLimit,         \* LIMIT of ListNeedProbeQuota (256)
    QMaxImages,     \* bound on images generated
    QMaxEvents      \* bound on failing calls, clock events and status changes

ASSUME QuotaProbeAssumption ==
    /\ IsFiniteSet(QAccounts)
    /\ QCap \in Nat \ {0}
    /\ QLimit \in Nat \ {0}
    /\ QMaxImages \in Nat
    /\ QMaxEvents \in Nat

\* The goroutine a scan starts for an account, and the administrator's.
QAdmin == "admin"
QProbes == QAccounts \cup {QAdmin}
Unknown == -1

VARIABLES
    qRow,       \* the quota columns and the status of an account
    qOrder,     \* accounts by image_quota_updated_at, never probed first
    qDue,       \* accounts whose last probe is older than the interval, or none
    qUp,        \* what ChatGPT has left
    qUsed,      \* today_used_count, 0 when today_used_date is another day
    qPending,   \* images generated whose DecrQuota is still to come
    qProbe,     \* the probes
    qLost,      \* deductions the last probe overwrote, or a deletion dropped
    qImages,    \* images generated so far
    qEvents     \* events so far

qVars == <<qRow, qOrder, qDue, qUp, qUsed, qPending, qProbe, qLost, qImages, qEvents>>

QIdle == [pc |-> "idle"]

\* Types of the quota columns and of the probes.
QuotaType ==
    /\ qRow \in [QAccounts -> [remaining : Unknown .. QCap + 1, total : Int,
                               reset : {"null", "future", "past"},
                               status : {"healthy", "other", "deleted"}]]
    /\ qOrder \in Seq(QAccounts) /\ Len(qOrder) = Cardinality(QAccounts)
    /\ qDue \subseteq QAccounts
    /\ qUp \in [QAccounts -> 0 .. QCap]
    /\ \A p \in QProbes : qProbe[p].pc \in {"idle", "listed", "write"}

QInit ==
    /\ qRow = [a \in QAccounts |-> [remaining |-> Unknown, total |-> Unknown,
                                    reset |-> "null", status |-> "healthy"]]
    /\ qOrder = SetToSeq(QAccounts)
    /\ qDue = QAccounts
    /\ qUp = [a \in QAccounts |-> QCap]
    /\ qUsed = [a \in QAccounts |-> 0]
    /\ qPending = [a \in QAccounts |-> 0]
    /\ qProbe = [p \in QProbes |-> QIdle]
    /\ qLost = [a \in QAccounts |-> 0]
    /\ qImages = 0
    /\ qEvents = 0

QEvent == qEvents < QMaxEvents /\ qEvents' = qEvents + 1

-----------------------------------------------------------------------------
(* What a probe makes of an answer.                                        *)

\* An image_* entry of limits_progress; Unknown stands for a missing field.
QItem(remaining, cap, reset) == [remaining |-> remaining, cap |-> cap, reset |-> reset]

Known(S) == S \ {Unknown}

\* The answers ChatGPT may give about an account: no image entry at all, one
\* without a limit, and two entries of which one is looser.
QAnswers(a) ==
    { {},
      {QItem(qUp[a], Unknown, TRUE)},
      {QItem(qUp[a], QCap, TRUE), QItem(QCap + 1, QCap + 1, FALSE)} }

\* Mutant: the loosest entry wins.
doProbeLoose(items, used) ==
    LET rems == Known({i.remaining : i \in items})
    IN [remaining |-> IF rems = {} THEN Unknown ELSE Max(rems),
        total |-> Unknown, reset |-> "null"]

\* The smallest remaining count, the largest limit, and the limit estimated
\* from today's use of the row that was read when no entry has one.
doProbe(items, used) ==
    LET rems == Known({i.remaining : i \in items})
        caps == Known({i.cap : i \in items})
        remaining == IF rems = {} THEN Unknown ELSE Min(rems)
        total == IF caps = {} THEN Unknown ELSE Max(caps)
    IN [remaining |-> remaining,
        total |-> IF total <= 0 /\ remaining >= 0 /\ used + remaining > 0
                  THEN used + remaining ELSE total,
        reset |-> IF \E i \in items : i.reset THEN "future" ELSE "null"]

\* ApplyQuotaResult is called with this when the token cannot be decrypted
\* or the call fails: the reset time is cleared all the same.
QFailed == [remaining |-> Unknown, total |-> Unknown, reset |-> "null"]

-----------------------------------------------------------------------------
(* The prober.                                                             *)

\* The WHERE clause of ListNeedProbeQuota.
QCandidate(a) ==
    /\ qRow[a].status = "healthy"
    /\ a \in qDue \/ (qRow[a].remaining = 0 /\ qRow[a].reset \in {"null", "past"})

\* Its ORDER BY and LIMIT.
QListed ==
    {qOrder[i] : i \in {k \in DOMAIN qOrder :
        /\ QCandidate(qOrder[k])
        /\ Cardinality({j \in 1 .. k - 1 : QCandidate(qOrder[j])}) < QLimit}}

QScanIdle == \A a \in QAccounts : qProbe[a].pc = "idle"

QBegin(p, a) == [pc |-> "listed", account |-> a, used |-> qUsed[a]]

\* scanOnce waits for the whole batch before the loop comes round again.
QScan ==
    /\ QScanIdle
    /\ QListed # {}
    /\ qProbe' = [p \in QProbes |-> IF p \in QListed THEN QBegin(p, p) ELSE qProbe[p]]
    /\ UNCHANGED <<qRow, qOrder, qDue, qUp, qUsed, qPending, qLost, qImages, qEvents>>

\* ProbeByID, for one account or for each of probe-quota-all.
QProbeByID(a) ==
    /\ qProbe[QAdmin].pc = "idle"
    /\ qRow[a].status # "deleted"
    /\ QEvent
    /\ qProbe' = [qProbe EXCEPT ![QAdmin] = QBegin(QAdmin, a)]
    /\ UNCHANGED <<qRow, qOrder, qDue, qUp, qUsed, qPending, qLost, qImages>>

QGot(p, outcome) ==
    qProbe' = [qProbe EXCEPT ![p] = [pc |-> "write", account |-> qProbe[p].account,
                                     out |-> outcome, late |-> 0]]

\* ChatGPT answers.
QAnswer(p) ==
    /\ qProbe[p].pc = "listed"
    /\ \E items \in QAnswers(qProbe[p].account) : QGot(p, doProbe(items, qProbe[p].used))
    /\ UNCHANGED <<qRow, qOrder, qDue, qUp, qUsed, qPending, qLost, qImages, qEvents>>

\* It does not, or the stored token cannot be decrypted.
QAnswerFails(p) ==
    /\ qProbe[p].pc = "listed"
    /\ QGot(p, QFailed)
    /\ UNCHANGED <<qRow, qOrder, qDue, qUp, qUsed, qPending, qLost, qImages, qEvents>>

\* The UPDATE of ApplyQuotaResult.
Applied(row, out) ==
    [row EXCEPT !.remaining = IF out.remaining < 0 THEN @ ELSE out.remaining,
                !.total = Max({@, IF out.total < 0 THEN 0 ELSE out.total,
                                  IF out.remaining < 0 THEN 0 ELSE out.remaining}),
                !.reset = out.reset]

\* image_quota_updated_at = now, whatever the outcome.
QTouched(a, out) ==
    /\ \E i \in DOMAIN qOrder : qOrder[i] = a /\ qOrder' = Append(RemoveAt(qOrder, i), a)
    /\ qDue' = qDue \ {a}

ApplyQuotaResult(p) ==
    LET a == qProbe[p].account
        out == qProbe[p].out
    IN /\ qProbe[p].pc = "write"
       /\ IF qRow[a].status = "deleted"
          THEN UNCHANGED <<qRow, qOrder, qDue, qLost>>
          ELSE /\ qRow' = [qRow EXCEPT ![a] = Applied(@, out)]
               /\ QTouched(a, out)
               /\ qLost' = [qLost EXCEPT ![a] = IF out.remaining < 0 THEN @ ELSE qProbe[p].late]
       /\ qProbe' = [qProbe EXCEPT ![p] = QIdle]
       /\ UNCHANGED <<qUp, qUsed, qPending, qImages, qEvents>>

\* The UPDATE fails; the loop does not care.
QWriteFails(p) ==
    /\ qProbe[p].pc = "write"
    /\ QEvent
    /\ qProbe' = [qProbe EXCEPT ![p] = QIdle]
    /\ UNCHANGED <<qRow, qOrder, qDue, qUp, qUsed, qPending, qLost, qImages>>

-----------------------------------------------------------------------------
(* The others.                                                             *)

\* An image is generated with the account, and its lease released: MarkUsed
\* counts the use.
QGenerate(a) ==
    /\ qImages < QMaxImages
    /\ qUp[a] > 0
    /\ qRow[a].status = "healthy"
    /\ qImages' = qImages + 1
    /\ qUp' = [qUp EXCEPT ![a] = @ - 1]
    /\ qUsed' = [qUsed EXCEPT ![a] = @ + 1]
    /\ qPending' = [qPending EXCEPT ![a] = @ + 1]
    /\ UNCHANGED <<qRow, qOrder, qDue, qProbe, qLost, qEvents>>

\* GREATEST(0, image_quota_remaining - 1), which also turns unknown into 0.
Decremented(n) == Max({0, n - 1})

QDecrQuota(a) ==
    /\ qPending[a] > 0
    /\ qPending' = [qPending EXCEPT ![a] = @ - 1]
    /\ qRow' = IF qRow[a].status = "deleted" THEN qRow
               ELSE [qRow EXCEPT ![a].remaining = Decremented(@)]
    /\ qLost' = IF qRow[a].status = "deleted" THEN [qLost EXCEPT ![a] = @ + 1] ELSE qLost
    /\ qProbe' = [p \in QProbes |->
                    IF qProbe[p].pc = "write" /\ qProbe[p].account = a
                    THEN [qProbe[p] EXCEPT !.late = @ + 1] ELSE qProbe[p]]
    /\ UNCHANGED <<qOrder, qDue, qUp, qUsed, qImages, qEvents>>

\* ChatGPT's window ends, perhaps on a new day.
QReset(a) ==
    /\ QEvent
    /\ qUp' = [qUp EXCEPT ![a] = QCap]
    /\ qUsed' \in {qUsed, [qUsed EXCEPT ![a] = 0]}
    /\ qRow' = [qRow EXCEPT ![a].reset = IF @ = "future" THEN "past" ELSE @]
    /\ UNCHANGED <<qOrder, qDue, qPending, qProbe, qLost, qImages>>

\* The oldest probe becomes older than the interval.
QElapse ==
    /\ QEvent
    /\ \E i \in DOMAIN qOrder :
          /\ qOrder[i] \notin qDue
          /\ \A j \in 1 .. i - 1 : qOrder[j] \in qDue
          /\ qDue' = qDue \cup {qOrder[i]}
    /\ UNCHANGED <<qRow, qOrder, qUp, qUsed, qPending, qProbe, qLost, qImages>>

\* The account is throttled, expires, is deleted or comes back.
QStatus(a) ==
    /\ QEvent
    /\ \E s \in {"healthy", "other", "deleted"} \ {qRow[a].status} :
          qRow' = [qRow EXCEPT ![a].status = s]
    /\ UNCHANGED <<qOrder, qDue, qUp, qUsed, qPending, qProbe, qLost, qImages>>

QProbeStep(p) == QAnswer(p) \/ QAnswerFails(p) \/ ApplyQuotaResult(p)

QNext ==
    \/ QScan
    \/ QElapse
    \/ \E p \in QProbes : QAnswer(p) \/ QAnswerFails(p) \/ ApplyQuotaResult(p) \/ QWriteFails(p)
    \/ \E a \in QAccounts :
          \/ QProbeByID(a) \/ QGenerate(a) \/ QDecrQuota(a) \/ QReset(a) \/ QStatus(a)

QSpec == QInit /\ [][QNext]_qVars

-----------------------------------------------------------------------------
(* Properties.                                                             *)

\* image_quota_total covers what is shown as remaining, in every order of
\* probes and deductions (the comment on ApplyQuotaResult: remaining 5 of 0
\* would contradict itself).
QuotaTotalCovers ==
    \A a \in QAccounts : qRow[a].remaining > 0 => qRow[a].total >= qRow[a].remaining

\* The row never promises more images than ChatGPT has left, beyond those
\* whose DecrQuota is still to come, was overwritten by a probe that had read
\* ChatGPT's counter before it, or found the account deleted.
QuotaOverstatedOnlyByRace ==
    \A a \in QAccounts : qRow[a].remaining <= qUp[a] + qPending[a] + qLost[a]

\* ListNeedProbeQuota takes the least recently probed rows, and a failed
\* probe counts as a probe: no account whose probe keeps failing can keep
\* another candidate out of the batch for ever.
QuotaNoStarvation ==
    \A a \in QAccounts : QCandidate(a) ~> (qProbe[a].pc # "idle" \/ ~QCandidate(a))
=============================================================================
