------------------------------ MODULE Gateway ------------------------------
(***************************************************************************)
(* The paid request handlers of internal/gateway on top of the credit      *)
(* engine: chat on the account pool, chat on an external channel, images   *)
(* on the account pool (generations and edits), an image model called      *)
(* through the chat endpoint, and images on an external channel.  Each     *)
(* handler freezes an estimate, writes a task row (images), calls the      *)
(* upstream, and closes the hold with Settle or Refund.                    *)
(*                                                                         *)
(* One step is one MySQL statement or transaction, or one upstream call;   *)
(* the requests of all users interleave.  A MySQL call can fail, PreDeduct *)
(* can commit and lose its acknowledgement, and the process can stop       *)
(* (main.go gives Shutdown 10 s while an image may run for 7 minutes);     *)
(* nothing sweeps the database at startup.  A Settle or Refund that        *)
(* commits and loses its acknowledgement leaves the same state as one that *)
(* succeeds, because both handlers go on either way.                       *)
(***************************************************************************)
EXTENDS Billing, Totals

CONSTANTS
    Requests,       \* request ids (ref_id); each is used once
    Owner,          \* the user whose API key makes the request
    Amounts,        \* amounts an estimate, a price or a credit can take
    Kinds,          \* request kinds that arrive
    MaxFaults,      \* bound: failed MySQL calls, lost acks and crashes
    MaxCredits      \* bound: recharges, redemptions and adjustments

AllKinds == {"pool", "chatImage", "channelImage", "chat", "channelChat"}
ImageKinds == {"pool", "chatImage", "channelImage"}
PoolImageKinds == {"pool", "chatImage"}
ChatKinds == {"chat", "channelChat"}

ASSUME GatewayAssumption ==
    /\ IsFiniteSet(Requests)
    /\ Owner \in [Requests -> Users]
    /\ Amounts \subseteq Nat
    /\ Kinds \subseteq AllKinds
    /\ MaxFaults \in Nat
    /\ MaxCredits \in Nat

VARIABLES
    pc,         \* where the handler of a request is
    kind,       \* which handler serves it
    est,        \* cost / estCost: the amount it asked to freeze
    act,        \* actualCost / finalCost / actual
    hold,       \* ledger rows of the ref_id: freeze - unfreeze - refund
    charged,    \* ledger rows of the ref_id: consume
    counted,    \* what TouchUsage added to api_keys.quota_used
    task,       \* image_tasks.status ("none": no row)
    taskCost,   \* image_tasks.credit_cost
    faulty,     \* some MySQL call of the request failed, or it was killed
    faults,     \* how many faults happened
    credits     \* how many credit operations happened

reqVars == <<pc, kind, est, act, hold, charged, counted, task, taskCost, faulty>>
vars == <<walletVars, reqVars, faults, credits>>

Pcs == {"idle", "preDeduct", "create", "archive", "run", "running", "refund",
        "refundFail", "markFailed", "settle", "record", "cost", "done", "lost"}
TaskStatus == {"none", "dispatched", "running", "success", "failed"}

TypeOK ==
    /\ WalletType
    /\ pc \in [Requests -> Pcs]
    /\ kind \in [Requests -> AllKinds]
    /\ est \in [Requests -> Nat]
    /\ act \in [Requests -> Nat]
    /\ hold \in [Requests -> Nat]
    /\ charged \in [Requests -> Nat]
    /\ counted \in [Requests -> Nat]
    /\ task \in [Requests -> TaskStatus]
    /\ taskCost \in [Requests -> Nat]
    /\ faulty \in [Requests -> BOOLEAN]
    /\ faults \in 0 .. MaxFaults
    /\ credits \in 0 .. MaxCredits

Init ==
    /\ WalletInit
    /\ pc = [r \in Requests |-> "idle"]
    /\ kind \in [Requests -> Kinds]
    /\ est = [r \in Requests |-> 0]
    /\ act = [r \in Requests |-> 0]
    /\ hold = [r \in Requests |-> 0]
    /\ charged = [r \in Requests |-> 0]
    /\ counted = [r \in Requests |-> 0]
    /\ task = [r \in Requests |-> "none"]
    /\ taskCost = [r \in Requests |-> 0]
    /\ faulty = [r \in Requests |-> FALSE]
    /\ faults = 0
    /\ credits = 0

Goto(r, l) == pc' = [pc EXCEPT ![r] = l]
SetAct(r, a) == act' = [act EXCEPT ![r] = a]

\* image.DAO updates by task_id: no row, no effect.
SetTask(r, s) == task' = IF task[r] = "none" THEN task ELSE [task EXCEPT ![r] = s]

\* A MySQL call of r fails; the handler sees an error.
Fault(r) ==
    /\ faults < MaxFaults
    /\ faults' = faults + 1
    /\ faulty' = [faulty EXCEPT ![r] = TRUE]
NoFault == UNCHANGED <<faults, faulty>>

-----------------------------------------------------------------------------
(* Admission and the freeze.                                               *)

\* Key, model and rate-limit checks passed; the estimate is computed.
Accept(r, cost) ==
    /\ pc[r] = "idle"
    /\ est' = [est EXCEPT ![r] = cost]
    /\ Goto(r, "preDeduct")
    /\ NoFault
    /\ UNCHANGED <<walletVars, kind, act, hold, charged, counted, task, taskCost, credits>>

AfterFreeze(r) == IF kind[r] \in ImageKinds THEN "create" ELSE "run"

\* A cost of zero freezes nothing, in the image handlers and in the engine.
PreDeductFree(r) ==
    /\ pc[r] = "preDeduct"
    /\ est[r] = 0
    /\ Goto(r, AfterFreeze(r))
    /\ NoFault
    /\ UNCHANGED <<walletVars, kind, est, act, hold, charged, counted, task, taskCost, credits>>

PreDeductOK(r) ==
    /\ pc[r] = "preDeduct"
    /\ est[r] > 0
    /\ PreDeduct(Owner[r], est[r])
    /\ hold' = [hold EXCEPT ![r] = est[r]]
    /\ Goto(r, AfterFreeze(r))
    /\ NoFault
    /\ UNCHANGED <<kind, est, act, charged, counted, task, taskCost, credits>>

\* ErrInsufficient: 402.
PreDeductRefused(r) ==
    /\ pc[r] = "preDeduct"
    /\ est[r] > 0
    /\ ~CanPreDeduct(Owner[r], est[r])
    /\ Goto(r, "done")
    /\ NoFault
    /\ UNCHANGED <<walletVars, kind, est, act, hold, charged, counted, task, taskCost, credits>>

\* billing_error: the transaction rolled back.
PreDeductError(r) ==
    /\ pc[r] = "preDeduct"
    /\ est[r] > 0
    /\ Fault(r)
    /\ Goto(r, "done")
    /\ UNCHANGED <<walletVars, kind, est, act, hold, charged, counted, task, taskCost, credits>>

\* billing_error: the COMMIT reached MySQL, its answer did not come back.
PreDeductAckLost(r) ==
    /\ pc[r] = "preDeduct"
    /\ est[r] > 0
    /\ Fault(r)
    /\ PreDeduct(Owner[r], est[r])
    /\ hold' = [hold EXCEPT ![r] = est[r]]
    /\ Goto(r, "done")
    /\ UNCHANGED <<kind, est, act, charged, counted, task, taskCost, credits>>

-----------------------------------------------------------------------------
(* The image task row and its reference images.                            *)

CreateTask(r) ==
    /\ pc[r] = "create"
    /\ task' = [task EXCEPT ![r] = "dispatched"]
    /\ Goto(r, IF kind[r] = "chatImage" THEN "run" ELSE "archive")
    /\ NoFault
    /\ UNCHANGED <<walletVars, kind, est, act, hold, charged, counted, taskCost, credits>>

\* handleChatAsImage ignores the error and runs without a task row.
CreateTaskError(r) ==
    /\ pc[r] = "create"
    /\ Fault(r)
    /\ Goto(r, IF kind[r] = "chatImage" THEN "run" ELSE "refund")
    /\ UNCHANGED <<walletVars, kind, est, act, hold, charged, counted, task, taskCost, credits>>

\* Mutant: the archive error returns without refunding.
ArchiveReferencesNoRefund(r) ==
    /\ pc[r] = "archive"
    /\ \E next \in {"run", "done"} : Goto(r, next)
    /\ NoFault
    /\ UNCHANGED <<walletVars, kind, est, act, hold, charged, counted, task, taskCost, credits>>

\* archiveTaskReferences stores the reference images (disk or cloud).
ArchiveReferences(r) ==
    /\ pc[r] = "archive"
    /\ \E next \in {"run", "refundFail"} : Goto(r, next)
    /\ NoFault
    /\ UNCHANGED <<walletVars, kind, est, act, hold, charged, counted, task, taskCost, credits>>

-----------------------------------------------------------------------------
(* Serving: the pool runner, an external channel, or a chat stream.        *)

\* Runner.Run: MarkRunning, which only moves queued and dispatched rows; its
\* error is ignored.
RunnerStart(r) ==
    /\ pc[r] = "run"
    /\ kind[r] \in PoolImageKinds
    /\ Goto(r, "running")
    /\ \/ /\ task' = IF task[r] = "dispatched" THEN [task EXCEPT ![r] = "running"] ELSE task
          /\ NoFault
       \/ UNCHANGED task /\ Fault(r)
    /\ UNCHANGED <<walletVars, kind, est, act, hold, charged, counted, taskCost, credits>>

\* imageResponseAccounting prices the images that came back; the chat
\* endpoint always charges the price of one.
PoolPrices(r) ==
    IF kind[r] = "chatImage" THEN {est[r]}
    ELSE {a \in Amounts : a <= est[r] /\ (a = 0 => est[r] = 0)}

\* The runner returns success after MarkSuccess(..., credit_cost 0); a
\* failed MarkSuccess is not reported to the handler.
RunnerSuccess(r, a) ==
    /\ pc[r] = "running"
    /\ a \in PoolPrices(r)
    /\ SetAct(r, a)
    /\ Goto(r, "settle")
    /\ \/ SetTask(r, "success") /\ NoFault
       \/ UNCHANGED task /\ Fault(r)
    /\ UNCHANGED <<walletVars, kind, est, hold, charged, counted, taskCost, credits>>

\* The runner returns failure after MarkFailed; a failed MarkFailed is ignored.
RunnerFail(r) ==
    /\ pc[r] = "running"
    /\ Goto(r, "refund")
    /\ \/ SetTask(r, "failed") /\ NoFault
       \/ UNCHANGED task /\ Fault(r)
    /\ UNCHANGED <<walletVars, kind, est, act, hold, charged, counted, taskCost, credits>>

\* The runner reports success, yet no image can be shown: Refund, MarkFailed.
RunnerEmpty(r) ==
    /\ pc[r] = "running"
    /\ kind[r] = "pool"
    /\ Goto(r, "refundFail")
    /\ \/ SetTask(r, "success") /\ NoFault
       \/ UNCHANGED task /\ Fault(r)
    /\ UNCHANGED <<walletVars, kind, est, act, hold, charged, counted, taskCost, credits>>

\* Mutant: the upstream error refunds and returns, the task row is forgotten.
ChannelFailNoMark(r) ==
    /\ pc[r] = "run"
    /\ kind[r] = "channelImage"
    /\ Goto(r, "refund")
    /\ NoFault
    /\ UNCHANGED <<walletVars, kind, est, act, hold, charged, counted, task, taskCost, credits>>

\* Every route failed, no image came back, or archiving failed.
ChannelFail(r) ==
    /\ pc[r] = "run"
    /\ kind[r] = "channelImage"
    /\ Goto(r, "refundFail")
    /\ NoFault
    /\ UNCHANGED <<walletVars, kind, est, act, hold, charged, counted, task, taskCost, credits>>

\* MarkSuccess with the final price; Settle only runs if that is positive.
ChannelSuccess(r, finalCost) ==
    /\ pc[r] = "run"
    /\ kind[r] = "channelImage"
    /\ SetAct(r, finalCost)
    /\ task' = [task EXCEPT ![r] = "success"]
    /\ taskCost' = [taskCost EXCEPT ![r] = finalCost]
    /\ Goto(r, IF finalCost > 0 THEN "settle" ELSE "record")
    /\ NoFault
    /\ UNCHANGED <<walletVars, kind, est, hold, charged, counted, credits>>

\* MarkSuccess failed: Refund, and the task row keeps its old status.
ChannelMarkSuccessError(r) ==
    /\ pc[r] = "run"
    /\ kind[r] = "channelImage"
    /\ Fault(r)
    /\ Goto(r, "refund")
    /\ UNCHANGED <<walletVars, kind, est, act, hold, charged, counted, task, taskCost, credits>>

\* No account, no channel, proof of work, or an upstream error.
ChatFail(r) ==
    /\ pc[r] = "run"
    /\ kind[r] \in ChatKinds
    /\ Goto(r, "refund")
    /\ NoFault
    /\ UNCHANGED <<walletVars, kind, est, act, hold, charged, counted, task, taskCost, credits>>

\* The stream ended, possibly early; the completion tokens are priced and
\* may cost more than the estimate.
ChatServed(r, actual) ==
    /\ pc[r] = "run"
    /\ kind[r] \in ChatKinds
    /\ SetAct(r, actual)
    /\ Goto(r, "settle")
    /\ NoFault
    /\ UNCHANGED <<walletVars, kind, est, hold, charged, counted, task, taskCost, credits>>

-----------------------------------------------------------------------------
(* Closing the hold.                                                       *)

RefundPcs == {"refund", "refundFail"}

\* Mutant: no return after the refund closure, so the handler goes on to settle.
AfterRefundFallsThrough(r) == IF pc[r] = "refundFail" THEN "markFailed" ELSE "settle"

AfterRefund(r) == IF pc[r] = "refundFail" THEN "markFailed" ELSE "done"

RefundOK(r) ==
    /\ pc[r] \in RefundPcs
    /\ est[r] > 0
    /\ Refund(Owner[r], est[r])
    /\ hold' = [hold EXCEPT ![r] = 0]
    /\ Goto(r, AfterRefund(r))
    /\ NoFault
    /\ UNCHANGED <<kind, est, act, charged, counted, task, taskCost, credits>>

\* Mutant: ErrConflict is retried until the refund succeeds.
RefundNothingRetries(r) ==
    /\ pc[r] \in RefundPcs
    /\ Goto(r, IF est[r] > 0 /\ ~CanRefund(Owner[r], est[r]) THEN pc[r] ELSE AfterRefund(r))
    /\ est[r] > 0 => ~CanRefund(Owner[r], est[r])
    /\ NoFault
    /\ UNCHANGED <<walletVars, kind, est, act, hold, charged, counted, task, taskCost, credits>>

\* Nothing to give back, or ErrConflict, which the handler drops.
RefundNothing(r) ==
    /\ pc[r] \in RefundPcs
    /\ est[r] > 0 => ~CanRefund(Owner[r], est[r])
    /\ Goto(r, AfterRefund(r))
    /\ NoFault
    /\ UNCHANGED <<walletVars, kind, est, act, hold, charged, counted, task, taskCost, credits>>

\* The error of Refund is dropped as well.
RefundError(r) ==
    /\ pc[r] \in RefundPcs
    /\ est[r] > 0
    /\ Fault(r)
    /\ Goto(r, AfterRefund(r))
    /\ UNCHANGED <<walletVars, kind, est, act, hold, charged, counted, task, taskCost, credits>>

\* MarkFailed after the refund; its error is ignored.
MarkFailed(r) ==
    /\ pc[r] = "markFailed"
    /\ Goto(r, "done")
    /\ \/ SetTask(r, "failed") /\ NoFault
       \/ UNCHANGED task /\ Fault(r)
    /\ UNCHANGED <<walletVars, kind, est, act, hold, charged, counted, taskCost, credits>>

\* Pool images settle only when they froze something; the engine itself
\* returns early when both amounts are zero.
Settles(r) == IF kind[r] \in PoolImageKinds THEN est[r] > 0 ELSE est[r] > 0 \/ act[r] > 0

SettleOK(r) ==
    /\ pc[r] = "settle"
    /\ Settles(r)
    /\ Settle(Owner[r], est[r], act[r])
    /\ hold' = [hold EXCEPT ![r] = 0]
    /\ charged' = [charged EXCEPT ![r] = act[r]]
    /\ Goto(r, "record")
    /\ NoFault
    /\ UNCHANGED <<kind, est, act, counted, task, taskCost, credits>>

\* Nothing to settle, or ErrConflict, which is only logged.
SettleNothing(r) ==
    /\ pc[r] = "settle"
    /\ Settles(r) => ~CanSettle(Owner[r], est[r])
    /\ Goto(r, "record")
    /\ NoFault
    /\ UNCHANGED <<walletVars, kind, est, act, hold, charged, counted, task, taskCost, credits>>

\* The transaction rolled back; the error is only logged.
SettleError(r) ==
    /\ pc[r] = "settle"
    /\ Settles(r)
    /\ Fault(r)
    /\ Goto(r, "record")
    /\ UNCHANGED <<walletVars, kind, est, act, hold, charged, counted, task, taskCost, credits>>

AfterRecord(r) == IF kind[r] \in PoolImageKinds THEN "cost" ELSE "done"

\* Mutant: the key's quota is charged with the estimate.
RecordEstimate(r) ==
    /\ pc[r] = "record"
    /\ Goto(r, AfterRecord(r))
    /\ counted' = [counted EXCEPT ![r] = est[r]]
    /\ NoFault
    /\ UNCHANGED <<walletVars, kind, est, act, hold, charged, task, taskCost, credits>>

\* TouchUsage; its error is ignored.
Record(r) ==
    /\ pc[r] = "record"
    /\ Goto(r, AfterRecord(r))
    /\ \/ counted' = [counted EXCEPT ![r] = act[r]] /\ NoFault
       \/ UNCHANGED counted /\ Fault(r)
    /\ UNCHANGED <<walletVars, kind, est, act, hold, charged, task, taskCost, credits>>

\* UpdateCost of the pool handlers: no row, no effect; its error is ignored.
UpdateCost(r) ==
    /\ pc[r] = "cost"
    /\ Goto(r, "done")
    /\ \/ /\ taskCost' = IF task[r] = "none" THEN taskCost ELSE [taskCost EXCEPT ![r] = act[r]]
          /\ NoFault
       \/ UNCHANGED taskCost /\ Fault(r)
    /\ UNCHANGED <<walletVars, kind, est, act, hold, charged, counted, task, credits>>

-----------------------------------------------------------------------------
(* The rest of the world.                                                  *)

InFlight(r) == pc[r] \notin {"idle", "done", "lost"}

\* The process stops: every handler dies where it is, the database stays.
Crash ==
    /\ faults < MaxFaults
    /\ \E r \in Requests : InFlight(r)
    /\ faults' = faults + 1
    /\ pc' = [r \in Requests |-> IF InFlight(r) THEN "lost" ELSE pc[r]]
    /\ faulty' = [r \in Requests |-> faulty[r] \/ InFlight(r)]
    /\ UNCHANGED <<walletVars, kind, est, act, hold, charged, counted, task, taskCost, credits>>

\* Payments, redemption codes, check-ins, admin adjustments, signup bonus.
Credit(u, a) ==
    /\ credits < MaxCredits
    /\ credits' = credits + 1
    /\ Recharge(u, a) \/ CreditTx(u, a) \/ AdminAdjust(u, a) \/ AdminAdjust(u, -a)
    /\ UNCHANGED <<reqVars, faults>>

DeleteUser(u) ==
    /\ SoftDelete(u)
    /\ UNCHANGED <<reqVars, faults, credits>>

Freeze(r) ==
    \/ \E c \in Amounts : Accept(r, c)
    \/ PreDeductFree(r)
    \/ PreDeductOK(r)
    \/ PreDeductRefused(r)
    \/ PreDeductError(r)
    \/ PreDeductAckLost(r)

Serve(r) ==
    \/ CreateTask(r)
    \/ CreateTaskError(r)
    \/ ArchiveReferences(r)
    \/ RunnerStart(r)
    \/ RunnerFail(r)
    \/ RunnerEmpty(r)
    \/ ChannelFail(r)
    \/ ChannelMarkSuccessError(r)
    \/ ChatFail(r)
    \/ \E a \in Amounts :
          RunnerSuccess(r, a) \/ ChannelSuccess(r, a) \/ ChatServed(r, a)

Close(r) ==
    \/ RefundOK(r)
    \/ RefundNothing(r)
    \/ RefundError(r)
    \/ MarkFailed(r)
    \/ SettleOK(r)
    \/ SettleNothing(r)
    \/ SettleError(r)
    \/ Record(r)
    \/ UpdateCost(r)

Step(r) == Freeze(r) \/ Serve(r) \/ Close(r)

Next ==
    \/ \E r \in Requests : Step(r)
    \/ Crash
    \/ \E u \in Users, a \in Amounts : Credit(u, a)
    \/ \E u \in Users : DeleteUser(u)

Spec == Init /\ [][Next]_vars

\* A chat that waits for its upstream or writes to its client.
Streaming(r) == pc[r] = "run" /\ kind[r] \in ChatKinds

\* Every other call a handler makes returns: MySQL calls fail or answer, and
\* the context of an image request ends after 7 or 8 minutes. Nothing is assumed
\* of a chat's stream: the HTTP client of StreamFChat has no timeout, parseSSE
\* ignores its own, the server has no WriteTimeout, and the context is the
\* client's, so a stalled upstream or reader holds the handler.
Fairness == \A r \in Requests : WF_vars(pc[r] # "idle" /\ ~Streaming(r) /\ Step(r))

FairSpec == Spec /\ Fairness

-----------------------------------------------------------------------------
(* Properties.                                                             *)

OwnedBy(u) == {r \in Requests : Owner[r] = u}

\* Which holds and charges a handler can have at each of its steps: the
\* part of the inductive invariant that FrozenBacked alone lacks.
HoldShape ==
    \A r \in Requests :
        /\ pc[r] \in {"idle", "preDeduct"} => hold[r] = 0
        /\ pc[r] \in {"create", "archive", "run", "running", "refund", "refundFail",
                     "settle"} => hold[r] = est[r]
        /\ pc[r] \notin {"record", "cost", "done", "lost"} => charged[r] = 0
        /\ hold[r] \in {0, est[r]}
        /\ charged[r] > 0 => hold[r] = 0

\* The single counter users.credit_frozen is exactly the sum of the holds
\* that PreDeduct opened and no Settle or Refund closed, however the
\* requests of the user interleave and whatever fails or crashes.
FrozenBacked == \A u \in Users : frozen[u] = Total(OwnedBy(u), hold)

\* A handler about to close its hold owns exactly what it will pass to the
\* engine, so the WHERE credit_frozen >= ? guard rejects no live user:
\* ErrConflict cannot be caused by another request.
CloseNeverConflicts ==
    \A r \in Requests :
        /\ pc[r] \in RefundPcs \cup {"settle"} => hold[r] = est[r]
        /\ hold[r] <= frozen[Owner[r]]

\* credit_transactions explains credit_balance: for every live user the
\* balance is the sum of the ledger rows.
LedgerReconciles == \A u \in Users : ~deleted[u] => balance[u] = ledger[u]

\* What a request was charged beyond its estimate.
overrun == [r \in Requests |-> IF charged[r] > est[r] THEN charged[r] - est[r] ELSE 0]

\* The balance goes below zero by no more than what Settle charged beyond
\* the estimates: nothing else overdraws an account.
DebtBounded == \A u \in Users : balance[u] + Total(OwnedBy(u), overrun) >= 0

\* A hold outlives its handler only if a MySQL call failed, the process
\* died, the user was deleted, or a channel image was priced at zero.
HoldClosed ==
    \A r \in Requests :
        pc[r] \in {"done", "lost"} /\ hold[r] > 0 =>
            \/ faulty[r]
            \/ deleted[Owner[r]]
            \/ kind[r] = "channelImage" /\ task[r] = "success" /\ act[r] = 0

\* Without a fault or a deletion, the ledger, the key's quota and the task
\* row agree on what a finished request cost, and a failed image is free.
BooksAgree ==
    \A r \in Requests :
        pc[r] = "done" /\ ~faulty[r] /\ ~deleted[Owner[r]] =>
            /\ counted[r] = charged[r]
            /\ task[r] = "success" => taskCost[r] = charged[r]
            /\ task[r] = "failed" => charged[r] = 0 /\ hold[r] = 0

\* A request is new until PreDeduct commits, and closed once nothing of its
\* estimate is frozen any more; one that freezes nothing closes on Settle.
EscrowPhase ==
    [r \in Requests |->
        IF hold[r] > 0 THEN "held"
        ELSE IF \/ pc[r] \in {"idle", "preDeduct"}
                \/ est[r] = 0 /\ pc[r] \notin {"record", "cost", "markFailed", "done", "lost"}
             THEN "new"
             ELSE "closed"]

Promise == INSTANCE Escrow WITH avail <- balance, held <- hold, phase <- EscrowPhase,
                             grants <- credits

\* The engine's single credit_frozen counter, as the handlers use it,
\* implements one escrow per request: no request is paid, refunded or
\* charged out of the credits another one froze, and credits appear and
\* vanish only by a booking.
ImplementsEscrow == Promise!ESpec

\* The package comment of internal/billing calls freeze, settle and refund a
\* closed loop: a request that ran to its end without any failure, of a user
\* who still exists, leaves nothing frozen.
ClosedLoop ==
    \A r \in Requests :
        pc[r] = "done" /\ ~faulty[r] /\ ~deleted[Owner[r]] => hold[r] = 0

\* Every accepted request runs to its end or dies with the process, except a
\* chat whose stream never ends: once the stream is over, the hold is settled
\* or refunded and the handler returns, whatever fails on the way.
RequestEnds ==
    \A r \in Requests : (InFlight(r) ~> ~InFlight(r)) \/ <>[]Streaming(r)

\* A task row that exists is eventually marked success or failed, unless a
\* MySQL call of its request failed or the process died (nothing picks up
\* rows left in dispatched or running).
TaskEnds ==
    \A r \in Requests :
        task[r] \in {"dispatched", "running"} ~> task[r] \in {"success", "failed"} \/ faulty[r]
=============================================================================
