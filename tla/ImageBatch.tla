----------------------------- MODULE ImageBatch -----------------------------
(***************************************************************************)
(* One Run of the image runner (internal/image/runner.go): N images wanted,*)
(* fetched by up to N goroutines, each through its own ChatGPT account,    *)
(* with retries on another account and supplementary batches for what is   *)
(* missing, then merged, archived, written to the task row and deducted    *)
(* from the accounts' image quota.                                         *)
(*                                                                         *)
(* A slot is one goroutine of a batch; with N = 1 the only slot stands for *)
(* the caller itself.  Every runOnce asks for one image and is trimmed to  *)
(* one.  Error codes live only as long as they decide about a retry; the   *)
(* scheduler is the one of Scheduler: it hands an account to one lease at  *)
(* a time, and to none once it is throttled or dead.                       *)
(***************************************************************************)
EXTENDS Integers, Sequences, FiniteSets, Totals

CONSTANTS
    Accounts,       \* ChatGPT accounts
    N,              \* images wanted
    MaxAttempts,    \* RunOptions.MaxAttempts: 1 with reference images, else 2
    References,     \* TRUE: reference images have to be uploaded
    Archives,       \* TRUE: an image store is configured
    MaxFaults       \* bound on failing MySQL and file system calls

ASSUME ImageBatchAssumption ==
    /\ IsFiniteSet(Accounts)
    /\ N \in Nat \ {0}
    /\ MaxAttempts \in Nat \ {0}
    /\ References \in BOOLEAN
    /\ Archives \in BOOLEAN
    /\ MaxFaults \in Nat

Slots == 1 .. N
NoAccount == "none"

\* An image reference seen in a conversation: one that was generated, or one
\* of the user's own reference images, which the SSE scan picks up as well.
Refs == {"generated", "reference"}

VARIABLES
    pc,         \* where Run is
    batch,      \* batches started
    spc,        \* where a goroutine is
    attempt,    \* its attempt number
    lease,      \* the account it holds
    refs,       \* image references its conversation has shown
    kept,       \* what it returns: {} or one image
    sent,       \* slots with an image, as their results arrive on the channel
    files,      \* result.FileIDs
    archive,    \* result.archiveImages
    attempts,   \* result.Attempts
    quotaUsed,  \* result.quotaUsed
    status,     \* result.Status
    task,       \* image_tasks.status
    toDecr,     \* accounts whose DecrQuota is still to come
    decr,       \* what DecrQuota was called with
    out,        \* accounts marked throttled or dead
    cancelled,  \* the context of the task has ended
    calls,      \* runOnce calls made
    faults      \* failed calls so far

goVars == <<spc, attempt, lease, refs, kept, sent, out, calls>>
resultVars == <<files, archive, attempts, quotaUsed, status>>
rowVars == <<task, toDecr, decr, faults>>
vars == <<pc, batch, goVars, resultVars, rowVars, cancelled>>

Images == [batch : Nat, slot : Slots, account : Accounts, ref : Refs]

\* Types of the runner's state.
TypeOK ==
    /\ pc \in {"start", "batch", "collect", "archive", "persist", "decr", "done"}
    /\ batch \in Nat
    /\ spc \in [Slots -> {"off", "check", "dispatch", "require", "upload",
                          "converse", "poll", "download", "sent"}]
    /\ attempt \in [Slots -> Nat]
    /\ lease \in [Slots -> Accounts \cup {NoAccount}]
    /\ refs \in [Slots -> SUBSET Refs]
    /\ kept \in [Slots -> SUBSET Images]
    /\ sent \in Seq(Slots)
    /\ files \in Seq(Images)
    /\ archive \in Seq([index : Nat, image : Images])
    /\ attempts \in Nat
    /\ quotaUsed \in [Accounts -> Nat]
    /\ status \in {"failed", "success"}
    /\ task \in {"dispatched", "running", "success", "failed"}
    /\ toDecr \subseteq Accounts
    /\ decr \in [Accounts -> Nat]
    /\ out \subseteq Accounts
    /\ cancelled \in BOOLEAN
    /\ calls \in Nat
    /\ faults \in 0 .. MaxFaults

Init ==
    /\ pc = "start"
    /\ batch = 0
    /\ spc = [s \in Slots |-> "off"]
    /\ attempt = [s \in Slots |-> 0]
    /\ lease = [s \in Slots |-> NoAccount]
    /\ refs = [s \in Slots |-> {}]
    /\ kept = [s \in Slots |-> {}]
    /\ sent = <<>>
    /\ files = <<>>
    /\ archive = <<>>
    /\ attempts = 0
    /\ quotaUsed = [a \in Accounts |-> 0]
    /\ status = "failed"
    /\ task = "dispatched"
    /\ toDecr = {}
    /\ decr = [a \in Accounts |-> 0]
    /\ out = {}
    /\ cancelled = FALSE
    /\ calls = 0
    /\ faults = 0

Fault == faults < MaxFaults /\ faults' = faults + 1
NoFault == UNCHANGED faults

-----------------------------------------------------------------------------
(* The retry policy.                                                       *)

Codes == {"rate_limited", "no_account", "auth_required", "network_transient",
          "upstream_error", "poll_timeout", "other"}

\* What classifyUpstream makes of an error of an upstream call.
UpstreamCodes ==
    {"rate_limited", "auth_required", "network_transient", "upstream_error", "poll_timeout"}

isRetryableImageFailure(code) == code \notin {"poll_timeout", "other"}

maxAttemptWindow == IF MaxAttempts < 2 THEN 2 ELSE MaxAttempts

retryLimit(code) ==
    CASE code = "upstream_error" -> 2
      [] code \in {"auth_required", "rate_limited", "network_transient"} -> maxAttemptWindow
      [] OTHER -> MaxAttempts

\* As many batches as images, and at least as many as attempts; a single
\* image has no supplementary batch.
maxBatches == IF N = 1 THEN 1 ELSE IF maxAttemptWindow > N THEN maxAttemptWindow ELSE N

-----------------------------------------------------------------------------
(* One goroutine: runWithRetry around runOnce.                             *)

Goto(s, l) == spc' = [spc EXCEPT ![s] = l]

\* The result goes into the channel; one without an image has nothing to
\* merge but its attempts.
Send(s, images) ==
    /\ Goto(s, "sent")
    /\ kept' = [kept EXCEPT ![s] = images]
    /\ sent' = IF images = {} THEN sent ELSE Append(sent, s)

\* Mutant: an early return forgets the lease.
ReleaseForgotten(s) == UNCHANGED lease

\* The deferred lease.Release of runOnce.
Release(s) == lease' = [lease EXCEPT ![s] = NoAccount]

\* runOnce returns with an error: the lease is given back, and the loop of
\* runWithRetry goes on or gives up.
Fail(s, code) ==
    /\ Release(s)
    /\ refs' = [refs EXCEPT ![s] = {}]
    /\ \/ /\ isRetryableImageFailure(code)
          /\ attempt[s] < retryLimit(code)
          /\ attempt[s] < maxAttemptWindow
          /\ Goto(s, "check")
          /\ attempt' = [attempt EXCEPT ![s] = @ + 1]
          /\ UNCHANGED <<kept, sent>>
       \/ /\ \/ ~isRetryableImageFailure(code)
             \/ attempt[s] >= retryLimit(code)
             \/ attempt[s] >= maxAttemptWindow
          /\ Send(s, {})
          /\ UNCHANGED attempt
    /\ UNCHANGED <<pc, batch, resultVars, rowVars, cancelled>>

\* markAccountFailure: throttled or dead, either way not dispatchable.
markAccountFailure(s, code) ==
    out' = IF code \in {"rate_limited", "auth_required"} THEN out \cup {lease[s]} ELSE out

\* The top of the loop: a dead context ends it, but the attempt has been
\* counted already.
CheckContext(s) ==
    /\ spc[s] = "check"
    /\ \/ /\ cancelled
          /\ Send(s, {})
          /\ UNCHANGED calls
       \/ /\ ~cancelled
          /\ Goto(s, "dispatch")
          /\ calls' = calls + 1
          /\ UNCHANGED <<kept, sent>>
    /\ UNCHANGED <<pc, batch, attempt, lease, refs, out, resultVars, rowVars, cancelled>>

Dispatch(s, a) ==
    /\ spc[s] = "dispatch"
    /\ ~cancelled
    /\ a \notin out
    /\ \A t \in Slots : lease[t] # a
    /\ lease' = [lease EXCEPT ![s] = a]
    /\ Goto(s, "require")
    /\ UNCHANGED <<pc, batch, attempt, refs, kept, sent, out, calls, resultVars, rowVars, cancelled>>

\* ErrNoAvailable after the scheduler's deadline, or any other error.
DispatchFails(s) ==
    /\ spc[s] = "dispatch"
    /\ \/ Fail(s, "no_account")
       \/ Fail(s, "other")
    /\ UNCHANGED <<out, calls>>

\* The sentinel call and the proof of work.
Require(s) ==
    /\ spc[s] = "require"
    /\ Goto(s, IF References THEN "upload" ELSE "converse")
    /\ UNCHANGED <<pc, batch, attempt, lease, refs, kept, sent, out, calls, resultVars, rowVars, cancelled>>

RequireFails(s) ==
    /\ spc[s] = "require"
    /\ \E code \in UpstreamCodes \cup {"other"} :
          Fail(s, code) /\ markAccountFailure(s, code)
    /\ UNCHANGED calls

\* The reference images are uploaded anew in every attempt.
Upload(s) ==
    /\ spc[s] = "upload"
    /\ Goto(s, "converse")
    /\ UNCHANGED <<pc, batch, attempt, lease, refs, kept, sent, out, calls, resultVars, rowVars, cancelled>>

UploadFails(s) ==
    /\ spc[s] = "upload"
    /\ \E code \in UpstreamCodes \ {"poll_timeout"} :
          Fail(s, code) /\ markAccountFailure(s, code)
    /\ UNCHANGED calls

\* Mutant: the user's own images count as results.
stripReferenceRefsNot(seen) == seen

\* filterOutReferenceFileIDs, applied to what the stream and the poll show.
stripReferenceRefs(seen) == IF References THEN seen \ {"reference"} ELSE seen

\* The stream is scanned for image references; one is enough.
Converse(s, seen) ==
    /\ spc[s] = "converse"
    /\ "reference" \in seen => References
    /\ refs' = [refs EXCEPT ![s] = stripReferenceRefs(seen)]
    /\ Goto(s, IF stripReferenceRefs(seen) # {} THEN "download" ELSE "poll")
    /\ UNCHANGED <<pc, batch, attempt, lease, kept, sent, out, calls, resultVars, rowVars, cancelled>>

ConverseFails(s) ==
    /\ spc[s] = "converse"
    /\ \E code \in UpstreamCodes :
          Fail(s, code) /\ markAccountFailure(s, code)
    /\ UNCHANGED calls

\* The conversation is polled until it shows an image of its tool messages.
Poll(s) ==
    /\ spc[s] = "poll"
    /\ refs' = [refs EXCEPT ![s] = stripReferenceRefs({"generated"})]
    /\ Goto(s, "download")
    /\ UNCHANGED <<pc, batch, attempt, lease, kept, sent, out, calls, resultVars, rowVars, cancelled>>

\* No image before MaxWait; three times 429 in a row, or the end of the
\* context.  The account is not marked.
PollFails(s) ==
    /\ spc[s] = "poll"
    /\ \/ Fail(s, "poll_timeout")
       \/ Fail(s, "upstream_error")
    /\ UNCHANGED <<out, calls>>

\* At least one signed URL is obtained, its bytes are fetched, and the
\* result is trimmed to one image.
Download(s, ref) ==
    /\ spc[s] = "download"
    /\ ref \in refs[s]
    /\ Send(s, {[batch |-> batch, slot |-> s, account |-> lease[s], ref |-> ref]})
    /\ Release(s)
    /\ refs' = [refs EXCEPT ![s] = {}]
    /\ UNCHANGED <<pc, batch, attempt, out, calls, resultVars, rowVars, cancelled>>

\* All URLs fail: three codes are passed on (network_transient too), the
\* others become download_failed; a failed fetch is archive_failed.
DownloadFails(s) ==
    /\ spc[s] = "download"
    /\ \E code \in {"rate_limited", "auth_required", "network_transient", "other"} :
          Fail(s, code) /\ markAccountFailure(s, code)
    /\ UNCHANGED calls

-----------------------------------------------------------------------------
(* Run: batches, merge, archive, task row, quota.                          *)

\* MarkRunning; its error is dropped.
Start ==
    /\ pc = "start"
    /\ pc' = "batch"
    /\ \/ task' = "running" /\ NoFault
       \/ UNCHANGED task /\ Fault
    /\ UNCHANGED <<batch, goVars, resultVars, toDecr, decr, cancelled>>

\* One goroutine for each missing image.
RunBatch ==
    /\ pc = "batch"
    /\ pc' = "collect"
    /\ batch' = batch + 1
    /\ spc' = [s \in Slots |-> IF s <= N - Len(files) THEN "check" ELSE "off"]
    /\ attempt' = [s \in Slots |-> IF s <= N - Len(files) THEN 1 ELSE 0]
    /\ kept' = [s \in Slots |-> {}]
    /\ UNCHANGED <<lease, refs, sent, out, calls, resultVars, rowVars, cancelled>>

Image(s) == CHOOSE i \in kept[s] : TRUE

\* Mutant: the index of an image counts from the start of its own batch.
ArchiveIndexInBatch(i) == i - 1

\* An image is stored behind the ones there already are.
ArchiveIndex(i) == Len(files) + i - 1

\* The attempts of the goroutines are added up.
AttemptsSoFar == attempts + Total(Slots, attempt)

\* The images an account has contributed.
QuotaOf(a) == quotaUsed[a] + Cardinality({i \in 1 .. Len(sent) : Image(sent[i]).account = a})

\* Mutant: supplementary batches go on until the images are there.
EnoughOnly(got) == got >= N \/ cancelled

\* No further batch: enough images, the last batch, or a dead context.
Enough(got) == got >= N \/ batch >= maxBatches \/ cancelled

\* runBatch has closed the channel; its results are merged in arrival order.
Merge ==
    /\ pc = "collect"
    /\ \A s \in Slots : spc[s] \in {"off", "sent"}
    /\ LET new == [i \in 1 .. Len(sent) |-> Image(sent[i])]
           got == Len(files) + Len(new)
       IN /\ files' = files \o new
          /\ archive' = archive \o
                IF Archives THEN [i \in 1 .. Len(new) |-> [index |-> ArchiveIndex(i), image |-> new[i]]]
                            ELSE <<>>
          /\ quotaUsed' = [a \in Accounts |-> QuotaOf(a)]
          /\ status' = IF got >= N THEN "success" ELSE "failed"
          /\ pc' = IF got >= N THEN "archive" ELSE IF Enough(got) THEN "persist" ELSE "batch"
    /\ attempts' = AttemptsSoFar
    /\ spc' = [s \in Slots |-> "off"]
    /\ attempt' = [s \in Slots |-> 0]
    /\ kept' = [s \in Slots |-> {}]
    /\ sent' = <<>>
    /\ UNCHANGED <<batch, lease, refs, out, calls, rowVars, cancelled>>

\* SaveTaskImages or the upload to the cloud; a failure fails the run.
ArchiveResult ==
    /\ pc = "archive"
    /\ pc' = "persist"
    /\ \/ UNCHANGED status /\ NoFault
       \/ Archives /\ status' = "failed" /\ Fault
    /\ UNCHANGED <<batch, goVars, files, archive, attempts, quotaUsed, task, toDecr, decr, cancelled>>

\* Mutant: the quota is deducted whatever became of the run.
PersistDecrAlways ==
    /\ pc = "persist"
    /\ task' = status
    /\ pc' = "decr"
    /\ toDecr' = {a \in Accounts : quotaUsed[a] > 0}
    /\ NoFault
    /\ UNCHANGED <<batch, goVars, resultVars, decr, cancelled>>

\* Mutant: the row is written with the context of the task, again and again
\* until it is there.
PersistOnTaskContext ==
    /\ pc = "persist"
    /\ ~cancelled
    /\ task' = status
    /\ pc' = "done"
    /\ NoFault
    /\ UNCHANGED <<batch, goVars, resultVars, toDecr, decr, cancelled>>

\* MarkSuccess or MarkFailed, with a context of its own; the quota is
\* deducted only when MarkSuccess was written.
Persist ==
    /\ pc = "persist"
    /\ \/ task' = status /\ NoFault
       \/ UNCHANGED task /\ Fault
    /\ \/ /\ status = "success" /\ faults' = faults
          /\ pc' = "decr"
          /\ toDecr' = {a \in Accounts : quotaUsed[a] > 0}
       \/ /\ status = "failed" \/ faults' # faults
          /\ pc' = "done"
          /\ UNCHANGED toDecr
    /\ UNCHANGED <<batch, goVars, resultVars, decr, cancelled>>

\* DecrQuota for one account of the map; its error is dropped.
DecrQuota(a) ==
    /\ pc = "decr"
    /\ a \in toDecr
    /\ toDecr' = toDecr \ {a}
    /\ \/ decr' = [decr EXCEPT ![a] = @ + quotaUsed[a]] /\ NoFault
       \/ UNCHANGED decr /\ Fault
    /\ pc' = IF toDecr = {a} THEN "done" ELSE "decr"
    /\ UNCHANGED <<batch, goVars, resultVars, task, cancelled>>

\* The deadline of the task (7 or 8 minutes); the client's going away does
\* not reach the task context.
Cancel ==
    /\ pc # "done"
    /\ ~cancelled
    /\ cancelled' = TRUE
    /\ UNCHANGED <<pc, batch, goVars, resultVars, rowVars>>

RunOnce(s) ==
    \/ CheckContext(s)
    \/ \E a \in Accounts : Dispatch(s, a)
    \/ DispatchFails(s)
    \/ Require(s)
    \/ RequireFails(s)
    \/ Upload(s)
    \/ UploadFails(s)
    \/ \E seen \in SUBSET Refs : Converse(s, seen)
    \/ ConverseFails(s)
    \/ Poll(s)
    \/ PollFails(s)
    \/ \E ref \in Refs : Download(s, ref)
    \/ DownloadFails(s)

Run == Start \/ RunBatch \/ Merge \/ ArchiveResult \/ Persist \/ \E a \in Accounts : DecrQuota(a)

Next == Run \/ Cancel \/ \E s \in Slots : RunOnce(s)

Spec == Init /\ [][Next]_vars

\* Every upstream call has a time limit and MySQL answers or fails, so each
\* goroutine and Run itself go on; when the context ends is left open.
FairSpec == Spec /\ WF_vars(Run) /\ \A s \in Slots : WF_vars(RunOnce(s))

-----------------------------------------------------------------------------
(* Properties.                                                             *)

\* A run that succeeds returns exactly N images, all of them generated for
\* it, and the archive holds them under the indexes 0 .. N-1 in the order of
\* the file ids, whatever batches and goroutines they came from: the proxy
\* URL of index i shows image i.
DeliversExactly ==
    status = "success" =>
        /\ Len(files) = N
        /\ \A i \in 1 .. N : files[i].ref = "generated"
        /\ Archives =>
              /\ Len(archive) = N
              /\ \A i \in 1 .. N : archive[i] = [index |-> i - 1, image |-> files[i]]

\* Without a failed write, an account's quota is lowered by exactly the
\* images of it that were delivered, and not at all when the run failed.
QuotaMatches ==
    pc = "done" /\ faults = 0 =>
        \A a \in Accounts :
            decr[a] = IF status = "success"
                      THEN Cardinality({i \in 1 .. Len(files) : files[i].account = a})
                      ELSE 0

\* Without a dead context, result.Attempts is the number of runOnce calls;
\* a goroutine that finds the context dead has counted one call too many.
AttemptsCounted ==
    pc \notin {"start", "batch", "collect"} =>
        /\ attempts >= calls
        /\ ~cancelled => attempts = calls
        /\ attempts <= calls + N

\* However the upstream fails, one request costs a bounded number of
\* conversations.
AttemptsBounded == calls <= N * maxBatches * maxAttemptWindow

\* Every goroutine gives its account back before its result is merged.
LeasesReturned == pc # "collect" => \A s \in Slots : lease[s] = NoAccount

\* A run gives every account back before its results are merged, and however
\* the upstream fails, one request costs a bounded number of conversations,
\* which its result counts (the loops of image/runner.go).
RunContained == LeasesReturned /\ AttemptsBounded /\ AttemptsCounted

\* The run ends, whatever fails and whenever the context does.
RunEnds == <>(pc = "done")
=============================================================================
