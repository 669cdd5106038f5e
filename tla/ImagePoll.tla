------------------------------ MODULE ImagePoll ------------------------------
(***************************************************************************)
(* What one attempt of the image runner says to chatgpt.com                *)
(* (internal/upstream/chatgpt files.go and image.go,                       *)
(* internal/image/runner.go runOnce): a reference image is uploaded in     *)
(* three steps with retries, the events of the stream are scanned for      *)
(* references to images, missing ones are polled for in the conversation,  *)
(* and each reference is exchanged for an address.  ImageBatch treats all  *)
(* of this as one call with an outcome.                                    *)
(***************************************************************************)
EXTENDS Integers, Sequences, SequencesExt, FiniteSets, Selections

CONSTANTS
    Files, Sediments,   \* images the upstream may make: finished files and previews
    Reference,          \* id of the uploaded reference image
    Want,               \* opt.N
    UploadAttempts,     \* maxAttempts of doUploadStep
    Max429,             \* consecutive 429 answers that end the polling
    MaxRounds           \* MaxWait in rounds of polling

ASSUME PollAssumption ==
    /\ IsFiniteSet(Files) /\ IsFiniteSet(Sediments) /\ Files \cap Sediments = {}
    /\ Reference \notin Files \cup Sediments
    /\ Want \in Nat \ {0} /\ UploadAttempts \in Nat \ {0}
    /\ Max429 \in Nat \ {0} /\ MaxRounds \in Nat

VARIABLES
    iPc,        \* where the attempt is
    iTries,     \* calls made for the current step of the upload
    iBlob,      \* how far the upload has come at the upstream
    iAlive,     \* the context is alive
    iConv,      \* the stream has named the conversation
    iMade,      \* images the conversation's tool messages hold
    iScan,      \* references found in the stream, then with those of the polling
    iFound,     \* references found by polling
    i429,       \* consecutive 429 answers
    iRounds,    \* rounds of polling so far
    iUrls,      \* references with an address
    iEnd        \* how the attempt ended

iVars == <<iPc, iTries, iBlob, iAlive, iConv, iMade, iScan, iFound, i429, iRounds, iUrls, iEnd>>

PollImages == Files \cup Sediments

PollInit ==
    /\ iPc = "create" /\ iTries = 0 /\ iBlob = "none"
    /\ iAlive = TRUE /\ iConv = FALSE
    /\ iMade = {} /\ iScan = <<>> /\ iFound = <<>>
    /\ i429 = 0 /\ iRounds = 0
    /\ iUrls = <<>> /\ iEnd = "none"

IEndWith(e) == iPc' = "done" /\ iEnd' = e

uploadState == <<iTries, iBlob>>
searchState == <<iConv, iMade, iScan, iFound, i429, iRounds, iUrls>>

-----------------------------------------------------------------------------
(* UploadFile.                                                             *)

Uploading == iPc \in {"create", "put", "register"}

AfterStep == CASE iPc = "create" -> "put" [] iPc = "put" -> "register" [] OTHER -> "stream"

\* The step has worked at the upstream.  Creating again makes a new file.
Applied ==
    CASE iPc = "create" -> "created"
      [] iPc = "put" -> "stored"
      [] OTHER -> "registered"

StepOK ==
    /\ Uploading /\ iAlive
    /\ iBlob' = Applied
    /\ iPc' = AfterStep
    /\ iTries' = 0
    /\ UNCHANGED <<iAlive, searchState, iEnd>>

MayRetry == iAlive /\ iTries + 1 < UploadAttempts

\* A broken connection or a 5xx, after the step did or did not take effect:
\* try again, then give up.
StepFails(applied) ==
    /\ Uploading
    /\ iAlive \/ ~applied
    /\ iBlob' = IF applied THEN Applied ELSE iBlob
    /\ IF MayRetry THEN iTries' = iTries + 1 /\ UNCHANGED <<iPc, iEnd>>
       ELSE IEndWith("upload") /\ UNCHANGED iTries
    /\ UNCHANGED <<iAlive, searchState>>

\* A 4xx, or an answer without file id: no retry.
StepRefused ==
    /\ Uploading /\ iAlive
    /\ IEndWith("upload")
    /\ UNCHANGED <<uploadState, iAlive, searchState>>

-----------------------------------------------------------------------------
(* The stream: ParseImageSSE, and what runOnce makes of it.                *)

Adds(s, x) == IF x \in ToSet(s) THEN s ELSE Append(s, x)
AddsAll(s, t) == FoldLeft(Adds, s, t)

\* An event mentions an image: any reference in its text counts, the user's
\* own upload too.
SSEMentions(x) ==
    /\ iPc = "stream"
    /\ iScan' = Adds(iScan, x)
    /\ iMade' = IF x = Reference THEN iMade ELSE iMade \cup {x}
    /\ UNCHANGED <<iPc, uploadState, iAlive, iConv, iFound, i429, iRounds, iUrls, iEnd>>

SSENamesConversation ==
    /\ iPc = "stream" /\ ~iConv
    /\ iConv' = TRUE
    /\ UNCHANGED <<iPc, uploadState, iAlive, iMade, iScan, iFound, i429, iRounds, iUrls, iEnd>>

\* Files first, then previews; the uploads are taken out.
Ordered(s) == Only(s, Files \cup {Reference}) \o Only(s, Sediments)

\* Mutant: the uploads are left in.
StripNothing(s) == s

Strip(s) == Only(s, ToSet(s) \ {Reference})

\* [DONE], the end of the stream or an error of it.
SSEEnds ==
    LET refs == Strip(Ordered(iScan))
    IN /\ iPc = "stream"
       /\ iScan' = refs
       /\ iPc' = IF Len(refs) >= Want THEN "urls" ELSE "poll"
       /\ UNCHANGED <<uploadState, iAlive, iConv, iMade, iFound, i429, iRounds, iUrls, iEnd>>

-----------------------------------------------------------------------------
(* PollConversationForImages.                                              *)

\* The upstream finishes an image: a tool message of the conversation holds it.
Render(x) ==
    /\ iPc = "poll"
    /\ x \notin iMade
    /\ iMade' = iMade \cup {x}
    /\ UNCHANGED <<iPc, uploadState, iAlive, iConv, iScan, iFound, i429, iRounds, iUrls, iEnd>>

InTime == iRounds < MaxRounds
NewRound == iRounds' = iRounds + 1

Merged(found) == AddsAll(iScan, found)

\* The mapping is read: what is new in it is added, files before previews.
PollSees ==
    LET found == Ordered(AddsAll(iFound, SetToSeq(iMade)))
    IN /\ iPc = "poll" /\ InTime /\ iAlive /\ iConv
       /\ i429' = 0
       /\ NewRound
       /\ iFound' = found
       /\ IF Len(found) >= Want THEN iScan' = Strip(Merged(found)) /\ iPc' = "urls"
          ELSE UNCHANGED <<iScan, iPc>>
       /\ UNCHANGED <<uploadState, iAlive, iConv, iMade, iUrls, iEnd>>

Poll429 ==
    /\ iPc = "poll" /\ InTime /\ iAlive /\ iConv
    /\ i429' = i429 + 1
    /\ NewRound
    /\ IF i429 + 1 >= Max429 THEN IEndWith("poll_error") ELSE UNCHANGED <<iPc, iEnd>>
    /\ UNCHANGED <<uploadState, iAlive, iConv, iMade, iScan, iFound, iUrls>>

\* Another error, in any case without a conversation: the 429s still count as
\* consecutive.
PollRequestFails ==
    /\ iPc = "poll" /\ InTime /\ iAlive
    /\ NewRound
    /\ UNCHANGED <<iPc, uploadState, iAlive, iConv, iMade, iScan, iFound, i429, iUrls, iEnd>>

\* One image is enough then.
AtDeadline ==
    IF iFound # <<>> THEN iPc' = "urls" /\ iScan' = Strip(Merged(iFound)) /\ UNCHANGED iEnd
    ELSE IEndWith("poll_timeout") /\ UNCHANGED iScan

PollTimeout ==
    /\ iPc = "poll" /\ ~InTime
    /\ AtDeadline
    /\ UNCHANGED <<uploadState, iAlive, iConv, iMade, iFound, i429, iRounds, iUrls>>

PollCancelled ==
    /\ iPc = "poll" /\ InTime /\ ~iAlive
    /\ IEndWith("poll_error")
    /\ UNCHANGED <<uploadState, iAlive, searchState>>

-----------------------------------------------------------------------------
(* The addresses: one call for each reference, failures are passed over.   *)

\* A preview needs the conversation's id.
DownloadURL(x) ==
    /\ iPc = "urls" /\ iAlive
    /\ iScan # <<>> /\ Head(iScan) = x
    /\ x \in Sediments => iConv
    /\ iUrls' = Append(iUrls, x)
    /\ iScan' = Tail(iScan)
    /\ UNCHANGED <<iPc, uploadState, iAlive, iConv, iMade, iFound, i429, iRounds, iEnd>>

DownloadURLFails ==
    /\ iPc = "urls" /\ iScan # <<>>
    /\ iScan' = Tail(iScan)
    /\ UNCHANGED <<iPc, uploadState, iAlive, iConv, iMade, iFound, i429, iRounds, iUrls, iEnd>>

DownloadURLsDone ==
    /\ iPc = "urls" /\ iScan = <<>>
    /\ IEndWith(IF iUrls # <<>> THEN "ok" ELSE "download")
    /\ UNCHANGED <<uploadState, iAlive, searchState>>

Cancelled ==
    /\ iAlive /\ iPc # "done"
    /\ iAlive' = FALSE
    /\ UNCHANGED <<iPc, uploadState, searchState, iEnd>>

\* The steps of the attempt itself: its calls end, the stream ends.
AttemptStep ==
    \/ StepOK \/ StepRefused \/ \E applied \in BOOLEAN : StepFails(applied)
    \/ SSEEnds
    \/ PollSees \/ Poll429 \/ PollRequestFails \/ PollTimeout \/ PollCancelled
    \/ \E x \in PollImages : DownloadURL(x)
    \/ DownloadURLFails \/ DownloadURLsDone

PollNext ==
    \/ AttemptStep
    \/ \E x \in PollImages \cup {Reference} : SSEMentions(x)
    \/ SSENamesConversation
    \/ \E x \in PollImages : Render(x)
    \/ Cancelled

\* Every call has a timeout, and the stream ends: without it, see ChatStream.
PollSpec == PollInit /\ [][PollNext]_iVars /\ WF_iVars(AttemptStep)

-----------------------------------------------------------------------------
(* Properties.                                                             *)

\* The images of an attempt are images made for it, each once, and never the
\* user's own upload.
ImagesOwn ==
    /\ ToSet(iUrls) \subseteq iMade
    /\ Cardinality(ToSet(iUrls)) = Len(iUrls)
    /\ iPc = "urls" => Reference \notin ToSet(iScan)

\* A stream that starts has a registered upload behind it, and no step of the
\* upload was tried more often than allowed.
UploadFirst ==
    /\ iTries < UploadAttempts
    /\ ~Uploading /\ iEnd # "upload" => iBlob = "registered"

\* The polling gives up for the reasons it may give up: a timeout means that
\* no poll saw an image, an error that the context died or the upstream
\* answered 429 again and again.
GivesUpRightly ==
    /\ iEnd = "poll_timeout" => iFound = <<>> /\ iRounds = MaxRounds
    /\ iEnd = "poll_error" => ~iAlive \/ i429 = Max429
    /\ iEnd = "ok" => iUrls # <<>>

PollSound == ImagesOwn /\ UploadFirst /\ GivesUpRightly
=============================================================================
