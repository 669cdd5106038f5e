------------------------------ MODULE ChatStream ------------------------------
(***************************************************************************)
(* A chat completion served by a pool account                              *)
(* (internal/gateway/chat.go from the lease on,                            *)
(* internal/upstream/chatgpt): the handshake with its fallbacks, the       *)
(* goroutine that reads the upstream's events into a bounded channel, and  *)
(* the handler that writes them to the client and then charges for them.   *)
(* What is in an event is the business of DeltaText.                       *)
(***************************************************************************)
EXTENDS Integers, Sequences, FiniteSets

CONSTANTS
    ChanCap,        \* capacity of the channel of events
    MaxEvents       \* bound on the events the upstream sends

ASSUME ChatAssumption == ChanCap \in Nat \ {0} /\ MaxEvents \in Nat

VARIABLES
    sPc,        \* where ChatCompletions is
    sMode,      \* "stream" or "collect"
    sClient,    \* the client is connected: the request's context is alive
    sUpstream,  \* the upstream's side of the stream
    sReader,    \* the goroutine parseSSE
    sChan,      \* the channel
    sSent,      \* events the upstream has sent
    sOut,       \* pieces of text, events seen, and the apology for an empty answer
    sBilled,    \* pieces of text charged, -1 while the estimate is frozen, -2 refunded
    sLeased,    \* the account's lease is held
    sMark,      \* what the account was marked with
    sProxyMarks,    \* failures reported for the lease's proxy
    sLast       \* the last call to the upstream and its answer

sVars == <<sPc, sMode, sClient, sUpstream, sReader, sChan, sSent, sOut, sBilled, sLeased,
           sMark, sProxyMarks, sLast>>

\* What a call to chatgpt.com comes back with.
Results == {"ok", "429", "401", "5xx", "proxy", "net"}

Frozen == -1
Refunded == -2

SInit ==
    /\ sPc = "prepare"
    /\ sMode \in {"stream", "collect"}
    /\ sClient = TRUE
    /\ sUpstream = "open" /\ sReader = "none"
    /\ sChan = <<>> /\ sSent = 0
    /\ sOut = [text |-> 0, events |-> 0, apology |-> FALSE]
    /\ sBilled = Frozen
    /\ sLeased = TRUE
    /\ sMark = "none" /\ sProxyMarks = 0
    /\ sLast = <<"none", "ok">>

streamState == <<sUpstream, sReader, sChan, sSent, sOut>>

\* Without the client every call fails at once.
Possible(r) == sClient \/ r = "net"

Answered(call, r) == sLast' = <<call, r>>

\* A mark is written with the request's context: without the client it is lost.
Mark(kind) == sMark' = IF sClient THEN kind ELSE sMark

\* markProxyFailureIfNeeded.
CountProxy(r) == sProxyMarks' = sProxyMarks + IF r = "proxy" THEN 1 ELSE 0

\* The handler returns: the deferred release of the lease runs in every case.
Returns == sPc' = "done" /\ sLeased' = FALSE

Blame(r) == CASE r = "429" -> "throttled" [] r = "401" -> "dead" [] OTHER -> "none"

\* Mutant: every failing status kills the account.
HandleUpstreamErrHard(r) ==
    /\ IF r \in {"429", "401", "5xx"} THEN Mark("dead") ELSE UNCHANGED sMark
    /\ CountProxy(r)
    /\ sBilled' = Refunded
    /\ Returns

\* handleUpstreamErr: blame the proxy or the account, refund, answer 502.
HandleUpstreamErr(r) ==
    /\ IF Blame(r) # "none" THEN Mark(Blame(r)) ELSE UNCHANGED sMark
    /\ CountProxy(r)
    /\ sBilled' = Refunded
    /\ Returns

-----------------------------------------------------------------------------
(* The handshake.  Bootstrap's result is ignored.                          *)

\* ChatRequirementsV2, first step: an error, or a challenge of the kind that
\* needs a solver (none is configured), falls back to the single call.
ChatRequirementsPrepare(r, challenge) ==
    /\ sPc = "prepare"
    /\ Possible(r)
    /\ Answered("prepare", r)
    /\ sPc' = IF r = "ok" /\ ~challenge THEN "finalize" ELSE "single"
    /\ UNCHANGED <<sMode, sClient, streamState, sBilled, sLeased, sMark, sProxyMarks>>

\* Second step; any error falls back, too.
ChatRequirementsFinalize(r) ==
    /\ sPc = "finalize"
    /\ Possible(r)
    /\ Answered("finalize", r)
    /\ sPc' = IF r = "ok" THEN "pow" ELSE "single"
    /\ UNCHANGED <<sMode, sClient, streamState, sBilled, sLeased, sMark, sProxyMarks>>

\* The single call: only its error counts.
ChatRequirements(r) ==
    /\ sPc = "single"
    /\ Possible(r)
    /\ Answered("single", r)
    /\ \/ /\ r = "ok"
          /\ sPc' = "pow"
          /\ UNCHANGED <<sBilled, sLeased, sMark, sProxyMarks>>
       \/ r # "ok" /\ HandleUpstreamErr(r)
    /\ UNCHANGED <<sMode, sClient, streamState>>

\* The proof is not asked for, or found in time.
ProofSolved ==
    /\ sPc = "pow"
    /\ sClient
    /\ sPc' = "fprepare"
    /\ UNCHANGED <<sMode, sClient, streamState, sBilled, sLeased, sMark, sProxyMarks, sLast>>

\* It takes more than its time (or the client left), or cannot be found.
ProofFails ==
    /\ sPc = "pow"
    /\ Mark("warned")
    /\ sBilled' = Refunded
    /\ Returns
    /\ UNCHANGED <<sMode, sClient, streamState, sProxyMarks, sLast>>

\* PrepareFChat: a failure only means that there is no conduit token.
PrepareFChat(r) ==
    /\ sPc = "fprepare"
    /\ Possible(r)
    /\ Answered("fprepare", r)
    /\ CountProxy(r)
    /\ sPc' = "send"
    /\ UNCHANGED <<sMode, sClient, streamState, sBilled, sLeased, sMark>>

\* StreamFChat: the goroutine starts with the response.
StreamFChat(r) ==
    /\ sPc = "send"
    /\ Possible(r)
    /\ Answered("send", r)
    /\ \/ /\ r = "ok"
          /\ sPc' = "forward"
          /\ sReader' = "read"
          /\ UNCHANGED <<sBilled, sLeased, sMark, sProxyMarks>>
       \/ r # "ok" /\ HandleUpstreamErr(r) /\ UNCHANGED sReader
    /\ UNCHANGED <<sMode, sClient, sUpstream, sChan, sSent, sOut>>

-----------------------------------------------------------------------------
(* parseSSE.                                                               *)

HasRoom == Len(sChan) < ChanCap

Push(e) == sChan' = Append(sChan, e)

\* The upstream sends one more event, which the goroutine reads, or finds in
\* its buffer though the request is over.  A quiet event changes no text;
\* "final" ends the answer, and the upstream may go on.
ReadEvent(e) ==
    /\ sReader = "read"
    /\ sUpstream = "open"
    /\ sSent < MaxEvents
    /\ sSent' = sSent + 1
    /\ IF HasRoom THEN Push(e) /\ UNCHANGED sReader
       ELSE sReader' = e /\ UNCHANGED sChan
    /\ UNCHANGED <<sPc, sMode, sClient, sUpstream, sOut, sBilled, sLeased, sMark, sProxyMarks, sLast>>

\* A blocked send goes through when there is room: nothing else ends it.
SendUnblocks ==
    /\ sReader \in {"text", "quiet", "final"}
    /\ HasRoom
    /\ Push(sReader)
    /\ sReader' = "read"
    /\ UNCHANGED <<sPc, sMode, sClient, sUpstream, sSent, sOut, sBilled, sLeased, sMark, sProxyMarks, sLast>>

\* Mutant: the goroutine ends without closing the channel.
UpstreamEndsUnclosed ==
    /\ sReader = "read" /\ sUpstream = "open"
    /\ sUpstream' = "closed"
    /\ sReader' = "none"
    /\ UNCHANGED <<sPc, sMode, sClient, sChan, sSent, sOut, sBilled, sLeased, sMark, sProxyMarks, sLast>>

\* The upstream closes the stream: the goroutine closes the channel.
UpstreamEnds ==
    /\ sReader = "read" /\ sUpstream = "open"
    /\ sUpstream' = "closed"
    /\ sReader' = "closed"
    /\ UNCHANGED <<sPc, sMode, sClient, sChan, sSent, sOut, sBilled, sLeased, sMark, sProxyMarks, sLast>>

\* The read fails, in any case when the client has left or the handler has
\* returned: the error is the last event.
ReadFails ==
    /\ sReader = "read"
    /\ sUpstream = "open" \/ ~sClient \/ sPc = "done"
    /\ HasRoom
    /\ Push("err")
    /\ sReader' = "closed"
    /\ UNCHANGED <<sPc, sMode, sClient, sUpstream, sSent, sOut, sBilled, sLeased, sMark, sProxyMarks, sLast>>

\* The upstream sends nothing more and keeps the connection: the reader has
\* no timeout of its own.
UpstreamStalls ==
    /\ sReader = "read" /\ sUpstream = "open"
    /\ sUpstream' = "stalled"
    /\ UNCHANGED <<sPc, sMode, sClient, sReader, sChan, sSent, sOut, sBilled, sLeased, sMark, sProxyMarks, sLast>>

ClientLeaves ==
    /\ sClient /\ sPc # "done"
    /\ sClient' = FALSE
    /\ UNCHANGED <<sPc, sMode, streamState, sBilled, sLeased, sMark, sProxyMarks, sLast>>

-----------------------------------------------------------------------------
(* streamOpenAI and collectOpenAI.                                         *)

\* The events that end the loop; what is left in the channel stays there.
Stops(e) == e \in {"final", "err"}

Forward ==
    LET e == Head(sChan)
    IN /\ sPc = "forward"
       /\ sChan # <<>>
       /\ sChan' = Tail(sChan)
       /\ sOut' = [sOut EXCEPT !.text = @ + IF e = "text" THEN 1 ELSE 0,
                               !.events = @ + IF e = "err" THEN 0 ELSE 1]
       /\ sPc' = IF Stops(e) THEN "finish" ELSE "forward"
       /\ UNCHANGED <<sMode, sClient, sUpstream, sReader, sSent, sBilled, sLeased, sMark, sProxyMarks, sLast>>

\* The channel is closed and empty.
ForwardEnds ==
    /\ sPc = "forward"
    /\ sChan = <<>> /\ sReader = "closed"
    /\ sPc' = "finish"
    /\ UNCHANGED <<sMode, sClient, streamState, sBilled, sLeased, sMark, sProxyMarks, sLast>>

\* Events without any text: an apology is written instead.
Finish ==
    /\ sPc = "finish"
    /\ sOut' = [sOut EXCEPT !.apology = sOut.text = 0 /\ sOut.events > 0]
    /\ sPc' = "settle"
    /\ UNCHANGED <<sMode, sClient, sUpstream, sReader, sChan, sSent, sBilled, sLeased, sMark, sProxyMarks, sLast>>

\* completion_tokens: a streamed apology is free, a collected one counts as text.
CompletionTokens == sOut.text + IF sOut.apology /\ sMode = "collect" THEN 1 ELSE 0

\* Settle, TouchUsage and the usage row, all without the request's context.
SettleChat ==
    /\ sPc = "settle"
    /\ sBilled' = CompletionTokens
    /\ Returns
    /\ UNCHANGED <<sMode, sClient, streamState, sMark, sProxyMarks, sLast>>

HandlerStep ==
    \/ \E r \in Results :
          \/ \E challenge \in BOOLEAN : ChatRequirementsPrepare(r, challenge)
          \/ ChatRequirementsFinalize(r) \/ ChatRequirements(r)
          \/ PrepareFChat(r) \/ StreamFChat(r)
    \/ ProofSolved \/ ProofFails
    \/ Forward \/ ForwardEnds \/ Finish \/ SettleChat

ReaderStep ==
    \/ \E e \in {"text", "quiet", "final"} : ReadEvent(e)
    \/ SendUnblocks \/ UpstreamEnds \/ ReadFails

SNext == HandlerStep \/ ReaderStep \/ UpstreamStalls \/ ClientLeaves

\* The handler's goroutine runs, and so does the reader: the upstream sends,
\* closes, fails or stalls.
SFairSpec == SInit /\ [][SNext]_sVars /\ WF_sVars(HandlerStep) /\ WF_sVars(ReaderStep)

-----------------------------------------------------------------------------
(* Properties.                                                             *)

Fatal == {"single", "send"}

\* A request that has returned has been settled or refunded, settled only if
\* the upstream accepted it, and never for more text than the client got: the
\* apology aside, which a client that does not stream pays for.
ChargedForText ==
    sPc = "done" =>
        /\ sBilled # Frozen /\ ~sLeased
        /\ sBilled # Refunded <=> sLast = <<"send", "ok">>
        /\ sBilled # Refunded =>
              sBilled = sOut.text \/ (sOut.apology /\ sMode = "collect" /\ sBilled = 1)

\* An account is throttled or killed only for the last answer of a call
\* without fallback, never for one that another call made good.
BlamedForLast ==
    sMark \in {"throttled", "dead"} =>
        sPc = "done" /\ sLast[1] \in Fatal /\ sMark = Blame(sLast[2])

\* The two together; and a proxy is blamed at most twice for one request.
ChatSound == ChargedForText /\ BlamedForLast /\ sProxyMarks <= 2

\* How a chat may come to rest: the handler has returned, unless the upstream
\* stalls and the client stays, for no timeout of the code ends that; and the
\* goroutine has ended too, unless more events followed the end of the answer
\* than the channel holds: then it is blocked on a channel nobody reads.
ChatOver ==
    \/ sPc = "done" /\ (sReader \in {"none", "closed"} \/ Len(sChan) = ChanCap)
    \/ sUpstream = "stalled" /\ sClient
=============================================================================
