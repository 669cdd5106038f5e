--------------------------- MODULE ChannelAnswer ---------------------------
(* How an external channel's answer reaches the handler.  A chat answer is   *)
(* read by a parser goroutine, one per wire protocol, which turns events    *)
(* into chunks on a bounded Go channel; the handler (streamChannel or       *)
(* collectChannel) takes them until the channel closes or a chunk carries   *)
(* an error, and then counts the completion tokens it charges for.  An      *)
(* image answer is read in place by the adapter.                            *)
(*                                                                          *)
(* Text is a sequence of numbered pieces: piece k is the k-th the upstream  *)
(* sent.  A usage report is <<>> or <<completion tokens>>.                  *)
EXTENDS Naturals, Sequences

CONSTANTS AnsCap,       \* capacity of the chunk channel (16 in the code)
          AnsMaxEvents, \* bound: events the upstream sends in one answer
          AnsCounts,    \* the token counts the upstream may report
          AnsMaxImages  \* bound: images asked of one call

ASSUME ChannelAnswerAssumption ==
    /\ AnsCap \in Nat \ {0} /\ AnsMaxEvents \in Nat
    /\ AnsCounts \subseteq Nat /\ AnsMaxImages \in Nat \ {0}

VARIABLES aCall,   \* the wire protocol of the answer, or "none"
          aSent,   \* what the upstream sent: its texts, last usage, reason, end
          aParser, \* the parser goroutine
          aChan,   \* chunks in the channel
          aTaker,  \* the handler
          aImg     \* an image call

aVars == <<aCall, aSent, aParser, aChan, aTaker, aImg>>

Streamed == {"openai", "responses", "gemini"}
FinishReasons == {"", "length"}
Reports == {<<>>} \cup {<<t>> : t \in AnsCounts}

Chunk(d, r, u, e) == [delta |-> d, finish |-> r, usage |-> u, err |-> e]
TextChunk(d) == Chunk(d, "", <<>>, FALSE)
UsageChunk(u) == Chunk(<<>>, "", u, FALSE)
ErrChunk == Chunk(<<>>, "", <<>>, TRUE)

\* xs when c holds, else nothing
If(c, xs) == IF c THEN xs ELSE <<>>

NoImage == [pc |-> "none", wire |-> "images", n |-> 0, refs |-> FALSE, got |-> <<>>,
            best |-> "", final |-> FALSE, late |-> FALSE, events |-> 0]

AInit ==
    /\ aCall = "none"
    /\ aSent = [text |-> <<>>, usage |-> <<>>, reason |-> "", end |-> "", events |-> 0]
    /\ aParser = [pc |-> "none", out |-> <<>>, usage |-> <<>>, sawText |-> FALSE, finish |-> "stop"]
    /\ aChan = <<>>
    /\ aTaker = [pc |-> "none", text |-> <<>>, finish |-> "stop", tokens |-> 0]
    /\ aImg = NoImage

\* An event of the body: some text, a finish reason, a usage report.
Event == [type : {"data", "completed", "whole"}, text : {<<>>, <<Len(aSent.text) + 1>>},
          reason : FinishReasons, usage : Reports]

----------------------------------------------------------------------------
(* The parsers.  Chunks is what an event puts on the channel, LastChunks    *)
(* what the end of the body does.                                           *)

\* a choice has some text or a reason why it ended
NoChoices(e) == e.text = <<>> /\ e.reason = ""

\* one chunk per choice
OpenAIChunks(e) == If(~NoChoices(e), <<Chunk(e.text, e.reason, <<>>, FALSE)>>)

\* Mutant: the text of response.completed is sent after the deltas too.
ResponsesChunksTwice(e, p) == If(e.text # <<>>, <<TextChunk(e.text)>>)

\* response.completed has the whole text again, for a stream without deltas
ResponsesChunks(e, p) ==
    If(e.text # <<>> /\ (e.type = "completed" => ~p.sawText), <<TextChunk(e.text)>>)

\* text and reason are chunks of their own
GeminiChunks(e) ==
    If(e.text # <<>>, <<TextChunk(e.text)>>)
    \o If(e.reason # "", <<Chunk(<<>>, e.reason, <<>>, FALSE)>>)

\* a document in one piece: its usage follows its text
DocumentChunks(e) ==
    <<Chunk(e.text, e.reason, <<>>, FALSE)>> \o If(e.usage # <<>>, <<UsageChunk(e.usage)>>)

Chunks(w, e, p) ==
    CASE w = "openai"    -> OpenAIChunks(e)
      [] w = "responses" -> ResponsesChunks(e, p)
      [] w = "gemini"    -> GeminiChunks(e)
      [] w = "openai_once" /\ NoChoices(e) -> <<Chunk(<<>>, "stop", <<>>, FALSE)>>
      [] OTHER           -> DocumentChunks(e)

\* openai reports its usage before the error, gemini after it, responses not
\* at all; a document read in one piece has nothing more to say
LastChunks(w, p, end) ==
    CASE w = "openai"    -> If(p.usage # <<>>, <<UsageChunk(p.usage)>>) \o If(end = "broken", <<ErrChunk>>)
      [] w = "gemini"    -> If(end = "broken", <<ErrChunk>>) \o If(p.usage # <<>>, <<UsageChunk(p.usage)>>)
      [] w = "responses" -> IF end = "broken" THEN <<ErrChunk>>
                            ELSE <<Chunk(<<>>, p.finish, p.usage, FALSE)>>
      [] OTHER           -> If(end = "broken", <<ErrChunk>>)

\* the upstream has accepted the request: the parser's goroutine starts
Starts(w) ==
    /\ aCall = "none" /\ aImg.pc = "none"
    /\ aCall' = w
    /\ aParser' = [aParser EXCEPT !.pc = "read"]
    /\ aTaker' = [aTaker EXCEPT !.pc = "take"]
    /\ UNCHANGED <<aSent, aChan, aImg>>

OpenAIChat == \E w \in {"openai", "openai_once", "responses", "responses_once"} : Starts(w)
GeminiChat == \E w \in {"gemini", "gemini_once"} : Starts(w)

\* response.completed repeats the whole text; the other events carry what is new
Sends(w, e) ==
    /\ w \in Streamed \ {"responses"} => e.type = "data"
    /\ w \notin Streamed => e.type = "whole" /\ aSent.events = 0
    /\ w = "responses" => /\ e.type # "whole"
                          /\ e.type = "data" => e.reason = "" /\ e.usage = <<>>

Carried(e) == [e EXCEPT !.text = IF e.type = "completed" /\ aSent.text # <<>> THEN aSent.text ELSE @]

\* the parser reads one event and has its chunks to push
ParseEvent(e0) ==
    LET e == Carried(e0) IN
    /\ aParser.pc = "read" /\ aParser.out = <<>>
    /\ aSent.end = "" /\ aSent.events < AnsMaxEvents
    /\ Sends(aCall, e0)
    /\ aSent' = [aSent EXCEPT
           !.events = @ + 1,
           !.text = IF e.type = "completed" /\ @ # <<>> THEN @ ELSE @ \o e.text,
           !.usage = IF e.usage # <<>> \/ e.type = "completed" THEN e.usage ELSE @,
           !.reason = IF e.reason # "" \/ e.type = "completed" THEN e.reason ELSE @]
    /\ aParser' = [aParser EXCEPT
           !.out = Chunks(aCall, e, aParser),
           !.usage = IF e.usage # <<>> \/ e.type = "completed" THEN e.usage ELSE @,
           !.sawText = @ \/ e.text # <<>>,
           !.finish = IF e.type # "completed" THEN @ ELSE IF e.reason = "" THEN "stop" ELSE e.reason]
    /\ UNCHANGED <<aCall, aChan, aTaker, aImg>>

\* [DONE], the end of the body, or a read that fails: a cancelled request, too
ParseEnd(end) ==
    /\ aParser.pc = "read" /\ aParser.out = <<>>
    /\ aCall \in Streamed \/ (end = "broken" <=> aSent.events = 0)
    /\ aSent' = [aSent EXCEPT !.end = end]
    /\ aParser' = [aParser EXCEPT !.pc = "last", !.out = LastChunks(aCall, aParser, end)]
    /\ UNCHANGED <<aCall, aChan, aTaker, aImg>>

PushChunk ==
    /\ aParser.out # <<>> /\ Len(aChan) < AnsCap
    /\ aChan' = Append(aChan, Head(aParser.out))
    /\ aParser' = [aParser EXCEPT !.out = Tail(@)]
    /\ UNCHANGED <<aCall, aSent, aTaker, aImg>>

Close ==
    /\ aParser.pc = "last" /\ aParser.out = <<>>
    /\ aParser' = [aParser EXCEPT !.pc = "closed"]
    /\ UNCHANGED <<aCall, aSent, aChan, aTaker, aImg>>

----------------------------------------------------------------------------
(* The handler: streamChannel and collectChannel take the same steps.       *)

Estimate(text) == (Len(text) + 3) \div 4

Leave(t) == [t EXCEPT !.pc = "done", !.tokens = IF @ = 0 THEN Estimate(t.text) ELSE @]

TakeChunk ==
    /\ aTaker.pc = "take" /\ aChan # <<>>
    /\ LET k == Head(aChan) IN
       aTaker' = IF k.err THEN Leave(aTaker)
                 ELSE [aTaker EXCEPT !.tokens = IF k.usage # <<>> THEN k.usage[1] ELSE @,
                                     !.text = @ \o k.delta,
                                     !.finish = IF k.finish # "" THEN k.finish ELSE @]
    /\ aChan' = Tail(aChan)
    /\ UNCHANGED <<aCall, aSent, aParser, aImg>>

TakeClosed ==
    /\ aTaker.pc = "take" /\ aChan = <<>> /\ aParser.pc = "closed"
    /\ aTaker' = Leave(aTaker)
    /\ UNCHANGED <<aCall, aSent, aParser, aChan, aImg>>

----------------------------------------------------------------------------
(* ImageGenerate.  Only the responses endpoint takes references, and it     *)
(* makes one call per image: a failing call loses the images before it.     *)

ImageWires == {"images", "responses", "imagen", "gemini"}

ImageGenerate(w, n, refs) ==
    /\ aCall = "none" /\ aImg.pc = "none"
    /\ aImg' = [NoImage EXCEPT !.pc = IF refs /\ w # "responses" THEN "unsupported" ELSE "call",
                               !.wire = w, !.n = n, !.refs = refs]
    /\ UNCHANGED <<aCall, aSent, aParser, aChan, aTaker>>

Failed(i) == [i EXCEPT !.pc = "error", !.got = <<>>]

WholeImages(k) == [j \in 1..k |-> [img |-> "final", late |-> FALSE]]

\* one document with k images
ImageDocument(w, k) ==
    /\ aImg.pc = "call" /\ aImg.wire = w
    /\ aImg' = IF k = 0 THEN Failed(aImg) ELSE [aImg EXCEPT !.pc = "ok", !.got = WholeImages(k)]
    /\ UNCHANGED <<aCall, aSent, aParser, aChan, aTaker>>

ImagesEndpoint(k) == ImageDocument("images", k)
Imagen(k) == ImageDocument("imagen", k)

\* the multimodal models are not told how many are wanted
GeminiImage(k) == ImageDocument("gemini", k)

ImageRefused ==
    /\ aImg.pc = "call"
    /\ aImg' = Failed(aImg)
    /\ UNCHANGED <<aCall, aSent, aParser, aChan, aTaker>>

\* partial_image, output_item.done and response.completed with its image
ImageEvent(what) ==
    /\ aImg.pc = "call" /\ aImg.wire = "responses" /\ aImg.events < AnsMaxEvents
    /\ aImg' = [aImg EXCEPT !.best = what, !.final = @ \/ what = "final",
                            !.late = aImg.final /\ what = "partial", !.events = @ + 1]
    /\ UNCHANGED <<aCall, aSent, aParser, aChan, aTaker>>

\* Mutant: a preview is good enough for an edit as well.
KeepsBestAny(i, end) == i.best # "" /\ end # "broken"

\* what the end of one call's stream returns: its best image, or an error
KeepsBest(i, end) == i.best # "" /\ end # "broken" /\ (i.final \/ ~i.refs)

ImageEnds(end) ==
    /\ aImg.pc = "call" /\ aImg.wire = "responses"
    /\ LET got == Append(aImg.got, [img |-> aImg.best, late |-> aImg.late]) IN
       aImg' = IF ~KeepsBest(aImg, end) THEN Failed(aImg)
               ELSE [aImg EXCEPT !.got = got, !.best = "", !.final = FALSE, !.late = FALSE,
                                 !.events = 0, !.pc = IF Len(got) = aImg.n THEN "ok" ELSE "call"]
    /\ UNCHANGED <<aCall, aSent, aParser, aChan, aTaker>>

----------------------------------------------------------------------------
ANext ==
    \/ OpenAIChat \/ GeminiChat
    \/ \E e \in Event : ParseEvent(e)
    \/ \E end \in {"end", "broken"} : ParseEnd(end)
    \/ PushChunk
    \/ Close
    \/ TakeChunk
    \/ TakeClosed
    \/ \E w \in ImageWires, n \in 1..AnsMaxImages, refs \in BOOLEAN : ImageGenerate(w, n, refs)
    \/ \E k \in 0..(AnsMaxImages + 1) : ImagesEndpoint(k) \/ Imagen(k) \/ GeminiImage(k)
    \/ ImageRefused
    \/ \E what \in {"partial", "final"} : ImageEvent(what)
    \/ \E end \in {"end", "timeout", "broken"} : ImageEnds(end)

ASpec == AInit /\ [][ANext]_aVars

----------------------------------------------------------------------------
\* The user gets every piece the channel sent, once and in order, however the
\* answer ended (the sawText test of parseOpenAIResponsesTextSSE).
WholeText == aTaker.pc = "done" => aTaker.text = aSent.text

\* The tokens charged are the last count the channel reported, unless that is
\* zero, the answer broke on a protocol whose parser puts the error first
\* (streamChannel and collectChannel break at the error), or a document had
\* no choices (parseOpenAINonStream returns before its usage).
Reported == /\ aSent.usage # <<>> /\ aSent.usage[1] > 0
            /\ aSent.end = "broken" => aCall = "openai"
            /\ aCall = "openai_once" => ~NoChoices(aSent)

CountedTokens ==
    aTaker.pc = "done" =>
        aTaker.tokens = IF Reported THEN aSent.usage[1] ELSE Estimate(aSent.text)

\* A parser whose handler has left at an error can still push what it has
\* left and end: nothing takes from the channel any more.
ParserNotStuck ==
    aTaker.pc = "done" /\ aParser.pc # "closed" => Len(aChan) + Len(aParser.out) <= AnsCap

\* An edit never delivers a preview that no final image preceded, and the
\* responses endpoint delivers as many images as were asked for
\* (parseOpenAIResponsesImageSSE, imageGenerateViaResponses).
EditsFinal ==
    aImg.pc = "ok" =>
        /\ aImg.wire = "responses" => Len(aImg.got) = aImg.n
        /\ aImg.refs => \A k \in DOMAIN aImg.got : aImg.got[k].img = "final" \/ aImg.got[k].late

\* The answer of a channel, text, tokens and images, is what the channel sent.
AnswerExact == WholeText /\ CountedTokens /\ ParserNotStuck /\ EditsFinal
=============================================================================
