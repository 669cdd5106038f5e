------------------------------ MODULE DeltaText ------------------------------
(***************************************************************************)
(* The text of a chat answer (internal/gateway/delta.go).  chatgpt.com     *)
(* sends an answer as patches of a message and leaves a patch's path out   *)
(* when it is the one before; the extractor keeps the path and the         *)
(* recipient and picks what is meant for the user.  The sender is external *)
(* and modelled by the format the extractor documents: it knows for every  *)
(* piece of text whether the user should see it.                           *)
(***************************************************************************)
EXTENDS Integers, Sequences, SequencesExt

CONSTANT MaxPieces      \* bound on the pieces of text of a stream

ASSUME DeltaAssumption == MaxPieces \in Nat

VARIABLES
    dSent,      \* sender: path of its last patch; its message: recipient, pieces before it,
                \* stage; the pieces so far
    dExt,       \* deltaExtractor: curP and recipient
    dSeen,      \* the pieces the sender appended to what the user should see
    dReplaced,  \* those sent to replace it, in a frame of their own
    dText,      \* the text written to the client
    dFinal,     \* the handler has left its loop: the extractor reported the end
    dRead       \* the pieces the sender had sent with the last frame it read

dVars == <<dSent, dExt, dSeen, dReplaced, dText, dFinal, dRead>>

(***************************************************************************)
(* Paths: "" is the message itself, "parts" its text, "thoughts" its       *)
(* reasoning, "status" its status, "other" the rest.  In a frame "keep"    *)
(* means that it names no path, and no recipient.  Values: the number of a *)
(* piece of text, or Finished.                                             *)
(***************************************************************************)
Paths == {"", "parts", "thoughts", "status", "other"}
Finished == 0
IsText(v) == v # Finished

DInit ==
    /\ dSent = [path |-> "", to |-> "all", from |-> 0, stage |-> "open", pieces |-> 0]
    /\ dExt = [curP |-> "", recipient |-> "all"]
    /\ dSeen = {} /\ dReplaced = {} /\ dText = <<>>
    /\ dFinal = FALSE /\ dRead = 0

-----------------------------------------------------------------------------
(* The extractor: what one frame adds to the text.                         *)

Nothing(e) == [ext |-> e, out |-> <<>>, final |-> FALSE]
Ends(e) == [ext |-> e, out |-> <<>>, final |-> TRUE]
Output(e, t) == [ext |-> e, out |-> t, final |-> FALSE]

Keeps(e, p) == [e EXCEPT !.curP = IF p = "keep" THEN @ ELSE p]

\* Shown: where a text has to be, and addressed to whom.
IsShown(e) == e.recipient = "all" /\ e.curP \in {"", "parts"}

\* Mutant: a text that names no path is taken for the answer's.
ExtractStringAlways(e, v) ==
    IF e.curP = "status" /\ v = Finished THEN Ends(e)
    ELSE IF e.recipient = "all" THEN Output(e, <<v>>) ELSE Nothing(e)

ExtractString(e, v) ==
    IF e.curP = "status" /\ v = Finished THEN Ends(e)
    ELSE IF IsShown(e) THEN Output(e, <<v>>) ELSE Nothing(e)

\* One patch of an array: its own path holds for the next frames too.
ExtractPatch(r, patch) ==
    LET e == Keeps(r.ext, patch.p)
    IN CASE e.curP = "thoughts" -> [r EXCEPT !.ext = e]
         [] e.curP = "status" -> [r EXCEPT !.ext = e, !.final = @ \/ patch.v = Finished]
         [] OTHER -> [r EXCEPT !.ext = e,
                               !.out = IF IsShown(e) /\ patch.o = "append" /\ IsText(patch.v)
                                       THEN Append(@, patch.v) ELSE @]

ExtractArray(e, patches) == FoldLeft(ExtractPatch, Nothing(e), patches)

\* A message: a recipient it names holds from here on, its text is the first
\* piece.  Only one whose part is a text, empty or not, can end the answer.
ExtractObject(e, m) ==
    LET e1 == [e EXCEPT !.recipient = IF m.to = "keep" THEN @ ELSE m.to]
    IN [ext |-> e1,
        out |-> IF e1.recipient = "all" THEN m.text ELSE <<>>,
        final |-> m.isText /\ m.finished]

\* Extract: [DONE] and message_stream_complete end the answer, frames that are
\* not JSON or have no v say nothing, thoughts are swallowed.
Extract(e, f) ==
    CASE f.kind = "done" -> Ends(e)
      [] f.kind = "junk" -> Nothing(Keeps(e, f.p))
      [] OTHER ->
           LET e1 == Keeps(e, f.p)
           IN IF e1.curP = "thoughts" THEN Nothing(e1)
              ELSE CASE f.kind = "string" -> ExtractString(e1, f.v)
                     [] f.kind = "array" -> ExtractArray(e1, f.v)
                     [] OTHER -> ExtractObject(e1, f.v)

\* The loops of streamOpenAI and collectOpenAI: write what is there, leave at
\* the end.  n: the pieces the sender has sent with this frame.
Receive(f, n) ==
    IF dFinal THEN UNCHANGED <<dExt, dText, dFinal, dRead>>
    ELSE LET r == Extract(dExt, f)
         IN /\ dExt' = r.ext
            /\ dText' = dText \o r.out
            /\ dFinal' = r.final
            /\ dRead' = n

-----------------------------------------------------------------------------
(* The sender.  A path or a recipient may be left out only when it is the  *)
(* last one.  The status ends a message, not the answer: another message   *)
(* may follow, and the sender does not know when the handler has left.     *)

Named(p) == {p} \cup IF p = dSent.path THEN {"keep"} ELSE {}
Addressed(to) == {to} \cup IF to = dSent.to THEN {"keep"} ELSE {}

Next1 == dSent.pieces + 1
More(n) == dSent.pieces + n <= MaxPieces
Shown(to, p) == to = "all" /\ p \in {"", "parts"}
Piece(n, here) == IF here THEN {n} ELSE {}
Stage(finished) == IF finished THEN "finished" ELSE "open"

\* The start of a message, as {"p":"","v":{"message":...}}; its part may be a
\* text, an empty one, or no text at all (an image, code).
SendMessage(to, part, finished) ==
    /\ dSent.stage # "over" /\ More(1)
    /\ \E p \in Named(""), r \in Addressed(to) :
          Receive([kind |-> "object", p |-> p,
                   v |-> [to |-> r, finished |-> finished, isText |-> part # "none",
                          text |-> IF part = "text" THEN <<Next1>> ELSE <<>>]], Next1)
    /\ dSent' = [path |-> "", to |-> to, from |-> dSent.pieces, stage |-> Stage(finished),
                 pieces |-> Next1]
    /\ dSeen' = dSeen \cup Piece(Next1, part = "text" /\ to = "all")
    /\ UNCHANGED dReplaced

\* A piece of text at a path, appended there or replacing what is there; the
\* extractor does not look at which.
SendText(path, op) ==
    /\ dSent.stage = "open" /\ More(1)
    /\ \E p \in Named(path) : Receive([kind |-> "string", p |-> p, o |-> op, v |-> Next1], Next1)
    /\ dSent' = [dSent EXCEPT !.path = path, !.pieces = Next1]
    /\ dSeen' = dSeen \cup Piece(Next1, Shown(dSent.to, path) /\ op = "append")
    /\ dReplaced' = dReplaced \cup Piece(Next1, Shown(dSent.to, path) /\ op # "append")

SendStatus ==
    /\ dSent.stage = "open"
    /\ \E p \in Named("status") :
          Receive([kind |-> "string", p |-> p, o |-> "replace", v |-> Finished], dSent.pieces)
    /\ dSent' = [dSent EXCEPT !.path = "status", !.stage = "finished"]
    /\ UNCHANGED <<dSeen, dReplaced>>

\* Several patches in one frame on the message: a text, another text or a
\* replacing one, and perhaps the status.  The sender leaves a path out
\* within the array, too.
SendArray(first, second, op, finished) ==
    LET a == [p |-> first, o |-> "append", v |-> Next1]
        b == [p |-> IF second = first THEN "keep" ELSE second, o |-> op, v |-> Next1 + 1]
        c == [p |-> "status", o |-> "replace", v |-> Finished]
    IN /\ dSent.stage = "open" /\ More(2)
       /\ first # "" /\ second # ""
       /\ \E p \in Named("") :
             Receive([kind |-> "array", p |-> p,
                      v |-> <<a, b>> \o IF finished THEN <<c>> ELSE <<>>], Next1 + 1)
       /\ dSent' = [dSent EXCEPT !.path = IF finished THEN "status" ELSE second,
                                 !.stage = Stage(finished), !.pieces = Next1 + 1]
       /\ dSeen' = dSeen \cup Piece(Next1, Shown(dSent.to, first))
                         \cup Piece(Next1 + 1, Shown(dSent.to, second) /\ op = "append")
       /\ UNCHANGED dReplaced

\* Heartbeats and events without a value, and the end of the stream.
SendOther(kind) ==
    /\ dSent.stage # "over"
    /\ Receive([kind |-> kind, p |-> "keep"], dSent.pieces)
    /\ dSent' = [dSent EXCEPT !.stage = IF kind = "done" THEN "over" ELSE @]
    /\ UNCHANGED <<dSeen, dReplaced>>

DNext ==
    \/ \E to \in {"all", "tool"}, part \in {"none", "empty", "text"}, finished \in BOOLEAN :
          SendMessage(to, part, finished)
    \/ \E path \in Paths, op \in {"append", "replace"} : SendText(path, op)
    \/ SendStatus
    \/ \E first, second \in Paths \ {"status"}, op \in {"append", "replace"}, finished \in BOOLEAN :
          SendArray(first, second, op, finished)
    \/ \E kind \in {"done", "junk"} : SendOther(kind)

DSpec == DInit /\ [][DNext]_dVars

-----------------------------------------------------------------------------
(* Properties.                                                             *)

\* The client is shown, in order, exactly what was appended for the user in
\* the frames the handler read: nothing addressed to a tool and no thought,
\* however the sender leaves paths and recipients out and packs patches
\* together.  A text that replaces another in a frame of its own follows it
\* instead (delta.go:93-108).  A message is read to its end, or it began after
\* the handler had taken the finished status of an earlier one, whoever that
\* was addressed to, for the end of the answer (delta.go:95-99, 134-137,
\* 163-173): only such a message's text is lost.
TextExact ==
    /\ \A i, j \in DOMAIN dText : i < j => dText[i] < dText[j]
    /\ ToSet(dText) = {n \in dSeen \cup dReplaced : n <= dRead}
    /\ dRead = dSent.pieces \/ dRead <= dSent.from
=============================================================================
