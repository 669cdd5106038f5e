----------------------------- MODULE MCDelivery -----------------------------
(***************************************************************************)
(* How an answer reaches the user, and what is kept of it: the image       *)
(* runner, a chat with ChatGPT and the text of its patches, one image      *)
(* conversation, the answer of an external channel, the image store with   *)
(* its cache, the backups, and the settings and models that all of them    *)
(* read from memory.  The components share no state that these modules     *)
(* describe, so one behaviour exercises one of them, chosen at the start.  *)
(***************************************************************************)
EXTENDS ImageBatch, ChatStream, DeltaText, ImagePoll, ChannelAnswer, ImageStore, Backup,
        Catalog

CONSTANTS a1, a2, f1, s1, ref, r1, r2, h1, h2

VARIABLE part       \* the component a behaviour exercises

deliveryVars == <<part, vars, sVars, dVars, iVars, aVars, mVars, bVars, catVars>>

DeliveryInit ==
    /\ part \in {"batch", "chat", "text", "poll", "channel", "store", "backup", "settings",
                "models"}
    /\ Init /\ SInit /\ DInit /\ PollInit /\ AInit /\ MInit /\ BInit /\ CatInit
    /\ part # "chat" => sMode = "stream"

Drawing(A) ==
    part = "batch" /\ A /\ UNCHANGED <<part, sVars, dVars, iVars, aVars, mVars, bVars, catVars>>
Chatting(A) ==
    part = "chat" /\ A /\ UNCHANGED <<part, vars, dVars, iVars, aVars, mVars, bVars, catVars>>
Patching(A) ==
    part = "text" /\ A /\ UNCHANGED <<part, vars, sVars, iVars, aVars, mVars, bVars, catVars>>
Polling(A) ==
    part = "poll" /\ A /\ UNCHANGED <<part, vars, sVars, dVars, aVars, mVars, bVars, catVars>>
Adapting(A) ==
    part = "channel" /\ A /\ UNCHANGED <<part, vars, sVars, dVars, iVars, mVars, bVars, catVars>>
Storing(A) ==
    part = "store" /\ A /\ UNCHANGED <<part, vars, sVars, dVars, iVars, aVars, bVars, catVars>>
BackingUp(A) ==
    part = "backup" /\ A /\ UNCHANGED <<part, vars, sVars, dVars, iVars, aVars, mVars, catVars>>
Setting(A) ==
    part = "settings" /\ A /\ UNCHANGED <<part, vars, sVars, dVars, iVars, aVars, mVars, bVars>>
Reading(A) ==
    part = "models" /\ A /\ UNCHANGED <<part, vars, sVars, dVars, iVars, aVars, mVars, bVars>>

DeliveryNext ==
    \/ Drawing(Next)
    \/ Chatting(SNext)
    \/ Patching(DNext)
    \/ Polling(PollNext)
    \/ Adapting(ANext)
    \/ Storing(MNext)
    \/ BackingUp(BNext)
    \/ Setting(SettingsNext)
    \/ Reading(ModelsNext)

\* Goroutines go on, the calls of an image conversation time out, requests
\* keep asking for a model, and time passes.
DeliverySpec ==
    /\ DeliveryInit /\ [][DeliveryNext]_deliveryVars
    /\ WF_deliveryVars(Drawing(Run))
    /\ \A s \in Slots : WF_deliveryVars(Drawing(RunOnce(s)))
    /\ WF_deliveryVars(Chatting(HandlerStep))
    /\ WF_deliveryVars(Chatting(ReaderStep))
    /\ WF_deliveryVars(Polling(AttemptStep))
    /\ \A j \in Editors \cup {Background} : WF_deliveryVars(Reading(RefreshModels(j)))
    /\ WF_deliveryVars(Reading(BySlug))
    /\ WF_deliveryVars(Reading(CatTick))

-----------------------------------------------------------------------------
(* Properties.                                                             *)

\* The text of an answer is the text that was sent for the user in the frames
\* the handler read (TextExact names those it does not read, and texts meant to
\* replace others), and its price and the blame for a failure follow from the
\* answer, over ChatGPT and over a channel (TextExact, ChatSound, AnswerExact).
AnswerSound == TextExact /\ ChatSound /\ AnswerExact

\* What is kept, on disk and in memory: images are served whole and kept all
\* or none, the cache holds what the store held, a backup is restored only
\* when complete, and the settings and models in memory are those of their
\* tables, whatever dies, overlaps or is deleted meanwhile, but for the reasons
\* named (StoreSound, BackupsSound, CatalogSound).
KeptSound == StoreSound /\ BackupsSound /\ CatalogSound

\* A chat's handler returns unless the upstream stalls and the client stays,
\* the goroutine that reads for it ends unless nobody reads its full channel
\* (ChatOver), an image conversation ends, however its uploads, its stream and
\* its polling go, and however refreshes of the model registry overlap and
\* fail, it comes to agree with its table (liveness).
DeliveryEnds ==
    <>[](/\ part = "chat" => ChatOver
         /\ part = "poll" => iPc = "done"
         /\ part = "models" => ModelsAgree)

\* RunEnds: the run ends, whatever fails and whenever the context does.
BatchEnds == part = "batch" => RunEnds
=============================================================================
