------------------------------ MODULE UsageLog ------------------------------
(***************************************************************************)
(* The asynchronous usage log (internal/usage/logger.go): handlers put     *)
(* rows into a bounded channel without waiting, one goroutine collects     *)
(* them into batches and inserts a batch when it is full or the ticker     *)
(* fires; Close asks it to drain what is there and waits for it.           *)
(***************************************************************************)
EXTENDS Integers, Sequences, FiniteSets, SequencesExt

CONSTANTS
    URows,      \* how many rows the handlers write
    UBuffer,    \* capacity of the channel
    UBatch      \* rows of a full batch

ASSUME UsageLogAssumption == URows \in Nat /\ UBuffer \in Nat \ {0} /\ UBatch \in Nat \ {0}

VARIABLES
    uNext,      \* rows written so far
    uChan,      \* the channel
    uBatch,     \* the batch of the goroutine
    uTable,     \* usage_logs
    uLost,      \* rows reported as lost: channel full, or an error of the insert
    uUnanswered,\* rows stored by an INSERT whose answer did not come back
    uLate,      \* rows written after Close was called
    uPc         \* the goroutine: run, drain, done

uVars == <<uNext, uChan, uBatch, uTable, uLost, uUnanswered, uLate, uPc>>

UInit ==
    /\ uNext = 0
    /\ uChan = <<>> /\ uBatch = <<>> /\ uTable = <<>>
    /\ uLost = {} /\ uUnanswered = {} /\ uLate = {}
    /\ uPc = "run"

\* Mutant: a full channel overwrites its oldest row.
WriteOverwrites ==
    /\ uNext < URows
    /\ uNext' = uNext + 1
    /\ uChan' = Append(IF Len(uChan) < UBuffer THEN uChan ELSE Tail(uChan), uNext)
    /\ uLate' = IF uPc = "run" THEN uLate ELSE uLate \cup {uNext}
    /\ UNCHANGED <<uBatch, uTable, uUnanswered, uPc, uLost>>

\* A handler's row, also after Close: select with a default branch.
Write ==
    /\ uNext < URows
    /\ uNext' = uNext + 1
    /\ IF Len(uChan) < UBuffer
       THEN uChan' = Append(uChan, uNext) /\ UNCHANGED uLost
       ELSE uLost' = uLost \cup {uNext} /\ UNCHANGED uChan
    /\ uLate' = IF uPc = "run" THEN uLate ELSE uLate \cup {uNext}
    /\ UNCHANGED <<uBatch, uTable, uUnanswered, uPc>>

\* flush: the whole batch in one INSERT, or none of it.  An error is logged and
\* the batch is dropped, also when the INSERT was committed and its answer did
\* not come back within the 3 seconds of bulkInsert.
Flush(batch) ==
    /\ uBatch' = <<>>
    /\ \/ /\ uTable' = uTable \o batch
          /\ UNCHANGED <<uLost, uUnanswered>>
       \/ /\ batch # <<>>
          /\ uLost' = uLost \cup ToSet(batch)
          /\ UNCHANGED <<uTable, uUnanswered>>
       \/ /\ batch # <<>>
          /\ uTable' = uTable \o batch
          /\ uLost' = uLost \cup ToSet(batch)
          /\ uUnanswered' = uUnanswered \cup ToSet(batch)

\* case row := <-l.ch, in the main loop and while draining.
Take ==
    LET batch == Append(uBatch, Head(uChan))
    IN /\ uPc \in {"run", "drain"}
       /\ uChan # <<>>
       /\ uChan' = Tail(uChan)
       /\ IF Len(batch) >= UBatch THEN Flush(batch)
          ELSE uBatch' = batch /\ UNCHANGED <<uTable, uLost, uUnanswered>>
       /\ UNCHANGED <<uNext, uLate, uPc>>

\* case <-tick.C.
TickFlush ==
    /\ uPc = "run"
    /\ uBatch # <<>>
    /\ Flush(uBatch)
    /\ UNCHANGED <<uNext, uChan, uLate, uPc>>

\* Close closes l.closed; the goroutine starts to drain at its next select.
Close ==
    /\ uPc = "run"
    /\ uPc' = "drain"
    /\ UNCHANGED <<uNext, uChan, uBatch, uTable, uLost, uUnanswered, uLate>>

\* Mutant: the last partial batch is not flushed.
DrainedForgets ==
    /\ uPc = "drain"
    /\ uChan = <<>>
    /\ uPc' = "done"
    /\ UNCHANGED <<uNext, uChan, uBatch, uTable, uLost, uUnanswered, uLate>>

\* The channel is empty: flush what is left and return.
Drained ==
    /\ uPc = "drain"
    /\ uChan = <<>>
    /\ Flush(uBatch)
    /\ uPc' = "done"
    /\ UNCHANGED <<uNext, uChan, uLate>>

ULoop == Take \/ TickFlush \/ Drained
UNext == Write \/ Close \/ ULoop

USpec == UInit /\ [][UNext]_uVars

-----------------------------------------------------------------------------
(* Properties.                                                             *)

\* Every row written before Close is stored, in the order of writing, or
\* reported as lost; no row is stored twice, a row that is reported and stored
\* all the same is one whose INSERT was not answered, and what the channel still
\* holds when the goroutine has returned was written after Close.
UsageAccounted ==
    LET stored == ToSet(uTable)
        inside == ToSet(uChan) \cup ToSet(uBatch)
    IN /\ 0 .. uNext - 1 = stored \cup inside \cup uLost
       /\ \A i, j \in DOMAIN uTable : i < j => uTable[i] < uTable[j]
       /\ inside \cap (stored \cup uLost) = {}
       /\ stored \cap uLost = uUnanswered
       /\ uPc = "done" => inside \subseteq uLate

\* Close returns although handlers keep writing while it drains.
CloseReturns == uPc = "drain" ~> uPc = "done"
=============================================================================
