------------------------------- MODULE Backup -------------------------------
(***************************************************************************)
(* Database backups (internal/backup): the rows of backup_files and the    *)
(* files they name.  Creating, uploading, restoring, deleting and the      *)
(* retention goroutine are separate statements and file operations that    *)
(* interleave and fail.  A dump contains backup_files itself, so restoring *)
(* one puts the rows back to what they were while it was taken: the model  *)
(* keeps in a file the rows it would restore.                              *)
(***************************************************************************)
EXTENDS Integers, FiniteSets

CONSTANTS
    Backups,        \* ids of backups, positive numbers in the order of insertion
    BHandlers,      \* HTTP requests and retention goroutines
    Retention,      \* backups to keep, 0 for all
    BMaxFaults      \* bound on failing calls

ASSUME BackupAssumption ==
    /\ Backups \subseteq Nat \ {0} /\ IsFiniteSet(Backups) /\ IsFiniteSet(BHandlers)
    /\ Retention \in Nat /\ BMaxFaults \in Nat

VARIABLES
    bRow,       \* status of a row of backup_files, "none" without one
    bFile,      \* the files: absent, partial, or complete with the rows in it
    bReq,       \* requests
    bLoaded,    \* what was fed to mysql was complete
    bRestored,  \* a restore has replaced the rows
    bStuck,     \* backups with a write that failed or was answered with an error
                \* though committed, or deleted before their dump began
    bLast,      \* the last id given out
    bFaults     \* failing calls so far

bVars == <<bRow, bFile, bReq, bLoaded, bRestored, bStuck, bLast, bFaults>>

NoRows == [b \in Backups |-> "none"]
Absent == [state |-> "absent", rows |-> NoRows]
Partial == [state |-> "partial", rows |-> NoRows]
Complete(rows) == [state |-> "complete", rows |-> rows]
BIdle == [pc |-> "idle"]
BAt(pc, b) == [pc |-> pc, id |-> b]

BInit ==
    /\ bRow = NoRows
    /\ bFile = [b \in Backups |-> Absent]
    /\ bReq = [h \in BHandlers |-> BIdle]
    /\ bLoaded = TRUE /\ bRestored = FALSE /\ bStuck = {} /\ bLast = 0
    /\ bFaults = 0

BFault == bFaults < BMaxFaults /\ bFaults' = bFaults + 1

\* The ids are random and never used again; their order is that of insertion.
Fresh(b) == b = bLast + 1 /\ bLast' = b

BGoto(h, pc) == bReq' = [bReq EXCEPT ![h].pc = pc]
BEnds(h) == bReq' = [bReq EXCEPT ![h] = BIdle]
BAtPc(h, pc) == bReq[h].pc = pc
BId(h) == bReq[h].id

-----------------------------------------------------------------------------
(* Create: row, dump, status.                                              *)

CreateBackup(h, b) ==
    /\ bReq[h] = BIdle
    /\ Fresh(b)
    /\ bRow' = [bRow EXCEPT ![b] = "running"]
    /\ bReq' = [bReq EXCEPT ![h] = BAt("open", b)]
    /\ UNCHANGED <<bFile, bLoaded, bRestored, bStuck, bFaults>>

\* The INSERT is committed and its answer lost: the request ends, and the row
\* stays running without a dump.
CreateAckLost(h, b) ==
    /\ bReq[h] = BIdle
    /\ Fresh(b)
    /\ BFault
    /\ bRow' = [bRow EXCEPT ![b] = "running"]
    /\ UNCHANGED <<bFile, bReq, bLoaded, bRestored, bStuck>>

\* O_CREATE, O_TRUNC; mysqldump starts and reads the rows of this moment.
DumpBegins(h) ==
    /\ BAtPc(h, "open")
    /\ bFile' = [bFile EXCEPT ![BId(h)] = Partial]
    /\ bReq' = [bReq EXCEPT ![h] = [pc |-> "dump", id |-> BId(h), rows |-> bRow]]
    /\ UNCHANGED <<bRow, bLoaded, bRestored, bStuck, bLast, bFaults>>

\* A file removed meanwhile stays removed: the dump went to the open handle.
DumpEnds(h) ==
    /\ BAtPc(h, "dump")
    /\ bFile' = [bFile EXCEPT ![BId(h)] = IF @ = Absent THEN @ ELSE Complete(bReq[h].rows)]
    /\ bReq' = [bReq EXCEPT ![h] = BAt("ready", BId(h))]
    /\ UNCHANGED <<bRow, bLoaded, bRestored, bStuck, bLast, bFaults>>

\* The file cannot be opened, or mysqldump fails or is killed with the
\* request: MarkFailed (whose context may be dead), then the file is removed.
DumpFails(h, marked) ==
    /\ BAtPc(h, "open") \/ BAtPc(h, "dump")
    /\ BFault
    /\ bFile' = [bFile EXCEPT ![BId(h)] = Absent]
    /\ bRow' = IF marked /\ bRow[BId(h)] # "none" THEN [bRow EXCEPT ![BId(h)] = "failed"] ELSE bRow
    /\ bStuck' = IF marked THEN bStuck ELSE bStuck \cup {BId(h)}
    /\ BEnds(h)
    /\ UNCHANGED <<bLoaded, bRestored, bLast>>

\* MarkReady updates the row if it still exists, and starts the retention.
MarkReady(h) ==
    /\ BAtPc(h, "ready")
    /\ bRow' = [bRow EXCEPT ![BId(h)] = IF @ = "none" THEN @ ELSE "ready"]
    /\ IF Retention > 0 THEN BGoto(h, "retain") ELSE BEnds(h)
    /\ UNCHANGED <<bFile, bLoaded, bRestored, bStuck, bLast, bFaults>>

\* An error ends the request without retention, also when the row is written.
MarkReadyFails(h, marked) ==
    /\ BAtPc(h, "ready")
    /\ BFault
    /\ bRow' = IF marked /\ bRow[BId(h)] # "none" THEN [bRow EXCEPT ![BId(h)] = "ready"] ELSE bRow
    /\ bStuck' = IF marked THEN bStuck ELSE bStuck \cup {BId(h)}
    /\ BEnds(h)
    /\ UNCHANGED <<bFile, bLoaded, bRestored, bLast>>

-----------------------------------------------------------------------------
(* Upload: file first, then the row, which is inserted as ready.           *)

UploadBegins(h, b) ==
    /\ bReq[h] = BIdle
    /\ Fresh(b)
    /\ bFile' = [bFile EXCEPT ![b] = Partial]
    /\ bReq' = [bReq EXCEPT ![h] = BAt("copy", b)]
    /\ UNCHANGED <<bRow, bLoaded, bRestored, bStuck, bFaults>>

\* The dump of a database without backups.
UploadCopied(h) ==
    /\ BAtPc(h, "copy")
    /\ bFile' = [bFile EXCEPT ![BId(h)] = Complete(NoRows)]
    /\ BGoto(h, "row")
    /\ UNCHANGED <<bRow, bLoaded, bRestored, bStuck, bLast, bFaults>>

\* Too long, not gzip, a broken connection, or the INSERT wrote no row: the
\* file is removed.
ImportFails(h) ==
    /\ BAtPc(h, "copy") \/ BAtPc(h, "row")
    /\ BFault
    /\ bFile' = [bFile EXCEPT ![BId(h)] = Absent]
    /\ BEnds(h)
    /\ UNCHANGED <<bRow, bLoaded, bRestored, bStuck, bLast>>

\* The INSERT; the MarkReady that follows writes the same again.
UploadRow(h) ==
    /\ BAtPc(h, "row")
    /\ bRow' = [bRow EXCEPT ![BId(h)] = "ready"]
    /\ BEnds(h)
    /\ UNCHANGED <<bFile, bLoaded, bRestored, bStuck, bLast, bFaults>>

\* The INSERT is committed and its answer lost: the file is removed as after
\* any error of the INSERT, and the row stays ready.
UploadAckLost(h) ==
    /\ BAtPc(h, "row")
    /\ BFault
    /\ bRow' = [bRow EXCEPT ![BId(h)] = "ready"]
    /\ bStuck' = bStuck \cup {BId(h)}
    /\ BGoto(h, "drop")
    /\ UNCHANGED <<bFile, bLoaded, bRestored, bLast>>

UploadDropped(h) ==
    /\ BAtPc(h, "drop")
    /\ bFile' = [bFile EXCEPT ![BId(h)] = Absent]
    /\ BEnds(h)
    /\ UNCHANGED <<bRow, bLoaded, bRestored, bStuck, bLast, bFaults>>

-----------------------------------------------------------------------------
(* Delete and retention: the file first, then the row.                     *)

DeleteBegins(h, b) ==
    /\ bReq[h] = BIdle
    /\ bRow[b] # "none"
    /\ bReq' = [bReq EXCEPT ![h] = [pc |-> "remove", id |-> b, todo |-> {}]]
    /\ UNCHANGED <<bRow, bFile, bLoaded, bRestored, bStuck, bLast, bFaults>>

\* ListReadyOldest: the ready rows after the newest Retention ones.
Expired ==
    {b \in Backups : bRow[b] = "ready" /\
        Cardinality({c \in Backups : bRow[c] = "ready" /\ c > b}) >= Retention}

RetentionLists(h) ==
    /\ BAtPc(h, "retain")
    /\ IF Expired = {} THEN BEnds(h)
       ELSE \E b \in Expired : bReq' = [bReq EXCEPT ![h] =
               [pc |-> "remove", id |-> b, todo |-> Expired \ {b}]]
    /\ UNCHANGED <<bRow, bFile, bLoaded, bRestored, bStuck, bLast, bFaults>>

RemoveFile(h) ==
    /\ BAtPc(h, "remove")
    /\ bFile' = [bFile EXCEPT ![BId(h)] = Absent]
    /\ BGoto(h, "delete")
    /\ bStuck' = bStuck \cup {b \in {BId(h)} : \E g \in BHandlers : bReq[g] = BAt("open", b)}
    /\ UNCHANGED <<bRow, bLoaded, bRestored, bLast, bFaults>>

\* DELETE, whose error retention ignores; then the next of the list.
DeleteRow(h, ok) ==
    LET todo == bReq[h].todo
    IN /\ BAtPc(h, "delete")
       /\ ok \/ bFaults < BMaxFaults
       /\ bFaults' = IF ok THEN bFaults ELSE bFaults + 1
       /\ bRow' = IF ok THEN [bRow EXCEPT ![BId(h)] = "none"] ELSE bRow
       /\ bStuck' = IF ok THEN bStuck ELSE bStuck \cup {BId(h)}
       /\ IF todo = {} THEN BEnds(h)
          ELSE \E b \in todo : bReq' = [bReq EXCEPT ![h] =
                  [pc |-> "remove", id |-> b, todo |-> todo \ {b}]]
       /\ UNCHANGED <<bFile, bLoaded, bRestored, bLast>>

-----------------------------------------------------------------------------
(* Restore.                                                                *)

\* Mutant: the status is not looked at.
MayRestoreAny(b) == bRow[b] # "none"

MayRestore(b) == bRow[b] = "ready"

RestoreBegins(h, b) ==
    /\ bReq[h] = BIdle
    /\ MayRestore(b)
    /\ bReq' = [bReq EXCEPT ![h] = BAt("load", b)]
    /\ UNCHANGED <<bRow, bFile, bLoaded, bRestored, bStuck, bLast, bFaults>>

\* The file is opened, unless it is gone: the handle keeps what it had.
RestoreOpens(h) ==
    LET f == bFile[BId(h)]
    IN /\ BAtPc(h, "load")
       /\ IF f = Absent THEN BEnds(h)
          ELSE bReq' = [bReq EXCEPT ![h] = [pc |-> "feed", id |-> BId(h), rows |-> f.rows]]
       /\ bLoaded' = (f.state # "partial")
       /\ UNCHANGED <<bRow, bFile, bRestored, bStuck, bLast, bFaults>>

\* mysql replaces the tables one by one.
RestoreFed(h) ==
    /\ BAtPc(h, "feed")
    /\ bRow' = bReq[h].rows
    /\ bRestored' = TRUE
    /\ BEnds(h)
    /\ UNCHANGED <<bFile, bLoaded, bStuck, bLast, bFaults>>

\* It is killed with the request before, within or after the table of backups.
RestoreBreaks(h) ==
    /\ BAtPc(h, "feed")
    /\ BFault
    /\ bRow' \in {bRow, NoRows, bReq[h].rows}
    /\ bRestored' = TRUE
    /\ BEnds(h)
    /\ UNCHANGED <<bFile, bLoaded, bStuck, bLast>>

\* A handler's process dies: what it was doing stays as it is.
BackupDies(h) ==
    /\ bReq[h].pc # "idle"
    /\ BFault
    /\ bStuck' = bStuck \cup {BId(h)}
    /\ BEnds(h)
    /\ UNCHANGED <<bRow, bFile, bLoaded, bRestored, bLast>>

BStep(h) ==
    \/ DumpBegins(h) \/ DumpEnds(h) \/ MarkReady(h)
    \/ UploadCopied(h) \/ UploadRow(h) \/ UploadDropped(h)
    \/ RetentionLists(h) \/ RemoveFile(h) \/ DeleteRow(h, TRUE)
    \/ RestoreOpens(h) \/ RestoreFed(h)

BNext ==
    \E h \in BHandlers :
        \/ BStep(h)
        \/ UploadAckLost(h) \/ ImportFails(h) \/ DeleteRow(h, FALSE) \/ BackupDies(h)
        \/ RestoreBreaks(h)
        \/ \E marked \in BOOLEAN : DumpFails(h, marked) \/ MarkReadyFails(h, marked)
        \/ \E b \in Backups :
              \/ CreateBackup(h, b) \/ CreateAckLost(h, b) \/ UploadBegins(h, b)
              \/ DeleteBegins(h, b) \/ RestoreBegins(h, b)

BSpec == BInit /\ [][BNext]_bVars

-----------------------------------------------------------------------------
(* Properties.                                                             *)

BusyWith(b) == \E h \in BHandlers : bReq[h].pc # "idle" /\ bReq[h].id = b

\* What the list shows as ready can be downloaded and restored: its file is
\* complete, unless it is just being removed, its row outlived a failed
\* DELETE, or an upload removed it after an INSERT that was committed and whose
\* answer was lost (service.go:398-400).  A restore ends that, because it
\* brings old rows back.
ReadyHasFile ==
    ~bRestored =>
        \A b \in Backups : bRow[b] = "ready" =>
            bFile[b].state = "complete" \/ b \in bStuck \/ BusyWith(b)

\* Restore never feeds half a dump to mysql, whatever is being created or
\* removed at the same time.
OnlyCompleteLoaded == bLoaded

\* No file is left without a row that shows it: every file belongs to a row
\* or to a request at work, unless a write failed, it was deleted before its
\* dump created the file, or a restore replaced the rows.
FilesOwned ==
    ~bRestored =>
        \A b \in Backups : bFile[b] # Absent => bRow[b] # "none" \/ b \in bStuck \/ BusyWith(b)

\* What holds of backups however their requests interleave and fail.
BackupsSound == ReadyHasFile /\ OnlyCompleteLoaded /\ FilesOwned
=============================================================================
