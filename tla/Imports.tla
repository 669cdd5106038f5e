------------------------------ MODULE Imports ------------------------------
(***************************************************************************)
(* The import of accounts from pasted tokens (ImportTokensBatch and        *)
(* ImportBatch of internal/account): every line is first exchanged for an  *)
(* access token, which spends the refresh token of the line, and the rows  *)
(* are written only afterwards.  The request may be cancelled, calls fail, *)
(* and administrators delete and create accounts meanwhile.                *)
(*                                                                         *)
(* A refresh token is its line and how often it was exchanged; line 0 is   *)
(* the token of an account that was there before.  What ParseJSONBlob      *)
(* yields goes through the same rows as mode "json", without an exchange.  *)
(***************************************************************************)
EXTENDS Integers, Sequences, FiniteSets, SequencesExt, Selections

CONSTANTS
    ImLines,        \* number of lines, after duplicates are dropped
    ImEmails,       \* accounts they may belong to
    ImBatchSize,    \* BatchSize
    ImMaxFaults     \* bound on failed calls and on what administrators do

ASSUME ImportsAssumption ==
    /\ ImLines \in Nat /\ ImBatchSize \in Nat \ {0} /\ ImMaxFaults \in Nat
    /\ IsFiniteSet(ImEmails)

VARIABLES
    imMode,         \* Mode
    imUpdates,      \* UpdateExisting
    imEmail,        \* the account a line belongs to
    imRow,          \* the refresh token of a listed account, or none
    imRow0,         \* the same before the import
    imSpent,        \* lines whose own token was exchanged
    imPc, imAt,     \* where the import is
    imItems,        \* converted lines; then one item per account
    imSum,          \* ImportSummary
    imFound,        \* what GetByEmail returned
    imCancelled,    \* the context has ended
    imFaults

imInput == <<imMode, imUpdates, imEmail, imRow0>>
imVars == <<imInput, imRow, imSpent, imPc, imAt, imItems, imSum, imFound, imCancelled, imFaults>>

ImRange == 1 .. ImLines
NotListed == [listed |-> FALSE]
ImAccount(rt) == [listed |-> TRUE, rt |-> rt]
NoRT == [line |-> -1, gen |-> 0]
RT(line, gen) == [line |-> line, gen |-> gen]

ImInit ==
    /\ imMode \in {"json", "at", "rt", "st"}
    /\ imUpdates \in BOOLEAN
    /\ imEmail \in [ImRange -> ImEmails]
    \* An account there already may hold the very token of a line.
    /\ imRow \in [ImEmails -> {NotListed, ImAccount(NoRT), ImAccount(RT(0, 0)), ImAccount(RT(1, 0))}]
    /\ \A e \in ImEmails : imRow[e] = ImAccount(RT(1, 0)) => imEmail[1] = e
    /\ imRow0 = imRow
    /\ imSpent = {}
    /\ imPc = "convert" /\ imAt = 1
    /\ imItems = <<>>
    /\ imSum = [total |-> 0, created |-> 0, updated |-> 0, skipped |-> 0, failed |-> 0]
    /\ imFound = NotListed
    /\ imCancelled = FALSE
    /\ imFaults = 0

ImFault == imFaults < ImMaxFaults /\ imFaults' = imFaults + 1

Counted(field) == [imSum EXCEPT ![field] = @ + 1]

-----------------------------------------------------------------------------
(* ImportTokensBatch: the exchanges.                                       *)

\* Only the loop of the exchanges looks at the context.
Stopped == imCancelled /\ imMode # "json"
Converting == imPc = "convert" /\ imAt <= ImLines /\ ~Stopped

\* Upstream takes the token of a line until it was exchanged.
Accepted(line) == line \notin imSpent

\* Mutant: the token that was pasted is kept although a new one came.
NewRTPasted(rotated) ==
    CASE imMode = "rt"   -> RT(imAt, 0)
      [] imMode = "json" -> RT(imAt, 0)
      [] OTHER           -> NoRT

\* The refresh token an item has: the new one when there is one, otherwise
\* that of the line; lines of the other modes have none.
NewRT(rotated) ==
    CASE imMode = "rt"   -> RT(imAt, IF rotated THEN 1 ELSE 0)
      [] imMode = "json" -> RT(imAt, 0)
      [] OTHER           -> NoRT

\* convertATToSource, convertRTToSource and convertSTToSource succeed.
Convert(rotated) ==
    /\ Converting
    /\ rotated => imMode = "rt"
    /\ imSpent' = IF rotated THEN imSpent \cup {imAt} ELSE imSpent
    /\ imItems' = Append(imItems, [email |-> imEmail[imAt], rt |-> NewRT(rotated)])
    /\ imAt' = imAt + 1
    /\ UNCHANGED <<imInput, imRow, imPc, imSum, imFound, imCancelled, imFaults>>

\* They fail: refused, no answer, or an access token without an e-mail; the
\* exchange may have taken place all the same.  Lines of a file that have no
\* e-mail do not get here.
ConvertFails(rotated) ==
    /\ Converting /\ imMode # "json"
    /\ ImFault
    /\ rotated => imMode = "rt"
    /\ imSpent' = IF rotated THEN imSpent \cup {imAt} ELSE imSpent
    /\ imSum' = [Counted("failed") EXCEPT !.total = @ + 1]
    /\ imAt' = imAt + 1
    /\ UNCHANGED <<imInput, imRow, imPc, imItems, imFound, imCancelled>>

Cancel ==
    /\ imPc # "done" /\ ~imCancelled
    /\ imCancelled' = TRUE
    /\ UNCHANGED <<imInput, imRow, imSpent, imPc, imAt, imItems, imSum, imFound, imFaults>>

-----------------------------------------------------------------------------
(* ImportBatch: the rows.                                                  *)

\* The lines with which an account comes up first.
Firsts(items) ==
    Only([i \in 1 .. Len(items) |-> i],
         {i \in 1 .. Len(items) : \A j \in 1 .. i - 1 : items[j].email # items[i].email})

\* Mutant: the first line of an account counts.
DedupFirst(items) ==
    LET firsts == Firsts(items)
    IN  [k \in DOMAIN firsts |-> items[firsts[k]]]

\* One item per account: the last one, at the place of the first.
Dedup(items) ==
    LET firsts == Firsts(items)
        last(e) == Max({i \in 1 .. Len(items) : items[i].email = e})
    IN  [k \in DOMAIN firsts |-> items[last(items[firsts[k]].email)]]

\* The loop over the lines ends, at the last one or with the context.
ImportBatch ==
    /\ imPc = "convert"
    /\ imAt > ImLines \/ Stopped
    /\ imItems' = Dedup(imItems)
    /\ imSum' = [imSum EXCEPT !.total = @ + Len(imItems')]
    /\ imPc' = "rows" /\ imAt' = 1
    /\ UNCHANGED <<imInput, imRow, imSpent, imFound, imCancelled, imFaults>>

Item == imItems[imAt]

ImNext(field) ==
    /\ imSum' = Counted(field)
    /\ imPc' = "rows"
    /\ imAt' = imAt + 1

\* Between two batches the context is looked at: the rest has failed.
ImportCancelled ==
    /\ imPc = "rows" /\ imAt <= Len(imItems)
    /\ imAt > 1 /\ (imAt - 1) % ImBatchSize = 0 /\ imCancelled
    /\ imSum' = [imSum EXCEPT !.failed = @ + (Len(imItems) - imAt + 1)]
    /\ imPc' = "done"
    /\ UNCHANGED <<imInput, imRow, imSpent, imAt, imItems, imFound, imCancelled, imFaults>>

ImportOver ==
    /\ imPc = "rows" /\ imAt > Len(imItems)
    /\ imPc' = "done"
    /\ UNCHANGED <<imInput, imRow, imSpent, imAt, imItems, imSum, imFound, imCancelled, imFaults>>

RowsGoOn ==
    /\ imPc = "rows" /\ imAt <= Len(imItems)
    /\ ~(imAt > 1 /\ (imAt - 1) % ImBatchSize = 0 /\ imCancelled)

\* importOne: the account is looked up, ...
GetByEmail ==
    /\ RowsGoOn /\ ~imCancelled
    /\ imFound' = imRow[Item.email]
    /\ imPc' = "found"
    /\ UNCHANGED <<imInput, imRow, imSpent, imAt, imItems, imSum, imCancelled, imFaults>>

\* ... unless the query fails, as every query does once the context has ended;
Fails ==
    /\ RowsGoOn \/ (imPc = "found" /\ (imUpdates \/ ~imFound.listed))
    /\ IF imCancelled THEN UNCHANGED imFaults ELSE ImFault
    /\ ImNext("failed")
    /\ UNCHANGED <<imInput, imRow, imSpent, imItems, imFound, imCancelled>>

\* ... a new one is created, unless somebody created it meanwhile,
CreateAccount ==
    /\ imPc = "found" /\ ~imCancelled /\ ~imFound.listed
    /\ IF imRow[Item.email].listed
       THEN ImNext("failed") /\ UNCHANGED imRow
       ELSE ImNext("created") /\ imRow' = [imRow EXCEPT ![Item.email] = ImAccount(Item.rt)]
    /\ UNCHANGED <<imInput, imSpent, imItems, imFound, imCancelled, imFaults>>

SkipExisting ==
    /\ imPc = "found" /\ imFound.listed /\ ~imUpdates
    /\ ImNext("skipped")
    /\ UNCHANGED <<imInput, imRow, imSpent, imItems, imFound, imCancelled, imFaults>>

\* Mutant: an item without a refresh token clears that of the account.
KeptRTCleared == Item.rt

\* The refresh token of the row that was read stays when the item has none.
KeptRT == IF Item.rt # NoRT THEN Item.rt ELSE imFound.rt

\* ... and one that was there is overwritten; an account deleted since is
\* left alone by the UPDATE, which nobody notices.
UpdateExisting ==
    /\ imPc = "found" /\ ~imCancelled /\ imFound.listed /\ imUpdates
    /\ ImNext("updated")
    /\ imRow' = IF imRow[Item.email].listed
                THEN [imRow EXCEPT ![Item.email] = ImAccount(KeptRT)]
                ELSE imRow
    /\ UNCHANGED <<imInput, imSpent, imItems, imFound, imCancelled, imFaults>>

\* An administrator deletes an account, or creates one by hand.
Administrator(e) ==
    /\ ImFault /\ imPc # "done"
    /\ imRow' = [imRow EXCEPT ![e] = IF @.listed THEN NotListed ELSE ImAccount(RT(0, 0))]
    /\ UNCHANGED <<imInput, imSpent, imPc, imAt, imItems, imSum, imFound, imCancelled>>

ImportNext ==
    \/ \E rotated \in BOOLEAN : Convert(rotated) \/ ConvertFails(rotated)
    \/ Cancel
    \/ ImportBatch \/ ImportCancelled \/ ImportOver
    \/ GetByEmail \/ Fails \/ CreateAccount \/ SkipExisting \/ UpdateExisting
    \/ \E e \in ImEmails : Administrator(e)

ImportsSpec == ImInit /\ [][ImportNext]_imVars

-----------------------------------------------------------------------------
(* Properties.                                                             *)

Usable(rt) == rt.gen = 1 \/ Accepted(rt.line)

Undisturbed == imPc = "done" /\ ~imCancelled /\ imFaults = 0

\* The summary accounts for every line that was tried: each has one outcome,
\* and without a cancellation only lines superseded by a later one of the same
\* account are missing from the total (ImportSummary).
SummaryAddsUp ==
    imPc = "done" =>
        /\ imSum.total = imSum.created + imSum.updated + imSum.skipped + imSum.failed
        /\ imSum.total <= ImLines
        /\ Undisturbed => imSum.total = Cardinality({imEmail[i] : i \in ImRange})

\* An exchanged token has its successor stored when nothing fails, unless a
\* later line is of the same account, or the account existed and is not to be
\* updated (the exchange comes before the lookup).
SuccessorsStored ==
    Undisturbed =>
        \A i \in imSpent :
            \/ imRow[imEmail[i]] = ImAccount(RT(i, 1))
            \/ \E j \in ImRange : j > i /\ imEmail[j] = imEmail[i]
            \/ imRow0[imEmail[i]].listed /\ ~imUpdates

\* An account keeps a refresh token that upstream takes when nothing fails,
\* unless it is not to be updated and its own token was among the lines.
AccountsKeepRT ==
    Undisturbed =>
        \A e \in ImEmails :
            imRow0[e].listed /\ imRow0[e].rt # NoRT =>
                \/ imRow[e].rt # NoRT /\ Usable(imRow[e].rt)
                \/ ~imUpdates /\ imRow0[e].rt.line \in imSpent

ImportsSound == SummaryAddsUp /\ SuccessorsStored /\ AccountsKeepRT
=============================================================================
