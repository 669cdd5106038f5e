------------------------------- MODULE Grants -------------------------------
(***************************************************************************)
(* Credits given away: redemption codes (internal/redeem) and the daily    *)
(* check-in (internal/checkin).  Each is one MySQL transaction of several  *)
(* statements: it locks its own row (the code by SELECT ... FOR UPDATE,    *)
(* the check-in by inserting under the unique key of user and day), then   *)
(* the user's row (creditTx of Billing), and commits.  What a transaction  *)
(* writes stays in its handler until the commit; its row locks keep the    *)
(* others out.                                                             *)
(***************************************************************************)
EXTENDS Integers, Sequences, FiniteSets

CONSTANTS
    GUsers,         \* users
    Codes,          \* redemption codes that may be generated
    Expiring,       \* codes whose expires_at is past
    Days,           \* calendar days, 1 .. n
    GHandlers,      \* HTTP requests
    CodeCredits,    \* credits of a code
    Rewards,        \* values of the daily check-in setting
    GMaxEvents      \* bound on faults and on what administrators do

ASSUME GrantsAssumption ==
    /\ IsFiniteSet(GUsers) /\ IsFiniteSet(Codes) /\ IsFiniteSet(GHandlers)
    /\ Expiring \subseteq Codes
    /\ Days \subseteq Nat /\ 1 \in Days
    /\ CodeCredits \in Nat \ {0}
    /\ Rewards \subseteq Nat
    /\ GMaxEvents \in Nat

NoOne == "noone"
Missing == "missing"

\* The id 0 is nobody's.
ASSUME GrantsIds == NoOne \notin GHandlers \cup GUsers /\ Missing \notin GUsers

NoRecord == [award |-> 0, after |-> 0]

VARIABLES
    gCode,      \* redeem_codes: Missing, or the user who used it, or NoOne
    gDay,       \* user_checkins, by user and day: the record, or NoRecord
    gUser,      \* balance and deletion of a user
    gLedger,    \* credit_transactions in commit order
    gLock,      \* the transaction that holds a row
    gReq,       \* the requests
    gToday,     \* the server's date
    gReward,    \* settings: daily check-in credits
    gEvents     \* events so far

gVars == <<gCode, gDay, gUser, gLedger, gLock, gReq, gToday, gReward, gEvents>>

CodeRow(c) == <<"code", c>>
DayRow(u, d) == <<"day", u, d>>
UserRow(u) == <<"user", u>>
GRows == {CodeRow(c) : c \in Codes} \cup {DayRow(u, d) : u \in GUsers, d \in Days}
         \cup {UserRow(u) : u \in GUsers}

GIdle == [pc |-> "idle"]

\* Types of the rows, the locks and the requests.
GrantType ==
    /\ gCode \in [Codes -> GUsers \cup {NoOne, Missing}]
    /\ gDay \in [GUsers \X Days -> [award : Nat, after : Int]]
    /\ gLock \in [GRows -> GHandlers \cup {NoOne}]
    /\ \A h \in GHandlers : gReq[h].pc \in {"idle", "lock", "credit", "commit", "reread", "done"}
    /\ gToday \in Days /\ gReward \in Rewards

\* The codes that expire were generated before.
GInit ==
    /\ gCode = [c \in Codes |-> IF c \in Expiring THEN NoOne ELSE Missing]
    /\ gDay = [r \in GUsers \X Days |-> NoRecord]
    /\ gUser = [u \in GUsers |-> [balance |-> 0, deleted |-> FALSE]]
    /\ gLedger = <<>>
    /\ gLock = [r \in GRows |-> NoOne]
    /\ gReq = [h \in GHandlers |-> GIdle]
    /\ gToday = 1
    /\ gReward \in Rewards
    /\ gEvents = 0

GEvent == gEvents < GMaxEvents /\ gEvents' = gEvents + 1

-----------------------------------------------------------------------------
(* Requests.                                                               *)

\* InsertBatch: all codes of the batch, or none when one of them exists.
Generate(S) ==
    /\ GEvent
    /\ \A c \in S : gCode[c] = Missing
    /\ gCode' = [c \in Codes |-> IF c \in S THEN NoOne ELSE gCode[c]]
    /\ UNCHANGED <<gDay, gUser, gLedger, gLock, gReq, gToday, gReward>>

GReceived(h, kind, u, row, amount, ref) ==
    gReq' = [gReq EXCEPT ![h] = [pc |-> "lock", kind |-> kind, user |-> u, row |-> row,
                                 amount |-> amount, ref |-> ref, after |-> 0]]

Answer(h, what, record) == [pc |-> "done", kind |-> gReq[h].kind, user |-> gReq[h].user,
                            ref |-> gReq[h].ref, what |-> what, record |-> record]

Refusal(h, what) == Answer(h, what, NoRecord)

\* POST redeem, with any code.
RedeemBegins(h) ==
    /\ gReq[h].pc = "idle"
    /\ \E u \in GUsers, c \in Codes : GReceived(h, "redeem", u, CodeRow(c), CodeCredits, c)
    /\ UNCHANGED <<gCode, gDay, gUser, gLedger, gLock, gToday, gReward, gEvents>>

\* POST check-in: the reward and the date are read before the transaction.
CheckinBegins(h) ==
    /\ gReq[h].pc = "idle"
    /\ gReward > 0
    /\ \E u \in GUsers : GReceived(h, "checkin", u, DayRow(u, gToday), gReward, <<u, gToday>>)
    /\ UNCHANGED <<gCode, gDay, gUser, gLedger, gLock, gToday, gReward, gEvents>>

\* The end of a transaction that changes nothing: its locks go.
Rollback(h) == gLock' = [r \in GRows |-> IF gLock[r] = h THEN NoOne ELSE gLock[r]]

\* Mutant: an early return forgets the transaction.
RedeemRefusedHolds(h) ==
    LET c == gReq[h].ref
    IN /\ gReq[h].pc = "lock" /\ gReq[h].kind = "redeem"
       /\ gLock[CodeRow(c)] = NoOne
       /\ \/ /\ gCode[c] = Missing
             /\ gReq' = [gReq EXCEPT ![h] = Refusal(h, "notFound")]
             /\ gLock' = gLock
          \/ /\ gCode[c] # Missing
             /\ gCode[c] # NoOne \/ c \in Expiring
             /\ gReq' = [gReq EXCEPT ![h] = Refusal(h, IF gCode[c] # NoOne THEN "used" ELSE "expired")]
             /\ gLock' = [gLock EXCEPT ![CodeRow(c)] = h]
       /\ UNCHANGED <<gCode, gDay, gUser, gLedger, gToday, gReward, gEvents>>

\* SELECT ... FOR UPDATE finds the code missing, used or expired.
RedeemRefused(h) ==
    LET c == gReq[h].ref
    IN /\ gReq[h].pc = "lock" /\ gReq[h].kind = "redeem"
       /\ gLock[CodeRow(c)] = NoOne
       /\ \/ /\ gCode[c] = Missing
             /\ gReq' = [gReq EXCEPT ![h] = Refusal(h, "notFound")]
          \/ /\ gCode[c] \in GUsers
             /\ gReq' = [gReq EXCEPT ![h] = Refusal(h, "used")]
          \/ /\ gCode[c] = NoOne /\ c \in Expiring
             /\ gReq' = [gReq EXCEPT ![h] = Refusal(h, "expired")]
       /\ Rollback(h)
       /\ UNCHANGED <<gCode, gDay, gUser, gLedger, gToday, gReward, gEvents>>

\* Mutant: the code is marked outside the transaction.
RedeemMarksOutside(h) ==
    LET c == gReq[h].ref
    IN /\ gReq[h].pc = "lock" /\ gReq[h].kind = "redeem"
       /\ gLock[CodeRow(c)] = NoOne
       /\ gCode[c] = NoOne /\ c \notin Expiring
       /\ gCode' = [gCode EXCEPT ![c] = gReq[h].user]
       /\ gLock' = [gLock EXCEPT ![CodeRow(c)] = h]
       /\ gReq' = [gReq EXCEPT ![h].pc = "credit"]
       /\ UNCHANGED <<gDay, gUser, gLedger, gToday, gReward, gEvents>>

\* It finds it usable; the UPDATE ... WHERE used_by_user_id = 0 of the locked
\* row then matches.
RedeemMarks(h) ==
    LET c == gReq[h].ref
    IN /\ gReq[h].pc = "lock" /\ gReq[h].kind = "redeem"
       /\ gLock[CodeRow(c)] = NoOne
       /\ gCode[c] = NoOne /\ c \notin Expiring
       /\ gLock' = [gLock EXCEPT ![CodeRow(c)] = h]
       /\ gReq' = [gReq EXCEPT ![h].pc = "credit"]
       /\ UNCHANGED <<gCode, gDay, gUser, gLedger, gToday, gReward, gEvents>>

\* The INSERT of the check-in waits for another one of the same day.
CheckinInserts(h) ==
    LET r == gReq[h].ref
    IN /\ gReq[h].pc = "lock" /\ gReq[h].kind = "checkin"
       /\ gLock[gReq[h].row] = NoOne
       /\ gDay[r] = NoRecord
       /\ gLock' = [gLock EXCEPT ![gReq[h].row] = h]
       /\ gReq' = [gReq EXCEPT ![h].pc = "credit"]
       /\ UNCHANGED <<gCode, gDay, gUser, gLedger, gToday, gReward, gEvents>>

\* Error 1062: roll back, then read the record the other one committed.
CheckinDuplicate(h) ==
    /\ gReq[h].pc = "lock" /\ gReq[h].kind = "checkin"
    /\ gLock[gReq[h].row] = NoOne
    /\ gDay[gReq[h].ref] # NoRecord
    /\ Rollback(h)
    /\ gReq' = [gReq EXCEPT ![h].pc = "reread"]
    /\ UNCHANGED <<gCode, gDay, gUser, gLedger, gToday, gReward, gEvents>>

CheckinRereads(h) ==
    /\ gReq[h].pc = "reread"
    /\ gReq' = [gReq EXCEPT ![h] = Answer(h, "ok", gDay[gReq[h].ref])]
    /\ UNCHANGED <<gCode, gDay, gUser, gLedger, gLock, gToday, gReward, gEvents>>

\* Mutant: the balance is read before the row is locked.
creditTxUnlocked(h) ==
    LET u == gReq[h].user
    IN /\ gReq[h].pc = "credit"
       /\ ~gUser[u].deleted
       /\ gReq' = [gReq EXCEPT ![h].pc = "commit", ![h].after = gUser[u].balance + gReq[h].amount]
       /\ UNCHANGED <<gCode, gDay, gUser, gLedger, gLock, gToday, gReward, gEvents>>

\* creditTx: the UPDATE locks the user's row, the balance after it goes into
\* the ledger row.
creditTx(h) ==
    LET u == gReq[h].user
    IN /\ gReq[h].pc = "credit"
       /\ gLock[UserRow(u)] = NoOne
       /\ ~gUser[u].deleted
       /\ gLock' = [gLock EXCEPT ![UserRow(u)] = h]
       /\ gReq' = [gReq EXCEPT ![h].pc = "commit", ![h].after = gUser[u].balance + gReq[h].amount]
       /\ UNCHANGED <<gCode, gDay, gUser, gLedger, gToday, gReward, gEvents>>

\* The user was deleted: the whole grant is undone.
creditTxRefused(h) ==
    /\ gReq[h].pc = "credit"
    /\ gLock[UserRow(gReq[h].user)] = NoOne
    /\ gUser[gReq[h].user].deleted
    /\ Rollback(h)
    /\ gReq' = [gReq EXCEPT ![h] = Refusal(h, "error")]
    /\ UNCHANGED <<gCode, gDay, gUser, gLedger, gToday, gReward, gEvents>>

LedgerRow(u, amount, after, ref) == [user |-> u, amount |-> amount, after |-> after, ref |-> ref]

\* What the commit makes visible, all at once.
CommitTx(h) ==
    LET q == gReq[h]
    IN /\ q.pc = "commit"
       /\ gCode' = IF q.kind = "redeem" THEN [gCode EXCEPT ![q.ref] = q.user] ELSE gCode
       /\ gDay' = IF q.kind = "checkin"
                  THEN [gDay EXCEPT ![q.ref] = [award |-> q.amount, after |-> q.after]] ELSE gDay
       /\ gUser' = [gUser EXCEPT ![q.user].balance = @ + q.amount]
       /\ gLedger' = Append(gLedger, LedgerRow(q.user, q.amount, q.after, q.row))
       /\ Rollback(h)
       /\ UNCHANGED <<gToday, gReward>>

Commits(h) ==
    /\ CommitTx(h)
    /\ gReq' = [gReq EXCEPT ![h] = Answer(h, "ok", [award |-> gReq[h].amount, after |-> gReq[h].after])]
    /\ UNCHANGED gEvents

\* The commit is done and its acknowledgement lost: the caller sees an error.
CommitAckLost(h) ==
    /\ GEvent
    /\ CommitTx(h)
    /\ gReq' = [gReq EXCEPT ![h] = Refusal(h, "error")]

\* A statement fails, the client's context ends or the process dies: MySQL
\* undoes the transaction.
GFails(h) ==
    /\ GEvent
    /\ gReq[h].pc \in {"lock", "credit", "commit", "reread"}
    /\ Rollback(h)
    /\ gReq' = [gReq EXCEPT ![h] = Refusal(h, "error")]
    /\ UNCHANGED <<gCode, gDay, gUser, gLedger, gToday, gReward>>

\* The client comes with the next request.
GNextRequest(h) ==
    /\ gReq[h].pc = "done"
    /\ GEvent
    /\ gReq' = [gReq EXCEPT ![h] = GIdle]
    /\ UNCHANGED <<gCode, gDay, gUser, gLedger, gLock, gToday, gReward>>

-----------------------------------------------------------------------------
(* The others.                                                             *)

\* Another movement of the balance (a settlement, an adjustment).
GMoves(u) ==
    /\ GEvent
    /\ gLock[UserRow(u)] = NoOne
    /\ ~gUser[u].deleted
    /\ gUser' = [gUser EXCEPT ![u].balance = @ + 1]
    /\ gLedger' = Append(gLedger, LedgerRow(u, 1, gUser[u].balance + 1, <<"other">>))
    /\ UNCHANGED <<gCode, gDay, gLock, gReq, gToday, gReward>>

GDeletes(u) ==
    /\ GEvent
    /\ gLock[UserRow(u)] = NoOne
    /\ ~gUser[u].deleted
    /\ gUser' = [gUser EXCEPT ![u].deleted = TRUE]
    /\ UNCHANGED <<gCode, gDay, gLedger, gLock, gReq, gToday, gReward>>

\* Midnight, or an administrator changes the reward.
GClock ==
    /\ GEvent
    /\ \/ gToday + 1 \in Days /\ gToday' = gToday + 1 /\ UNCHANGED gReward
       \/ gReward' \in Rewards \ {gReward} /\ UNCHANGED gToday
    /\ UNCHANGED <<gCode, gDay, gUser, gLedger, gLock, gReq>>

GStep(h) ==
    \/ RedeemRefused(h) \/ RedeemMarks(h)
    \/ CheckinInserts(h) \/ CheckinDuplicate(h) \/ CheckinRereads(h)
    \/ creditTx(h) \/ creditTxRefused(h) \/ Commits(h)

GNext ==
    \/ \E S \in SUBSET Codes \ {{}} : Generate(S)
    \/ \E h \in GHandlers :
          \/ RedeemBegins(h) \/ CheckinBegins(h) \/ GStep(h)
          \/ CommitAckLost(h) \/ GFails(h) \/ GNextRequest(h)
    \/ \E u \in GUsers : GMoves(u) \/ GDeletes(u)
    \/ GClock

GSpec == GInit /\ [][GNext]_gVars

-----------------------------------------------------------------------------
(* Properties.                                                             *)

RowsFor(ref) == {i \in DOMAIN gLedger : gLedger[i].ref = ref}

\* Whatever requests race or fail, a code is used exactly if its credits were
\* booked, once, for the user it names; a check-in record exists exactly if
\* its award was booked, once, and shows the amount and balance of that row.
GrantedOnce ==
    /\ \A c \in Codes :
          IF gCode[c] \in GUsers
          THEN \E i \in DOMAIN gLedger :
                  /\ RowsFor(CodeRow(c)) = {i}
                  /\ gLedger[i].user = gCode[c] /\ gLedger[i].amount = CodeCredits
          ELSE RowsFor(CodeRow(c)) = {}
    /\ \A u \in GUsers, d \in Days :
          IF gDay[<<u, d>>] # NoRecord
          THEN \E i \in DOMAIN gLedger :
                  /\ RowsFor(DayRow(u, d)) = {i}
                  /\ gLedger[i].user = u
                  /\ gDay[<<u, d>>] = [award |-> gLedger[i].amount, after |-> gLedger[i].after]
          ELSE RowsFor(DayRow(u, d)) = {}

\* The ledger rows of one user.
RowsOf(u) == {i \in DOMAIN gLedger : gLedger[i].user = u}

\* The balance_after column tells the history of the balance: the first row of
\* a user starts from nothing, each one continues the one before, and the last
\* one is the balance.
LedgerChains ==
    \A u \in GUsers : \A i \in RowsOf(u) :
        /\ (\A j \in RowsOf(u) : i <= j) => gLedger[i].after = gLedger[i].amount
        /\ \A j \in RowsOf(u) :
              j < i /\ (\A k \in RowsOf(u) : k <= j \/ i <= k) =>
                  gLedger[i].after = gLedger[j].after + gLedger[i].amount
        /\ (\A j \in RowsOf(u) : j <= i) => gLedger[i].after = gUser[u].balance

\* An answer is true: a granted credit is in the books, and who checks in
\* twice is shown the record that was booked, never the placeholder of a
\* transaction under way.
AnswersTrue ==
    \A h \in GHandlers :
        LET q == gReq[h]
        IN q.pc = "done" =>
              /\ q.kind = "checkin" /\ q.what = "ok" => q.record = gDay[q.ref] /\ q.record # NoRecord
              /\ q.kind = "redeem" /\ q.what = "used" => gCode[q.ref] \in GUsers
              /\ q.kind = "redeem" /\ q.what = "ok" => gCode[q.ref] = q.user

\* Credits that were given: a code is redeemed once and a day's check-in is
\* claimed once, every ledger row carries the balance its credit left, and
\* the user is told what happened (GrantedOnce, LedgerChains, AnswersTrue).
GrantsSound == GrantType /\ GrantedOnce /\ LedgerChains /\ AnswersTrue

\* No lock outlives its transaction and no two transactions wait for each
\* other: every request is answered.
GrantsEnd == \A h \in GHandlers : gReq[h].pc = "lock" ~> gReq[h].pc = "done"
=============================================================================
