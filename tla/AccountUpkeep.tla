--------------------------- MODULE AccountUpkeep ---------------------------
(***************************************************************************)
(* The credentials of one ChatGPT account (a row of oai_accounts) and      *)
(* everyone who writes them: the refresher's scan, refreshes asked for by  *)
(* administrators (internal/account/refresher.go), the edit form and the   *)
(* import (service.go, importer.go), the status marks of running requests  *)
(* (internal/scheduler) and the recycle bin (dao.go).                      *)
(*                                                                         *)
(* The expiry of the access token is the number of ticks left to it.  The  *)
(* minute a refresh takes (timeouts of 30 s, 12 s and 30 s) is not counted *)
(* against the token it obtains.  A copy of a refresh token is "live" when *)
(* upstream still takes it and "used" once it was rotated or revoked;      *)
(* upstream takes one refresh token per account.  The session token is     *)
(* there or not, and upstream may refuse it at any time.                   *)
(***************************************************************************)
EXTENDS Integers

CONSTANTS
    Refreshers,  \* goroutines that may refresh the account
    Scanner,     \* the one of them that is the background scan
    Life,        \* lifetime of a new access token, in ticks
    Ahead        \* account.refresh_ahead_sec, in ticks

ASSUME UpkeepAssumption ==
    /\ Scanner \in Refreshers
    /\ Ahead \in Nat
    /\ Life \in Nat
    /\ Life > Ahead

Statuses == {"healthy", "warned", "throttled", "suspicious", "dead"}
Tokens == {"none", "live", "used"}

VARIABLES
    place,   \* "listed", in the recycle bin ("deleted"), or "purged"
    status,  \* oai_accounts.status
    rt,      \* refresh_token_enc
    st,      \* session_token_enc is set
    left,    \* token_expires_at, as ticks left
    pc,      \* where a refresher is
    snap,    \* the tokens of the row it was given
    got,     \* the tokens it obtained
    edit     \* the tokens in the edit form, or the row an import writes

row == <<place, status, rt, st, left>>
refresh == <<pc, snap, got>>
vars == <<row, refresh, edit>>

NothingGot == [rt |-> "none", web |-> FALSE]
NoEdit == [stage |-> "none", rt |-> "none"]

Listed == place = "listed"

\* A token rotated or revoked upstream is used in every copy.
Spent(t) == IF t = "live" THEN "used" ELSE t

SpendCopies ==
    /\ rt' = Spent(rt)
    /\ snap' = [q \in Refreshers |-> [snap[q] EXCEPT !.rt = Spent(@)]]

\* What a refresher other than r obtained earlier is spent as well.
GotAfterRotation(r, new) ==
    [q \in Refreshers |-> IF q = r THEN new ELSE [got[q] EXCEPT !.rt = Spent(@)]]

Init ==
    /\ place = "listed"
    /\ status = "healthy"
    /\ rt \in {"none", "live"}
    /\ st \in BOOLEAN
    /\ left = Life
    /\ pc = [r \in Refreshers |-> "idle"]
    /\ snap = [r \in Refreshers |-> [rt |-> "none", st |-> FALSE]]
    /\ got = [r \in Refreshers |-> NothingGot]
    /\ edit = NoEdit

---------------------------------------------------------------------------
(* Starting a refresh                                                      *)

\* The rows ListNeedRefresh selects.
Due ==
    /\ Listed
    /\ status # "dead"
    /\ rt # "none" \/ st
    /\ left <= Ahead

FirstStep(r) == IF snap[r].rt # "none" THEN "rt" ELSE "st"

\* Mutant: only healthy accounts are listed, a warned one is not tried again.
ListNeedRefreshHealthy ==
    /\ pc[Scanner] = "idle"
    /\ Due
    /\ status = "healthy"
    /\ pc' = [pc EXCEPT ![Scanner] = "listed"]
    /\ snap' = [snap EXCEPT ![Scanner] = [rt |-> rt, st |-> st]]
    /\ UNCHANGED <<row, got, edit>>

\* scanOnce lists the row; its goroutine starts when the semaphore lets it,
\* with the row as it was listed.
ListNeedRefresh ==
    /\ pc[Scanner] = "idle"
    /\ Due
    /\ pc' = [pc EXCEPT ![Scanner] = "listed"]
    /\ snap' = [snap EXCEPT ![Scanner] = [rt |-> rt, st |-> st]]
    /\ UNCHANGED <<row, got, edit>>

StartListed ==
    /\ pc[Scanner] = "listed"
    /\ pc' = [pc EXCEPT ![Scanner] = FirstStep(Scanner)]
    /\ UNCHANGED <<row, snap, got, edit>>

\* Refresh and RefreshAll of the administrator: whatever the status is.
RefreshByID(r) ==
    /\ r # Scanner
    /\ pc[r] = "idle"
    /\ Listed
    /\ snap' = [snap EXCEPT ![r] = [rt |-> rt, st |-> st]]
    /\ pc' = [pc EXCEPT ![r] = IF rt # "none" THEN "rt" ELSE "st"]
    /\ UNCHANGED <<row, got, edit>>

---------------------------------------------------------------------------
(* RefreshAuto: the refresh token                                          *)

\* Upstream answers with a new refresh token: the old one is spent.
RTRotated(r) ==
    /\ pc[r] = "rt"
    /\ snap[r].rt = "live"
    /\ \E w \in BOOLEAN :
           got' = GotAfterRotation(r, [rt |-> "live", web |-> w])
    /\ SpendCopies
    /\ edit' = [edit EXCEPT !.rt = Spent(@)]
    /\ pc' = [pc EXCEPT ![r] = "verify"]
    /\ UNCHANGED <<place, status, st, left>>

\* Upstream answers without one: the old one stays good.
RTUnrotated(r) ==
    /\ pc[r] = "rt"
    /\ snap[r].rt = "live"
    /\ \E w \in BOOLEAN :
           got' = [got EXCEPT ![r] = [rt |-> "none", web |-> w]]
    /\ pc' = [pc EXCEPT ![r] = "verify"]
    /\ UNCHANGED <<row, snap, edit>>

\* A refused token, an unreachable host, an answer that does not parse.
RTFailed(r) ==
    /\ pc[r] = "rt"
    /\ pc' = [pc EXCEPT ![r] = "st"]
    /\ UNCHANGED <<row, snap, got, edit>>

\* Upstream rotated the token and the answer never arrived.
RTAnswerLost(r) ==
    /\ pc[r] = "rt"
    /\ snap[r].rt = "live"
    /\ SpendCopies
    /\ got' = GotAfterRotation(r, NothingGot)
    /\ edit' = [edit EXCEPT !.rt = Spent(@)]
    /\ pc' = [pc EXCEPT ![r] = "st"]
    /\ UNCHANGED <<place, status, st, left>>

\* GET /backend-api/me answers 200 to the new access token.
VerifyOK(r) ==
    /\ pc[r] = "verify"
    /\ got[r].web
    /\ pc' = [pc EXCEPT ![r] = "apply"]
    /\ UNCHANGED <<row, snap, got, edit>>

\* It does not: whatever was obtained is dropped and the session token tried.
DropGot(r) ==
    /\ pc[r] = "verify"
    /\ got' = [got EXCEPT ![r] = NothingGot]
    /\ pc' = [pc EXCEPT ![r] = "st"]
    /\ UNCHANGED <<row, snap, edit>>

\* 401: the token is not one for the web.
VerifyRefused(r) == ~got[r].web /\ DropGot(r)

\* 403, 429, 5xx, a timeout or a network error, with a token of any kind.
VerifyTransient(r) == DropGot(r)

---------------------------------------------------------------------------
(* RefreshAuto: the session token, and the outcome                         *)

\* A session token gives an access token for the web and no refresh token.
STRefreshed(r) ==
    /\ pc[r] = "st"
    /\ snap[r].st
    /\ got' = [got EXCEPT ![r] = [rt |-> "none", web |-> TRUE]]
    /\ pc' = [pc EXCEPT ![r] = "apply"]
    /\ UNCHANGED <<row, snap, edit>>

\* Refused, unreachable, or there is none.
STFailed(r) ==
    /\ pc[r] = "st"
    /\ pc' = [pc EXCEPT ![r] = "failed"]
    /\ UNCHANGED <<row, snap, got, edit>>

Finish(r) ==
    /\ pc' = [pc EXCEPT ![r] = "idle"]
    /\ snap' = [snap EXCEPT ![r] = [rt |-> "none", st |-> FALSE]]
    /\ got' = [got EXCEPT ![r] = NothingGot]

Revived(s) == IF s \in {"dead", "suspicious"} THEN "healthy" ELSE s

\* Mutant: a refresh without rotation clears the stored refresh token.
ApplyRefreshResultClears(r) ==
    /\ pc[r] = "apply"
    /\ IF Listed
       THEN left' = Life /\ rt' = got[r].rt /\ status' = Revived(status)
       ELSE UNCHANGED <<left, rt, status>>
    /\ Finish(r)
    /\ UNCHANGED <<place, st, edit>>

\* Mutant: the UPDATE has no deleted_at condition.
ApplyRefreshResultDeleted(r) ==
    /\ pc[r] = "apply"
    /\ place # "purged"
    /\ left' = Life
    /\ rt' = IF got[r].rt # "none" THEN got[r].rt ELSE rt
    /\ status' = Revived(status)
    /\ Finish(r)
    /\ UNCHANGED <<place, st, edit>>

\* The UPDATE matches no row once the account is deleted, and is no error.
ApplyRefreshResult(r) ==
    /\ pc[r] = "apply"
    /\ IF Listed
       THEN /\ left' = Life
            /\ rt' = IF got[r].rt # "none" THEN got[r].rt ELSE rt
            /\ status' = Revived(status)
       ELSE UNCHANGED <<left, rt, status>>
    /\ Finish(r)
    /\ UNCHANGED <<place, st, edit>>

\* Mutant: markDead means dead.
RecordRefreshErrorDead(r) ==
    /\ pc[r] = "failed"
    /\ status' = IF Listed THEN "dead" ELSE status
    /\ Finish(r)
    /\ UNCHANGED <<place, rt, st, left, edit>>

\* The verdict uses the expiry in the row, not the one that was listed.
RecordRefreshError(r) ==
    /\ pc[r] = "failed"
    /\ status' = IF ~Listed THEN status
                 ELSE IF left > 0 THEN "warned" ELSE "dead"
    /\ Finish(r)
    /\ UNCHANGED <<place, rt, st, left, edit>>

\* Either statement fails; the second error is ignored by the caller.
WriteError(r) ==
    /\ pc[r] \in {"apply", "failed"}
    /\ Finish(r)
    /\ UNCHANGED <<row, edit>>

\* The administrator's request ends: every later call of the refresh fails
\* on its context, the one that would record the failure too.
RequestCancelled(r) ==
    /\ r # Scanner
    /\ pc[r] # "idle"
    /\ Finish(r)
    /\ UNCHANGED <<row, edit>>

RefreshStep(r) ==
    \/ RTRotated(r)
    \/ RTUnrotated(r)
    \/ RTFailed(r)
    \/ RTAnswerLost(r)
    \/ VerifyOK(r)
    \/ VerifyRefused(r)
    \/ VerifyTransient(r)
    \/ STRefreshed(r)
    \/ STFailed(r)
    \/ ApplyRefreshResult(r)
    \/ RecordRefreshError(r)
    \/ WriteError(r)

---------------------------------------------------------------------------
(* Administrators                                                          *)

\* openEdit fills the form with the tokens of the row (GetSecrets).
OpenForm ==
    /\ edit.stage = "none"
    /\ Listed
    /\ edit' = [stage |-> "form", rt |-> rt]
    /\ UNCHANGED <<row, refresh>>

\* Service.Update lays what the form sends over the row and writes all of
\* it: the tokens and the expiry the form was opened with, an expiry that is
\* not later than the row's, and the status picked in it.  A token the form
\* does not have is left alone.
Update ==
    /\ edit.stage = "form"
    /\ IF Listed
       THEN /\ rt' = IF edit.rt # "none" THEN edit.rt ELSE rt
            /\ left' \in 0 .. left
            /\ status' \in Statuses
       ELSE UNCHANGED <<rt, left, status>>
    /\ edit' = NoEdit
    /\ UNCHANGED <<place, st, refresh>>

CloseForm ==
    /\ edit.stage = "form"
    /\ edit' = NoEdit
    /\ UNCHANGED <<row, refresh>>

\* importOne reads the row and lays a new access token over it.
ImportRead ==
    /\ edit.stage = "none"
    /\ Listed
    /\ edit' = [stage |-> "import", rt |-> rt]
    /\ UNCHANGED <<row, refresh>>

\* The same with a refresh token of a new login, which ends the old one.
ImportReadRT ==
    /\ edit.stage = "none"
    /\ Listed
    /\ edit' = [stage |-> "import", rt |-> "live"]
    /\ SpendCopies
    /\ got' = [q \in Refreshers |-> [got[q] EXCEPT !.rt = Spent(@)]]
    /\ UNCHANGED <<place, status, st, left, pc>>

\* DAO.Update writes every column that was read, changed or not: the status
\* is the one read then, a dead account counting as revived.  The import may
\* bring a session token.
ImportWrite ==
    /\ edit.stage = "import"
    /\ IF Listed
       THEN /\ rt' = edit.rt
            /\ st' \in {st, TRUE}
            /\ left' = Life
            /\ status' \in {Revived(s) : s \in Statuses}
       ELSE UNCHANGED <<rt, st, left, status>>
    /\ edit' = NoEdit
    /\ UNCHANGED <<place, refresh>>

SoftDelete ==
    /\ Listed
    /\ place' = "deleted"
    /\ UNCHANGED <<status, rt, st, left, refresh, edit>>

Restore ==
    /\ place = "deleted"
    /\ place' = "listed"
    /\ UNCHANGED <<status, rt, st, left, refresh, edit>>

\* The row is gone, its columns with it.
Purge ==
    /\ place = "deleted"
    /\ place' = "purged"
    /\ rt' = "none"
    /\ st' = FALSE
    /\ left' = 0
    /\ status' = "dead"
    /\ UNCHANGED <<refresh, edit>>

---------------------------------------------------------------------------
(* Requests on the account, upstream, and time                             *)

\* MarkRateLimited, MarkWarned and MarkDead, by a request that was given the
\* account at some time: an UPDATE without a condition.
SetStatus ==
    /\ place # "purged"
    /\ status' \in {"throttled", "warned", "dead"}
    /\ UNCHANGED <<place, rt, st, left, refresh, edit>>

\* Upstream ends the login.
RevokeRT ==
    /\ SpendCopies
    /\ got' = [q \in Refreshers |-> [got[q] EXCEPT !.rt = Spent(@)]]
    /\ edit' = [edit EXCEPT !.rt = Spent(@)]
    /\ UNCHANGED <<place, status, st, left, pc>>

Tick ==
    /\ left > 0
    /\ left' = left - 1
    /\ UNCHANGED <<place, status, rt, st, refresh, edit>>

Next ==
    \/ ListNeedRefresh
    \/ StartListed
    \/ \E r \in Refreshers :
           RefreshByID(r) \/ RefreshStep(r) \/ RequestCancelled(r)
    \/ OpenForm \/ Update \/ CloseForm
    \/ ImportRead \/ ImportReadRT \/ ImportWrite
    \/ SoftDelete \/ Restore \/ Purge
    \/ SetStatus
    \/ RevokeRT
    \/ Tick

Spec == Init /\ [][Next]_vars

(***************************************************************************)
(* The scan is repeated for ever (Run), every HTTP call of a refresh times *)
(* out, a write that has begun ends, MySQL does not refuse the scan's      *)
(* writes for ever, and time passes.  Nothing makes an administrator or    *)
(* upstream do anything.                                                   *)
(***************************************************************************)
Fairness ==
    /\ WF_vars(ListNeedRefresh)
    /\ WF_vars(StartListed)
    /\ \A r \in Refreshers : WF_vars(RefreshStep(r))
    /\ SF_vars(ApplyRefreshResult(Scanner) \/ RecordRefreshError(Scanner))
    /\ WF_vars(ImportWrite)
    /\ WF_vars(Tick)

FairSpec == Spec /\ Fairness

---------------------------------------------------------------------------
(* Properties                                                              *)

\* Every variable keeps to its domain.
TypeOK ==
    /\ place \in {"listed", "deleted", "purged"}
    /\ status \in Statuses
    /\ rt \in Tokens
    /\ st \in BOOLEAN
    /\ left \in 0 .. Life
    /\ pc \in [Refreshers ->
                {"idle", "listed", "rt", "verify", "st", "apply", "failed"}]
    /\ snap \in [Refreshers -> [rt : Tokens, st : BOOLEAN]]
    /\ got \in [Refreshers -> [rt : Tokens, web : BOOLEAN]]
    /\ edit \in [stage : {"none", "form", "import"}, rt : Tokens]

\* The server has a refresh token that upstream takes: in the row, or in the
\* hands of whoever is about to write it.
HasRT ==
    \/ rt = "live"
    \/ \E r \in Refreshers : got[r].rt = "live"
    \/ edit.stage = "import" /\ edit.rt = "live"

\* The steps that may cost the account its refresh token: upstream ends the
\* login or its answer is lost, a rotated token is thrown away (failed
\* verification, failed write, cancelled request, account deleted meanwhile),
\* an administrator writes back or purges what was read earlier, or a refresh
\* that began before new tokens were imported ends after it.
LosesRT ==
    \/ RevokeRT
    \/ Purge
    \/ (Update \/ ImportWrite) /\ (~Listed \/ edit.rt # rt)
    \/ \E r \in Refreshers :
          \/ RTAnswerLost(r)
          \/ DropGot(r)
          \/ WriteError(r)
          \/ RequestCancelled(r)
          \/ ApplyRefreshResult(r) /\ (~Listed \/ got[r].rt = "used")

\* The refresh token survives everything else: overlapping refreshes of one
\* account, where the late one presents a token the early one has rotated and
\* falls back to the session token, do not lose the rotated token
\* (RefreshAuto, ApplyRefreshResult).
RTKept == [][HasRT /\ ~HasRT' => LosesRT]_vars

\* What may make an account unusable besides the refresher.
Condemned == Update \/ SetStatus \/ Purge

\* A refresh never declares an account dead whose access token is good, even
\* when it read the row before another refresh renewed it
\* (RecordRefreshError).
DeadOnlyExpired ==
    [][status # "dead" /\ status' = "dead" => left = 0 \/ Condemned]_vars

\* Nobody writes credentials into a deleted account, although refreshes and
\* edits that began before the deletion end after it (the deleted_at
\* condition of ApplyRefreshResult, RecordRefreshError and Update).
DeletedFrozen ==
    [][~Listed /\ place' = "deleted" =>
           /\ rt' \in {rt, Spent(rt)}
           /\ st' = st
           /\ left' <= left
           /\ status' = status \/ SetStatus]_vars

\* An account whose access token is about to expire does not stay so: it is
\* refreshed, declared dead or removed (Run, scanOnce).
Attended == Due ~> ~Due

\* The comment on verifyATOnWeb says that 403, 429, 5xx and network errors
\* are no evidence against the new access token: an account whose refresh
\* works keeps a usable refresh token when the verification gets no answer.
TransientHarmless ==
    [][\A r \in Refreshers :
           got[r].web /\ got[r].rt = "live" /\ VerifyTransient(r) => HasRT']_vars
============================================================================
