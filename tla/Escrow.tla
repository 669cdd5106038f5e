------------------------------- MODULE Escrow -------------------------------
(***************************************************************************)
(* What the credit engine promises its callers (the package comment of     *)
(* internal/billing: pre-deduct, settle, refund as a closed loop): every   *)
(* request has an escrow of its own, which is filled once from available   *)
(* credits and emptied once, either back to the user or in exchange for a  *)
(* charge.  There is no shared counter here: the escrow of one request     *)
(* cannot be used by another.                                              *)
(***************************************************************************)
EXTENDS Integers

CONSTANTS Users, Requests, Owner

VARIABLES
    avail,      \* credits a user can spend
    held,       \* credits in the escrow of a request
    charged,    \* credits a request cost
    phase,      \* "new", "held" or "closed"
    grants      \* how often credits came from, or went, outside

evars == <<avail, held, charged, phase, grants>>

EInit ==
    /\ avail = [u \in Users |-> 0]
    /\ held = [r \in Requests |-> 0]
    /\ charged = [r \in Requests |-> 0]
    /\ phase = [r \in Requests |-> "new"]
    /\ grants = 0

\* A hold is granted only out of available credits.
Fill(r) ==
    /\ phase[r] = "new"
    /\ \E a \in 1 .. avail[Owner[r]] :
          /\ held' = [held EXCEPT ![r] = a]
          /\ avail' = [avail EXCEPT ![Owner[r]] = @ - a]
    /\ phase' = [phase EXCEPT ![r] = "held"]
    /\ UNCHANGED <<charged, grants>>

\* The escrow is emptied: cost is kept, the rest goes back.
Empty(r) ==
    /\ phase[r] # "closed"
    /\ held' = [held EXCEPT ![r] = 0]
    /\ charged'[r] >= 0
    /\ charged' = [charged EXCEPT ![r] = charged'[r]]
    /\ avail' = [avail EXCEPT ![Owner[r]] = @ + held[r] - charged'[r]]
    /\ phase' = [phase EXCEPT ![r] = "closed"]
    /\ UNCHANGED grants

\* Requests end without ever having held or cost anything.
Abandon(S) ==
    /\ \A r \in S : phase[r] = "new"
    /\ phase' = [r \in Requests |-> IF r \in S THEN "closed" ELSE phase[r]]
    /\ UNCHANGED <<avail, held, charged, grants>>

\* Credits bought, won, granted or withdrawn; a withdrawal needs the credits.
\* Nothing but a grant, a fill and an empty changes what a user can spend.
Grant(u) ==
    /\ grants' = grants + 1
    /\ avail'[u] >= avail[u] \/ avail'[u] >= 0
    /\ avail' = [avail EXCEPT ![u] = avail'[u]]
    /\ UNCHANGED <<held, charged, phase>>

ENext ==
    \/ \E r \in Requests : Fill(r) \/ Empty(r)
    \/ \E S \in SUBSET Requests : Abandon(S)
    \/ \E u \in Users : Grant(u)

ESpec == EInit /\ [][ENext]_evars
=============================================================================
