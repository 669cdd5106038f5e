------------------------------ MODULE MCEntry ------------------------------
(***************************************************************************)
(* How users and their credits enter the system, and what stands before    *)
(* every request they make: recharge orders, redemption codes and daily    *)
(* check-ins, accounts and registration, e-mail codes, API keys, the rate  *)
(* limiter and the usage log.  The components share no state that these    *)
(* modules describe, so one behaviour exercises one of them, chosen at the *)
(* start.                                                                  *)
(***************************************************************************)
EXTENDS RechargeOrders, Grants, Identity, EmailCode, ApiKeys, RateLimit, UsageLog

CONSTANTS u1, u2, o1, o2, h1, h2, c1, c2, e1, e2

VARIABLE part       \* the component a behaviour exercises

MCBuyer == [o \in Orders |-> u1]
MCPrice == [o \in Orders |-> 2]
MCCredits == [o \in Orders |-> 3]

entryVars == <<part, vars, gVars, iVars, mVars, kVars, rVars, uVars>>

EntryInit ==
    /\ part \in {"recharge", "grants", "identity", "email", "keys", "rate", "usage"}
    /\ Init /\ GInit /\ IInit /\ MInit /\ KInit /\ RInit /\ UInit
    /\ part # "grants" => gReward = 0

Buying(A) ==
    part = "recharge" /\ A /\ UNCHANGED <<part, gVars, iVars, mVars, kVars, rVars, uVars>>
Granting(A) ==
    part = "grants" /\ A /\ UNCHANGED <<part, vars, iVars, mVars, kVars, rVars, uVars>>
Joining(A) ==
    part = "identity" /\ A /\ UNCHANGED <<part, vars, gVars, mVars, kVars, rVars, uVars>>
Mailing(A) ==
    part = "email" /\ A /\ UNCHANGED <<part, vars, gVars, iVars, kVars, rVars, uVars>>
Keying(A) ==
    part = "keys" /\ A /\ UNCHANGED <<part, vars, gVars, iVars, mVars, rVars, uVars>>
Limiting(A) ==
    part = "rate" /\ A /\ UNCHANGED <<part, vars, gVars, iVars, mVars, kVars, uVars>>
Logging(A) ==
    part = "usage" /\ A /\ UNCHANGED <<part, vars, gVars, iVars, mVars, kVars, rVars>>

EntryNext ==
    \/ Buying(Next)
    \/ Granting(GNext)
    \/ Joining(INext)
    \/ Mailing(MNext)
    \/ Keying(KNext)
    \/ Limiting(RNext)
    \/ Logging(UNext)

\* The payment platform repeats its notice, a transaction ends, and the
\* goroutine of the usage log and its ticker go on.
EntrySpec ==
    /\ EntryInit /\ [][EntryNext]_entryVars
    /\ \A h \in Handlers : WF_entryVars(Buying(Serve(h)))
    /\ \A o \in Orders : SF_entryVars(Buying(\E h \in Handlers : Notify(h, o)))
    /\ \A h \in GHandlers : WF_entryVars(Granting(GStep(h)))
    /\ WF_entryVars(Logging(Take \/ Drained))
    /\ WF_entryVars(Logging(TickFlush))

-----------------------------------------------------------------------------
(* Properties.                                                             *)

\* Who gets in: administrators who made themselves such registered at the
\* same time, an administrator does not remove the last one by a single
\* request about itself, a stored code was mailed, the mails of a window are
\* bounded, and no counter stays at its limit (the guards of registerRole,
\* user Update and Delete, and ensureRegisterEmailCodeSendAllowed).
MembersSound ==
    /\ IdentityType /\ SelfMadeAdminsOverlap /\ LastAdminKept
    /\ EmailCodeType /\ StoredCodeWasMailed /\ MailsBounded /\ LimitHasTTL

\* What stands before a request: a key's usage and limits, the tokens a rate
\* bucket hands out, and the rows of the usage log, none of which overlapping
\* requests can falsify beyond the bounds stated (KeysSound, RateBounded,
\* UsageAccounted).
AccessSound == KeysSound /\ RateBounded /\ UsageAccounted

\* Every grant's transaction ends and lets the next one have its lock, and
\* Close of the usage log returns although handlers keep writing (liveness).
EntryEnds == GrantsEnd /\ CloseReturns
=============================================================================
