----------------------------- MODULE EmailCode -----------------------------
(***************************************************************************)
(* The e-mail codes of registrations (internal/auth/service.go): Redis     *)
(* keeps the code of an address, a cooldown mark, and counters per address *)
(* and per IP that limit how often codes are sent.  A request checks       *)
(* them, stores the code, mails it and only then counts it, in separate    *)
(* Redis calls.  All requests come from one IP.                            *)
(***************************************************************************)
EXTENDS Integers, FiniteSets

CONSTANTS
    Addresses,      \* e-mail addresses
    Senders,        \* requests for a code
    EmailLimit,     \* codes per address and window
    IPLimit,        \* codes per IP and window
    MMaxFaults      \* bound on failing calls and crashes

ASSUME EmailCodeAssumption ==
    /\ IsFiniteSet(Addresses)
    /\ IsFiniteSet(Senders)
    /\ EmailLimit \in Nat \ {0}
    /\ IPLimit \in Nat \ {0}
    /\ MMaxFaults \in Nat

IP == "ip"

ASSUME EmailCodeKeys == IP \notin Addresses

Counters == Addresses \cup {IP}
LimitOf(k) == IF k = IP THEN IPLimit ELSE EmailLimit

VARIABLES
    mValue,     \* the stored code of an address, 0 for none
    mCool,      \* addresses in cooldown
    mRate,      \* the counters, and whether their key has a TTL
    mSend,      \* the requests
    mMailed,    \* addresses whose stored code has reached the user
    mWindow,    \* mails sent since the counter of the address last expired
    mFaults     \* failures so far

mVars == <<mValue, mCool, mRate, mSend, mMailed, mWindow, mFaults>>

MIdle == [pc |-> "idle"]

MInit ==
    /\ mValue = [a \in Addresses |-> 0]
    /\ mCool = {}
    /\ mRate = [k \in Counters |-> [n |-> 0, ttl |-> FALSE]]
    /\ mSend = [s \in Senders |-> MIdle]
    /\ mMailed = {}
    /\ mWindow = [a \in Addresses |-> 0]
    /\ mFaults = 0

\* Types of the Redis keys and of the requests.
EmailCodeType ==
    /\ mValue \in [Addresses -> Nat]
    /\ mCool \subseteq Addresses /\ mMailed \subseteq Addresses
    /\ mRate \in [Counters -> [n : Nat, ttl : BOOLEAN]]
    /\ \A s \in Senders :
          mSend[s].pc \in {"idle", "value", "cooldown", "mail", "incr", "expire"}

MFault == mFaults < MMaxFaults /\ mFaults' = mFaults + 1

Goes(s, pc) == mSend' = [mSend EXCEPT ![s].pc = pc]
Ends(s) == mSend' = [mSend EXCEPT ![s] = MIdle]

-----------------------------------------------------------------------------
(* Sending.                                                                *)

\* Mutant: the limit itself is still allowed.
SendAllowedAtLimit(a) ==
    a \notin mCool /\ mRate[a].n <= EmailLimit /\ mRate[IP].n <= IPLimit

\* ensureRegisterEmailCodeSendAllowed.
SendAllowed(a) ==
    a \notin mCool /\ mRate[a].n < EmailLimit /\ mRate[IP].n < IPLimit

\* A code that is neither stored nor under way.
NewCode ==
    LET used == {mValue[a] : a \in Addresses}
                \cup {mSend[s].code : s \in {t \in Senders : mSend[t].pc # "idle"}}
    IN CHOOSE c \in 1 .. (Cardinality(Senders) + Cardinality(Addresses)) : c \notin used

SendBegins(s, a) ==
    /\ mSend[s].pc = "idle"
    /\ SendAllowed(a)
    /\ mSend' = [mSend EXCEPT ![s] = [pc |-> "value", to |-> a, code |-> NewCode, key |-> a]]
    /\ UNCHANGED <<mValue, mCool, mRate, mMailed, mWindow, mFaults>>

SetValue(s) ==
    /\ mSend[s].pc = "value"
    /\ mValue' = [mValue EXCEPT ![mSend[s].to] = mSend[s].code]
    /\ mMailed' = mMailed \ {mSend[s].to}
    /\ Goes(s, "cooldown")
    /\ UNCHANGED <<mCool, mRate, mWindow, mFaults>>

SetCooldown(s) ==
    /\ mSend[s].pc = "cooldown"
    /\ mCool' = mCool \cup {mSend[s].to}
    /\ Goes(s, "mail")
    /\ UNCHANGED <<mValue, mRate, mMailed, mWindow, mFaults>>

\* The code of an address is gone.
NoCode(a) ==
    /\ mValue' = [mValue EXCEPT ![a] = 0]
    /\ mMailed' = mMailed \ {a}

\* The cooldown cannot be set: the code is deleted again.
CooldownFails(s) ==
    /\ mSend[s].pc = "cooldown"
    /\ MFault
    /\ NoCode(mSend[s].to)
    /\ Ends(s)
    /\ UNCHANGED <<mCool, mRate, mWindow>>

MailSent(s) ==
    /\ mSend[s].pc = "mail"
    /\ mMailed' = IF mValue[mSend[s].to] = mSend[s].code THEN mMailed \cup {mSend[s].to} ELSE mMailed
    /\ mWindow' = [mWindow EXCEPT ![mSend[s].to] = @ + 1]
    /\ Goes(s, "incr")
    /\ UNCHANGED <<mValue, mCool, mRate, mFaults>>

\* Mutant: only the cooldown is lifted.
MailFailsKeepsCode(s) ==
    /\ mSend[s].pc = "mail"
    /\ mCool' = mCool \ {mSend[s].to}
    /\ Ends(s)
    /\ UNCHANGED <<mValue, mRate, mMailed, mWindow, mFaults>>

\* The mail cannot be sent: code and cooldown are deleted, whosever they are.
MailFails(s) ==
    /\ mSend[s].pc = "mail"
    /\ NoCode(mSend[s].to)
    /\ mCool' = mCool \ {mSend[s].to}
    /\ Ends(s)
    /\ UNCHANGED <<mRate, mWindow, mFaults>>

\* bumpRegisterEmailCodeRate: INCR keeps the TTL of the key, if it has one.
Incr(s) ==
    /\ mSend[s].pc = "incr"
    /\ mRate' = [mRate EXCEPT ![mSend[s].key].n = @ + 1]
    /\ Goes(s, "expire")
    /\ UNCHANGED <<mValue, mCool, mMailed, mWindow, mFaults>>

\* Mutant: only the first count gets a TTL.
ExpiresFirst(k) == mRate[k].n = 1

\* A key without TTL gets one, the first count too.
Expires(k) == ~mRate[k].ttl \/ mRate[k].n = 1

\* Then the counter of the IP, then the answer.
ExpireKey(s) ==
    LET k == mSend[s].key
    IN /\ mSend[s].pc = "expire"
       /\ mRate' = IF Expires(k) THEN [mRate EXCEPT ![k].ttl = mRate[k].n > 0] ELSE mRate
       /\ mSend' = [mSend EXCEPT ![s] = IF k = IP THEN MIdle ELSE [@ EXCEPT !.pc = "incr", !.key = IP]]
       /\ UNCHANGED <<mValue, mCool, mMailed, mWindow, mFaults>>

\* The process dies, or Redis fails: the errors of the counters are dropped.
SenderDies(s) ==
    /\ mSend[s].pc # "idle"
    /\ MFault
    /\ Ends(s)
    /\ UNCHANGED <<mValue, mCool, mRate, mMailed, mWindow>>

-----------------------------------------------------------------------------
(* The others.                                                             *)

\* Register consumes a code the user has got, by comparing and deleting in
\* one Lua script.
Consume(a) ==
    /\ mValue[a] # 0 /\ a \in mMailed
    /\ NoCode(a)
    /\ UNCHANGED <<mCool, mRate, mSend, mWindow, mFaults>>

\* A TTL ends.
ValueExpires(a) ==
    /\ mValue[a] # 0
    /\ NoCode(a)
    /\ UNCHANGED <<mCool, mRate, mSend, mWindow, mFaults>>

CooldownExpires(a) ==
    /\ a \in mCool
    /\ mCool' = mCool \ {a}
    /\ UNCHANGED <<mValue, mRate, mSend, mMailed, mWindow, mFaults>>

CounterExpires(k) ==
    /\ mRate[k].ttl
    /\ mRate' = [mRate EXCEPT ![k] = [n |-> 0, ttl |-> FALSE]]
    /\ mWindow' = IF k = IP THEN mWindow ELSE [mWindow EXCEPT ![k] = 0]
    /\ UNCHANGED <<mValue, mCool, mSend, mMailed, mFaults>>

SenderStep(s) ==
    SetValue(s) \/ SetCooldown(s) \/ MailSent(s) \/ MailFails(s) \/ Incr(s) \/ ExpireKey(s)

MNext ==
    \/ \E s \in Senders :
          \/ SenderStep(s) \/ CooldownFails(s) \/ SenderDies(s)
          \/ \E a \in Addresses : SendBegins(s, a)
    \/ \E a \in Addresses : Consume(a) \/ ValueExpires(a) \/ CooldownExpires(a)
    \/ \E k \in Counters : CounterExpires(k)

MSpec == MInit /\ [][MNext]_mVars

-----------------------------------------------------------------------------
(* Properties.                                                             *)

\* Every code that could register somebody was mailed or is being mailed:
\* overlapping requests for one address, whose mails arrive or fail in any
\* order, leave no other one behind, unless a request died.
StoredCodeWasMailed ==
    \A a \in Addresses :
        mValue[a] # 0 /\ mFaults = 0 =>
            \/ a \in mMailed
            \/ \E s \in Senders : mSend[s].pc # "idle" /\ mSend[s].code = mValue[a]

\* The counters are read before the mail and raised after it.  In a window
\* an address gets at most one mail more per request that runs beside
\* another, and one per count that was lost.
MailsBounded ==
    \A a \in Addresses :
        mWindow[a] <= EmailLimit - 1 + Cardinality(Senders) + mFaults

\* An address or IP at its limit gets out of it again: its counter has a TTL
\* or is about to get one.  A request that died between INCR and EXPIRE leaves
\* a counter without, which the next count repairs; only as many deaths in a
\* row as the limit allows counts would leave one that never ends.
LimitHasTTL ==
    \A k \in Counters :
        mRate[k].n >= LimitOf(k) =>
            \/ mRate[k].ttl
            \/ \E s \in Senders : mSend[s].pc = "expire" /\ mSend[s].key = k
            \/ mFaults >= LimitOf(k)
=============================================================================
