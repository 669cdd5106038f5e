------------------------------ MODULE ApiKeys ------------------------------
(***************************************************************************)
(* The API keys of one user (internal/apikey): creation against a count    *)
(* taken before, the hidden playground key, which is told from the others  *)
(* by its name alone, edits that write back the row they read, and         *)
(* requests that are admitted by the row as it was and charge the key when *)
(* they end.                                                               *)
(***************************************************************************)
EXTENDS Integers, FiniteSets

CONSTANTS
    KKeys,          \* ids of keys, positive numbers in the order of insertion
    KHandlers,      \* HTTP requests
    KeyMaxPerUser,  \* settings: keys a user may have, 0 for no limit
    KQuotas,        \* quotas users ask for
    KeyDefaultQuota,\* settings: quota of a key created without one
    KMaxPrice,      \* the highest price of a request
    KMaxEvents      \* bound on edits and requests

ASSUME ApiKeysAssumption ==
    /\ KKeys \subseteq Nat \ {0} /\ IsFiniteSet(KKeys) /\ IsFiniteSet(KHandlers)
    /\ KeyMaxPerUser \in Nat /\ KeyDefaultQuota \in Nat /\ KQuotas \subseteq Nat /\ KMaxPrice \in Nat
    /\ KMaxEvents \in Nat

VARIABLES
    kRow,       \* api_keys
    kReq,       \* the requests
    kSpent,     \* what the requests of a key have cost
    kForced,    \* keys switched off and not switched on by anybody since
    kStale,     \* keys an edit wrote back from a row read before another edit
    kRaised,    \* keys whose quota was edited
    kNamed,     \* keys the user gave the reserved name to, or took it from
    kBeside,    \* keys a request was admitted to while another was under way
    kCrowded,   \* a creation counted while another was about to insert
    kEvents     \* events so far

kVars == <<kRow, kReq, kSpent, kForced, kStale, kRaised, kNamed, kBeside, kCrowded, kEvents>>

\* reserved: the name is InternalKeyName, "__playground__", which no index makes
\* unique and no check keeps users from choosing.  known: the user was shown the
\* key; that of EnsureInternalKey is thrown away.
NoKey == [state |-> "none", reserved |-> FALSE, known |-> FALSE, limit |-> 0, used |-> 0, on |-> FALSE, rev |-> 0]
KIdle == [pc |-> "idle"]

KInit ==
    /\ kRow = [k \in KKeys |-> NoKey]
    /\ kReq = [h \in KHandlers |-> KIdle]
    /\ kSpent = [k \in KKeys |-> 0]
    /\ kForced = {} /\ kStale = {} /\ kRaised = {} /\ kNamed = {} /\ kBeside = {}
    /\ kCrowded = FALSE
    /\ kEvents = 0

KEvent == kEvents < KMaxEvents /\ kEvents' = kEvents + 1

LiveKey(k) == kRow[k].state = "live"
Visible == {k \in KKeys : LiveKey(k) /\ ~kRow[k].reserved}
Internal == {k \in KKeys : LiveKey(k) /\ kRow[k].reserved}

\* The id the next INSERT gets.
NextId(k) ==
    /\ kRow[k].state = "none"
    /\ \A j \in KKeys : j < k => kRow[j].state # "none"

-----------------------------------------------------------------------------
(* Creation.                                                               *)

\* Mutant: the comparison is off by one.
MayCreateOneMore == KeyMaxPerUser = 0 \/ Cardinality(Visible) <= KeyMaxPerUser

\* CountActiveByUser: keys that exist and do not have the reserved name.
MayCreate == KeyMaxPerUser = 0 \/ Cardinality(Visible) < KeyMaxPerUser

Crowds == kCrowded' = (kCrowded \/ \E h \in KHandlers : kReq[h].pc = "insert")

\* Create counts first, whatever the name.  The quota of the input, or the
\* default.
CreateCounts(h, quota, reserved) ==
    /\ kReq[h] = KIdle
    /\ MayCreate
    /\ kReq' = [kReq EXCEPT ![h] = [pc |-> "insert", reserved |-> reserved, known |-> TRUE,
                                    limit |-> IF quota > 0 THEN quota ELSE KeyDefaultQuota]]
    /\ Crowds
    /\ UNCHANGED <<kRow, kSpent, kForced, kStale, kRaised, kNamed, kBeside, kEvents>>

\* EnsureInternalKey found no playground key.
EnsureInternalKey(h) ==
    /\ kReq[h] = KIdle
    /\ Internal = {}
    /\ kReq' = [kReq EXCEPT ![h] = [pc |-> "insert", reserved |-> TRUE, known |-> FALSE, limit |-> 0]]
    /\ Crowds
    /\ UNCHANGED <<kRow, kSpent, kForced, kStale, kRaised, kNamed, kBeside, kEvents>>

\* The INSERT.  A playground request goes on with the key it made.
Insert(h, k, price) ==
    LET q == kReq[h]
    IN /\ q.pc = "insert"
       /\ NextId(k)
       /\ kRow' = [kRow EXCEPT ![k] = [state |-> "live", reserved |-> q.reserved, known |-> q.known,
                                       limit |-> q.limit, used |-> 0, on |-> TRUE, rev |-> 0]]
       /\ kReq' = [kReq EXCEPT ![h] =
                      IF q.known THEN KIdle ELSE [pc |-> "serve", key |-> k, price |-> price]]
       /\ kNamed' = IF q.known /\ q.reserved THEN kNamed \cup {k} ELSE kNamed
       /\ UNCHANGED <<kSpent, kForced, kStale, kRaised, kBeside, kCrowded, kEvents>>

-----------------------------------------------------------------------------
(* Edits: GetByID, then UPDATE with the whole row.                         *)

\* The user's form always carries a quota (0 when the field is missing), name
\* and switch are optional; an administrator sends only the switch.
Keep == -1
Edits ==
    [quota : KQuotas, on : {"keep", "on", "off"}, name : {"keep", "ordinary", "reserved"}]
    \cup [quota : {Keep}, on : {"on", "off"}, name : {"keep"}]

EditReads(h, k, edit) ==
    /\ kReq[h] = KIdle
    /\ LiveKey(k)
    /\ KEvent
    /\ kReq' = [kReq EXCEPT ![h] = [pc |-> "edit", key |-> k, row |-> kRow[k], edit |-> edit]]
    /\ UNCHANGED <<kRow, kSpent, kForced, kStale, kRaised, kNamed, kBeside, kCrowded>>

Edited(old, edit) ==
    [old EXCEPT !.limit = IF edit.quota = Keep THEN @ ELSE edit.quota,
                !.on = IF edit.on = "keep" THEN @ ELSE edit.on = "on",
                !.reserved = IF edit.name = "keep" THEN @ ELSE edit.name = "reserved"]

\* Mutant: the UPDATE writes quota_used as well.
WrittenWhole(cur, new) == [new EXCEPT !.rev = cur.rev + 1]

\* Mutant: a form without the switch turns the key on.
WrittenOn(cur, new) ==
    [cur EXCEPT !.limit = new.limit, !.on = TRUE, !.reserved = new.reserved, !.rev = @ + 1]

\* The columns of the UPDATE: quota_used is not among them.
Written(cur, new) ==
    [cur EXCEPT !.limit = new.limit, !.on = new.on, !.reserved = new.reserved, !.rev = @ + 1]

EditWrites(h) ==
    LET q == kReq[h]
        cur == kRow[q.key]
    IN /\ q.pc = "edit"
       /\ kReq' = [kReq EXCEPT ![h] = KIdle]
       /\ IF LiveKey(q.key)
          THEN /\ kRow' = [kRow EXCEPT ![q.key] = Written(@, Edited(q.row, q.edit))]
               /\ kStale' = IF cur.rev # q.row.rev THEN kStale \cup {q.key} ELSE kStale
               /\ kForced' = CASE q.edit.on = "off" -> kForced \cup {q.key}
                               [] q.edit.on = "on" -> kForced \ {q.key}
                               [] OTHER -> kForced
               /\ kRaised' = kRaised \cup {q.key}
               /\ kNamed' = IF kRow'[q.key].reserved # cur.reserved THEN kNamed \cup {q.key} ELSE kNamed
          ELSE UNCHANGED <<kRow, kStale, kForced, kRaised, kNamed>>
       /\ UNCHANGED <<kSpent, kBeside, kCrowded, kEvents>>

Delete(k) ==
    /\ LiveKey(k)
    /\ KEvent
    /\ kRow' = [kRow EXCEPT ![k].state = "deleted"]
    /\ UNCHANGED <<kReq, kSpent, kForced, kStale, kRaised, kNamed, kBeside, kCrowded>>

-----------------------------------------------------------------------------
(* Requests.                                                               *)

\* Mutant: the quota is compared too late.
WithinQuotaLate(k) == kRow[k].limit = 0 \/ kRow[k].used <= kRow[k].limit

WithinQuota(k) == kRow[k].limit = 0 \/ kRow[k].used < kRow[k].limit

Admitted(h, k, price) ==
    /\ kReq' = [kReq EXCEPT ![h] = [pc |-> "serve", key |-> k, price |-> price]]
    /\ kBeside' = IF \E g \in KHandlers : kReq[g].pc = "serve" /\ kReq[g].key = k
                  THEN kBeside \cup {k} ELSE kBeside

\* GetByHash and the checks of Verify (a limit of 0 is no limit): any key the
\* user was shown, whatever its name.
Verify(h, k, price) ==
    /\ kReq[h] = KIdle
    /\ LiveKey(k) /\ kRow[k].on /\ kRow[k].known
    /\ WithinQuota(k)
    /\ KEvent
    /\ Admitted(h, k, price)
    /\ UNCHANGED <<kRow, kSpent, kForced, kStale, kRaised, kNamed, kCrowded>>

\* A playground request takes the newest key of the reserved name, whoever made
\* it, on or off and whatever its quota.
Playground(h, k, price) ==
    /\ kReq[h] = KIdle
    /\ k \in Internal /\ \A j \in Internal : j <= k
    /\ KEvent
    /\ Admitted(h, k, price)
    /\ UNCHANGED <<kRow, kSpent, kForced, kStale, kRaised, kNamed, kCrowded>>

\* quota_used = quota_used + price, whatever became of the key.
TouchUsage(h) ==
    LET q == kReq[h]
    IN /\ q.pc = "serve"
       /\ kRow' = [kRow EXCEPT ![q.key].used = @ + q.price]
       /\ kSpent' = [kSpent EXCEPT ![q.key] = @ + q.price]
       /\ kReq' = [kReq EXCEPT ![h] = KIdle]
       /\ UNCHANGED <<kForced, kStale, kRaised, kNamed, kBeside, kCrowded, kEvents>>

KNext ==
    \/ \E h \in KHandlers :
          \/ \E quota \in KQuotas, reserved \in BOOLEAN : CreateCounts(h, quota, reserved)
          \/ EnsureInternalKey(h)
          \/ EditWrites(h) \/ TouchUsage(h)
          \/ \E k \in KKeys :
                \/ \E edit \in Edits : EditReads(h, k, edit)
                \/ \E price \in 1 .. KMaxPrice :
                      Insert(h, k, price) \/ Verify(h, k, price) \/ Playground(h, k, price)
    \/ \E k \in KKeys : Delete(k)

KSpec == KInit /\ [][KNext]_kVars

-----------------------------------------------------------------------------
(* Properties.                                                             *)

\* No edit, however stale the row it writes back, loses or doubles what a
\* request charged: quota_used is the sum of the prices.
KeyUsageExact == \A k \in KKeys : kRow[k].used = kSpent[k]

\* The limit is on the keys without the reserved name, counted before the
\* insert: a user has more of them, or a second playground key, only after
\* creations that overlapped, or through keys the user gave the reserved name
\* or took it from, which leave and enter the count without a check.
KeysLimited ==
    ~kCrowded =>
        /\ KeyMaxPerUser > 0 => Cardinality(Visible \ kNamed) <= KeyMaxPerUser
        /\ Cardinality(Internal \ kNamed) <= 1

\* Keys whose quota says nothing about what was spent with them.
Unbound == kRaised \cup kNamed

\* A key whose quota nobody edited is used beyond it by at most the price of
\* its last request, unless requests were admitted beside each other (Verify
\* reads quota_used, TouchUsage adds to it when the request ends) or the user
\* gave it the reserved name (playground requests are not compared with a
\* quota).
KeyOvershootOnlyBeside ==
    \A k \in KKeys \ (Unbound \cup kBeside) :
        kRow[k].limit > 0 => kRow[k].used <= kRow[k].limit - 1 + KMaxPrice

\* A key an administrator switched off stays off until somebody switches it
\* on, unless an edit wrote back a row it had read before.
DisabledStays == \A k \in KKeys : k \in kForced /\ kRow[k].on => k \in kStale

\* What holds of a user's keys however their requests and edits interleave.
KeysSound == KeyUsageExact /\ KeysLimited /\ KeyOvershootOnlyBeside /\ DisabledStays
=============================================================================
