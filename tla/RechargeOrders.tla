--------------------------- MODULE RechargeOrders ---------------------------
(***************************************************************************)
(* Recharge orders (internal/recharge): creation against the daily limit,  *)
(* the gateway's callback, cancellation by the user, and the manual        *)
(* booking by an administrator, on top of the credit engine.               *)
(*                                                                         *)
(* settle is two transactions: the order is moved pending -> paid, then    *)
(* billing.Recharge credits the user.  Handlers of different callbacks,    *)
(* administrators and users interleave at every database call; a call can  *)
(* fail, its context can be cancelled and the process can stop (all three  *)
(* are a fault: the handler ends there).  ExpirePending exists in the DAO  *)
(* but nothing calls it, so it is no action here.                          *)
(***************************************************************************)
EXTENDS Billing, Totals

CONSTANTS
    Orders,         \* order ids
    Buyer,          \* order -> user
    Price,          \* order -> price in fen
    Credits,        \* order -> credits plus bonus
    DailyLimit,     \* recharge.daily_limit_cny (0: none)
    Handlers,       \* goroutines that serve callbacks and admin calls
    MaxFaults       \* bound: failed or cancelled database calls

ASSUME RechargeAssumption ==
    /\ IsFiniteSet(Orders)
    /\ Buyer \in [Orders -> Users]
    /\ Price \in [Orders -> Nat]
    /\ Credits \in [Orders -> Nat \ {0}]
    /\ DailyLimit \in Nat
    /\ MaxFaults \in Nat

VARIABLES
    status,         \* recharge_orders.status; "none" and "checked": no row yet
    money,          \* the buyer paid the order at the gateway (external)
    acked,          \* the gateway got "success" for the order (external)
    credited,       \* how often billing.Recharge committed for the order
    pc,             \* where a handler is
    order,          \* the order it works on
    admin,          \* it serves AdminForcePaid
    hurt,           \* a fault hit a handler of the order after the CAS
    faults

orderVars == <<status, money, acked, credited>>
handlerVars == <<pc, order, admin>>
vars == <<walletVars, orderVars, handlerVars, hurt, faults>>

NoOrder == "noOrder"
Statuses == {"none", "checked", "pending", "paid", "cancelled"}

\* Every variable keeps its type.
TypeOK ==
    /\ WalletType
    /\ status \in [Orders -> Statuses]
    /\ money \in [Orders -> BOOLEAN]
    /\ acked \in [Orders -> BOOLEAN]
    /\ credited \in [Orders -> Nat]
    /\ pc \in [Handlers -> {"idle", "read", "cas", "credit"}]
    /\ order \in [Handlers -> Orders \cup {NoOrder}]
    /\ \A h \in Handlers : pc[h] # "idle" => order[h] \in Orders
    /\ admin \in [Handlers -> BOOLEAN]
    /\ hurt \in [Orders -> BOOLEAN]
    /\ faults \in 0 .. MaxFaults

Init ==
    /\ WalletInit
    /\ status = [o \in Orders |-> "none"]
    /\ money = [o \in Orders |-> FALSE]
    /\ acked = [o \in Orders |-> FALSE]
    /\ credited = [o \in Orders |-> 0]
    /\ pc = [h \in Handlers |-> "idle"]
    /\ order = [h \in Handlers |-> NoOrder]
    /\ admin = [h \in Handlers |-> FALSE]
    /\ hurt = [o \in Orders |-> FALSE]
    /\ faults = 0

SetStatus(o, s) == status' = [status EXCEPT ![o] = s]
Goto(h, l) == pc' = [pc EXCEPT ![h] = l]

\* The handler returns and its locals are gone.
Return(h) ==
    /\ Goto(h, "idle")
    /\ order' = [order EXCEPT ![h] = NoOrder]
    /\ admin' = [admin EXCEPT ![h] = FALSE]

\* The callback answers "success": the gateway stops resending.
Success(h) ==
    /\ Return(h)
    /\ acked' = IF admin[h] THEN acked ELSE [acked EXCEPT ![order[h]] = TRUE]

-----------------------------------------------------------------------------
(* Orders and their buyers.                                                *)

\* SumPaidTodayCNY: only paid orders count (all of one day here).
PaidToday(u) == Total({o \in Orders : Buyer[o] = u /\ status[o] = "paid"}, Price)

\* Create, first call: the daily limit.
CheckLimit(o) ==
    /\ status[o] = "none"
    /\ DailyLimit > 0 => PaidToday(Buyer[o]) + Price[o] <= DailyLimit
    /\ SetStatus(o, "checked")
    /\ UNCHANGED <<walletVars, money, acked, credited, handlerVars, hurt, faults>>

\* Create, second call: INSERT the pending order.
CreateOrder(o) ==
    /\ status[o] = "checked"
    /\ SetStatus(o, "pending")
    /\ UNCHANGED <<walletVars, money, acked, credited, handlerVars, hurt, faults>>

\* The buyer pays at the gateway, whose page knows nothing of the order's
\* local status.
Pay(o) ==
    /\ status[o] \in {"pending", "paid", "cancelled"}
    /\ ~money[o]
    /\ money' = [money EXCEPT ![o] = TRUE]
    /\ UNCHANGED <<walletVars, status, acked, credited, handlerVars, hurt, faults>>

\* Mutant: CancelByUser trusts the status it read before.
CancelStale(o) ==
    /\ status[o] \in {"pending", "paid"}
    /\ SetStatus(o, "cancelled")
    /\ UNCHANGED <<walletVars, money, acked, credited, handlerVars, hurt, faults>>

\* CancelByUser: the read of the status, and the UPDATE that checks it again.
Cancel(o) ==
    /\ status[o] = "pending"
    /\ SetStatus(o, "cancelled")
    /\ UNCHANGED <<walletVars, money, acked, credited, handlerVars, hurt, faults>>

-----------------------------------------------------------------------------
(* The callback and the manual booking.                                    *)

\* The gateway sends TRADE_SUCCESS, again and again until it is acked; two
\* deliveries may be served at the same time.
Notify(h, o) ==
    /\ pc[h] = "idle"
    /\ money[o]
    /\ ~acked[o]
    /\ order' = [order EXCEPT ![h] = o]
    /\ Goto(h, "read")
    /\ UNCHANGED <<walletVars, orderVars, admin, hurt, faults>>

\* Mutant: an order that is not paid yet is answered with success as well.
ReadOrderAcks(h) ==
    /\ pc[h] = "read"
    /\ Success(h)
    /\ UNCHANGED <<walletVars, status, money, credited, hurt, faults>>

\* GetByOutTradeNo: a paid order is answered with success at once.
ReadOrder(h) ==
    /\ pc[h] = "read"
    /\ IF status[order[h]] = "paid"
       THEN Success(h)
       ELSE Goto(h, "cas") /\ UNCHANGED <<order, admin, acked>>
    /\ UNCHANGED <<walletVars, status, money, credited, hurt, faults>>

\* AdminForcePaid: the order must be read as pending.
ForcePaid(h, o) ==
    /\ pc[h] = "idle"
    /\ status[o] = "pending"
    /\ order' = [order EXCEPT ![h] = o]
    /\ admin' = [admin EXCEPT ![h] = TRUE]
    /\ Goto(h, "cas")
    /\ UNCHANGED <<walletVars, orderVars, hurt, faults>>

\* Mutant: UPDATE ... WHERE id = ? without the status.
MarkPaidUnchecked(h) ==
    /\ pc[h] = "cas"
    /\ SetStatus(order[h], "paid")
    /\ Goto(h, "credit")
    /\ UNCHANGED <<walletVars, money, acked, credited, order, admin, hurt, faults>>

\* Mutant: the handler answers right after the CAS.
MarkPaidOnly(h) ==
    /\ pc[h] = "cas"
    /\ status[order[h]] = "pending"
    /\ SetStatus(order[h], "paid")
    /\ Success(h)
    /\ UNCHANGED <<walletVars, money, credited, hurt, faults>>

\* The CAS pending -> paid succeeds.
MarkPaid(h) ==
    /\ pc[h] = "cas"
    /\ status[order[h]] = "pending"
    /\ SetStatus(order[h], "paid")
    /\ Goto(h, "credit")
    /\ UNCHANGED <<walletVars, money, acked, credited, order, admin, hurt, faults>>

\* The CAS hits no row: taken for "already handled", whatever the status is.
MarkPaidMissed(h) ==
    /\ pc[h] = "cas"
    /\ status[order[h]] # "pending"
    /\ Success(h)
    /\ UNCHANGED <<walletVars, status, money, credited, hurt, faults>>

\* Mutant: the bonus or the amount is taken from another column.
CreditPrice(h) ==
    /\ pc[h] = "credit"
    /\ Recharge(Buyer[order[h]], Price[order[h]])
    /\ credited' = [credited EXCEPT ![order[h]] = @ + 1]
    /\ Success(h)
    /\ UNCHANGED <<status, money, hurt, faults>>

\* billing.Recharge commits.
Credit(h) ==
    /\ pc[h] = "credit"
    /\ Recharge(Buyer[order[h]], Credits[order[h]])
    /\ credited' = [credited EXCEPT ![order[h]] = @ + 1]
    /\ Success(h)
    /\ UNCHANGED <<status, money, hurt, faults>>

\* A database call of the handler fails, its context is cancelled, or the
\* process stops: the answer is not "success", the database stays.
HandlerFault(h) ==
    /\ pc[h] # "idle"
    /\ faults < MaxFaults
    /\ faults' = faults + 1
    /\ hurt' = IF pc[h] = "credit" THEN [hurt EXCEPT ![order[h]] = TRUE] ELSE hurt
    /\ Return(h)
    /\ UNCHANGED <<walletVars, orderVars>>

DeleteUser(u) ==
    /\ SoftDelete(u)
    /\ UNCHANGED <<orderVars, handlerVars, hurt, faults>>

Serve(h) ==
    \/ ReadOrder(h)
    \/ MarkPaid(h)
    \/ MarkPaidMissed(h)
    \/ Credit(h)
    \/ HandlerFault(h)

Next ==
    \/ \E o \in Orders : CheckLimit(o) \/ CreateOrder(o) \/ Pay(o) \/ Cancel(o)
    \/ \E h \in Handlers, o \in Orders : Notify(h, o) \/ ForcePaid(h, o)
    \/ \E h \in Handlers : Serve(h)
    \/ \E u \in Users : DeleteUser(u)

Spec == Init /\ [][Next]_vars

\* Handlers run to their end, and the gateway resends what is not acked.
Fairness ==
    /\ \A h \in Handlers : WF_vars(Serve(h))
    /\ \A o \in Orders : SF_vars(\E h \in Handlers : Notify(h, o))

FairSpec == Spec /\ Fairness

-----------------------------------------------------------------------------
(* Properties.                                                             *)

Crediting(o) == {h \in Handlers : pc[h] = "credit" /\ order[h] = o}

\* The CAS hands the booking of an order to one handler: before it nobody
\* has credited or is crediting the order, after it one at most.
OneBooking ==
    \A o \in Orders :
        /\ credited[o] > 0 \/ Crediting(o) # {} => status[o] = "paid"
        /\ credited[o] > 0 => Crediting(o) = {}
        /\ \A g, h \in Crediting(o) : g = h

\* Invariant 3 of model.go: however often, and however concurrently, the
\* gateway calls back and administrators book, an order is credited once.
CreditedOnce == \A o \in Orders : credited[o] <= 1

\* The ledger of a user is exactly the credits of the orders booked for it.
LedgerIsOrders ==
    \A u \in Users :
        ledger[u] = Total({o \in Orders : Buyer[o] = u /\ credited[o] > 0}, Credits)

\* A paid order that no handler is working on has been credited, unless a
\* fault hit between the two transactions of settle.
PaidIsCredited ==
    \A o \in Orders :
        status[o] = "paid" /\ Crediting(o) = {} => credited[o] = 1 \/ hurt[o]

\* Invariant 1 of model.go: an order only moves forward; paid and cancelled
\* are final.
StatusForward ==
    [][\A o \in Orders :
         status[o] \in {"paid", "cancelled"} => status'[o] = status[o]]_vars

\* Money that reached the gateway becomes credits, unless the buyer had
\* cancelled the order or a fault hit between the two transactions.
MoneyBecomesCredits ==
    \A o \in Orders :
        money[o] ~> credited[o] = 1 \/ status[o] = "cancelled" \/ hurt[o]

\* Invariant 2 of model.go: never "the money came in but the credits were
\* not added"; a gateway that was told success has been credited.
AckedIsCredited ==
    \A o \in Orders : money[o] /\ acked[o] => credited[o] = 1 \/ Crediting(o) # {}
=============================================================================
