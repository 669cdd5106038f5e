---------------------------- MODULE CreditProofs ----------------------------
(***************************************************************************)
(* Proofs about the ways credits come in: recharge orders, which a payment *)
(* platform notifies any number of times (RechargeOrders), and redemption  *)
(* codes and check-ins, where requests race for one row (Grants).          *)
(***************************************************************************)
EXTENDS RechargeOrders, Grants, DataProofs

-----------------------------------------------------------------------------
(* Recharge orders.                                                        *)

\* A handler that returns leaves the handler registers typed.
LEMMA ReturnType ==
  ASSUME TypeOK, NEW h \in Handlers, Return(h)
  PROVE  /\ pc' \in [Handlers -> {"idle", "read", "cas", "credit"}]
         /\ order' \in [Handlers -> Orders \cup {NoOrder}]
         /\ admin' \in [Handlers -> BOOLEAN]
         /\ \A g \in Handlers : pc'[g] # "idle" => order'[g] \in Orders
BY DEF TypeOK, Return, Goto

\* Type correctness of the order tables and the handlers.
THEOREM RechargeType == Spec => []TypeOK
<1>1. Init => TypeOK
  BY RechargeAssumption DEF Init, TypeOK, WalletInit, WalletType, Statuses
<1>2. TypeOK /\ [Next]_vars => TypeOK'
  <2> SUFFICES ASSUME TypeOK, [Next]_vars PROVE TypeOK'
    OBVIOUS
  <2> USE RechargeAssumption
  <2>1. ASSUME NEW o \in Orders, CheckLimit(o) \/ CreateOrder(o) \/ Pay(o) \/ Cancel(o)
        PROVE  TypeOK'
    BY <2>1 DEF CheckLimit, CreateOrder, Pay, Cancel, SetStatus, TypeOK, WalletType,
                walletVars, handlerVars, Statuses
  <2>2. ASSUME NEW h \in Handlers, NEW o \in Orders, Notify(h, o) \/ ForcePaid(h, o)
        PROVE  TypeOK'
    BY <2>2 DEF Notify, ForcePaid, Goto, TypeOK, WalletType, walletVars, orderVars
  <2>3. ASSUME NEW h \in Handlers, Serve(h) PROVE TypeOK'
    <3>1. CASE ReadOrder(h)
      <4>1. CASE status[order[h]] = "paid"
        <5>1. acked' \in [Orders -> BOOLEAN]
          BY <3>1, <4>1 DEF ReadOrder, Success, TypeOK
        <5> QED
          BY <3>1, <4>1, <5>1, ReturnType
             DEF ReadOrder, Success, TypeOK, WalletType, walletVars
      <4>2. CASE status[order[h]] # "paid"
        BY <3>1, <4>2 DEF ReadOrder, Goto, TypeOK, WalletType, walletVars
      <4> QED  BY <4>1, <4>2
    <3>2. CASE MarkPaid(h)
      BY <3>2 DEF MarkPaid, SetStatus, Goto, TypeOK, WalletType, walletVars, Statuses
    <3>3. CASE MarkPaidMissed(h)
      <4>1. acked' \in [Orders -> BOOLEAN]
        BY <3>3 DEF MarkPaidMissed, Success, TypeOK
      <4> QED
        BY <3>3, <4>1, ReturnType
           DEF MarkPaidMissed, Success, TypeOK, WalletType, walletVars
    <3>4. CASE Credit(h)
      <4>1. acked' \in [Orders -> BOOLEAN]
        BY <3>4 DEF Credit, Success, TypeOK
      <4>2. order[h] \in Orders /\ Buyer[order[h]] \in Users /\ Credits[order[h]] \in Nat
        BY <3>4 DEF Credit, TypeOK
      <4>3. WalletType'
        BY <3>4, <4>2 DEF Credit, Recharge, Post, TypeOK, WalletType
      <4>4. credited' \in [Orders -> Nat]
        BY <3>4, <4>2 DEF Credit, TypeOK
      <4> QED
        BY <3>4, <4>1, <4>3, <4>4, ReturnType DEF Credit, Success, TypeOK
    <3>5. CASE HandlerFault(h)
      <4>1. hurt' \in [Orders -> BOOLEAN]
        BY <3>5 DEF HandlerFault, TypeOK
      <4>2. faults' \in 0 .. MaxFaults
        BY <3>5 DEF HandlerFault, TypeOK
      <4> QED
        BY <3>5, <4>1, <4>2, ReturnType
           DEF HandlerFault, TypeOK, WalletType, walletVars, orderVars
    <3> QED  BY <2>3, <3>1, <3>2, <3>3, <3>4, <3>5 DEF Serve
  <2>4. ASSUME NEW u \in Users, DeleteUser(u) PROVE TypeOK'
    BY <2>4 DEF DeleteUser, SoftDelete, TypeOK, WalletType, orderVars, handlerVars
  <2>5. CASE UNCHANGED vars
    BY <2>5 DEF vars, TypeOK, WalletType, walletVars, orderVars, handlerVars
  <2> QED  BY <2>1, <2>2, <2>3, <2>4, <2>5 DEF Next
<1> QED  BY <1>1, <1>2, PTL DEF Spec

\* The CAS gives the booking of an order to one handler for good: OneBooking
\* is inductive given the types.
THEOREM RechargeOneBooking == Spec => [](OneBooking /\ CreditedOnce)
<1> DEFINE Inv == OneBooking /\ CreditedOnce
<1>1. Init => Inv
  BY DEF Init, OneBooking, CreditedOnce, Crediting
<1>2. TypeOK /\ Inv /\ [Next]_vars => Inv'
  <2> SUFFICES ASSUME TypeOK, OneBooking, CreditedOnce, [Next]_vars PROVE Inv'
    OBVIOUS
  <2> USE DEF OneBooking, CreditedOnce, Crediting, TypeOK
  <2>1. ASSUME NEW o \in Orders, CheckLimit(o) \/ CreateOrder(o) \/ Pay(o) \/ Cancel(o)
        PROVE  Inv'
    BY <2>1 DEF CheckLimit, CreateOrder, Pay, Cancel, SetStatus, handlerVars
  <2>2. ASSUME NEW h \in Handlers, NEW o \in Orders, Notify(h, o) \/ ForcePaid(h, o)
        PROVE  Inv'
    BY <2>2 DEF Notify, ForcePaid, Goto, orderVars
  <2>3. ASSUME NEW h \in Handlers, Serve(h) PROVE Inv'
    <3>1. CASE ReadOrder(h)
      BY <3>1 DEF ReadOrder, Success, Return, Goto
    <3>2. CASE MarkPaid(h)
      BY <3>2 DEF MarkPaid, SetStatus, Goto
    <3>3. CASE MarkPaidMissed(h)
      BY <3>3 DEF MarkPaidMissed, Success, Return, Goto
    <3>4. CASE Credit(h)
      <4>1. order[h] \in Orders /\ status[order[h]] = "paid" /\ credited[order[h]] = 0
        BY <3>4 DEF Credit
      <4>2. credited' = [credited EXCEPT ![order[h]] = 1]
        BY <3>4, <4>1 DEF Credit
      <4>3. \A g \in Handlers : pc'[g] = "credit" =>
               g # h /\ pc[g] = "credit" /\ order'[g] = order[g]
        BY <3>4 DEF Credit, Success, Return, Goto
      <4>4. \A g \in Handlers : pc'[g] = "credit" => order'[g] # order[h]
        BY <3>4, <4>1, <4>3 DEF Credit
      <4>5. status' = status
        BY <3>4 DEF Credit
      <4> QED  BY <4>1, <4>2, <4>3, <4>4, <4>5
    <3>5. CASE HandlerFault(h)
      BY <3>5 DEF HandlerFault, Return, Goto, orderVars
    <3> QED  BY <2>3, <3>1, <3>2, <3>3, <3>4, <3>5 DEF Serve
  <2>4. ASSUME NEW u \in Users, DeleteUser(u) PROVE Inv'
    BY <2>4 DEF DeleteUser, orderVars, handlerVars
  <2>5. CASE UNCHANGED vars
    BY <2>5 DEF vars, orderVars, handlerVars
  <2> QED  BY <2>1, <2>2, <2>3, <2>4, <2>5 DEF Next
<1> QED  BY <1>1, <1>2, RechargeType, PTL DEF Spec

\* Invariant 3 of model.go for any number of callbacks, administrators and
\* faults: no order is credited twice.
THEOREM RechargeCreditedOnce == Spec => []CreditedOnce
BY RechargeOneBooking, PTL

\* Paid and cancelled orders never change again.
THEOREM RechargeStatusForward == Spec => StatusForward
<1>1. TypeOK /\ [Next]_vars =>
        [\A o \in Orders : status[o] \in {"paid", "cancelled"} => status'[o] = status[o]]_vars
  <2> SUFFICES ASSUME TypeOK, Next, NEW o \in Orders, status[o] \in {"paid", "cancelled"}
               PROVE  status'[o] = status[o]
    OBVIOUS
  <2>1. ASSUME NEW p \in Orders, CheckLimit(p) \/ CreateOrder(p) \/ Pay(p) \/ Cancel(p)
        PROVE  status'[o] = status[o]
    BY <2>1 DEF CheckLimit, CreateOrder, Pay, Cancel, SetStatus, TypeOK
  <2>2. ASSUME NEW h \in Handlers, NEW p \in Orders, Notify(h, p) \/ ForcePaid(h, p)
        PROVE  status'[o] = status[o]
    BY <2>2 DEF Notify, ForcePaid, orderVars
  <2>3. ASSUME NEW h \in Handlers, Serve(h) PROVE status'[o] = status[o]
    BY <2>3 DEF Serve, ReadOrder, MarkPaid, MarkPaidMissed, Credit, HandlerFault, SetStatus,
                TypeOK, orderVars
  <2>4. ASSUME NEW u \in Users, DeleteUser(u) PROVE status'[o] = status[o]
    BY <2>4 DEF DeleteUser, orderVars
  <2> QED  BY <2>1, <2>2, <2>3, <2>4 DEF Next
<1> QED  BY <1>1, RechargeType, PTL DEF Spec, StatusForward

\* The only step that books an order or moves a ledger is Credit; it books
\* an order that was not booked before.
LEMMA OnlyCreditBooks ==
  ASSUME TypeOK, OneBooking, [Next]_vars
  PROVE  \/ UNCHANGED <<ledger, credited>>
         \/ \E h \in Handlers :
               /\ Credit(h)
               /\ order[h] \in Orders
               /\ credited[order[h]] = 0
               /\ credited' = [credited EXCEPT ![order[h]] = 1]
               /\ ledger' = [ledger EXCEPT ![Buyer[order[h]]] = @ + Credits[order[h]]]
<1> DEFINE Booked(h) == /\ Credit(h)
                        /\ order[h] \in Orders
                        /\ credited[order[h]] = 0
                        /\ credited' = [credited EXCEPT ![order[h]] = 1]
                        /\ ledger' = [ledger EXCEPT ![Buyer[order[h]]] = @ + Credits[order[h]]]
           Goal == UNCHANGED <<ledger, credited>> \/ \E h \in Handlers : Booked(h)
<1>1. ASSUME NEW o \in Orders, CheckLimit(o) \/ CreateOrder(o) \/ Pay(o) \/ Cancel(o)
      PROVE  UNCHANGED <<ledger, credited>>
  BY <1>1 DEF CheckLimit, CreateOrder, Pay, Cancel, walletVars
<1>2. ASSUME NEW h \in Handlers, NEW o \in Orders, Notify(h, o) \/ ForcePaid(h, o)
      PROVE  UNCHANGED <<ledger, credited>>
  BY <1>2 DEF Notify, ForcePaid, walletVars, orderVars
<1>3. ASSUME NEW h \in Handlers, Serve(h) PROVE Goal
  <2>1. CASE Credit(h)
    <3>1. order[h] \in Orders /\ h \in Crediting(order[h])
      BY <2>1 DEF Credit, TypeOK, Crediting
    <3>2. credited[order[h]] = 0
      BY <3>1 DEF OneBooking, TypeOK
    <3>3. credited' = [credited EXCEPT ![order[h]] = 1]
      BY <2>1, <3>2 DEF Credit
    <3>4. ledger' = [ledger EXCEPT ![Buyer[order[h]]] = @ + Credits[order[h]]]
      BY <2>1 DEF Credit, Recharge, Post
    <3>5. Booked(h)
      BY <2>1, <3>1, <3>2, <3>3, <3>4
    <3> QED  BY <3>5
  <2>2. CASE ~Credit(h)
    BY <1>3, <2>2 DEF Serve, ReadOrder, MarkPaid, MarkPaidMissed, HandlerFault, walletVars,
                      orderVars
  <2> QED  BY <2>1, <2>2
<1>4. ASSUME NEW u \in Users, DeleteUser(u) PROVE UNCHANGED <<ledger, credited>>
  BY <1>4 DEF DeleteUser, SoftDelete, orderVars
<1>5. CASE UNCHANGED vars
  BY <1>5 DEF vars, walletVars, orderVars
<1> QED  BY <1>1, <1>2, <1>3, <1>4, <1>5 DEF Next

\* The ledger of every user is the sum of the credits of the orders booked
\* for that user, for any number of orders, callbacks and faults.
THEOREM RechargeLedgerIsOrders == Spec => []LedgerIsOrders
<1> DEFINE Booked(u) == {o \in Orders : Buyer[o] = u /\ credited[o] > 0}
<1>1. Init => LedgerIsOrders
  <2> SUFFICES ASSUME Init, NEW u \in Users PROVE ledger[u] = Total(Booked(u), Credits)
    BY DEF LedgerIsOrders
  <2>1. \A o \in Booked(u) : Credits[o] = 0
    BY DEF Init
  <2> HIDE DEF Booked
  <2>2. Total(Booked(u), Credits) = 0
    BY <2>1, TotalZero
  <2> QED  BY <2>2 DEF Init, WalletInit
<1>2. TypeOK /\ OneBooking /\ LedgerIsOrders /\ [Next]_vars => LedgerIsOrders'
  <2> SUFFICES ASSUME TypeOK, OneBooking, LedgerIsOrders, [Next]_vars, NEW u \in Users
               PROVE  ledger'[u] = Total(Booked(u)', Credits)
    BY DEF LedgerIsOrders
  <2>0. ledger[u] = Total(Booked(u), Credits)
    BY DEF LedgerIsOrders
  <2>1. CASE UNCHANGED <<ledger, credited>>
    BY <2>0, <2>1
  <2>2. ASSUME NEW h \in Handlers,
               order[h] \in Orders,
               credited[order[h]] = 0,
               credited' = [credited EXCEPT ![order[h]] = 1],
               ledger' = [ledger EXCEPT ![Buyer[order[h]]] = @ + Credits[order[h]]]
        PROVE  ledger'[u] = Total(Booked(u)', Credits)
    <3>1. CASE Buyer[order[h]] # u
      <4>1. Booked(u)' = Booked(u) /\ ledger'[u] = ledger[u]
        BY <2>2, <3>1, RechargeAssumption DEF TypeOK, WalletType
      <4> QED  BY <2>0, <4>1
    <3>2. CASE Buyer[order[h]] = u
      <4>1. order[h] \in Booked(u)' /\ Booked(u)' \ {order[h]} = Booked(u)
        BY <2>2, <3>2 DEF TypeOK
      <4>2. IsFiniteSet(Booked(u)')
        BY RechargeAssumption, FS_Subset
      <4>3. \A o \in Booked(u)' : Credits[o] \in Nat
        BY RechargeAssumption
      <4>4. ledger'[u] = ledger[u] + Credits[order[h]]
        BY <2>2, <3>2, RechargeAssumption DEF TypeOK, WalletType
      <4> HIDE DEF Booked
      <4>5. Total(Booked(u)', Credits) = Total(Booked(u), Credits) + Credits[order[h]]
        BY <4>1, <4>2, <4>3, TotalSplit
      <4> QED  BY <2>0, <4>4, <4>5
    <3> QED  BY <3>1, <3>2
  <2> QED  BY <2>1, <2>2, OnlyCreditBooks
<1> QED  BY <1>1, <1>2, RechargeType, RechargeOneBooking, PTL DEF Spec

\* A paid order nobody works on has been credited, unless a fault hit
\* between the CAS and the booking: no interleaving of callbacks,
\* administrators and cancellations loses a booking.
THEOREM RechargePaidIsCredited == Spec => []PaidIsCredited
<1>1. Init => PaidIsCredited
  BY DEF Init, PaidIsCredited
<1>2. TypeOK /\ OneBooking /\ PaidIsCredited /\ [Next]_vars => PaidIsCredited'
  <2> SUFFICES ASSUME TypeOK, OneBooking, PaidIsCredited, [Next]_vars PROVE PaidIsCredited'
    OBVIOUS
  <2> USE DEF PaidIsCredited, Crediting, TypeOK
  <2>1. ASSUME NEW o \in Orders, CheckLimit(o) \/ CreateOrder(o) \/ Pay(o) \/ Cancel(o)
        PROVE  PaidIsCredited'
    BY <2>1 DEF CheckLimit, CreateOrder, Pay, Cancel, SetStatus, handlerVars
  <2>2. ASSUME NEW h \in Handlers, NEW o \in Orders, Notify(h, o) \/ ForcePaid(h, o)
        PROVE  PaidIsCredited'
    BY <2>2 DEF Notify, ForcePaid, Goto, orderVars
  <2>3. ASSUME NEW h \in Handlers, Serve(h) PROVE PaidIsCredited'
    <3>1. CASE ReadOrder(h)
      BY <3>1 DEF ReadOrder, Success, Return, Goto
    <3>2. CASE MarkPaid(h)
      <4>1. order[h] \in Orders /\ pc'[h] = "credit" /\ order' = order
        BY <3>2 DEF MarkPaid, Goto
      <4>2. \A o \in Orders \ {order[h]} : status'[o] = status[o]
        BY <3>2 DEF MarkPaid, SetStatus
      <4> QED  BY <3>2, <4>1, <4>2 DEF MarkPaid, Goto
    <3>3. CASE MarkPaidMissed(h)
      BY <3>3 DEF MarkPaidMissed, Success, Return, Goto
    <3>4. CASE Credit(h)
      <4>1. order[h] \in Orders /\ credited[order[h]] = 0
        BY <3>4 DEF Credit, OneBooking
      <4>2. credited' = [credited EXCEPT ![order[h]] = 1]
        BY <3>4, <4>1 DEF Credit
      <4> QED  BY <3>4, <4>1, <4>2 DEF Credit, Success, Return, Goto
    <3>5. CASE HandlerFault(h)
      BY <3>5 DEF HandlerFault, Return, Goto, orderVars
    <3> QED  BY <2>3, <3>1, <3>2, <3>3, <3>4, <3>5 DEF Serve
  <2>4. ASSUME NEW u \in Users, DeleteUser(u) PROVE PaidIsCredited'
    BY <2>4 DEF DeleteUser, orderVars, handlerVars
  <2>5. CASE UNCHANGED vars
    BY <2>5 DEF vars, orderVars, handlerVars
  <2> QED  BY <2>1, <2>2, <2>3, <2>4, <2>5 DEF Next
<1> QED  BY <1>1, <1>2, RechargeType, RechargeOneBooking, PTL DEF Spec

-----------------------------------------------------------------------------
(* Redemption codes and check-ins.                                         *)

GKinds == {"redeem", "checkin"}
GRefs == Codes \cup (GUsers \X Days)
GRecords == [award : Nat, after : Int]

\* A request within its transaction, and one that was answered.
GActive == [pc : {"lock", "credit", "commit", "reread"}, kind : GKinds, user : GUsers,
            row : GRows, amount : Nat, ref : GRefs, after : Int]
GAnswered == [pc : {"done"}, kind : GKinds, user : GUsers, ref : GRefs,
              what : {"ok", "notFound", "used", "expired", "error"}, record : GRecords]
GRequests == {GIdle} \cup GActive \cup GAnswered
GLedgerRows == [user : GUsers, amount : Nat, after : Int, ref : GRows \cup {<<"other">>}]

\* Types of everything a transaction touches.
GrantShape ==
    /\ gCode \in [Codes -> GUsers \cup {NoOne, Missing}]
    /\ gDay \in [GUsers \X Days -> GRecords]
    /\ gUser \in [GUsers -> [balance : Int, deleted : BOOLEAN]]
    /\ gLedger \in Seq(GLedgerRows)
    /\ gLock \in [GRows -> GHandlers \cup {NoOne}]
    /\ gReq \in [GHandlers -> GRequests]
    /\ gToday \in Days
    /\ gReward \in Rewards

\* What a request is about.
Asks(q) ==
    /\ q.kind = "redeem" => q.ref \in Codes
    /\ q.kind = "checkin" => q.ref \in GUsers \X Days

\* A request in its transaction: what it will book, the row it has locked,
\* and what that row still says.
InTx(h) ==
    LET q == gReq[h]
    IN /\ q \in GActive => Asks(q)
       /\ q \in GActive /\ q.kind = "redeem" => q.row = CodeRow(q.ref) /\ q.amount = CodeCredits
       /\ q \in GActive /\ q.kind = "checkin" =>
             q.row = DayRow(q.ref[1], q.ref[2]) /\ q.user = q.ref[1] /\ q.amount > 0
       /\ q.pc \in {"credit", "commit"} =>
             /\ gLock[q.row] = h
             /\ q.kind = "redeem" => gCode[q.ref] = NoOne
             /\ q.kind = "checkin" => gDay[q.ref] = NoRecord
       /\ q.pc = "commit" =>
             gLock[UserRow(q.user)] = h /\ q.after = gUser[q.user].balance + q.amount
       /\ q.pc = "reread" => q.kind = "checkin" /\ gDay[q.ref] # NoRecord

\* A user without ledger rows has nothing.
StartsEmpty == \A u \in GUsers : RowsOf(u) = {} => gUser[u].balance = 0

\* The answer of a request that was answered.
Told(h) ==
    LET q == gReq[h]
    IN q \in GAnswered =>
          /\ Asks(q)
          /\ q.kind = "checkin" /\ q.what = "ok" => q.record = gDay[q.ref] /\ q.record # NoRecord
          /\ q.kind = "redeem" /\ q.what = "used" => gCode[q.ref] \in GUsers
          /\ q.kind = "redeem" /\ q.what = "ok" => gCode[q.ref] = q.user

\* The inductive invariant.
GrantInv ==
    /\ GrantShape
    /\ \A h \in GHandlers : InTx(h) /\ Told(h)
    /\ GrantedOnce
    /\ LedgerChains
    /\ StartsEmpty

\* Rows of different kinds are different.
LEMMA RowsApart ==
    /\ \A c, d \in Codes : CodeRow(c) = CodeRow(d) => c = d
    /\ \A c \in Codes : \A u \in GUsers, d \in Days : CodeRow(c) # DayRow(u, d)
    /\ \A c \in Codes : \A u \in GUsers : CodeRow(c) # UserRow(u)
    /\ \A u, v \in GUsers, d, e \in Days : DayRow(u, d) = DayRow(v, e) => u = v /\ d = e
    /\ \A u, v \in GUsers, d \in Days : DayRow(u, d) # UserRow(v)
    /\ \A u, v \in GUsers : UserRow(u) = UserRow(v) => u = v
    /\ \A c \in Codes : CodeRow(c) # <<"other">> /\ CodeRow(c) \in GRows
    /\ \A u \in GUsers, d \in Days : DayRow(u, d) # <<"other">> /\ DayRow(u, d) \in GRows
    /\ \A u \in GUsers : UserRow(u) \in GRows
BY DEF CodeRow, DayRow, UserRow, GRows

\* The fields of the three kinds of requests.
LEMMA RequestPcs ==
    ASSUME NEW q \in GRequests
    PROVE  /\ q \in GActive <=> q.pc \in {"lock", "credit", "commit", "reread"}
           /\ q \in GAnswered <=> q.pc = "done"
           /\ q.pc \in {"idle", "lock", "credit", "commit", "reread", "done"}
BY DEF GRequests, GActive, GAnswered, GIdle

\* What a request was told stays true while no grant is taken back.
LEMMA ToldStays ==
    ASSUME NEW g \in GHandlers, Told(g), gReq'[g] = gReq[g],
           \A c \in Codes : gCode[c] \in GUsers => gCode'[c] = gCode[c],
           \A r \in GUsers \X Days : gDay[r] # NoRecord => gDay'[r] = gDay[r]
    PROVE  Told(g)'
<1> DEFINE p == gReq[g]
<1>1. p = gReq[g] /\ gReq'[g] = p
  OBVIOUS
<1>2. p \in GAnswered => p.user \in GUsers
  BY DEF GAnswered
<1> HIDE DEF p
<1>3. p \in GAnswered =>
          /\ Asks(p)
          /\ p.kind = "checkin" /\ p.what = "ok" => p.record = gDay[p.ref] /\ p.record # NoRecord
          /\ p.kind = "redeem" /\ p.what = "used" => gCode[p.ref] \in GUsers
          /\ p.kind = "redeem" /\ p.what = "ok" => gCode[p.ref] = p.user
  BY <1>1 DEF Told
<1>4. ASSUME p \in GAnswered, p.kind = "checkin", p.what = "ok"
      PROVE  p.record = gDay'[p.ref] /\ p.record # NoRecord
  <2>1. p.ref \in GUsers \X Days /\ p.record = gDay[p.ref] /\ p.record # NoRecord
    BY <1>3, <1>4 DEF Asks
  <2> QED BY <2>1
<1>5. ASSUME p \in GAnswered, p.kind = "redeem", p.what = "used" PROVE gCode'[p.ref] \in GUsers
  <2>1. p.ref \in Codes /\ gCode[p.ref] \in GUsers
    BY <1>3, <1>5 DEF Asks
  <2> QED BY <2>1
<1>6. ASSUME p \in GAnswered, p.kind = "redeem", p.what = "ok" PROVE gCode'[p.ref] = p.user
  <2>1. p.ref \in Codes /\ gCode[p.ref] = p.user /\ p.user \in GUsers
    BY <1>2, <1>3, <1>6 DEF Asks
  <2> QED BY <2>1
<1> QED BY <1>1, <1>3, <1>4, <1>5, <1>6 DEF Told

-----------------------------------------------------------------------------
(* The ledger grows by one row.                                            *)

LEMMA LedgerGrows ==
    ASSUME GrantShape, NEW row \in GLedgerRows, gLedger' = Append(gLedger, row)
    PROVE  /\ gLedger' \in Seq(GLedgerRows)
           /\ Len(gLedger) + 1 \notin DOMAIN gLedger
           /\ DOMAIN gLedger' = DOMAIN gLedger \cup {Len(gLedger) + 1}
           /\ gLedger'[Len(gLedger) + 1] = row
           /\ \A i \in DOMAIN gLedger : gLedger'[i] = gLedger[i] /\ i \in Nat /\ i < Len(gLedger) + 1
           /\ Len(gLedger) + 1 \in Nat
<1>1. gLedger \in Seq(GLedgerRows) /\ Len(gLedger) \in Nat /\ DOMAIN gLedger = 1 .. Len(gLedger)
  BY DEF GrantShape
<1>2. /\ gLedger' \in Seq(GLedgerRows) /\ Len(gLedger') = Len(gLedger) + 1
      /\ gLedger'[Len(gLedger) + 1] = row
      /\ \A i \in 1 .. Len(gLedger) : gLedger'[i] = gLedger[i]
  BY <1>1
<1>3. DOMAIN gLedger' = 1 .. Len(gLedger) + 1
  BY <1>2
<1> QED BY <1>1, <1>2, <1>3

LEMMA RowsForGrows ==
    ASSUME GrantShape, NEW row \in GLedgerRows, gLedger' = Append(gLedger, row), NEW ref
    PROVE  RowsFor(ref)' = RowsFor(ref) \cup (IF row.ref = ref THEN {Len(gLedger) + 1} ELSE {})
BY LedgerGrows DEF RowsFor

\* A movement of a balance booked with the balance it leaves continues the
\* chain.
LEMMA ChainGrows ==
    ASSUME GrantShape, LedgerChains, StartsEmpty, NEW u \in GUsers,
           NEW row \in GLedgerRows, row.user = u, row.after = gUser[u].balance + row.amount,
           gLedger' = Append(gLedger, row),
           gUser'[u].balance = gUser[u].balance + row.amount,
           \A v \in GUsers \ {u} : gUser'[v].balance = gUser[v].balance
    PROVE  LedgerChains' /\ StartsEmpty'
<1> DEFINE n == Len(gLedger) + 1
<1>1. /\ DOMAIN gLedger' = DOMAIN gLedger \cup {n} /\ n \notin DOMAIN gLedger
      /\ gLedger'[n] = row
      /\ \A i \in DOMAIN gLedger : gLedger'[i] = gLedger[i] /\ i \in Nat /\ i < n
      /\ n \in Nat
  BY LedgerGrows
<1>2. \A v \in GUsers \ {u} : RowsOf(v)' = RowsOf(v)
  BY <1>1 DEF RowsOf
<1>3. RowsOf(u)' = RowsOf(u) \cup {n}
  BY <1>1 DEF RowsOf
<1>4. \A v \in GUsers : RowsOf(v) \subseteq DOMAIN gLedger
  BY DEF RowsOf
<1> HIDE DEF n
<1>5. StartsEmpty'
  BY <1>2, <1>3 DEF StartsEmpty
<1>6. gUser[u].balance \in Int /\ row.amount \in Nat /\ row.after \in Int
  BY DEF GrantShape, GLedgerRows
<1>7. ASSUME NEW v \in GUsers, NEW i \in RowsOf(v)'
      PROVE  /\ (\A j \in RowsOf(v)' : i <= j) => gLedger'[i].after = gLedger'[i].amount
             /\ \A j \in RowsOf(v)' :
                   j < i /\ (\A k \in RowsOf(v)' : k <= j \/ i <= k) =>
                       gLedger'[i].after = gLedger'[j].after + gLedger'[i].amount
             /\ (\A j \in RowsOf(v)' : j <= i) => gLedger'[i].after = gUser'[v].balance
  <2>1. CASE v # u
    <3>1. RowsOf(v)' = RowsOf(v) /\ gUser'[v].balance = gUser[v].balance
      BY <1>2, <2>1
    <3>2. \A j \in RowsOf(v) : gLedger'[j] = gLedger[j]
      BY <1>1, <1>4
    <3>3. i \in RowsOf(v)
      BY <3>1
    <3>4. /\ (\A j \in RowsOf(v) : i <= j) => gLedger[i].after = gLedger[i].amount
          /\ \A j \in RowsOf(v) :
                j < i /\ (\A k \in RowsOf(v) : k <= j \/ i <= k) =>
                    gLedger[i].after = gLedger[j].after + gLedger[i].amount
          /\ (\A j \in RowsOf(v) : j <= i) => gLedger[i].after = gUser[v].balance
      BY <3>3 DEF LedgerChains
    <3> QED BY <3>1, <3>2, <3>3, <3>4
  <2>2. CASE v = u /\ i # n
    <3>1. i \in RowsOf(u) /\ \A j \in RowsOf(u) : gLedger'[j] = gLedger[j] /\ j \in Nat /\ j < n
      BY <1>1, <1>3, <1>4, <1>7, <2>2
    <3>2. ~(n <= i) /\ ~(n < i)
      BY <1>1, <3>1
    <3>3. (\A j \in RowsOf(u)' : i <= j) => gLedger'[i].after = gLedger'[i].amount
      BY <1>3, <3>1 DEF LedgerChains
    <3>4. ASSUME NEW j \in RowsOf(u)', j < i, \A k \in RowsOf(u)' : k <= j \/ i <= k
          PROVE  gLedger'[i].after = gLedger'[j].after + gLedger'[i].amount
      <4>1. j \in RowsOf(u)
        BY <1>3, <3>2, <3>4
      <4>2. \A k \in RowsOf(u) : k <= j \/ i <= k
        BY <1>3, <3>4
      <4>3. gLedger[i].after = gLedger[j].after + gLedger[i].amount
        BY <3>1, <3>4, <4>1, <4>2 DEF LedgerChains
      <4> QED BY <3>1, <4>1, <4>3
    <3>5. ~(\A j \in RowsOf(u)' : j <= i)
      BY <1>3, <3>2
    <3> QED BY <2>2, <3>3, <3>4, <3>5
  <2>3. CASE v = u /\ i = n
    <3>1. gLedger'[i].after = gUser'[v].balance
      BY <1>1, <2>3
    <3>2. ASSUME \A j \in RowsOf(u)' : i <= j PROVE gLedger'[i].after = gLedger'[i].amount
      <4>1. RowsOf(u) = {}
        <5>1. \A j \in RowsOf(u) : j \in Nat /\ j < n /\ n <= j
          BY <1>1, <1>3, <1>4, <2>3, <3>2
        <5> QED BY <1>1, <5>1
      <4>2. gUser[u].balance = 0
        BY <4>1 DEF StartsEmpty
      <4> QED BY <1>1, <1>6, <2>3, <4>2
    <3>3. ASSUME NEW j \in RowsOf(u)', j < i, \A k \in RowsOf(u)' : k <= j \/ i <= k
          PROVE  gLedger'[i].after = gLedger'[j].after + gLedger'[i].amount
      <4>1. j \in RowsOf(u) /\ j \in Nat
        BY <1>1, <1>3, <1>4, <2>3, <3>3
      <4>2. \A k \in RowsOf(u) : k <= j
        <5>1. \A k \in RowsOf(u) : k \in Nat /\ k < n
          BY <1>1, <1>4
        <5>2. \A k \in RowsOf(u) : k <= j \/ n <= k
          BY <1>3, <2>3, <3>3
        <5> QED BY <1>1, <5>1, <5>2
      <4>3. gLedger[j].after = gUser[u].balance
        BY <4>1, <4>2 DEF LedgerChains
      <4>4. gLedger'[j] = gLedger[j]
        BY <1>1, <1>4, <4>1
      <4> QED BY <1>1, <2>3, <4>3, <4>4
    <3> QED BY <2>3, <3>1, <3>2, <3>3
  <2> QED BY <2>1, <2>2, <2>3
<1> QED BY <1>5, <1>7 DEF LedgerChains

-----------------------------------------------------------------------------
(* Steps of a request that commit nothing.                                 *)

\* The other requests and the locks they hold are left alone.
OthersStay(h) ==
    /\ gReq' \in [GHandlers -> GRequests]
    /\ gLock' \in [GRows -> GHandlers \cup {NoOne}]
    /\ \A g \in GHandlers \ {h} :
          gReq'[g] = gReq[g] /\ \A r \in GRows : gLock[r] = g => gLock'[r] = g

LEMMA PrivateStep ==
    ASSUME GrantInv, NEW h \in GHandlers, OthersStay(h),
           UNCHANGED <<gCode, gDay, gUser, gLedger, gToday, gReward>>, InTx(h)', Told(h)'
    PROVE  GrantInv'
<1>1. GrantShape'
  BY DEF GrantInv, GrantShape, OthersStay
<1>2. ASSUME NEW g \in GHandlers \ {h} PROVE InTx(g)' /\ Told(g)'
  <2>1. gReq'[g] = gReq[g] /\ InTx(g) /\ Told(g) /\ gReq[g] \in GRequests
    BY DEF GrantInv, GrantShape, OthersStay
  <2>2. Told(g)'
    BY <2>1 DEF Told
  <2>3. gReq[g].pc \in {"credit", "commit"} => gLock'[gReq[g].row] = g
    <3>1. ASSUME gReq[g].pc \in {"credit", "commit"} PROVE gReq[g].row \in GRows /\ gLock[gReq[g].row] = g
      BY <2>1, <3>1, RequestPcs DEF InTx, GActive
    <3> QED BY <3>1 DEF OthersStay
  <2>4. gReq[g].pc = "commit" => gLock'[UserRow(gReq[g].user)] = g
    <3>1. ASSUME gReq[g].pc = "commit"
          PROVE  UserRow(gReq[g].user) \in GRows /\ gLock[UserRow(gReq[g].user)] = g
      BY <2>1, <3>1, RequestPcs, RowsApart DEF InTx, GActive
    <3> QED BY <3>1 DEF OthersStay
  <2>5. InTx(g)'
    BY <2>1, <2>3, <2>4 DEF InTx
  <2> QED BY <2>2, <2>5
<1>3. GrantedOnce' /\ LedgerChains' /\ StartsEmpty'
  <2>1. \A ref : RowsFor(ref)' = RowsFor(ref)
    BY DEF RowsFor
  <2>2. \A u : RowsOf(u)' = RowsOf(u)
    BY DEF RowsOf
  <2>3. GrantedOnce'
    BY <2>1 DEF GrantInv, GrantedOnce
  <2>4. LedgerChains'
    BY <2>2 DEF GrantInv, LedgerChains
  <2>5. StartsEmpty'
    BY <2>2 DEF GrantInv, StartsEmpty
  <2> QED BY <2>3, <2>4, <2>5
<1> QED BY <1>1, <1>2, <1>3 DEF GrantInv

LEMMA RollbackLocks ==
    ASSUME GrantShape, NEW h \in GHandlers, Rollback(h)
    PROVE  /\ gLock' \in [GRows -> GHandlers \cup {NoOne}]
           /\ \A g \in GHandlers \ {h} : \A r \in GRows : gLock[r] = g => gLock'[r] = g
BY DEF GrantShape, Rollback

LEMMA AnswerFields ==
    ASSUME GrantInv, NEW h \in GHandlers, gReq[h] \in GActive,
           NEW what \in {"ok", "notFound", "used", "expired", "error"}, NEW record \in GRecords
    PROVE  /\ Answer(h, what, record) \in GAnswered
           /\ Answer(h, what, record).kind = gReq[h].kind
           /\ Answer(h, what, record).user = gReq[h].user
           /\ Answer(h, what, record).ref = gReq[h].ref
           /\ Answer(h, what, record).what = what
           /\ Answer(h, what, record).record = record
           /\ Asks(gReq[h])
<1>1. Asks(gReq[h])
  BY DEF GrantInv, InTx
<1> QED BY <1>1 DEF Answer, GActive, GAnswered

\* A request that is answered without a commit.
LEMMA AnswerStep ==
    ASSUME GrantInv, NEW h \in GHandlers, gReq[h] \in GActive,
           NEW what \in {"ok", "notFound", "used", "expired", "error"}, NEW record \in GRecords,
           gReq' = [gReq EXCEPT ![h] = Answer(h, what, record)],
           Rollback(h) \/ UNCHANGED gLock,
           UNCHANGED <<gCode, gDay, gUser, gLedger, gToday, gReward>>,
           what = "ok" => gReq[h].kind = "checkin" /\ record = gDay[gReq[h].ref] /\ record # NoRecord,
           what = "used" /\ gReq[h].kind = "redeem" => gCode[gReq[h].ref] \in GUsers
    PROVE  GrantInv'
<1> DEFINE a == Answer(h, what, record)
<1>1. /\ a \in GAnswered /\ a.kind = gReq[h].kind /\ a.user = gReq[h].user /\ a.ref = gReq[h].ref
      /\ a.what = what /\ a.record = record /\ Asks(gReq[h])
  BY AnswerFields
<1> HIDE DEF a
<1>2. gReq' \in [GHandlers -> GRequests] /\ gReq'[h] = a /\ \A g \in GHandlers \ {h} : gReq'[g] = gReq[g]
  BY <1>1 DEF GrantInv, GrantShape, GRequests, a
<1>3. OthersStay(h)
  <2>1. /\ gLock' \in [GRows -> GHandlers \cup {NoOne}]
        /\ \A g \in GHandlers \ {h} : \A r \in GRows : gLock[r] = g => gLock'[r] = g
    <3>1. CASE Rollback(h)
      BY <3>1, RollbackLocks DEF GrantInv
    <3>2. CASE UNCHANGED gLock
      BY <3>2 DEF GrantInv, GrantShape
    <3> QED BY <3>1, <3>2
  <2> QED BY <1>2, <2>1 DEF OthersStay
<1>4. a.pc = "done" /\ a \notin GActive
  BY <1>1 DEF GAnswered, GActive
<1>5. InTx(h)'
  BY <1>2, <1>4 DEF InTx
<1>6. Asks(a)
  BY <1>1 DEF Asks
<1>7. Told(h)'
  BY <1>1, <1>2, <1>6 DEF Told
<1> QED BY <1>3, <1>5, <1>7, PrivateStep

\* A request that goes on in its transaction.
LEMMA ActiveStep ==
    ASSUME GrantInv, NEW h \in GHandlers, NEW q \in GActive,
           gReq' = [gReq EXCEPT ![h] = q], InTx(h)',
           gLock' \in [GRows -> GHandlers \cup {NoOne}],
           \A g \in GHandlers \ {h} : \A r \in GRows : gLock[r] = g => gLock'[r] = g,
           UNCHANGED <<gCode, gDay, gUser, gLedger, gToday, gReward>>
    PROVE  GrantInv'
<1>1. gReq' \in [GHandlers -> GRequests] /\ gReq'[h] = q /\ \A g \in GHandlers \ {h} : gReq'[g] = gReq[g]
  BY DEF GrantInv, GrantShape, GRequests
<1>2. q \notin GAnswered
  BY DEF GAnswered, GActive
<1>3. Told(h)'
  BY <1>1, <1>2 DEF Told
<1>4. OthersStay(h)
  BY <1>1 DEF OthersStay
<1> QED BY <1>3, <1>4, PrivateStep

\* A request arrives.
LEMMA BeginKeeps ==
    ASSUME GrantInv, NEW h \in GHandlers, RedeemBegins(h) \/ CheckinBegins(h)
    PROVE  GrantInv'
<1>0. /\ gLock \in [GRows -> GHandlers \cup {NoOne}] /\ gReq \in [GHandlers -> GRequests]
      /\ UNCHANGED <<gCode, gDay, gUser, gLedger, gToday, gReward, gLock>>
      /\ gToday \in Days /\ gReward \in Nat /\ CodeCredits \in Nat
  BY GrantsAssumption DEF GrantInv, GrantShape, RedeemBegins, CheckinBegins
<1>1. ASSUME NEW u \in GUsers, NEW c \in Codes, GReceived(h, "redeem", u, CodeRow(c), CodeCredits, c)
      PROVE  GrantInv'
  <2> DEFINE q == [pc |-> "lock", kind |-> "redeem", user |-> u, row |-> CodeRow(c),
                   amount |-> CodeCredits, ref |-> c, after |-> 0]
  <2>1. q \in GActive
    BY <1>0, RowsApart DEF GActive, GKinds, GRefs
  <2>2. gReq' = [gReq EXCEPT ![h] = q]
    BY <1>1 DEF GReceived
  <2>3. /\ q.pc = "lock" /\ q.kind = "redeem" /\ q.row = CodeRow(c)
        /\ q.amount = CodeCredits /\ q.ref = c
    OBVIOUS
  <2> HIDE DEF q
  <2>4. gReq'[h] = q
    BY <1>0, <2>2
  <2>5. InTx(h)'
    BY <2>3, <2>4 DEF InTx, Asks
  <2> QED BY <1>0, <2>1, <2>2, <2>5, ActiveStep
<1>2. ASSUME NEW u \in GUsers, gReward > 0,
             GReceived(h, "checkin", u, DayRow(u, gToday), gReward, <<u, gToday>>)
      PROVE  GrantInv'
  <2> DEFINE q == [pc |-> "lock", kind |-> "checkin", user |-> u, row |-> DayRow(u, gToday),
                   amount |-> gReward, ref |-> <<u, gToday>>, after |-> 0]
  <2>1. q \in GActive
    <3>1. DayRow(u, gToday) \in GRows /\ <<u, gToday>> \in GRefs
      BY <1>0, RowsApart DEF GRefs
    <3> QED BY <1>0, <3>1 DEF GActive, GKinds
  <2>2. gReq' = [gReq EXCEPT ![h] = q]
    BY <1>2 DEF GReceived
  <2>3. /\ q.pc = "lock" /\ q.kind = "checkin" /\ q.row = DayRow(u, gToday) /\ q.user = u
        /\ q.amount = gReward /\ q.ref = <<u, gToday>>
    OBVIOUS
  <2> HIDE DEF q
  <2>4. gReq'[h] = q
    BY <1>0, <2>2
  <2>5. q.ref \in GUsers \X Days /\ q.ref[1] = u /\ q.ref[2] = gToday
    BY <1>0, <2>3
  <2>6. InTx(h)'
    BY <1>2, <2>3, <2>4, <2>5 DEF InTx, Asks
  <2> QED BY <1>0, <2>1, <2>2, <2>6, ActiveStep
<1> QED BY <1>1, <1>2 DEF RedeemBegins, CheckinBegins

\* A request changes its program counter, and its locks.
LEMMA PcStep ==
    ASSUME GrantShape, NEW h \in GHandlers, gReq[h] \in GActive,
           NEW l \in {"lock", "credit", "commit", "reread"}
    PROVE  /\ [gReq[h] EXCEPT !.pc = l] \in GActive
           /\ [gReq[h] EXCEPT !.pc = l].pc = l
           /\ [gReq[h] EXCEPT !.pc = l].kind = gReq[h].kind
           /\ [gReq[h] EXCEPT !.pc = l].user = gReq[h].user
           /\ [gReq[h] EXCEPT !.pc = l].row = gReq[h].row
           /\ [gReq[h] EXCEPT !.pc = l].amount = gReq[h].amount
           /\ [gReq[h] EXCEPT !.pc = l].ref = gReq[h].ref
           /\ [gReq[h] EXCEPT !.pc = l].after = gReq[h].after
BY DEF GActive

\* It locks its row.
LEMMA LocksKeep ==
    ASSUME GrantInv, NEW h \in GHandlers, RedeemMarks(h) \/ CheckinInserts(h)
    PROVE  GrantInv'
<1> DEFINE p == gReq[h]
           q == [p EXCEPT !.pc = "credit"]
<1>0. /\ gLock \in [GRows -> GHandlers \cup {NoOne}] /\ gReq \in [GHandlers -> GRequests]
      /\ UNCHANGED <<gCode, gDay, gUser, gLedger, gToday, gReward>>
      /\ p.pc = "lock" /\ p \in GActive /\ InTx(h)
  BY RequestPcs DEF GrantInv, GrantShape, RedeemMarks, CheckinInserts
<1>1. /\ p.row \in GRows /\ gLock[p.row] = NoOne /\ gLock' = [gLock EXCEPT ![p.row] = h]
      /\ p.kind = "redeem" => gCode[p.ref] = NoOne
      /\ p.kind = "checkin" => gDay[p.ref] = NoRecord
  <2>1. p.row \in GRows
    BY <1>0 DEF GActive
  <2>2. CASE RedeemMarks(h)
    BY <1>0, <2>1, <2>2 DEF RedeemMarks, InTx
  <2>3. CASE CheckinInserts(h)
    BY <1>0, <2>1, <2>3 DEF CheckinInserts, InTx
  <2> QED BY <2>2, <2>3
<1>2. gReq' = [gReq EXCEPT ![h] = q]
  BY <1>0 DEF RedeemMarks, CheckinInserts
<1>3. /\ q \in GActive /\ q.pc = "credit" /\ q.kind = p.kind /\ q.user = p.user /\ q.row = p.row
      /\ q.amount = p.amount /\ q.ref = p.ref /\ q.after = p.after
  BY <1>0, PcStep DEF GrantInv
<1>4. /\ gLock' \in [GRows -> GHandlers \cup {NoOne}] /\ gLock'[p.row] = h
      /\ \A g \in GHandlers \ {h} : \A r \in GRows : gLock[r] = g => gLock'[r] = g
  BY <1>0, <1>1, GrantsIds
<1> HIDE DEF q
<1>5. gReq'[h] = q
  BY <1>0, <1>2
<1>6. InTx(h)'
  BY <1>0, <1>1, <1>3, <1>4, <1>5 DEF InTx, Asks
<1> QED BY <1>0, <1>2, <1>3, <1>4, <1>6, ActiveStep

\* It finds the check-in of the day there, and reads it.
LEMMA DuplicateKeeps ==
    ASSUME GrantInv, NEW h \in GHandlers, CheckinDuplicate(h)
    PROVE  GrantInv'
<1> DEFINE p == gReq[h]
           q == [p EXCEPT !.pc = "reread"]
<1>0. /\ gReq \in [GHandlers -> GRequests] /\ Rollback(h)
      /\ UNCHANGED <<gCode, gDay, gUser, gLedger, gToday, gReward>>
      /\ p.pc = "lock" /\ p.kind = "checkin" /\ gDay[p.ref] # NoRecord
      /\ gReq' = [gReq EXCEPT ![h] = q]
      /\ p \in GActive /\ InTx(h)
  BY RequestPcs DEF GrantInv, GrantShape, CheckinDuplicate
<1>1. /\ q \in GActive /\ q.pc = "reread" /\ q.kind = p.kind /\ q.user = p.user /\ q.row = p.row
      /\ q.amount = p.amount /\ q.ref = p.ref /\ q.after = p.after
  BY <1>0, PcStep DEF GrantInv
<1>2. /\ gLock' \in [GRows -> GHandlers \cup {NoOne}]
      /\ \A g \in GHandlers \ {h} : \A r \in GRows : gLock[r] = g => gLock'[r] = g
  BY <1>0, RollbackLocks DEF GrantInv
<1> HIDE DEF q
<1>3. gReq'[h] = q
  BY <1>0
<1>4. InTx(h)'
  BY <1>0, <1>1, <1>3 DEF InTx, Asks
<1> QED BY <1>0, <1>1, <1>2, <1>4, ActiveStep

\* creditTx locks the user's row and computes the balance.
LEMMA CreditKeeps ==
    ASSUME GrantInv, NEW h \in GHandlers, creditTx(h)
    PROVE  GrantInv'
<1> DEFINE p == gReq[h]
           u == p.user
           q1 == [p EXCEPT !.pc = "commit"]
           after == gUser[u].balance + p.amount
           q == [q1 EXCEPT !.after = after]
<1>0. /\ gLock \in [GRows -> GHandlers \cup {NoOne}] /\ gReq \in [GHandlers -> GRequests]
      /\ UNCHANGED <<gCode, gDay, gUser, gLedger, gToday, gReward>>
      /\ p.pc = "credit" /\ p \in GActive /\ InTx(h)
      /\ gLock[UserRow(u)] = NoOne /\ gLock' = [gLock EXCEPT ![UserRow(u)] = h]
  BY RequestPcs DEF GrantInv, GrantShape, creditTx
<1>1. gReq' = [gReq EXCEPT ![h] = q]
  BY <1>0 DEF creditTx
<1>2. /\ q1 \in GActive /\ q1.pc = "commit" /\ q1.kind = p.kind /\ q1.user = p.user /\ q1.row = p.row
      /\ q1.amount = p.amount /\ q1.ref = p.ref
  BY <1>0, PcStep DEF GrantInv
<1>3. u \in GUsers /\ UserRow(u) \in GRows /\ p.row \in GRows /\ after \in Int
  <2>1. u \in GUsers /\ p.row \in GRows /\ p.amount \in Nat
    BY <1>0 DEF GActive
  <2>2. gUser[u].balance \in Int
    BY <2>1 DEF GrantInv, GrantShape
  <2> QED BY <2>1, <2>2, RowsApart
<1> HIDE DEF q1, after
<1>4. /\ q \in GActive /\ q.pc = "commit" /\ q.kind = p.kind /\ q.user = p.user /\ q.row = p.row
      /\ q.amount = p.amount /\ q.ref = p.ref /\ q.after = after
  BY <1>2, <1>3 DEF GActive
<1>5. /\ gLock' \in [GRows -> GHandlers \cup {NoOne}] /\ gLock'[UserRow(u)] = h
      /\ \A g \in GHandlers \ {h} : \A r \in GRows : gLock[r] = g => gLock'[r] = g
      /\ gLock'[p.row] = h
  <2>1. gLock[p.row] = h
    BY <1>0 DEF InTx
  <2> QED BY <1>0, <1>3, <2>1, GrantsIds
<1> HIDE DEF q
<1>6. gReq'[h] = q
  BY <1>0, <1>1
<1>7. InTx(h)'
  BY <1>0, <1>3, <1>4, <1>5, <1>6 DEF InTx, Asks, after
<1> QED BY <1>0, <1>1, <1>4, <1>5, <1>7, ActiveStep

\* A request that is refused, fails, or reads the record of the day.
LEMMA RefusalsKeep ==
    ASSUME GrantInv, NEW h \in GHandlers,
           RedeemRefused(h) \/ creditTxRefused(h) \/ GFails(h) \/ CheckinRereads(h)
    PROVE  GrantInv'
<1>0. /\ gReq[h] \in GActive /\ InTx(h)
      /\ UNCHANGED <<gCode, gDay, gUser, gLedger, gToday, gReward>>
      /\ Rollback(h) \/ UNCHANGED gLock
  BY RequestPcs DEF GrantInv, GrantShape, RedeemRefused, creditTxRefused, GFails, CheckinRereads
<1>1. NoRecord \in GRecords
  BY DEF NoRecord, GRecords
<1>2. ASSUME NEW what \in {"notFound", "used", "expired", "error"},
             gReq' = [gReq EXCEPT ![h] = Refusal(h, what)],
             what = "used" => gCode[gReq[h].ref] \in GUsers
      PROVE  GrantInv'
  <2>1. gReq' = [gReq EXCEPT ![h] = Answer(h, what, NoRecord)]
    BY <1>2 DEF Refusal
  <2> QED BY <1>0, <1>1, <1>2, <2>1, AnswerStep
<1>3. CASE RedeemRefused(h)
  BY <1>2, <1>3 DEF RedeemRefused
<1>4. CASE creditTxRefused(h) \/ GFails(h)
  BY <1>2, <1>4 DEF creditTxRefused, GFails
<1>5. CASE CheckinRereads(h)
  <2>1. gReq[h].kind = "checkin" /\ gDay[gReq[h].ref] # NoRecord /\ Asks(gReq[h])
    BY <1>0, <1>5 DEF CheckinRereads, InTx
  <2>2. gDay[gReq[h].ref] \in GRecords
    BY <2>1 DEF Asks, GrantInv, GrantShape
  <2>3. gReq' = [gReq EXCEPT ![h] = Answer(h, "ok", gDay[gReq[h].ref])]
    BY <1>5 DEF CheckinRereads
  <2> QED BY <1>0, <2>1, <2>2, <2>3, AnswerStep
<1> QED BY <1>3, <1>4, <1>5

\* The client's next request.
LEMMA NextRequestKeeps ==
    ASSUME GrantInv, NEW h \in GHandlers, GNextRequest(h)
    PROVE  GrantInv'
<1>1. /\ gReq' \in [GHandlers -> GRequests] /\ gReq'[h] = GIdle
      /\ \A g \in GHandlers \ {h} : gReq'[g] = gReq[g]
      /\ UNCHANGED <<gCode, gDay, gUser, gLedger, gLock, gToday, gReward>>
  BY DEF GrantInv, GrantShape, GRequests, GNextRequest
<1>2. OthersStay(h)
  BY <1>1 DEF OthersStay, GrantInv, GrantShape
<1>3. GIdle.pc = "idle" /\ GIdle \notin GActive /\ GIdle \notin GAnswered
  BY DEF GIdle, GActive, GAnswered
<1>4. InTx(h)' /\ Told(h)'
  BY <1>1, <1>3 DEF InTx, Told
<1> QED BY <1>1, <1>2, <1>4, PrivateStep

-----------------------------------------------------------------------------
(* The commit.                                                             *)

\* What a commit writes.
LEMMA CommitWrites ==
    ASSUME GrantInv, NEW h \in GHandlers, CommitTx(h)
    PROVE  LET q == gReq[h]
               row == LedgerRow(q.user, q.amount, q.after, q.row)
           IN /\ q \in GActive /\ Asks(q) /\ q.pc = "commit" /\ InTx(h)
              /\ q.user \in GUsers /\ q.row \in GRows /\ q.amount \in Nat /\ q.after \in Int
              /\ row \in GLedgerRows
              /\ row.user = q.user /\ row.amount = q.amount /\ row.after = q.after /\ row.ref = q.row
              /\ gLedger' = Append(gLedger, row)
              /\ gUser' \in [GUsers -> [balance : Int, deleted : BOOLEAN]]
              /\ gUser'[q.user].balance = gUser[q.user].balance + q.amount
              /\ \A v \in GUsers \ {q.user} : gUser'[v].balance = gUser[v].balance
              /\ gCode' \in [Codes -> GUsers \cup {NoOne, Missing}]
              /\ gDay' \in [GUsers \X Days -> GRecords]
<1> DEFINE q == gReq[h]
           row == LedgerRow(q.user, q.amount, q.after, q.row)
<1>1. q \in GActive /\ Asks(q) /\ q.pc = "commit" /\ InTx(h)
  BY RequestPcs DEF GrantInv, GrantShape, CommitTx, InTx
<1>2. q.user \in GUsers /\ q.row \in GRows /\ q.amount \in Nat /\ q.after \in Int /\ q.kind \in GKinds
  BY <1>1 DEF GActive
<1>3. /\ row \in GLedgerRows
      /\ row.user = q.user /\ row.amount = q.amount /\ row.after = q.after /\ row.ref = q.row
  BY <1>2 DEF LedgerRow, GLedgerRows
<1>4. gLedger' = Append(gLedger, row)
  BY DEF CommitTx
<1>5. /\ gUser' \in [GUsers -> [balance : Int, deleted : BOOLEAN]]
      /\ gUser'[q.user].balance = gUser[q.user].balance + q.amount
      /\ \A v \in GUsers \ {q.user} : gUser'[v].balance = gUser[v].balance
  <2>1. gUser' = [gUser EXCEPT ![q.user].balance = @ + q.amount]
    BY DEF CommitTx
  <2>2. gUser \in [GUsers -> [balance : Int, deleted : BOOLEAN]]
    BY DEF GrantInv, GrantShape
  <2> HIDE DEF q
  <2> QED BY <1>2, <2>1, <2>2
<1>6. gCode' \in [Codes -> GUsers \cup {NoOne, Missing}]
  <2>1. gCode' = IF q.kind = "redeem" THEN [gCode EXCEPT ![q.ref] = q.user] ELSE gCode
    BY DEF CommitTx
  <2> QED BY <1>2, <2>1 DEF GrantInv, GrantShape
<1>7. gDay' \in [GUsers \X Days -> GRecords]
  <2>1. gDay' = IF q.kind = "checkin"
                THEN [gDay EXCEPT ![q.ref] = [award |-> q.amount, after |-> q.after]] ELSE gDay
    BY DEF CommitTx
  <2>2. [award |-> q.amount, after |-> q.after] \in GRecords
    BY <1>2 DEF GRecords
  <2> QED BY <2>1, <2>2 DEF GrantInv, GrantShape
<1> HIDE DEF q, row
<1>8. /\ q \in GActive /\ Asks(q) /\ q.pc = "commit" /\ InTx(h)
      /\ q.user \in GUsers /\ q.row \in GRows /\ q.amount \in Nat /\ q.after \in Int
      /\ row \in GLedgerRows
      /\ row.user = q.user /\ row.amount = q.amount /\ row.after = q.after /\ row.ref = q.row
      /\ gLedger' = Append(gLedger, row)
      /\ gUser' \in [GUsers -> [balance : Int, deleted : BOOLEAN]]
      /\ gUser'[q.user].balance = gUser[q.user].balance + q.amount
      /\ \A v \in GUsers \ {q.user} : gUser'[v].balance = gUser[v].balance
      /\ gCode' \in [Codes -> GUsers \cup {NoOne, Missing}]
      /\ gDay' \in [GUsers \X Days -> GRecords]
  BY <1>1, <1>2, <1>3, <1>4, <1>5, <1>6, <1>7
<1> QED BY <1>8 DEF q, row

\* What it writes over was open: a used code and a record of a day stay.
LEMMA CommitOverOpen ==
    ASSUME GrantInv, NEW h \in GHandlers, CommitTx(h)
    PROVE  LET q == gReq[h]
           IN /\ q.kind = "redeem" =>
                    /\ gCode[q.ref] = NoOne /\ gCode'[q.ref] = q.user /\ gDay' = gDay
                    /\ \A c \in Codes \ {q.ref} : gCode'[c] = gCode[c]
              /\ q.kind = "checkin" =>
                    /\ gDay[q.ref] = NoRecord /\ gCode' = gCode
                    /\ gDay'[q.ref] = [award |-> q.amount, after |-> q.after]
                    /\ gDay'[q.ref] # NoRecord
                    /\ \A r \in (GUsers \X Days) \ {q.ref} : gDay'[r] = gDay[r]
              /\ \A c \in Codes : gCode[c] \in GUsers => gCode'[c] = gCode[c]
              /\ \A r \in GUsers \X Days : gDay[r] # NoRecord => gDay'[r] = gDay[r]
<1> DEFINE q == gReq[h]
<1>1. /\ q \in GActive /\ Asks(q) /\ q.pc = "commit" /\ InTx(h) /\ q.kind \in GKinds
      /\ q.user \in GUsers /\ q.amount \in Nat
  BY CommitWrites DEF GActive
<1>2. gCode \in [Codes -> GUsers \cup {NoOne, Missing}] /\ gDay \in [GUsers \X Days -> GRecords]
  BY DEF GrantInv, GrantShape
<1>3. /\ gCode' = IF q.kind = "redeem" THEN [gCode EXCEPT ![q.ref] = q.user] ELSE gCode
      /\ gDay' = IF q.kind = "checkin"
                 THEN [gDay EXCEPT ![q.ref] = [award |-> q.amount, after |-> q.after]] ELSE gDay
  BY DEF CommitTx
<1>4. /\ q.kind = "redeem" => gCode[q.ref] = NoOne /\ q.ref \in Codes
      /\ q.kind = "checkin" => gDay[q.ref] = NoRecord /\ q.ref \in GUsers \X Days /\ q.amount > 0
  BY <1>1 DEF InTx, Asks
<1>5. q.amount > 0 => [award |-> q.amount, after |-> q.after] # NoRecord
  BY <1>1 DEF NoRecord
<1> HIDE DEF q
<1>6. CASE q.kind = "redeem"
  BY <1>2, <1>3, <1>4, <1>6, GrantsIds DEF q
<1>7. CASE q.kind = "checkin"
  BY <1>2, <1>3, <1>4, <1>5, <1>7 DEF q
<1> QED BY <1>1, <1>6, <1>7 DEF GKinds, q

\* A commit books once what was not booked before.
LEMMA CommitGrantsOnce ==
    ASSUME GrantInv, NEW h \in GHandlers, CommitTx(h)
    PROVE  GrantedOnce'
<1> DEFINE q == gReq[h]
           row == LedgerRow(q.user, q.amount, q.after, q.row)
           n == Len(gLedger) + 1
<1>0. /\ q \in GActive /\ Asks(q) /\ InTx(h) /\ q.user \in GUsers /\ GrantShape /\ GrantedOnce
      /\ row \in GLedgerRows /\ gLedger' = Append(gLedger, row)
      /\ row.user = q.user /\ row.amount = q.amount /\ row.after = q.after /\ row.ref = q.row
  BY CommitWrites DEF GrantInv
<1>1. /\ q.kind = "redeem" => q.ref \in Codes /\ q.row = CodeRow(q.ref) /\ q.amount = CodeCredits
      /\ q.kind = "checkin" => /\ q.ref \in GUsers \X Days /\ q.row = DayRow(q.ref[1], q.ref[2])
                               /\ q.user = q.ref[1]
      /\ q.kind \in GKinds
  BY <1>0 DEF InTx, Asks, GActive
<1>2. /\ q.kind = "redeem" =>
            /\ gCode[q.ref] = NoOne /\ gCode'[q.ref] = q.user /\ gDay' = gDay
            /\ \A c \in Codes \ {q.ref} : gCode'[c] = gCode[c]
      /\ q.kind = "checkin" =>
            /\ gDay[q.ref] = NoRecord /\ gCode' = gCode
            /\ gDay'[q.ref] = [award |-> q.amount, after |-> q.after]
            /\ gDay'[q.ref] # NoRecord
            /\ \A r \in (GUsers \X Days) \ {q.ref} : gDay'[r] = gDay[r]
  BY CommitOverOpen
<1> HIDE DEF q, row
<1>3. /\ n \in DOMAIN gLedger' /\ gLedger'[n] = row
      /\ \A i \in DOMAIN gLedger : i \in DOMAIN gLedger' /\ gLedger'[i] = gLedger[i]
  BY <1>0, LedgerGrows
<1>4. \A ref : RowsFor(ref)' = RowsFor(ref) \cup (IF row.ref = ref THEN {n} ELSE {})
  BY <1>0, RowsForGrows
<1> HIDE DEF n
<1>5. ASSUME NEW c \in Codes
      PROVE  IF gCode'[c] \in GUsers
             THEN \E i \in DOMAIN gLedger' :
                     /\ RowsFor(CodeRow(c))' = {i}
                     /\ gLedger'[i].user = gCode'[c] /\ gLedger'[i].amount = CodeCredits
             ELSE RowsFor(CodeRow(c))' = {}
  <2>1. CASE q.kind = "redeem" /\ c = q.ref
    <3>1. RowsFor(CodeRow(c)) = {}
      BY <1>0, <1>2, <2>1, GrantsIds DEF GrantedOnce
    <3>2. RowsFor(CodeRow(c))' = {n}
      BY <1>0, <1>1, <1>4, <2>1, <3>1
    <3>3. gCode'[c] \in GUsers /\ gLedger'[n].user = gCode'[c] /\ gLedger'[n].amount = CodeCredits
      BY <1>0, <1>1, <1>2, <1>3, <2>1
    <3> QED BY <1>3, <3>2, <3>3
  <2>2. CASE ~(q.kind = "redeem" /\ c = q.ref)
    <3>1. gCode'[c] = gCode[c]
      BY <1>1, <1>2, <2>2 DEF GKinds
    <3>2. q.row # CodeRow(c)
      <4>1. CASE q.kind = "redeem"
        BY <1>1, <2>2, <4>1, RowsApart
      <4>2. CASE q.kind = "checkin"
        <5>1. q.ref[1] \in GUsers /\ q.ref[2] \in Days
          BY <1>1, <4>2
        <5> QED BY <1>1, <4>2, <5>1, RowsApart
      <4> QED BY <1>1, <4>1, <4>2 DEF GKinds
    <3>3. RowsFor(CodeRow(c))' = RowsFor(CodeRow(c))
      BY <1>0, <1>4, <3>2
    <3> QED BY <1>0, <1>3, <3>1, <3>3 DEF GrantedOnce
  <2> QED BY <2>1, <2>2
<1>6. ASSUME NEW u \in GUsers, NEW d \in Days
      PROVE  IF gDay'[<<u, d>>] # NoRecord
             THEN \E i \in DOMAIN gLedger' :
                     /\ RowsFor(DayRow(u, d))' = {i}
                     /\ gLedger'[i].user = u
                     /\ gDay'[<<u, d>>] = [award |-> gLedger'[i].amount, after |-> gLedger'[i].after]
             ELSE RowsFor(DayRow(u, d))' = {}
  <2>1. CASE q.kind = "checkin" /\ <<u, d>> = q.ref
    <3>0. q.ref[1] = u /\ q.ref[2] = d
      BY <2>1
    <3>1. RowsFor(DayRow(u, d)) = {}
      BY <1>0, <1>2, <2>1 DEF GrantedOnce
    <3>2. RowsFor(DayRow(u, d))' = {n}
      BY <1>0, <1>1, <1>4, <2>1, <3>0, <3>1
    <3>3. gDay'[<<u, d>>] # NoRecord /\ gLedger'[n].user = u
      BY <1>0, <1>1, <1>2, <1>3, <2>1, <3>0
    <3>4. gDay'[<<u, d>>] = [award |-> gLedger'[n].amount, after |-> gLedger'[n].after]
      BY <1>0, <1>2, <1>3, <2>1
    <3> QED BY <1>3, <3>2, <3>3, <3>4
  <2>2. CASE ~(q.kind = "checkin" /\ <<u, d>> = q.ref)
    <3>0. <<u, d>> \in GUsers \X Days
      OBVIOUS
    <3>1. gDay'[<<u, d>>] = gDay[<<u, d>>]
      BY <1>1, <1>2, <2>2, <3>0 DEF GKinds
    <3>2. q.row # DayRow(u, d)
      <4>1. CASE q.kind = "redeem"
        BY <1>1, <4>1, RowsApart
      <4>2. CASE q.kind = "checkin"
        <5>1. q.ref[1] \in GUsers /\ q.ref[2] \in Days /\ q.ref = <<q.ref[1], q.ref[2]>>
          BY <1>1, <4>2
        <5>2. ~(q.ref[1] = u /\ q.ref[2] = d)
          BY <2>2, <4>2, <5>1
        <5> QED BY <1>1, <4>2, <5>1, <5>2, RowsApart
      <4> QED BY <1>1, <4>1, <4>2 DEF GKinds
    <3>3. RowsFor(DayRow(u, d))' = RowsFor(DayRow(u, d))
      BY <1>0, <1>4, <3>2
    <3>4. IF gDay[<<u, d>>] # NoRecord
          THEN \E i \in DOMAIN gLedger :
                  /\ RowsFor(DayRow(u, d)) = {i}
                  /\ gLedger[i].user = u
                  /\ gDay[<<u, d>>] = [award |-> gLedger[i].amount, after |-> gLedger[i].after]
          ELSE RowsFor(DayRow(u, d)) = {}
      BY <1>0 DEF GrantedOnce
    <3> QED BY <1>3, <3>1, <3>3, <3>4
  <2> QED BY <2>1, <2>2
<1> QED BY <1>5, <1>6 DEF GrantedOnce

\* The locks keep a commit from what the other requests rely on.
LEMMA CommitKeepsOthers ==
    ASSUME GrantInv, NEW h \in GHandlers, CommitTx(h), NEW g \in GHandlers \ {h}, gReq'[g] = gReq[g]
    PROVE  InTx(g)' /\ Told(g)'
<1> DEFINE q == gReq[h]
           p == gReq[g]
<1>0. /\ q \in GActive /\ q.pc = "commit" /\ InTx(h) /\ Asks(q) /\ q.user \in GUsers /\ q.row \in GRows
      /\ q.kind \in GKinds
      /\ \A v \in GUsers \ {q.user} : gUser'[v].balance = gUser[v].balance
  BY CommitWrites DEF GActive
<1>1. /\ q.kind = "redeem" => gDay' = gDay /\ \A c \in Codes \ {q.ref} : gCode'[c] = gCode[c]
      /\ q.kind = "checkin" => gCode' = gCode /\ \A r \in (GUsers \X Days) \ {q.ref} : gDay'[r] = gDay[r]
      /\ \A c \in Codes : gCode[c] \in GUsers => gCode'[c] = gCode[c]
      /\ \A r \in GUsers \X Days : gDay[r] # NoRecord => gDay'[r] = gDay[r]
  BY CommitOverOpen
<1>2. InTx(g) /\ Told(g) /\ p \in GRequests
  BY DEF GrantInv, GrantShape
<1>3. \A r \in GRows : gLock[r] = g => gLock'[r] = g
  BY RollbackLocks DEF CommitTx, GrantInv
<1>4. Told(g)'
  BY <1>1, <1>2, ToldStays
<1>5. CASE p.pc \in {"credit", "commit"}
  <2>1. p \in GActive /\ Asks(p) /\ p.row \in GRows /\ p.user \in GUsers /\ gLock[p.row] = g
    BY <1>2, <1>5, RequestPcs DEF InTx, GActive
  <2>2. gLock[q.row] = h /\ gLock[UserRow(q.user)] = h /\ p.row # q.row
    BY <1>0, <2>1 DEF InTx
  <2>3. ASSUME p.kind = "redeem" PROVE gCode'[p.ref] = NoOne
    <3>1. p.ref \in Codes /\ p.row = CodeRow(p.ref) /\ gCode[p.ref] = NoOne
      BY <1>2, <1>5, <2>1, <2>3 DEF InTx, Asks
    <3>2. q.kind = "redeem" => p.ref # q.ref
      BY <1>0, <2>2, <3>1 DEF InTx
    <3> QED BY <1>0, <1>1, <3>1, <3>2 DEF GKinds
  <2>4. ASSUME p.kind = "checkin" PROVE gDay'[p.ref] = NoRecord
    <3>1. p.ref \in GUsers \X Days /\ p.row = DayRow(p.ref[1], p.ref[2]) /\ gDay[p.ref] = NoRecord
      BY <1>2, <1>5, <2>1, <2>4 DEF InTx, Asks
    <3>2. q.kind = "checkin" => p.ref # q.ref
      BY <1>0, <2>2, <3>1 DEF InTx
    <3> QED BY <1>0, <1>1, <3>1, <3>2 DEF GKinds
  <2>5. ASSUME p.pc = "commit"
        PROVE  gLock'[UserRow(p.user)] = g /\ p.after = gUser'[p.user].balance + p.amount
    <3>1. gLock[UserRow(p.user)] = g /\ p.after = gUser[p.user].balance + p.amount
      BY <1>2, <2>5 DEF InTx
    <3>2. p.user # q.user
      BY <2>2, <3>1
    <3> QED BY <1>0, <1>3, <2>1, <3>1, <3>2, RowsApart
  <2>6. gLock'[p.row] = g
    BY <1>3, <2>1
  <2> HIDE DEF p
  <2>7. gReq'[g] = p /\ p \in GActive /\ p.pc # "reread" /\ p = gReq[g]
    BY <1>5, <2>1 DEF p
  <2> QED BY <1>2, <1>4, <1>5, <2>3, <2>4, <2>5, <2>6, <2>7 DEF InTx, Asks
<1>6. CASE p.pc \notin {"credit", "commit"}
  <2>1. ASSUME p.pc = "reread" PROVE gDay'[p.ref] # NoRecord
    <3>1. p \in GActive /\ p.kind = "checkin" /\ gDay[p.ref] # NoRecord /\ p.ref \in GUsers \X Days
      BY <1>2, <2>1, RequestPcs DEF InTx, Asks
    <3> QED BY <1>1, <3>1
  <2> QED BY <1>2, <1>4, <1>6, <2>1 DEF InTx, Asks
<1> QED BY <1>5, <1>6

LEMMA CommitKeeps ==
    ASSUME GrantInv, NEW h \in GHandlers, Commits(h) \/ CommitAckLost(h)
    PROVE  GrantInv'
<1> DEFINE q == gReq[h]
           record == [award |-> q.amount, after |-> q.after]
<1>0. CommitTx(h) /\ UNCHANGED <<gToday, gReward>>
  BY DEF Commits, CommitAckLost, CommitTx
<1>1. /\ q \in GActive /\ Asks(q) /\ q.pc = "commit" /\ InTx(h) /\ q.kind \in GKinds
      /\ q.user \in GUsers /\ q.row \in GRows /\ q.amount \in Nat /\ q.after \in Int
      /\ LedgerRow(q.user, q.amount, q.after, q.row) \in GLedgerRows
      /\ gLedger' = Append(gLedger, LedgerRow(q.user, q.amount, q.after, q.row))
      /\ gUser' \in [GUsers -> [balance : Int, deleted : BOOLEAN]]
      /\ gUser'[q.user].balance = gUser[q.user].balance + q.amount
      /\ \A v \in GUsers \ {q.user} : gUser'[v].balance = gUser[v].balance
      /\ gCode' \in [Codes -> GUsers \cup {NoOne, Missing}]
      /\ gDay' \in [GUsers \X Days -> GRecords]
  BY <1>0, CommitWrites DEF GActive
<1>2. record \in GRecords /\ NoRecord \in GRecords
  BY <1>1 DEF GRecords, NoRecord
<1>3. ASSUME NEW what \in {"ok", "error"}, NEW rec \in GRecords,
             gReq' = [gReq EXCEPT ![h] = Answer(h, what, rec)],
             what = "ok" => rec = record
      PROVE  GrantInv'
  <2> DEFINE a == Answer(h, what, rec)
  <2>1. /\ a \in GAnswered /\ a.kind = q.kind /\ a.user = q.user /\ a.ref = q.ref
        /\ a.what = what /\ a.record = rec
    BY <1>1, AnswerFields
  <2> HIDE DEF a
  <2>2. /\ gReq' \in [GHandlers -> GRequests] /\ gReq'[h] = a
        /\ \A g \in GHandlers \ {h} : gReq'[g] = gReq[g]
    BY <1>3, <2>1 DEF GrantInv, GrantShape, GRequests, a
  <2>3. GrantShape'
    <3>1. gLedger' \in Seq(GLedgerRows)
      BY <1>1, LedgerGrows DEF GrantInv
    <3>2. gLock' \in [GRows -> GHandlers \cup {NoOne}]
      BY <1>0, RollbackLocks DEF CommitTx, GrantInv
    <3> QED BY <1>0, <1>1, <2>2, <3>1, <3>2 DEF GrantInv, GrantShape
  <2>4. InTx(h)'
    <3>1. a.pc = "done" /\ a \notin GActive
      BY <2>1 DEF GAnswered, GActive
    <3> QED BY <2>2, <3>1 DEF InTx
  <2>5. Told(h)'
    <3>1. /\ q.kind = "redeem" => gCode'[q.ref] = q.user
          /\ q.kind = "checkin" => gDay'[q.ref] = record /\ gDay'[q.ref] # NoRecord
      BY <1>0, CommitOverOpen
    <3>2. Asks(a)
      BY <1>1, <2>1 DEF Asks
    <3> HIDE DEF q, record
    <3> QED BY <1>3, <2>1, <2>2, <3>1, <3>2 DEF Told
  <2>6. \A g \in GHandlers \ {h} : InTx(g)' /\ Told(g)'
    BY <1>0, <2>2, CommitKeepsOthers
  <2>7. GrantedOnce'
    BY <1>0, CommitGrantsOnce
  <2>8. LedgerChains' /\ StartsEmpty'
    <3> DEFINE row == LedgerRow(q.user, q.amount, q.after, q.row)
    <3>1. row.user = q.user /\ row.amount = q.amount /\ row.after = q.after
      BY DEF LedgerRow
    <3>2. q.after = gUser[q.user].balance + q.amount
      BY <1>1 DEF InTx
    <3>3. row \in GLedgerRows /\ gLedger' = Append(gLedger, row) /\ q.user \in GUsers
      BY <1>1
    <3> HIDE DEF row
    <3>4. row.after = gUser[q.user].balance + row.amount
      BY <3>1, <3>2
    <3>5. gUser'[q.user].balance = gUser[q.user].balance + row.amount
      BY <1>1, <3>1
    <3>6. \A v \in GUsers \ {q.user} : gUser'[v].balance = gUser[v].balance
      BY <1>1
    <3>7. GrantShape /\ LedgerChains /\ StartsEmpty
      BY DEF GrantInv
    <3> HIDE DEF q
    <3> QED BY <3>1, <3>3, <3>4, <3>5, <3>6, <3>7, ChainGrows
  <2> QED BY <2>3, <2>4, <2>5, <2>6, <2>7, <2>8 DEF GrantInv
<1>4. CASE Commits(h)
  BY <1>2, <1>3, <1>4 DEF Commits
<1>5. CASE CommitAckLost(h)
  BY <1>2, <1>3, <1>5 DEF CommitAckLost, Refusal
<1> QED BY <1>4, <1>5

-----------------------------------------------------------------------------
(* The others.                                                             *)

\* Steps of the administrators and the clock that book nothing.
LEMMA QuietGrants ==
    ASSUME GrantInv,
           UNCHANGED <<gDay, gLedger, gLock, gReq>>,
           gCode' \in [Codes -> GUsers \cup {NoOne, Missing}],
           \A c \in Codes : gCode[c] # Missing => gCode'[c] = gCode[c],
           \A c \in Codes : gCode[c] = Missing => gCode'[c] \notin GUsers,
           gUser' \in [GUsers -> [balance : Int, deleted : BOOLEAN]],
           \A u \in GUsers : gUser'[u].balance = gUser[u].balance,
           gToday' \in Days, gReward' \in Rewards
    PROVE  GrantInv'
<1>1. GrantShape'
  BY DEF GrantInv, GrantShape
<1>2. ASSUME NEW g \in GHandlers PROVE InTx(g)' /\ Told(g)'
  <2> DEFINE p == gReq[g]
  <2>1. InTx(g) /\ Told(g) /\ p \in GRequests /\ gReq'[g] = p
    BY DEF GrantInv, GrantShape
  <2>2. \A c \in Codes : gCode[c] = NoOne => gCode'[c] = NoOne
    BY DEF NoOne, Missing
  <2>3. \A c \in Codes : gCode[c] \in GUsers => gCode'[c] = gCode[c]
    BY GrantsIds
  <2>4. p \in GActive => p.user \in GUsers
    BY DEF GActive
  <2>5. p.pc \in {"credit", "commit", "reread"} => p \in GActive
    BY <2>1, RequestPcs
  <2>6. InTx(g)'
    <3> HIDE DEF p
    <3>1. p = gReq[g]
      BY DEF p
    <3> QED BY <2>1, <2>2, <2>4, <2>5, <3>1 DEF InTx, Asks
  <2>7. Told(g)'
    BY <2>1, <2>3, ToldStays
  <2> QED BY <2>6, <2>7
<1>3. GrantedOnce' /\ LedgerChains' /\ StartsEmpty'
  <2>1. \A ref : RowsFor(ref)' = RowsFor(ref)
    BY DEF RowsFor
  <2>2. \A u : RowsOf(u)' = RowsOf(u)
    BY DEF RowsOf
  <2>3. \A c \in Codes : gCode'[c] = gCode[c] \/ (gCode[c] \notin GUsers /\ gCode'[c] \notin GUsers)
    BY GrantsIds
  <2>4. GrantedOnce'
    BY <2>1, <2>3 DEF GrantInv, GrantedOnce
  <2>5. LedgerChains'
    BY <2>2 DEF GrantInv, LedgerChains
  <2>6. StartsEmpty'
    BY <2>2 DEF GrantInv, StartsEmpty
  <2> QED BY <2>4, <2>5, <2>6
<1> QED BY <1>1, <1>2, <1>3 DEF GrantInv

\* Another movement waits for the lock of the user's row.
LEMMA MovesKeep ==
    ASSUME GrantInv, NEW u \in GUsers, GMoves(u)
    PROVE  GrantInv'
<1> DEFINE row == LedgerRow(u, 1, gUser[u].balance + 1, <<"other">>)
<1>0. /\ gUser \in [GUsers -> [balance : Int, deleted : BOOLEAN]] /\ gUser[u].balance \in Int
      /\ GrantShape /\ LedgerChains /\ StartsEmpty /\ GrantedOnce
      /\ gLock[UserRow(u)] = NoOne
      /\ UNCHANGED <<gCode, gDay, gLock, gReq, gToday, gReward>>
      /\ gLedger' = Append(gLedger, row)
      /\ gUser' = [gUser EXCEPT ![u].balance = @ + 1]
  BY DEF GrantInv, GrantShape, GMoves
<1>1. /\ gUser' \in [GUsers -> [balance : Int, deleted : BOOLEAN]]
      /\ gUser'[u].balance = gUser[u].balance + 1
      /\ \A v \in GUsers \ {u} : gUser'[v].balance = gUser[v].balance
  <2>1. /\ gUser \in [GUsers -> [balance : Int, deleted : BOOLEAN]]
        /\ gUser' = [gUser EXCEPT ![u] = [gUser[u] EXCEPT !.balance = gUser[u].balance + 1]]
    BY DEF GrantInv, GrantShape, GMoves
  <2> DEFINE new == [gUser[u] EXCEPT !.balance = gUser[u].balance + 1]
  <2>2. new \in [balance : Int, deleted : BOOLEAN] /\ new.balance = gUser[u].balance + 1
    BY <2>1
  <2>3. gUser' = [gUser EXCEPT ![u] = new]
    BY <2>1
  <2> HIDE DEF new
  <2> QED BY <2>1, <2>2, <2>3
<1>2. /\ row \in GLedgerRows /\ row.user = u /\ row.amount = 1
      /\ row.after = gUser[u].balance + 1 /\ row.ref = <<"other">>
  BY <1>0 DEF LedgerRow, GLedgerRows
<1> HIDE DEF row
<1>3. LedgerChains' /\ StartsEmpty'
  BY <1>0, <1>1, <1>2, ChainGrows
<1>4. gLedger' \in Seq(GLedgerRows) /\ \A i \in DOMAIN gLedger : i \in DOMAIN gLedger' /\ gLedger'[i] = gLedger[i]
  BY <1>0, <1>2, LedgerGrows
<1>5. GrantShape'
  BY <1>0, <1>1, <1>4 DEF GrantShape
<1>6. GrantedOnce'
  <2>1. /\ \A c \in Codes : RowsFor(CodeRow(c))' = RowsFor(CodeRow(c))
        /\ \A v \in GUsers, d \in Days : RowsFor(DayRow(v, d))' = RowsFor(DayRow(v, d))
    <3>1. \A ref : RowsFor(ref)' = RowsFor(ref) \cup (IF row.ref = ref THEN {Len(gLedger) + 1} ELSE {})
      BY <1>0, <1>2, RowsForGrows
    <3>2. /\ \A c \in Codes : row.ref # CodeRow(c)
          /\ \A v \in GUsers, d \in Days : row.ref # DayRow(v, d)
      BY <1>2, RowsApart
    <3> QED BY <3>1, <3>2
  <2>2. ASSUME NEW c \in Codes
        PROVE  IF gCode'[c] \in GUsers
               THEN \E i \in DOMAIN gLedger' :
                       /\ RowsFor(CodeRow(c))' = {i}
                       /\ gLedger'[i].user = gCode'[c] /\ gLedger'[i].amount = CodeCredits
               ELSE RowsFor(CodeRow(c))' = {}
    <3>1. RowsFor(CodeRow(c))' = RowsFor(CodeRow(c)) /\ gCode' = gCode
      BY <1>0, <2>1
    <3> QED BY <1>0, <1>4, <3>1 DEF GrantedOnce
  <2>3. ASSUME NEW v \in GUsers, NEW d \in Days
        PROVE  IF gDay'[<<v, d>>] # NoRecord
               THEN \E i \in DOMAIN gLedger' :
                       /\ RowsFor(DayRow(v, d))' = {i}
                       /\ gLedger'[i].user = v
                       /\ gDay'[<<v, d>>] = [award |-> gLedger'[i].amount, after |-> gLedger'[i].after]
               ELSE RowsFor(DayRow(v, d))' = {}
    <3>1. RowsFor(DayRow(v, d))' = RowsFor(DayRow(v, d)) /\ gDay' = gDay
      BY <1>0, <2>1
    <3>2. IF gDay[<<v, d>>] # NoRecord
          THEN \E i \in DOMAIN gLedger :
                  /\ RowsFor(DayRow(v, d)) = {i}
                  /\ gLedger[i].user = v
                  /\ gDay[<<v, d>>] = [award |-> gLedger[i].amount, after |-> gLedger[i].after]
          ELSE RowsFor(DayRow(v, d)) = {}
      BY <1>0 DEF GrantedOnce
    <3> QED BY <1>4, <3>1, <3>2
  <2> QED BY <2>2, <2>3 DEF GrantedOnce
<1>7. ASSUME NEW g \in GHandlers PROVE InTx(g)' /\ Told(g)'
  <2>1. InTx(g) /\ Told(g) /\ gReq[g] \in GRequests /\ gReq'[g] = gReq[g]
    BY <1>0 DEF GrantInv, GrantShape
  <2>2. gReq[g].pc = "commit" => gReq[g].user \in GUsers \ {u}
    <3>1. ASSUME gReq[g].pc = "commit" PROVE gReq[g].user \in GUsers /\ gLock[UserRow(gReq[g].user)] = g
      BY <2>1, <3>1, RequestPcs DEF InTx, GActive
    <3> QED BY <1>0, <3>1, GrantsIds
  <2> QED BY <1>0, <1>1, <2>1, <2>2 DEF InTx, Told
<1> QED BY <1>3, <1>5, <1>6, <1>7 DEF GrantInv

\* The invariant holds whatever requests, administrators and failures do.
THEOREM GrantInvHolds == GSpec => []GrantInv
<1>1. GInit => GrantInv
  <2> SUFFICES ASSUME GInit PROVE GrantInv
    OBVIOUS
  <2>1. GrantShape
    BY GrantsAssumption DEF GInit, GrantShape, GRecords, NoRecord, GRequests
  <2>2. GIdle.pc = "idle" /\ GIdle \notin GActive /\ GIdle \notin GAnswered
    BY DEF GIdle, GActive, GAnswered
  <2>3. \A h \in GHandlers : gReq[h] = GIdle
    BY DEF GInit
  <2>4. \A h \in GHandlers : InTx(h) /\ Told(h)
    BY <2>2, <2>3 DEF InTx, Told
  <2>5. DOMAIN gLedger = {} /\ (\A ref : RowsFor(ref) = {}) /\ \A u : RowsOf(u) = {}
    <3>1. gLedger = <<>> /\ DOMAIN gLedger = {}
      BY DEF GInit
    <3> QED BY <3>1 DEF RowsFor, RowsOf
  <2>6. (\A c \in Codes : gCode[c] \notin GUsers) /\ \A r \in GUsers \X Days : gDay[r] = NoRecord
    BY GrantsIds DEF GInit
  <2>7. GrantedOnce
    BY <2>5, <2>6 DEF GrantedOnce
  <2>8. LedgerChains /\ StartsEmpty
    BY <2>5 DEF LedgerChains, StartsEmpty, GInit
  <2> QED BY <2>1, <2>4, <2>7, <2>8 DEF GrantInv
<1>2. GrantInv /\ [GNext]_gVars => GrantInv'
  <2> SUFFICES ASSUME GrantInv, [GNext]_gVars PROVE GrantInv'
    OBVIOUS
  <2>0. GrantShape
    BY DEF GrantInv
  <2>1. ASSUME NEW S \in SUBSET Codes, Generate(S) PROVE GrantInv'
    <3>1. /\ UNCHANGED <<gDay, gUser, gLedger, gLock, gReq, gToday, gReward>>
          /\ gCode' = [c \in Codes |-> IF c \in S THEN NoOne ELSE gCode[c]]
          /\ \A c \in S : gCode[c] = Missing
      BY <2>1 DEF Generate
    <3>2. /\ gCode' \in [Codes -> GUsers \cup {NoOne, Missing}]
          /\ \A c \in Codes : gCode[c] # Missing => gCode'[c] = gCode[c]
          /\ \A c \in Codes : gCode[c] = Missing => gCode'[c] \notin GUsers
      BY <2>0, <3>1, GrantsIds DEF GrantShape
    <3> QED BY <2>0, <3>1, <3>2, QuietGrants DEF GrantShape
  <2>2. ASSUME NEW u \in GUsers, GDeletes(u) PROVE GrantInv'
    <3>1. /\ UNCHANGED <<gCode, gDay, gLedger, gLock, gReq, gToday, gReward>>
          /\ gUser' = [gUser EXCEPT ![u].deleted = TRUE]
      BY <2>2 DEF GDeletes
    <3>2. /\ gUser' \in [GUsers -> [balance : Int, deleted : BOOLEAN]]
          /\ \A v \in GUsers : gUser'[v].balance = gUser[v].balance
      BY <2>0, <3>1 DEF GrantShape
    <3>3. \A c \in Codes : gCode[c] = Missing => gCode'[c] \notin GUsers
      BY <3>1, GrantsIds
    <3> QED BY <2>0, <3>1, <3>2, <3>3, QuietGrants DEF GrantShape
  <2>3. CASE GClock
    <3>1. /\ UNCHANGED <<gCode, gDay, gUser, gLedger, gLock, gReq>>
          /\ gToday' \in Days /\ gReward' \in Rewards
      BY <2>0, <2>3 DEF GClock, GrantShape
    <3>2. \A c \in Codes : gCode[c] = Missing => gCode'[c] \notin GUsers
      BY <3>1, GrantsIds
    <3> QED BY <2>0, <3>1, <3>2, QuietGrants DEF GrantShape
  <2>4. CASE UNCHANGED gVars
    <3>1. UNCHANGED <<gCode, gDay, gUser, gLedger, gLock, gReq, gToday, gReward>>
      BY <2>4 DEF gVars
    <3>2. \A c \in Codes : gCode[c] = Missing => gCode'[c] \notin GUsers
      BY <3>1, GrantsIds
    <3> QED BY <2>0, <3>1, <3>2, QuietGrants DEF GrantShape
  <2> QED BY <2>1, <2>2, <2>3, <2>4, BeginKeeps, LocksKeep, DuplicateKeeps, CreditKeeps,
             RefusalsKeep, NextRequestKeeps, CommitKeeps, MovesKeep DEF GNext, GStep
<1> QED BY <1>1, <1>2, PTL DEF GSpec

\* GrantsSound: however requests race, fail or lose their answers, a code is
\* redeemed and a day claimed at most once, every ledger row continues the
\* balance before it, and the user is told the truth (Redeem of redeem/dao.go,
\* Checkin of checkin/dao.go, creditTx of billing/engine.go).
THEOREM GrantsStaySound == GSpec => []GrantsSound
<1>1. GrantInv => GrantsSound
  <2> SUFFICES ASSUME GrantInv PROVE GrantsSound
    OBVIOUS
  <2>1. \A h \in GHandlers : gReq[h] \in GRequests
    BY DEF GrantInv, GrantShape
  <2>2. GrantType
    BY <2>1, RequestPcs DEF GrantInv, GrantShape, GrantType, GRecords
  <2>3. AnswersTrue
    BY <2>1, RequestPcs DEF GrantInv, Told, AnswersTrue
  <2> QED BY <2>2, <2>3 DEF GrantInv, GrantsSound
<1> QED BY <1>1, GrantInvHolds, PTL
=============================================================================
