--------------------------- MODULE GatewayProofs ---------------------------
(***************************************************************************)
(* Proofs about Gateway for every finite set of requests, every owner      *)
(* function and every bound.                                               *)
(***************************************************************************)
EXTENDS Gateway, DataProofs

\* A step that fails or succeeds keeps the fault bookkeeping typed.
LEMMA FaultType ==
  ASSUME TypeOK, NEW r \in Requests, NoFault \/ Fault(r)
  PROVE  faulty' \in [Requests -> BOOLEAN] /\ faults' \in 0 .. MaxFaults
<1>1. CASE NoFault
  BY <1>1 DEF NoFault, TypeOK
<1>2. CASE Fault(r)
  BY <1>2, GatewayAssumption DEF Fault, TypeOK
<1> QED  BY <1>1, <1>2

\* Type correctness of the handlers and the engine: every variable keeps
\* its type; in particular the estimates, holds and charges stay natural.
THEOREM GatewayType == Spec => []TypeOK
<1>1. Init => TypeOK
  BY GatewayAssumption
     DEF Init, TypeOK, WalletInit, WalletType, Pcs, TaskStatus
<1>2. TypeOK /\ [Next]_vars => TypeOK'
  <2> SUFFICES ASSUME TypeOK, [Next]_vars PROVE TypeOK'
    OBVIOUS
  <2> USE GatewayAssumption
      DEF TypeOK, WalletType, Pcs, TaskStatus, Goto, SetAct, SetTask, Fault,
          NoFault, walletVars, reqVars
  <2>1. ASSUME NEW r \in Requests, Freeze(r) PROVE TypeOK'
    <3>1. ASSUME NEW c \in Amounts, Accept(r, c) PROVE TypeOK'
      BY <3>1 DEF Accept
    <3>2. CASE PreDeductFree(r)
      BY <3>2 DEF PreDeductFree, AfterFreeze
    <3>3. CASE PreDeductOK(r)
      BY <3>3 DEF PreDeductOK, AfterFreeze, PreDeduct, Post
    <3>4. CASE PreDeductRefused(r)
      BY <3>4 DEF PreDeductRefused
    <3>5. CASE PreDeductError(r)
      BY <3>5 DEF PreDeductError
    <3>6. CASE PreDeductAckLost(r)
      BY <3>6 DEF PreDeductAckLost, PreDeduct, Post
    <3> QED  BY <2>1, <3>1, <3>2, <3>3, <3>4, <3>5, <3>6 DEF Freeze
  <2>2. ASSUME NEW r \in Requests, Serve(r) PROVE TypeOK'
    <3>1. CASE CreateTask(r)
      BY <3>1 DEF CreateTask
    <3>2. CASE CreateTaskError(r)
      BY <3>2 DEF CreateTaskError
    <3>3. CASE ArchiveReferences(r)
      BY <3>3 DEF ArchiveReferences
    <3>4. CASE RunnerStart(r)
      <4>1. task' \in [Requests -> TaskStatus]
        BY <3>4 DEF RunnerStart
      <4>2. faulty' \in [Requests -> BOOLEAN] /\ faults' \in 0 .. MaxFaults
        BY <3>4, FaultType DEF RunnerStart
      <4> QED  BY <3>4, <4>1, <4>2 DEF RunnerStart
    <3>5. CASE RunnerFail(r)
      <4>1. task' \in [Requests -> TaskStatus]
        BY <3>5 DEF RunnerFail
      <4>2. faulty' \in [Requests -> BOOLEAN] /\ faults' \in 0 .. MaxFaults
        BY <3>5, FaultType DEF RunnerFail
      <4> QED  BY <3>5, <4>1, <4>2 DEF RunnerFail
    <3>6. CASE RunnerEmpty(r)
      <4>1. task' \in [Requests -> TaskStatus]
        BY <3>6 DEF RunnerEmpty
      <4>2. faulty' \in [Requests -> BOOLEAN] /\ faults' \in 0 .. MaxFaults
        BY <3>6, FaultType DEF RunnerEmpty
      <4> QED  BY <3>6, <4>1, <4>2 DEF RunnerEmpty
    <3>7. CASE ChannelFail(r)
      BY <3>7 DEF ChannelFail
    <3>8. CASE ChannelMarkSuccessError(r)
      BY <3>8 DEF ChannelMarkSuccessError
    <3>9. CASE ChatFail(r)
      BY <3>9 DEF ChatFail
    <3>10. ASSUME NEW a \in Amounts, RunnerSuccess(r, a) PROVE TypeOK'
      <4>1. task' \in [Requests -> TaskStatus]
        BY <3>10 DEF RunnerSuccess
      <4>2. faulty' \in [Requests -> BOOLEAN] /\ faults' \in 0 .. MaxFaults
        BY <3>10, FaultType DEF RunnerSuccess
      <4> QED  BY <3>10, <4>1, <4>2 DEF RunnerSuccess
    <3>11. ASSUME NEW a \in Amounts, ChannelSuccess(r, a) PROVE TypeOK'
      BY <3>11 DEF ChannelSuccess
    <3>12. ASSUME NEW a \in Amounts, ChatServed(r, a) PROVE TypeOK'
      BY <3>12 DEF ChatServed
    <3> QED
      BY <2>2, <3>1, <3>2, <3>3, <3>4, <3>5, <3>6, <3>7, <3>8, <3>9, <3>10,
         <3>11, <3>12 DEF Serve
  <2>3. ASSUME NEW r \in Requests, Close(r) PROVE TypeOK'
    <3>1. CASE RefundOK(r)
      BY <3>1 DEF RefundOK, AfterRefund, Refund, Post
    <3>2. CASE RefundNothing(r)
      BY <3>2 DEF RefundNothing, AfterRefund
    <3>3. CASE RefundError(r)
      BY <3>3 DEF RefundError, AfterRefund
    <3>4. CASE MarkFailed(r)
      <4>1. task' \in [Requests -> TaskStatus]
        BY <3>4 DEF MarkFailed
      <4>2. faulty' \in [Requests -> BOOLEAN] /\ faults' \in 0 .. MaxFaults
        BY <3>4, FaultType DEF MarkFailed
      <4> QED  BY <3>4, <4>1, <4>2 DEF MarkFailed
    <3>5. CASE SettleOK(r)
      BY <3>5 DEF SettleOK, Settle, Post
    <3>6. CASE SettleNothing(r)
      BY <3>6 DEF SettleNothing
    <3>7. CASE SettleError(r)
      BY <3>7 DEF SettleError
    <3>8. CASE Record(r)
      <4>1. counted' \in [Requests -> Nat]
        BY <3>8 DEF Record, AfterRecord
      <4>2. faulty' \in [Requests -> BOOLEAN] /\ faults' \in 0 .. MaxFaults
        BY <3>8, FaultType DEF Record, AfterRecord
      <4> QED  BY <3>8, <4>1, <4>2 DEF Record, AfterRecord
    <3>9. CASE UpdateCost(r)
      <4>1. taskCost' \in [Requests -> Nat]
        BY <3>9 DEF UpdateCost
      <4>2. faulty' \in [Requests -> BOOLEAN] /\ faults' \in 0 .. MaxFaults
        BY <3>9, FaultType DEF UpdateCost
      <4> QED  BY <3>9, <4>1, <4>2 DEF UpdateCost
    <3> QED
      BY <2>3, <3>1, <3>2, <3>3, <3>4, <3>5, <3>6, <3>7, <3>8, <3>9 DEF Close
  <2>4. CASE Crash
    BY <2>4 DEF Crash
  <2>5. ASSUME NEW u \in Users, NEW a \in Amounts, Credit(u, a) PROVE TypeOK'
    BY <2>5 DEF Credit, Recharge, CreditTx, AdminAdjust, Post
  <2>6. ASSUME NEW u \in Users, DeleteUser(u) PROVE TypeOK'
    BY <2>6 DEF DeleteUser, SoftDelete
  <2>7. CASE UNCHANGED vars
    BY <2>7 DEF vars
  <2> QED
    BY <2>1, <2>2, <2>3, <2>4, <2>5, <2>6, <2>7 DEF Next, Step
<1> QED  BY <1>1, <1>2, PTL DEF Spec

\* Holds follow the control flow: HoldShape is inductive given the types.
THEOREM GatewayHoldShape == Spec => []HoldShape
<1>1. Init => HoldShape
  BY DEF Init, HoldShape
<1>2. TypeOK /\ HoldShape /\ [Next]_vars => HoldShape'
  <2> SUFFICES ASSUME TypeOK, HoldShape, [Next]_vars PROVE HoldShape'
    OBVIOUS
  <2> USE GatewayAssumption DEF HoldShape, TypeOK, Goto, Pcs
  <2>1. ASSUME NEW r \in Requests, Freeze(r) PROVE HoldShape'
    <3>1. ASSUME NEW c \in Amounts, Accept(r, c) PROVE HoldShape'
      BY <3>1 DEF Accept
    <3>2. CASE PreDeductFree(r)
      BY <3>2 DEF PreDeductFree, AfterFreeze
    <3>3. CASE PreDeductOK(r)
      BY <3>3 DEF PreDeductOK, AfterFreeze
    <3>4. CASE PreDeductRefused(r)
      BY <3>4 DEF PreDeductRefused
    <3>5. CASE PreDeductError(r)
      BY <3>5 DEF PreDeductError
    <3>6. CASE PreDeductAckLost(r)
      BY <3>6 DEF PreDeductAckLost
    <3> QED  BY <2>1, <3>1, <3>2, <3>3, <3>4, <3>5, <3>6 DEF Freeze
  <2>2. ASSUME NEW r \in Requests, Serve(r) PROVE HoldShape'
    <3>1. CASE CreateTask(r)
      BY <3>1 DEF CreateTask
    <3>2. CASE CreateTaskError(r)
      BY <3>2 DEF CreateTaskError
    <3>3. CASE ArchiveReferences(r)
      BY <3>3 DEF ArchiveReferences
    <3>4. CASE RunnerStart(r)
      BY <3>4 DEF RunnerStart
    <3>5. CASE RunnerFail(r)
      BY <3>5 DEF RunnerFail
    <3>6. CASE RunnerEmpty(r)
      BY <3>6 DEF RunnerEmpty
    <3>7. CASE ChannelFail(r)
      BY <3>7 DEF ChannelFail
    <3>8. CASE ChannelMarkSuccessError(r)
      BY <3>8 DEF ChannelMarkSuccessError
    <3>9. CASE ChatFail(r)
      BY <3>9 DEF ChatFail
    <3>10. ASSUME NEW a \in Amounts, RunnerSuccess(r, a) PROVE HoldShape'
      BY <3>10 DEF RunnerSuccess
    <3>11. ASSUME NEW a \in Amounts, ChannelSuccess(r, a) PROVE HoldShape'
      BY <3>11 DEF ChannelSuccess
    <3>12. ASSUME NEW a \in Amounts, ChatServed(r, a) PROVE HoldShape'
      BY <3>12 DEF ChatServed
    <3> QED
      BY <2>2, <3>1, <3>2, <3>3, <3>4, <3>5, <3>6, <3>7, <3>8, <3>9, <3>10,
         <3>11, <3>12 DEF Serve
  <2>3. ASSUME NEW r \in Requests, Close(r) PROVE HoldShape'
    <3>1. CASE RefundOK(r)
      BY <3>1 DEF RefundOK, RefundPcs, AfterRefund
    <3>2. CASE RefundNothing(r)
      BY <3>2 DEF RefundNothing, RefundPcs, AfterRefund
    <3>3. CASE RefundError(r)
      BY <3>3 DEF RefundError, RefundPcs, AfterRefund
    <3>4. CASE MarkFailed(r)
      BY <3>4 DEF MarkFailed
    <3>5. CASE SettleOK(r)
      BY <3>5 DEF SettleOK
    <3>6. CASE SettleNothing(r)
      BY <3>6 DEF SettleNothing
    <3>7. CASE SettleError(r)
      BY <3>7 DEF SettleError
    <3>8. CASE Record(r)
      BY <3>8 DEF Record, AfterRecord
    <3>9. CASE UpdateCost(r)
      BY <3>9 DEF UpdateCost
    <3> QED
      BY <2>3, <3>1, <3>2, <3>3, <3>4, <3>5, <3>6, <3>7, <3>8, <3>9 DEF Close
  <2>4. CASE Crash
    BY <2>4 DEF Crash, InFlight
  <2>5. ASSUME NEW u \in Users, NEW a \in Amounts, Credit(u, a) PROVE HoldShape'
    BY <2>5 DEF Credit, reqVars
  <2>6. ASSUME NEW u \in Users, DeleteUser(u) PROVE HoldShape'
    BY <2>6 DEF DeleteUser, reqVars
  <2>7. CASE UNCHANGED vars
    BY <2>7 DEF vars, reqVars
  <2> QED
    BY <2>1, <2>2, <2>3, <2>4, <2>5, <2>6, <2>7 DEF Next, Step
<1> QED  BY <1>1, <1>2, GatewayType, PTL DEF Spec

\* The only steps that move credits_frozen move the hold of one request by
\* the same amount: PreDeduct opens it, Refund and Settle close it.
LEMMA FrozenMovesWithHold ==
  ASSUME TypeOK, HoldShape, [Next]_vars
  PROVE  \/ UNCHANGED <<frozen, hold>>
         \/ \E r \in Requests, x \in Nat :
               /\ hold' = [hold EXCEPT ![r] = x]
               /\ frozen' = [frozen EXCEPT ![Owner[r]] = @ + (x - hold[r])]
<1> DEFINE Moved == \E r \in Requests, x \in Nat :
                      /\ hold' = [hold EXCEPT ![r] = x]
                      /\ frozen' = [frozen EXCEPT ![Owner[r]] = @ + (x - hold[r])]
           Goal == UNCHANGED <<frozen, hold>> \/ Moved
<1> USE GatewayAssumption DEF TypeOK, WalletType
<1>1. ASSUME NEW r \in Requests, Freeze(r) PROVE Goal
  <2>1. ASSUME PreDeduct(Owner[r], est[r]), hold' = [hold EXCEPT ![r] = est[r]],
               pc[r] = "preDeduct"
        PROVE  Moved
    <3>1. hold[r] = 0
      BY <2>1 DEF HoldShape
    <3>2. frozen' = [frozen EXCEPT ![Owner[r]] = @ + (est[r] - hold[r])]
      <4>1. frozen' = [frozen EXCEPT ![Owner[r]] = @ + est[r]]
        BY <2>1 DEF PreDeduct, Post
      <4>2. est[r] - hold[r] = est[r]
        BY <3>1
      <4> QED  BY <4>1, <4>2
    <3> QED  BY <2>1, <3>2
  <2>2. CASE PreDeductOK(r)
    BY <2>1, <2>2 DEF PreDeductOK
  <2>3. CASE PreDeductAckLost(r)
    BY <2>1, <2>3 DEF PreDeductAckLost
  <2>4. CASE ~PreDeductOK(r) /\ ~PreDeductAckLost(r)
    BY <1>1, <2>4 DEF Freeze, Accept, PreDeductFree, PreDeductRefused, PreDeductError, walletVars
  <2> QED  BY <2>2, <2>3, <2>4
<1>2. ASSUME NEW r \in Requests, Serve(r) PROVE Goal
  BY <1>2 DEF Serve, CreateTask, CreateTaskError, ArchiveReferences, RunnerStart, RunnerFail,
     RunnerEmpty, ChannelFail, ChannelMarkSuccessError, ChatFail, RunnerSuccess,
     ChannelSuccess, ChatServed, walletVars
<1>3. ASSUME NEW r \in Requests, Close(r) PROVE Goal
  <2>1. CASE RefundOK(r)
    <3>1. hold[r] = est[r]
      BY <2>1 DEF HoldShape, RefundOK, RefundPcs
    <3>2. frozen' = [frozen EXCEPT ![Owner[r]] = @ + (0 - hold[r])]
      <4>1. frozen' = [frozen EXCEPT ![Owner[r]] = @ + (-est[r])]
        BY <2>1 DEF RefundOK, Refund, Post
      <4>2. -est[r] = 0 - hold[r]
        BY <3>1
      <4> QED  BY <4>1, <4>2
    <3> QED  BY <2>1, <3>2 DEF RefundOK
  <2>2. CASE SettleOK(r)
    <3>1. hold[r] = est[r]
      BY <2>2 DEF HoldShape, SettleOK
    <3>2. frozen' = [frozen EXCEPT ![Owner[r]] = @ + (0 - hold[r])]
      <4>1. frozen' = [frozen EXCEPT ![Owner[r]] = @ + (-est[r])]
        BY <2>2 DEF SettleOK, Settle, Post
      <4>2. -est[r] = 0 - hold[r]
        BY <3>1
      <4> QED  BY <4>1, <4>2
    <3> QED  BY <2>2, <3>2 DEF SettleOK
  <2>3. CASE ~RefundOK(r) /\ ~SettleOK(r)
    BY <1>3, <2>3 DEF Close, RefundNothing, RefundError, MarkFailed, SettleNothing,
       SettleError, Record, UpdateCost, walletVars
  <2> QED  BY <2>1, <2>2, <2>3
<1>4. CASE Crash
  BY <1>4 DEF Crash, walletVars
<1>5. ASSUME NEW u \in Users, NEW a \in Amounts, Credit(u, a) PROVE Goal
  BY <1>5 DEF Credit, Recharge, CreditTx, AdminAdjust, Post, reqVars
<1>6. ASSUME NEW u \in Users, DeleteUser(u) PROVE Goal
  BY <1>6 DEF DeleteUser, SoftDelete, reqVars
<1>7. CASE UNCHANGED vars
  BY <1>7 DEF vars, walletVars, reqVars
<1> QED
  BY <1>1, <1>2, <1>3, <1>4, <1>5, <1>6, <1>7 DEF Next, Step

\* users.credit_frozen is the sum of the open holds, for every number of
\* requests and every interleaving, fault and crash.
THEOREM GatewayFrozenBacked == Spec => []FrozenBacked
<1>1. Init => FrozenBacked
  <2> SUFFICES ASSUME Init, NEW u \in Users
               PROVE  frozen[u] = Total(OwnedBy(u), hold)
    BY DEF FrozenBacked
  <2>1. \A x \in OwnedBy(u) : hold[x] = 0
    BY DEF Init, OwnedBy
  <2> QED  BY <2>1, TotalZero DEF Init, WalletInit
<1>2. TypeOK /\ HoldShape /\ FrozenBacked /\ [Next]_vars => FrozenBacked'
  <2> SUFFICES ASSUME TypeOK, HoldShape, FrozenBacked, [Next]_vars, NEW u \in Users
               PROVE  frozen'[u] = Total(OwnedBy(u), hold')
    BY DEF FrozenBacked, OwnedBy
  <2>0. IsFiniteSet(OwnedBy(u)) /\ OwnedBy(u) \subseteq Requests
    BY GatewayAssumption, FS_Subset DEF OwnedBy
  <2>1. CASE UNCHANGED <<frozen, hold>>
    BY <2>1 DEF FrozenBacked
  <2>2. ASSUME NEW r \in Requests, NEW x \in Nat,
               hold' = [hold EXCEPT ![r] = x],
               frozen' = [frozen EXCEPT ![Owner[r]] = @ + (x - hold[r])]
        PROVE  frozen'[u] = Total(OwnedBy(u), hold')
    <3>1. \A q \in Requests : hold[q] \in Nat /\ hold'[q] \in Nat
      BY <2>2 DEF TypeOK
    <3>2. CASE Owner[r] = u
      <4>1. r \in OwnedBy(u) /\ \A q \in OwnedBy(u) \ {r} : hold'[q] = hold[q]
        BY <2>2, <3>2 DEF OwnedBy, TypeOK
      <4>2. Total(OwnedBy(u), hold') = Total(OwnedBy(u), hold) - hold[r] + hold'[r]
        BY <2>0, <3>1, <4>1, TotalUpdate
      <4>3. Total(OwnedBy(u), hold) \in Nat
        BY <2>0, <3>1, TotalNat
      <4>4. frozen'[u] = frozen[u] + (x - hold[r]) /\ hold'[r] = x
        BY <2>2, <3>2 DEF TypeOK, WalletType
      <4> QED  BY <3>1, <4>2, <4>3, <4>4 DEF FrozenBacked
    <3>3. CASE Owner[r] # u
      <4>1. \A q \in OwnedBy(u) : hold'[q] = hold[q]
        BY <2>2, <3>3 DEF OwnedBy, TypeOK
      <4>2. Total(OwnedBy(u), hold') = Total(OwnedBy(u), hold)
        BY <4>1, TotalSame
      <4>3. frozen'[u] = frozen[u]
        BY <2>2, <3>3 DEF TypeOK, WalletType
      <4> QED  BY <4>2, <4>3 DEF FrozenBacked
    <3> QED  BY <3>2, <3>3
  <2> QED  BY <2>1, <2>2, FrozenMovesWithHold
<1> QED  BY <1>1, <1>2, GatewayType, GatewayHoldShape, PTL DEF Spec

\* The engine's frozen guard never rejects the Settle or Refund of a live
\* user: what a handler passes is its own hold, and the counter covers it.
THEOREM GatewayCloseNeverConflicts == Spec => []CloseNeverConflicts
<1>1. TypeOK /\ HoldShape /\ FrozenBacked => CloseNeverConflicts
  <2> SUFFICES ASSUME TypeOK, HoldShape, FrozenBacked, NEW r \in Requests
               PROVE  /\ pc[r] \in RefundPcs \cup {"settle"} => hold[r] = est[r]
                      /\ hold[r] <= frozen[Owner[r]]
    BY DEF CloseNeverConflicts
  <2>1. pc[r] \in RefundPcs \cup {"settle"} => hold[r] = est[r]
    BY DEF HoldShape, RefundPcs
  <2>2. Owner[r] \in Users /\ r \in OwnedBy(Owner[r])
    BY GatewayAssumption DEF OwnedBy
  <2>3. IsFiniteSet(OwnedBy(Owner[r])) /\ OwnedBy(Owner[r]) \subseteq Requests
    BY GatewayAssumption, FS_Subset DEF OwnedBy
  <2>4. \A q \in OwnedBy(Owner[r]) : hold[q] \in Nat
    BY <2>3 DEF TypeOK
  <2>5. hold[r] <= Total(OwnedBy(Owner[r]), hold)
    BY <2>2, <2>3, <2>4, TotalBound
  <2> QED  BY <2>1, <2>2, <2>5 DEF FrozenBacked
<1> QED
  BY <1>1, GatewayType, GatewayHoldShape, GatewayFrozenBacked, PTL

\* What a step can do to the available balances, the ledger and the charges:
\* Settle of one request charges it; every other step leaves the charges
\* alone, books the same amount in the ledger as on the balance of a live
\* user, and lowers a balance only while it stays natural.
LEMMA BalanceMoves ==
  ASSUME TypeOK, HoldShape, [Next]_vars
  PROVE  \/ /\ UNCHANGED <<balance, ledger, charged>>
            /\ \A q \in Requests : est'[q] = est[q] \/ (charged[q] = 0 /\ est'[q] \in Nat)
         \/ \E r \in Requests : SettleOK(r)
         \/ /\ \E u \in Users, d \in Int, l \in Int :
                  /\ balance' = [balance EXCEPT ![u] = @ + d]
                  /\ ledger' = [ledger EXCEPT ![u] = @ + l]
                  /\ deleted[u] \/ d = l
                  /\ d >= 0 \/ balance[u] + d >= 0
            /\ UNCHANGED <<deleted, charged, est>>
<1> DEFINE Same == /\ UNCHANGED <<balance, ledger, charged>>
                   /\ \A q \in Requests : est'[q] = est[q] \/ (charged[q] = 0 /\ est'[q] \in Nat)
           Moved == /\ \E u \in Users, d \in Int, l \in Int :
                          /\ balance' = [balance EXCEPT ![u] = @ + d]
                          /\ ledger' = [ledger EXCEPT ![u] = @ + l]
                          /\ deleted[u] \/ d = l
                          /\ d >= 0 \/ balance[u] + d >= 0
                    /\ UNCHANGED <<deleted, charged, est>>
           Goal == Same \/ (\E r \in Requests : SettleOK(r)) \/ Moved
<1> USE GatewayAssumption DEF TypeOK, WalletType
<1>0. ASSUME NEW u \in Users, NEW d \in Int, NEW l \in Int, NEW f, Post(u, d, f, l),
             deleted[u] \/ d = l, d >= 0 \/ balance[u] + d >= 0, UNCHANGED <<charged, est>>
      PROVE  Moved
  BY <1>0 DEF Post
<1>1. ASSUME NEW r \in Requests, Freeze(r) PROVE Goal
  <2>0. Owner[r] \in Users /\ est[r] \in Nat /\ -est[r] \in Int /\ balance[Owner[r]] \in Int
    OBVIOUS
  <2>1. ASSUME PreDeduct(Owner[r], est[r]), UNCHANGED <<charged, est>> PROVE Moved
    <3>1. balance[Owner[r]] + (-est[r]) >= 0
      BY <2>0, <2>1 DEF PreDeduct, CanPreDeduct
    <3>2. Post(Owner[r], -est[r], est[r], -est[r])
      BY <2>1 DEF PreDeduct
    <3> HIDE DEF Moved
    <3> QED  BY <1>0, <2>0, <2>1, <3>1, <3>2
  <2>2. CASE PreDeductOK(r)
    BY <2>1, <2>2 DEF PreDeductOK
  <2>3. CASE PreDeductAckLost(r)
    BY <2>1, <2>3 DEF PreDeductAckLost
  <2>4. ASSUME NEW c \in Amounts, Accept(r, c) PROVE Same
    BY <2>4 DEF Accept, walletVars, HoldShape
  <2>5. CASE PreDeductFree(r) \/ PreDeductRefused(r) \/ PreDeductError(r)
    BY <2>5 DEF PreDeductFree, PreDeductRefused, PreDeductError, walletVars
  <2> QED  BY <1>1, <2>2, <2>3, <2>4, <2>5 DEF Freeze
<1>2. ASSUME NEW r \in Requests, Serve(r) PROVE Goal
  BY <1>2 DEF Serve, CreateTask, CreateTaskError, ArchiveReferences, RunnerStart, RunnerFail,
     RunnerEmpty, ChannelFail, ChannelMarkSuccessError, ChatFail, RunnerSuccess,
     ChannelSuccess, ChatServed, walletVars
<1>3. ASSUME NEW r \in Requests, Close(r) PROVE Goal
  <2>1. CASE RefundOK(r)
    <3>1. Owner[r] \in Users /\ est[r] \in Int /\ est[r] >= 0
      OBVIOUS
    <3>2. Post(Owner[r], est[r], -est[r], est[r]) /\ UNCHANGED <<charged, est>>
      BY <2>1 DEF RefundOK, Refund
    <3> HIDE DEF Moved
    <3> QED  BY <1>0, <3>1, <3>2
  <2>2. CASE ~RefundOK(r) /\ ~SettleOK(r)
    BY <1>3, <2>2 DEF Close, RefundNothing, RefundError, MarkFailed, SettleNothing,
       SettleError, Record, UpdateCost, walletVars
  <2> QED  BY <2>1, <2>2
<1>4. CASE Crash
  BY <1>4 DEF Crash, walletVars
<1>5. ASSUME NEW u \in Users, NEW a \in Amounts, Credit(u, a) PROVE Goal
  <2>0. a \in Int /\ -a \in Int /\ 0 \in Int /\ a >= 0 /\ UNCHANGED <<charged, est>>
    BY <1>5 DEF Credit, reqVars
  <2>1. CASE Recharge(u, a)
    <3>1. CASE deleted[u]
      <4>1. Post(u, 0, 0, a)
        BY <2>1, <3>1 DEF Recharge
      <4> HIDE DEF Moved
      <4> QED  BY <1>0, <2>0, <3>1, <4>1
    <3>2. CASE ~deleted[u]
      BY <1>0, <2>0, <2>1, <3>2 DEF Recharge
    <3> QED  BY <3>1, <3>2
  <2>2. CASE CreditTx(u, a)
    BY <1>0, <2>0, <2>2 DEF CreditTx
  <2>3. CASE AdminAdjust(u, a)
    BY <1>0, <2>0, <2>3 DEF AdminAdjust
  <2>4. CASE AdminAdjust(u, -a)
    <3>1. -a >= 0 \/ balance[u] + (-a) >= 0
      BY <2>0, <2>4 DEF AdminAdjust
    <3>2. Post(u, -a, 0, -a)
      BY <2>4 DEF AdminAdjust
    <3> HIDE DEF Moved
    <3> QED  BY <1>0, <2>0, <3>1, <3>2
  <2> QED  BY <1>5, <2>1, <2>2, <2>3, <2>4 DEF Credit
<1>6. ASSUME NEW u \in Users, DeleteUser(u) PROVE Goal
  BY <1>6 DEF DeleteUser, SoftDelete, reqVars
<1>7. CASE UNCHANGED vars
  BY <1>7 DEF vars, walletVars, reqVars
<1> QED
  BY <1>1, <1>2, <1>3, <1>4, <1>5, <1>6, <1>7 DEF Next, Step

\* Users are never undeleted.
LEMMA DeletedStays ==
  ASSUME TypeOK, [Next]_vars
  PROVE  \A u \in Users : deleted[u] => deleted'[u]
<1> USE GatewayAssumption DEF TypeOK, WalletType
<1>1. CASE \E u \in Users : DeleteUser(u)
  BY <1>1 DEF DeleteUser, SoftDelete
<1>2. CASE \E r \in Requests : Step(r)
  BY <1>2 DEF Step, Freeze, Accept, PreDeductFree, PreDeductOK, PreDeductRefused,
     PreDeductError, PreDeductAckLost, Serve, CreateTask, CreateTaskError,
     ArchiveReferences, RunnerStart, RunnerFail, RunnerEmpty, ChannelFail,
     ChannelMarkSuccessError, ChatFail, RunnerSuccess, ChannelSuccess, ChatServed,
     Close, RefundOK, RefundNothing, RefundError, MarkFailed, SettleOK, SettleNothing,
     SettleError, Record, UpdateCost, PreDeduct, Refund, Settle, Post, walletVars
<1>3. CASE Crash \/ UNCHANGED vars
  BY <1>3 DEF Crash, vars, walletVars
<1>4. CASE \E u \in Users, a \in Amounts : Credit(u, a)
  BY <1>4 DEF Credit, Recharge, CreditTx, AdminAdjust, Post
<1> QED  BY <1>1, <1>2, <1>3, <1>4 DEF Next

\* credit_transactions explains the balance of every live user, for any
\* number of requests and credits and whatever fails: each transaction
\* books in the ledger what it moves on the balance.
THEOREM GatewayLedgerReconciles == Spec => []LedgerReconciles
<1>1. Init => LedgerReconciles
  BY DEF Init, WalletInit, LedgerReconciles
<1>2. TypeOK /\ HoldShape /\ LedgerReconciles /\ [Next]_vars => LedgerReconciles'
  <2> SUFFICES ASSUME TypeOK, HoldShape, LedgerReconciles, [Next]_vars,
                      NEW u \in Users, ~deleted'[u]
               PROVE  balance'[u] = ledger'[u]
    BY DEF LedgerReconciles
  <2>1. ~deleted[u] /\ balance[u] = ledger[u]
    BY DeletedStays DEF LedgerReconciles
  <2>2. CASE UNCHANGED <<balance, ledger, charged>>
    BY <2>1, <2>2
  <2>3. ASSUME NEW r \in Requests, SettleOK(r) PROVE balance'[u] = ledger'[u]
    <3>1. Post(Owner[r], est[r] - act[r], -est[r], est[r] - act[r])
      BY <2>3 DEF SettleOK, Settle
    <3> QED  BY <2>1, <3>1, GatewayAssumption DEF Post, TypeOK, WalletType
  <2>4. ASSUME NEW v \in Users, NEW d \in Int, NEW l \in Int,
               balance' = [balance EXCEPT ![v] = @ + d],
               ledger' = [ledger EXCEPT ![v] = @ + l],
               deleted[v] \/ d = l
        PROVE  balance'[u] = ledger'[u]
    BY <2>1, <2>4 DEF TypeOK, WalletType
  <2> QED  BY <2>2, <2>3, <2>4, BalanceMoves
<1> QED  BY <1>1, <1>2, GatewayType, GatewayHoldShape, PTL DEF Spec

\* A balance goes below zero by at most what Settle charged beyond the
\* estimates of the user's own requests, for every interleaving.
THEOREM GatewayDebtBounded == Spec => []DebtBounded
<1>1. Init => DebtBounded
  <2> SUFFICES ASSUME Init, NEW u \in Users
               PROVE  balance[u] + Total(OwnedBy(u), overrun) >= 0
    BY DEF DebtBounded, OwnedBy
  <2>1. \A x \in OwnedBy(u) : overrun[x] = 0
    BY DEF Init, OwnedBy, overrun
  <2>2. Total(OwnedBy(u), overrun) = 0
    BY <2>1, TotalZero
  <2> QED  BY <2>2 DEF Init, WalletInit
<1>2. TypeOK /\ HoldShape /\ DebtBounded /\ [Next]_vars => DebtBounded'
  <2> SUFFICES ASSUME TypeOK, HoldShape, DebtBounded, [Next]_vars, NEW u \in Users
               PROVE  balance'[u] + Total(OwnedBy(u), overrun') >= 0
    BY DEF DebtBounded, OwnedBy
  <2>0. IsFiniteSet(OwnedBy(u)) /\ OwnedBy(u) \subseteq Requests
    BY GatewayAssumption, FS_Subset DEF OwnedBy
  <2>1. \A q \in Requests : overrun[q] \in Nat
    BY DEF overrun, TypeOK
  <2>2. Total(OwnedBy(u), overrun) \in Nat
    BY <2>0, <2>1, TotalNat
  <2>3. balance[u] \in Int /\ balance[u] + Total(OwnedBy(u), overrun) >= 0
    BY DEF DebtBounded, TypeOK, WalletType
  <2>4. ASSUME \A q \in Requests : overrun'[q] = overrun[q]
        PROVE  Total(OwnedBy(u), overrun') = Total(OwnedBy(u), overrun)
    BY <2>0, <2>4, TotalSame
  <2>5. CASE /\ UNCHANGED <<balance, ledger, charged>>
             /\ \A q \in Requests : est'[q] = est[q] \/ (charged[q] = 0 /\ est'[q] \in Nat)
    <3>1. \A q \in Requests : overrun'[q] = overrun[q]
      BY <2>5 DEF overrun, TypeOK
    <3> QED  BY <2>3, <2>4, <2>5, <3>1
  <2>6. ASSUME NEW r \in Requests, SettleOK(r)
        PROVE  balance'[u] + Total(OwnedBy(u), overrun') >= 0
    <3>1. /\ est' = est
          /\ charged[r] = 0
          /\ charged' = [charged EXCEPT ![r] = act[r]]
          /\ balance' = [balance EXCEPT ![Owner[r]] = @ + (est[r] - act[r])]
      BY <2>6 DEF SettleOK, Settle, Post, HoldShape
    <3>2. \A q \in Requests : overrun'[q] \in Nat
      BY <3>1 DEF overrun, TypeOK
    <3>3. \A q \in Requests \ {r} : overrun'[q] = overrun[q]
      BY <3>1 DEF overrun, TypeOK
    <3>4. overrun[r] = 0 /\ overrun'[r] >= act[r] - est[r]
      BY <3>1 DEF overrun, TypeOK
    <3>5. CASE Owner[r] = u
      <4>1. r \in OwnedBy(u)
        BY <3>5 DEF OwnedBy
      <4>2. Total(OwnedBy(u), overrun') = Total(OwnedBy(u), overrun) - overrun[r] + overrun'[r]
        BY <2>0, <2>1, <3>2, <3>3, <4>1, TotalUpdate
      <4>3. balance'[u] = balance[u] + (est[r] - act[r])
        BY <3>1, <3>5 DEF TypeOK, WalletType
      <4>4. est[r] \in Nat /\ act[r] \in Nat /\ overrun'[r] \in Nat
        BY <3>2 DEF TypeOK
      <4> QED  BY <2>2, <2>3, <3>4, <4>2, <4>3, <4>4
    <3>6. CASE Owner[r] # u
      <4>1. \A q \in OwnedBy(u) : overrun'[q] = overrun[q]
        BY <3>3, <3>6 DEF OwnedBy
      <4>2. Total(OwnedBy(u), overrun') = Total(OwnedBy(u), overrun)
        BY <4>1, TotalSame
      <4>3. balance'[u] = balance[u]
        BY <3>1, <3>6 DEF TypeOK, WalletType
      <4> QED  BY <2>3, <4>2, <4>3
    <3> QED  BY <3>5, <3>6
  <2>7. ASSUME NEW v \in Users, NEW d \in Int,
               balance' = [balance EXCEPT ![v] = @ + d],
               d >= 0 \/ balance[v] + d >= 0,
               UNCHANGED <<charged, est>>
        PROVE  balance'[u] + Total(OwnedBy(u), overrun') >= 0
    <3>1. \A q \in Requests : overrun'[q] = overrun[q]
      BY <2>7 DEF overrun
    <3>2. balance'[u] = balance[u] \/ balance'[u] >= balance[u] \/ balance'[u] >= 0
      BY <2>7 DEF TypeOK, WalletType
    <3>3. balance'[u] \in Int
      BY <2>7 DEF TypeOK, WalletType
    <3> QED  BY <2>2, <2>3, <2>4, <3>1, <3>2, <3>3
  <2> QED  BY <2>5, <2>6, <2>7, BalanceMoves
<1> QED  BY <1>1, <1>2, GatewayType, GatewayHoldShape, PTL DEF Spec

\* Where the task row, the price, the key's quota and the hold of a request
\* stand at each step of its handler: the inductive form of HoldClosed and
\* BooksAgree, for one request.
Book(r) ==
    /\ kind[r] \in ChatKinds => task[r] = "none"
    /\ pc[r] \in {"idle", "preDeduct", "create"} => task[r] = "none"
    /\ pc[r] = "create" => kind[r] \in ImageKinds
    /\ pc[r] \in {"archive", "run", "running"} => task[r] \notin {"success", "failed"}
    /\ pc[r] \in {"running", "cost"} => kind[r] \in PoolImageKinds
    /\ pc[r] = "refund" /\ task[r] = "success" => faulty[r]
    /\ pc[r] \in {"settle", "record", "cost"} => task[r] # "failed"
    /\ pc[r] = "settle" /\ kind[r] \in PoolImageKinds => act[r] <= est[r]
    /\ pc[r] \in {"settle", "record"} /\ kind[r] = "channelImage" =>
          task[r] = "success" /\ taskCost[r] = act[r]
    /\ pc[r] \notin {"cost", "done", "lost"} => counted[r] = 0
    /\ pc[r] \in {"record", "cost"} =>
          charged[r] = act[r] \/ faulty[r] \/ deleted[Owner[r]]
    /\ pc[r] = "cost" => counted[r] = act[r] \/ faulty[r]
    /\ pc[r] = "done" /\ task[r] = "failed" => charged[r] = 0
    /\ pc[r] = "done" =>
          \/ faulty[r]
          \/ deleted[Owner[r]]
          \/ /\ counted[r] = charged[r]
             /\ task[r] = "success" => taskCost[r] = charged[r]
    /\ pc[r] = "lost" => faulty[r]
    /\ pc[r] = "markFailed" /\ hold[r] > 0 => faulty[r] \/ deleted[Owner[r]]
    /\ pc[r] \in {"record", "cost", "done"} /\ hold[r] > 0 =>
          \/ faulty[r]
          \/ deleted[Owner[r]]
          \/ kind[r] = "channelImage" /\ task[r] = "success" /\ act[r] = 0

BookShape == \A r \in Requests : Book(r)

\* Everything the database and the handler know about request q stays.
Untouched(q) ==
    /\ pc'[q] = pc[q] /\ kind'[q] = kind[q] /\ est'[q] = est[q] /\ act'[q] = act[q]
    /\ hold'[q] = hold[q] /\ charged'[q] = charged[q] /\ counted'[q] = counted[q]
    /\ task'[q] = task[q] /\ taskCost'[q] = taskCost[q] /\ faulty'[q] = faulty[q]

\* A step of one handler touches no other request.
LEMMA StepLocal ==
  ASSUME TypeOK, NEW r \in Requests, Step(r), NEW q \in Requests, q # r
  PROVE  Untouched(q)
<1> USE DEF TypeOK, Untouched, Goto, SetAct, SetTask, Fault, NoFault
<1>1. CASE Freeze(r)
  BY <1>1 DEF Freeze, Accept, PreDeductFree, PreDeductOK, PreDeductRefused,
     PreDeductError, PreDeductAckLost
<1>2. CASE Serve(r)
  <2>1. CASE \/ CreateTask(r) \/ CreateTaskError(r) \/ ArchiveReferences(r) \/ ChannelFail(r)
             \/ ChannelMarkSuccessError(r) \/ ChatFail(r)
    BY <2>1 DEF CreateTask, CreateTaskError, ArchiveReferences, ChannelFail,
       ChannelMarkSuccessError, ChatFail
  <2>2. CASE RunnerStart(r) \/ RunnerFail(r) \/ RunnerEmpty(r)
    BY <2>2 DEF RunnerStart, RunnerFail, RunnerEmpty
  <2>3. ASSUME NEW a \in Amounts, RunnerSuccess(r, a) \/ ChannelSuccess(r, a) \/ ChatServed(r, a)
        PROVE  Untouched(q)
    BY <2>3 DEF RunnerSuccess, ChannelSuccess, ChatServed
  <2> QED  BY <1>2, <2>1, <2>2, <2>3 DEF Serve
<1>3. CASE Close(r)
  <2>1. CASE RefundOK(r) \/ RefundNothing(r) \/ RefundError(r) \/ MarkFailed(r)
    BY <2>1 DEF RefundOK, RefundNothing, RefundError, MarkFailed
  <2>2. CASE SettleOK(r) \/ SettleNothing(r) \/ SettleError(r) \/ Record(r) \/ UpdateCost(r)
    BY <2>2 DEF SettleOK, SettleNothing, SettleError, Record, UpdateCost
  <2> QED  BY <1>3, <2>1, <2>2 DEF Close
<1> QED  BY <1>1, <1>2, <1>3 DEF Step

\* The books of a request that a step does not touch stay in shape, even if
\* its owner is deleted.
LEMMA BookFrame ==
  ASSUME NEW q \in Requests, Book(q), Untouched(q), deleted[Owner[q]] => deleted'[Owner[q]]
  PROVE  Book(q)'
BY DEF Book, Untouched

\* The engine refuses the Settle or Refund of a handler only when the user
\* is deleted.
LEMMA RefusedIsDeleted ==
  ASSUME TypeOK, CloseNeverConflicts, NEW r \in Requests,
         pc[r] \in RefundPcs \cup {"settle"}
  PROVE  /\ ~CanRefund(Owner[r], est[r]) => deleted[Owner[r]]
         /\ ~CanSettle(Owner[r], est[r]) => deleted[Owner[r]]
<1>1. est[r] <= frozen[Owner[r]] /\ est[r] \in Int /\ frozen[Owner[r]] \in Int
  BY GatewayAssumption DEF CloseNeverConflicts, TypeOK, WalletType
<1> QED  BY <1>1 DEF CanRefund, CanSettle

\* BookShape is inductive, given the types, the holds and that no live
\* user's Settle or Refund is refused.
THEOREM GatewayBookShape == Spec => []BookShape
<1>1. Init => BookShape
  BY GatewayAssumption DEF Init, BookShape, Book
<1>2. TypeOK /\ HoldShape /\ CloseNeverConflicts /\ BookShape /\ [Next]_vars => BookShape'
  <2> SUFFICES ASSUME TypeOK, HoldShape, CloseNeverConflicts, BookShape, [Next]_vars
               PROVE  BookShape'
    OBVIOUS
  <2>0. ASSUME NEW q \in Requests
        PROVE  Book(q) /\ (deleted[Owner[q]] => deleted'[Owner[q]]) /\ (Untouched(q) => Book(q)')
    <3>1. Book(q) /\ Owner[q] \in Users
      BY GatewayAssumption DEF BookShape
    <3>2. deleted[Owner[q]] => deleted'[Owner[q]]
      BY <3>1, DeletedStays
    <3> QED  BY <3>1, <3>2, BookFrame
  <2>1. ASSUME NEW r \in Requests, Step(r) PROVE BookShape'
    <3> SUFFICES Book(r)'
      <4>1. ASSUME NEW q \in Requests, q # r PROVE Book(q)'
        BY <2>0, <2>1, <4>1, StepLocal
      <4> QED  BY <4>1 DEF BookShape, Book
    <3>1. /\ Book(r) /\ pc[r] \in Pcs /\ kind[r] \in AllKinds /\ est[r] \in Nat
          /\ act[r] \in Nat /\ hold[r] \in Nat /\ charged[r] \in Nat
          /\ counted[r] \in Nat /\ task[r] \in TaskStatus /\ taskCost[r] \in Nat
          /\ deleted[Owner[r]] => deleted'[Owner[r]]
      <4>1. Book(r) /\ (deleted[Owner[r]] => deleted'[Owner[r]])
        BY <2>0
      <4> QED  BY <4>1 DEF TypeOK
    <3>2. /\ pc[r] \in {"idle", "preDeduct"} => hold[r] = 0
          /\ pc[r] \in {"create", "archive", "run", "running", "refund", "refundFail",
                       "settle"} => hold[r] = est[r]
          /\ pc[r] \notin {"record", "cost", "done", "lost"} => charged[r] = 0
      BY DEF HoldShape
    <3> USE <3>1, <3>2 DEF Book, TypeOK, Goto, SetAct, SetTask, Fault, NoFault, AllKinds,
            ImageKinds, PoolImageKinds, ChatKinds
    <3>3. CASE Freeze(r)
      <4>1. ASSUME NEW c \in Amounts, Accept(r, c) PROVE Book(r)'
        BY <4>1 DEF Accept
      <4>2. CASE PreDeductFree(r)
        BY <4>2 DEF PreDeductFree, AfterFreeze
      <4>3. CASE PreDeductOK(r)
        BY <4>3 DEF PreDeductOK, AfterFreeze
      <4>4. CASE PreDeductRefused(r)
        <5>1. /\ pc'[r] = "done" /\ kind'[r] = kind[r] /\ est'[r] = est[r]
              /\ act'[r] = act[r] /\ hold'[r] = hold[r] /\ charged'[r] = charged[r]
              /\ counted'[r] = counted[r] /\ task'[r] = task[r] /\ taskCost'[r] = taskCost[r]
              /\ faulty'[r] = faulty[r]
          BY <4>4 DEF PreDeductRefused
        <5> QED  BY <4>4, <5>1 DEF PreDeductRefused
      <4>5. CASE PreDeductError(r)
        BY <4>5 DEF PreDeductError
      <4>6. CASE PreDeductAckLost(r)
        BY <4>6 DEF PreDeductAckLost
      <4> QED
        BY <3>3, <4>1, <4>2, <4>3, <4>4, <4>5, <4>6 DEF Freeze
    <3>4. CASE Serve(r)
      <4>1. CASE CreateTask(r)
        BY <4>1 DEF CreateTask
      <4>2. CASE CreateTaskError(r)
        BY <4>2 DEF CreateTaskError
      <4>3. CASE ArchiveReferences(r)
        BY <4>3 DEF ArchiveReferences
      <4>4. CASE RunnerStart(r)
        BY <4>4 DEF RunnerStart
      <4>5. CASE RunnerFail(r)
        BY <4>5 DEF RunnerFail
      <4>6. CASE RunnerEmpty(r)
        BY <4>6 DEF RunnerEmpty
      <4>7. CASE ChannelFail(r)
        BY <4>7 DEF ChannelFail
      <4>8. CASE ChannelMarkSuccessError(r)
        BY <4>8 DEF ChannelMarkSuccessError
      <4>9. CASE ChatFail(r)
        BY <4>9 DEF ChatFail
      <4>10. ASSUME NEW a \in Amounts, RunnerSuccess(r, a) PROVE Book(r)'
        BY <4>10, GatewayAssumption DEF RunnerSuccess, PoolPrices
      <4>11. ASSUME NEW a \in Amounts, ChannelSuccess(r, a) PROVE Book(r)'
        <5>1. /\ pc'[r] = (IF a > 0 THEN "settle" ELSE "record") /\ act'[r] = a /\ task'[r] = "success"
              /\ taskCost'[r] = a /\ kind'[r] = kind[r] /\ est'[r] = est[r]
              /\ hold'[r] = hold[r] /\ charged'[r] = charged[r] /\ counted'[r] = counted[r]
              /\ faulty'[r] = faulty[r]
          BY <4>11 DEF ChannelSuccess
        <5> QED  BY <4>11, <5>1, GatewayAssumption DEF ChannelSuccess
      <4>12. ASSUME NEW a \in Amounts, ChatServed(r, a) PROVE Book(r)'
        BY <4>12, GatewayAssumption DEF ChatServed
      <4> QED
        BY <3>4, <4>1, <4>2, <4>3, <4>4, <4>5, <4>6, <4>7, <4>8, <4>9, <4>10, <4>11, <4>12 DEF Serve
    <3>5. CASE Close(r)
      <4>1. CASE RefundOK(r)
        <5>1. /\ pc'[r] = AfterRefund(r) /\ hold'[r] = 0 /\ kind'[r] = kind[r]
              /\ est'[r] = est[r] /\ act'[r] = act[r] /\ charged'[r] = charged[r]
              /\ counted'[r] = counted[r] /\ task'[r] = task[r] /\ taskCost'[r] = taskCost[r]
              /\ faulty'[r] = faulty[r]
          BY <4>1 DEF RefundOK
        <5> QED  BY <4>1, <5>1 DEF RefundOK, RefundPcs, AfterRefund
      <4>2. CASE RefundNothing(r)
        <5>1. /\ pc'[r] = AfterRefund(r) /\ kind'[r] = kind[r] /\ est'[r] = est[r]
              /\ act'[r] = act[r] /\ hold'[r] = hold[r] /\ charged'[r] = charged[r]
              /\ counted'[r] = counted[r] /\ task'[r] = task[r] /\ taskCost'[r] = taskCost[r]
              /\ faulty'[r] = faulty[r]
          BY <4>2 DEF RefundNothing
        <5> QED  BY <4>2, <5>1, RefusedIsDeleted DEF RefundNothing, RefundPcs, AfterRefund
      <4>3. CASE RefundError(r)
        <5>1. /\ pc'[r] = AfterRefund(r) /\ faulty'[r] = TRUE /\ kind'[r] = kind[r]
              /\ est'[r] = est[r] /\ act'[r] = act[r] /\ hold'[r] = hold[r]
              /\ charged'[r] = charged[r] /\ counted'[r] = counted[r] /\ task'[r] = task[r]
              /\ taskCost'[r] = taskCost[r]
          BY <4>3 DEF RefundError
        <5> QED  BY <4>3, <5>1 DEF RefundError, RefundPcs, AfterRefund
      <4>4. CASE MarkFailed(r)
        <5>1. /\ pc'[r] = "done" /\ kind'[r] = kind[r] /\ act'[r] = act[r]
              /\ hold'[r] = hold[r] /\ charged'[r] = charged[r] /\ counted'[r] = counted[r]
              /\ task'[r] \in {"none", "failed"} \/ faulty'[r] = TRUE
              /\ faulty[r] => faulty'[r]
              /\ kind[r] \in ChatKinds => task'[r] = "none"
          BY <4>4 DEF MarkFailed
        <5> QED  BY <4>4, <5>1 DEF MarkFailed
      <4>5. CASE SettleOK(r)
        BY <4>5 DEF SettleOK
      <4>6. CASE SettleNothing(r)
        <5>1. /\ pc'[r] = "record" /\ kind'[r] = kind[r] /\ est'[r] = est[r]
              /\ act'[r] = act[r] /\ hold'[r] = hold[r] /\ charged'[r] = charged[r]
              /\ counted'[r] = counted[r] /\ task'[r] = task[r] /\ taskCost'[r] = taskCost[r]
              /\ faulty'[r] = faulty[r]
          BY <4>6 DEF SettleNothing
        <5> QED  BY <4>6, <5>1, RefusedIsDeleted DEF SettleNothing, Settles, RefundPcs
      <4>7. CASE SettleError(r)
        BY <4>7 DEF SettleError, Settles
      <4>8. CASE Record(r)
        BY <4>8 DEF Record, AfterRecord
      <4>9. CASE UpdateCost(r)
        BY <4>9 DEF UpdateCost
      <4> QED
        BY <3>5, <4>1, <4>2, <4>3, <4>4, <4>5, <4>6, <4>7, <4>8, <4>9 DEF Close
    <3> QED  BY <2>1, <3>3, <3>4, <3>5 DEF Step
  <2>2. CASE Crash
    <3> SUFFICES ASSUME NEW q \in Requests PROVE Book(q)'
      BY DEF BookShape, Book
    <3>1. CASE InFlight(q)
      <4>1. /\ pc'[q] = "lost" /\ faulty'[q] = TRUE /\ task'[q] = task[q]
            /\ kind'[q] = kind[q]
        BY <2>2, <3>1 DEF Crash, TypeOK
      <4>2. Book(q)
        BY <2>0
      <4> QED  BY <4>1, <4>2 DEF Book
    <3>2. CASE ~InFlight(q)
      <4>1. Untouched(q)
        BY <2>2, <3>2 DEF Crash, Untouched, TypeOK
      <4> QED  BY <2>0, <4>1
    <3> QED  BY <3>1, <3>2
  <2>3. CASE \/ \E u \in Users, a \in Amounts : Credit(u, a)
             \/ \E u \in Users : DeleteUser(u)
             \/ UNCHANGED vars
    <3>1. \A q \in Requests : Untouched(q)
      BY <2>3 DEF Credit, DeleteUser, vars, reqVars, Untouched
    <3>2. ASSUME NEW q \in Requests PROVE Book(q)'
      BY <2>0, <3>1
    <3> QED  BY <3>2 DEF BookShape, Book
  <2> QED  BY <2>1, <2>2, <2>3 DEF Next
<1> QED
  BY <1>1, <1>2, GatewayType, GatewayHoldShape, GatewayCloseNeverConflicts, PTL DEF Spec

\* No hold outlives its handler, unless a call failed, the process died, the
\* user was deleted, or a channel image was priced at zero.
THEOREM GatewayHoldClosed == Spec => []HoldClosed
<1>1. BookShape => HoldClosed
  BY DEF BookShape, Book, HoldClosed
<1> QED  BY <1>1, GatewayBookShape, PTL

\* A finished request costs the same in the ledger, in the key's quota and
\* on the task row, and a failed image is free, for every number of requests.
THEOREM GatewayBooksAgree == Spec => []BooksAgree
<1>1. TypeOK /\ BookShape => BooksAgree
  BY DEF BookShape, Book, BooksAgree, TypeOK
<1> QED  BY <1>1, GatewayType, GatewayBookShape, PTL

\* A step that touches one request leaves the escrows of the others alone.
LEMMA PhaseLocal ==
  ASSUME NEW r \in Requests,
         \A q \in Requests \ {r} : pc'[q] = pc[q] /\ hold'[q] = hold[q] /\ est'[q] = est[q]
  PROVE  EscrowPhase' = [EscrowPhase EXCEPT ![r] = EscrowPhase'[r]]
BY DEF EscrowPhase

\* A handler step that moves no credits is a stutter of the escrows, or the
\* end of a request that never held anything.
LEMMA NoMoneyStep ==
  ASSUME TypeOK, NEW r \in Requests, Step(r), UNCHANGED <<balance, hold, charged, credits>>,
         \/ EscrowPhase'[r] = EscrowPhase[r]
         \/ EscrowPhase[r] = "new" /\ EscrowPhase'[r] = "closed"
  PROVE  [Promise!ENext]_(Promise!evars)
<1>1. \A q \in Requests \ {r} : pc'[q] = pc[q] /\ hold'[q] = hold[q] /\ est'[q] = est[q]
  BY StepLocal DEF Untouched
<1>2. EscrowPhase' = [EscrowPhase EXCEPT ![r] = EscrowPhase'[r]]
  BY <1>1, PhaseLocal
<1>3. CASE EscrowPhase'[r] = EscrowPhase[r]
  <2>1. EscrowPhase' = EscrowPhase
    BY <1>2, <1>3 DEF EscrowPhase
  <2> QED  BY <2>1 DEF Promise!evars
<1>4. CASE EscrowPhase[r] = "new" /\ EscrowPhase'[r] = "closed"
  <2>1. EscrowPhase' = [q \in Requests |-> IF q \in {r} THEN "closed" ELSE EscrowPhase[q]]
    BY <1>2, <1>4 DEF EscrowPhase
  <2>2. Promise!Abandon({r})
    BY <1>4, <2>1 DEF Promise!Abandon
  <2> QED  BY <2>2 DEF Promise!ENext
<1> QED  BY <1>3, <1>4

\* PreDeduct fills the escrow of the request.
LEMMA FreezeFills ==
  ASSUME TypeOK, HoldShape, NEW r \in Requests, PreDeductOK(r) \/ PreDeductAckLost(r)
  PROVE  Promise!Fill(r)
<1> USE GatewayAssumption DEF TypeOK, WalletType
<1>1. /\ pc[r] = "preDeduct" /\ hold[r] = 0 /\ est[r] \in Nat /\ est[r] > 0
      /\ balance[Owner[r]] \in Int /\ balance[Owner[r]] >= est[r]
  BY DEF PreDeductOK, PreDeductAckLost, PreDeduct, CanPreDeduct, HoldShape
<1>2. /\ hold' = [hold EXCEPT ![r] = est[r]]
      /\ balance' = [balance EXCEPT ![Owner[r]] = @ + (-est[r])]
      /\ UNCHANGED <<charged, credits>>
  BY DEF PreDeductOK, PreDeductAckLost, PreDeduct, Post
<1>3. balance' = [balance EXCEPT ![Owner[r]] = @ - est[r]]
  BY <1>1, <1>2
<1>4. EscrowPhase[r] = "new" /\ EscrowPhase'[r] = "held"
  BY <1>1, <1>2 DEF EscrowPhase
<1>5. \A q \in Requests \ {r} : pc'[q] = pc[q] /\ hold'[q] = hold[q] /\ est'[q] = est[q]
  BY StepLocal DEF Untouched, Step, Freeze
<1>6. EscrowPhase' = [EscrowPhase EXCEPT ![r] = "held"]
  BY <1>4, <1>5, PhaseLocal
<1>7. est[r] \in 1 .. balance[Owner[r]]
  BY <1>1
<1> QED  BY <1>2, <1>3, <1>4, <1>6, <1>7 DEF Promise!Fill

\* Refund and Settle empty it.
LEMMA CloseEmpties ==
  ASSUME TypeOK, HoldShape, NEW r \in Requests, RefundOK(r) \/ SettleOK(r)
  PROVE  Promise!Empty(r)
<1> USE GatewayAssumption DEF TypeOK, WalletType
<1>1. /\ pc[r] \in RefundPcs \cup {"settle"} /\ hold[r] = est[r] /\ charged[r] = 0
      /\ est[r] \in Nat /\ act[r] \in Nat /\ balance[Owner[r]] \in Int
      /\ Owner[r] \in Users
  BY DEF RefundOK, SettleOK, RefundPcs, HoldShape
<1>2. /\ hold' = [hold EXCEPT ![r] = 0]
      /\ pc'[r] \in {"done", "markFailed", "record"}
      /\ UNCHANGED <<credits, est>>
  BY DEF RefundOK, SettleOK, AfterRefund, Goto
<1>3. /\ charged'[r] \in Nat
      /\ charged' = [charged EXCEPT ![r] = charged'[r]]
      /\ balance' = [balance EXCEPT ![Owner[r]] = @ + hold[r] - charged'[r]]
  <2>1. CASE RefundOK(r)
    <3>1. charged' = charged /\ balance' = [balance EXCEPT ![Owner[r]] = @ + est[r]]
      BY <2>1 DEF RefundOK, Refund, Post
    <3>2. balance[Owner[r]] + est[r] = balance[Owner[r]] + hold[r] - charged'[r]
      BY <1>1, <3>1
    <3> QED  BY <1>1, <3>1, <3>2
  <2>2. CASE SettleOK(r)
    <3>1. /\ charged' = [charged EXCEPT ![r] = act[r]]
          /\ balance' = [balance EXCEPT ![Owner[r]] = @ + (est[r] - act[r])]
      BY <2>2 DEF SettleOK, Settle, Post
    <3>2. charged'[r] = act[r]
      BY <3>1
    <3>3. balance[Owner[r]] + (est[r] - act[r]) = balance[Owner[r]] + hold[r] - charged'[r]
      BY <1>1, <3>2
    <3> QED  BY <1>1, <3>1, <3>2, <3>3
  <2> QED  BY <2>1, <2>2
<1>4. EscrowPhase[r] # "closed" /\ EscrowPhase'[r] = "closed"
  BY <1>1, <1>2 DEF EscrowPhase, RefundPcs
<1>5. \A q \in Requests \ {r} : pc'[q] = pc[q] /\ hold'[q] = hold[q] /\ est'[q] = est[q]
  BY StepLocal DEF Untouched, Step, Close
<1>6. EscrowPhase' = [EscrowPhase EXCEPT ![r] = "closed"]
  BY <1>4, <1>5, PhaseLocal
<1> QED  BY <1>2, <1>3, <1>4, <1>6 DEF Promise!Empty

\* The credit engine, as the handlers use it, implements one escrow per
\* request for every number of requests and users: every step fills or
\* empties the escrow of one request, ends requests that hold nothing, books
\* a grant, or is invisible.
THEOREM GatewayImplementsEscrow == Spec => ImplementsEscrow
<1>1. Init => Promise!EInit
  <2> SUFFICES ASSUME Init PROVE Promise!EInit
    OBVIOUS
  <2>1. EscrowPhase = [r \in Requests |-> "new"]
    BY DEF Init, EscrowPhase
  <2> QED  BY <2>1 DEF Init, WalletInit, Promise!EInit
<1>2. TypeOK /\ HoldShape /\ [Next]_vars => [Promise!ENext]_(Promise!evars)
  <2> SUFFICES ASSUME TypeOK, HoldShape, [Next]_vars
               PROVE  [Promise!ENext]_(Promise!evars)
    OBVIOUS
  <2> USE GatewayAssumption
  <2>1. ASSUME NEW r \in Requests, Step(r) PROVE [Promise!ENext]_(Promise!evars)
    <3> DEFINE Quiet == /\ UNCHANGED <<balance, hold, charged, credits>>
                        /\ \/ EscrowPhase'[r] = EscrowPhase[r]
                           \/ EscrowPhase[r] = "new" /\ EscrowPhase'[r] = "closed"
    <3>1. CASE PreDeductOK(r) \/ PreDeductAckLost(r)
      BY <3>1, FreezeFills DEF Promise!ENext
    <3>2. CASE RefundOK(r) \/ SettleOK(r)
      BY <3>2, CloseEmpties DEF Promise!ENext
    <3>3. SUFFICES ASSUME ~PreDeductOK(r), ~PreDeductAckLost(r), ~RefundOK(r), ~SettleOK(r)
                   PROVE  Quiet
      <4> HIDE DEF Quiet
      <4>1. Quiet => [Promise!ENext]_(Promise!evars)
        BY <2>1, NoMoneyStep DEF Quiet
      <4> QED  BY <3>1, <3>2, <4>1
    <3>4. /\ est[r] \in Nat /\ hold[r] \in Nat
          /\ pc[r] \in {"idle", "preDeduct"} => hold[r] = 0
          /\ pc[r] \in {"create", "archive", "run", "running", "refund", "refundFail",
                       "settle"} => hold[r] = est[r]
      BY DEF TypeOK, HoldShape
    <3>5. CASE Freeze(r)
      BY <3>3, <3>4, <3>5
         DEF Freeze, Accept, PreDeductFree, PreDeductRefused, PreDeductError, AfterFreeze,
             Goto, EscrowPhase, walletVars, TypeOK
    <3>6. CASE Serve(r)
      BY <3>4, <3>6
         DEF Serve, CreateTask, CreateTaskError, ArchiveReferences, RunnerStart, RunnerFail,
             RunnerEmpty, ChannelFail, ChannelMarkSuccessError, ChatFail, RunnerSuccess,
             ChannelSuccess, ChatServed, Goto, EscrowPhase, walletVars, TypeOK
    <3>7. CASE Close(r)
      BY <3>3, <3>4, <3>7
         DEF Close, RefundNothing, RefundError, MarkFailed, SettleNothing, SettleError,
             Record, UpdateCost, AfterRefund, AfterRecord, RefundPcs, Goto, EscrowPhase,
             walletVars, TypeOK
    <3> QED  BY <2>1, <3>5, <3>6, <3>7 DEF Step
  <2>2. CASE Crash
    <3> DEFINE S == {q \in Requests : InFlight(q) /\ EscrowPhase[q] = "new"}
    <3>1. EscrowPhase' = [q \in Requests |-> IF q \in S THEN "closed" ELSE EscrowPhase[q]]
      BY <2>2 DEF Crash, InFlight, EscrowPhase, TypeOK
    <3>2. Promise!Abandon(S)
      BY <2>2, <3>1 DEF Crash, Promise!Abandon, walletVars
    <3>3. S \in SUBSET Requests
      OBVIOUS
    <3> HIDE DEF S
    <3> QED  BY <3>2, <3>3 DEF Promise!ENext
  <2>3. ASSUME NEW u \in Users, NEW a \in Amounts, Credit(u, a)
        PROVE  [Promise!ENext]_(Promise!evars)
    <3>1. EscrowPhase' = EscrowPhase
      BY <2>3 DEF Credit, reqVars, EscrowPhase
    <3>2. /\ balance' = [balance EXCEPT ![u] = balance'[u]]
          /\ balance'[u] >= balance[u] \/ balance'[u] >= 0
      BY <2>3 DEF Credit, Recharge, CreditTx, AdminAdjust, Post, TypeOK, WalletType
    <3>3. credits' = credits + 1 /\ UNCHANGED <<hold, charged>>
      BY <2>3 DEF Credit, reqVars
    <3>4. Promise!Grant(u)
      BY <3>1, <3>2, <3>3 DEF Promise!Grant
    <3> QED  BY <3>4 DEF Promise!ENext
  <2>4. CASE (\E u \in Users : DeleteUser(u)) \/ UNCHANGED vars
    <3>1. UNCHANGED <<balance, hold, charged, credits, pc, est>>
      BY <2>4 DEF DeleteUser, SoftDelete, reqVars, vars, walletVars
    <3>2. EscrowPhase' = EscrowPhase
      BY <3>1 DEF EscrowPhase
    <3> QED  BY <3>1, <3>2 DEF Promise!evars
  <2> QED  BY <2>1, <2>2, <2>3, <2>4 DEF Next
<1> QED
  BY <1>1, <1>2, GatewayType, GatewayHoldShape, PTL DEF Spec, ImplementsEscrow, Promise!ESpec
=============================================================================
