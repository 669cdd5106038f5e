------------------------------ MODULE Billing ------------------------------
(***************************************************************************)
(* The credit engine (internal/billing).  A user row holds an available    *)
(* balance and ONE aggregate frozen counter; every operation is a single   *)
(* MySQL transaction (runTx) made of a guarded UPDATE of that row and the  *)
(* rows it appends to credit_transactions.  The engine keeps no record of  *)
(* who froze what: callers pass the amount they believe they froze.        *)
(*                                                                         *)
(* ledger[u] is the sum of the amounts of u's credit_transactions rows.    *)
(* Amounts are Go int64 and columns are signed BIGINT; the model's         *)
(* integers are small, so no operation can wrap.                           *)
(***************************************************************************)
EXTENDS Integers

CONSTANT Users          \* user ids

VARIABLES
    balance,            \* users.credit_balance
    frozen,             \* users.credit_frozen
    deleted,            \* users.deleted_at IS NOT NULL
    ledger              \* SUM(credit_transactions.amount) per user

walletVars == <<balance, frozen, deleted, ledger>>

WalletType ==
    /\ balance \in [Users -> Int]
    /\ frozen  \in [Users -> Int]
    /\ deleted \in [Users -> BOOLEAN]
    /\ ledger  \in [Users -> Int]

\* Register inserts the row with credit_balance 0; every later credit, the
\* signup bonus included, goes through the engine.
WalletInit ==
    /\ balance = [u \in Users |-> 0]
    /\ frozen  = [u \in Users |-> 0]
    /\ deleted = [u \in Users |-> FALSE]
    /\ ledger  = [u \in Users |-> 0]

\* The body of a committed transaction: the UPDATE of users and the sum of
\* the inserted ledger rows.
Post(u, balanceDelta, frozenDelta, rows) ==
    /\ balance' = [balance EXCEPT ![u] = @ + balanceDelta]
    /\ frozen'  = [frozen  EXCEPT ![u] = @ + frozenDelta]
    /\ ledger'  = [ledger  EXCEPT ![u] = @ + rows]
    /\ UNCHANGED deleted

\* Mutant: PreDeduct does not look at the balance.
CanPreDeductUnchecked(u, amount) == ~deleted[u]

CanPreDeduct(u, amount) == balance[u] >= amount /\ ~deleted[u]

\* balance -= amount, frozen += amount; row freeze(-amount).
PreDeduct(u, amount) ==
    /\ CanPreDeduct(u, amount)
    /\ Post(u, -amount, amount, -amount)

CanSettle(u, expected) == frozen[u] - expected >= 0 /\ ~deleted[u]

\* Mutant: the unfreeze row is not written.
SettleNoUnfreezeRow(u, expected, actual) ==
    /\ CanSettle(u, expected)
    /\ Post(u, expected - actual, -expected, -actual)

\* frozen -= expected, balance += expected - actual, whatever its sign;
\* rows unfreeze(+expected) and consume(-actual).
Settle(u, expected, actual) ==
    /\ CanSettle(u, expected)
    /\ Post(u, expected - actual, -expected, expected - actual)

CanRefund(u, expected) == frozen[u] >= expected /\ ~deleted[u]

\* Mutant: the refund does not lower the frozen counter.
RefundStaysFrozen(u, expected) ==
    /\ CanRefund(u, expected)
    /\ Post(u, expected, 0, expected)

\* frozen -= expected, balance += expected; row refund(+expected).
Refund(u, expected) ==
    /\ CanRefund(u, expected)
    /\ Post(u, expected, -expected, expected)

\* Payment callback.  RowsAffected is not looked at: for a deleted user the
\* UPDATE matches no row and the ledger row is written all the same.
Recharge(u, amount) ==
    /\ amount > 0
    /\ Post(u, IF deleted[u] THEN 0 ELSE amount, 0, amount)

\* AwardCheckinTx and RedeemTx: a deleted user makes the transaction fail.
CreditTx(u, amount) ==
    /\ amount > 0
    /\ ~deleted[u]
    /\ Post(u, amount, 0, amount)

\* Manual adjustment (and the signup bonus); a deduction needs the balance.
AdminAdjust(u, delta) ==
    /\ delta # 0
    /\ ~deleted[u]
    /\ delta < 0 => balance[u] >= -delta
    /\ Post(u, delta, 0, delta)

\* user.DAO.SoftDelete; users are never undeleted.
SoftDelete(u) ==
    /\ ~deleted[u]
    /\ deleted' = [deleted EXCEPT ![u] = TRUE]
    /\ UNCHANGED <<balance, frozen, ledger>>
=============================================================================
