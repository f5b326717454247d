----------------------------- MODULE LedgerRows -----------------------------
(***************************************************************************)
(* The tables of the Accounts service: the immutable columns of accounts,  *)
(* the rows of ledger_entries and the queries the repository makes over    *)
(* them.  A row keeps the columns that the service's decisions read: its   *)
(* type, its signed amount and the transfer it belongs to (NoTransfer for  *)
(* a deposit or a withdrawal).  The rows of one account form a sequence,   *)
(* oldest first.                                                           *)
(***************************************************************************)
EXTENDS Integers, Sequences

CONSTANTS Transfer,     \* identifiers of transfers
          NoTransfer,   \* the null related_transaction_id
          Account,      \* identifiers an account has or may be given
          Currency,
          CurrencyOf,   \* the currency an account is created with
          Amount        \* amounts a request may carry, zero included

ASSUME LedgerAssumption ==
    /\ NoTransfer \notin Transfer
    /\ CurrencyOf \in [Account -> Currency]
    /\ Amount \subseteq Nat

EntryType ==
    {"DEPOSIT", "WITHDRAWAL", "TRANSFER_DEBIT", "TRANSFER_CREDIT", "REVERSAL"}

TransferType == {"TRANSFER_DEBIT", "TRANSFER_CREDIT", "REVERSAL"}

Row == [type : EntryType, amount : Int, ref : Transfer \cup {NoTransfer}]

\* Withdrawals and debits are stored negated.
TakesMoney(type) == type \in {"WITHDRAWAL", "TRANSFER_DEBIT"}

NewRow(type, n, t) ==
    [type |-> type, amount |-> IF TakesMoney(type) THEN -n ELSE n, ref |-> t]

\* SUM(amount) over the account's rows, 0 when there is none.
ComputeBalance(rows) ==
    LET sum[i \in 0 .. Len(rows)] ==
            IF i = 0 THEN 0 ELSE sum[i - 1] + rows[i].amount
    IN  sum[Len(rows)]

\* findFirst on (account, related transaction, type): is there such a row?
Existing(rows, type, t) ==
    \E i \in DOMAIN rows : rows[i].type = type /\ rows[i].ref = t

\* The rows hold at most one entry of each type for each transfer.
AtMostOncePerTransfer(rows) ==
    \A i, j \in DOMAIN rows :
        /\ rows[i].ref # NoTransfer
        /\ rows[i].ref = rows[j].ref
        /\ rows[i].type = rows[j].type
        => i = j
=============================================================================
