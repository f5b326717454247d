------------------------------- MODULE Ledger -------------------------------
(***************************************************************************)
(* What the Accounts service promises, one atomic step per operation:      *)
(* money only moves on an active account, a debit or a withdrawal is       *)
(* covered by the balance at that instant, and the step a transfer asks    *)
(* for is entered at most once however often it is asked.  An operation    *)
(* that is refused, and a retry of one already entered, is a stutter.      *)
(*                                                                         *)
(* Accounts.tla is the service as it runs, request by request and          *)
(* statement by statement, and implements this specification;              *)
(* TransferSaga.tla drives it.                                             *)
(***************************************************************************)
EXTENDS LedgerRows

VARIABLES status,    \* AccountStatus of each account, NONE before it exists
          ledger     \* the rows of each account

vars == <<status, ledger>>

Status == {"NONE", "ACTIVE", "CLOSED"}

TypeOK ==
    /\ status \in [Account -> Status]
    /\ ledger \in [Account -> Seq(Row)]

Init ==
    /\ status = [a \in Account |-> "NONE"]
    /\ ledger = [a \in Account |-> <<>>]

CreateAccount(a) ==
    /\ status[a] = "NONE"
    /\ status' = [status EXCEPT ![a] = "ACTIVE"]
    /\ UNCHANGED ledger

\* Nothing asks for an empty account, or for an active one.
CloseAccount(a) ==
    /\ status[a] # "NONE"
    /\ status' = [status EXCEPT ![a] = "CLOSED"]
    /\ UNCHANGED ledger

Enter(a, type, n, t) ==
    /\ n > 0
    /\ status[a] = "ACTIVE"
    /\ ledger' = [ledger EXCEPT ![a] = Append(@, NewRow(type, n, t))]
    /\ UNCHANGED status

Covered(a, n) == ~(ComputeBalance(ledger[a]) < n)

Deposit(a, n) == Enter(a, "DEPOSIT", n, NoTransfer)

Withdraw(a, n) == Covered(a, n) /\ Enter(a, "WITHDRAWAL", n, NoTransfer)

EnterTransfer(a, type, n, t, c) ==
    /\ CurrencyOf[a] = c
    /\ ~Existing(ledger[a], type, t)
    /\ Enter(a, type, n, t)

TransferDebit(a, t, n, c) ==
    Covered(a, n) /\ EnterTransfer(a, "TRANSFER_DEBIT", n, t, c)

TransferCredit(a, t, n, c) == EnterTransfer(a, "TRANSFER_CREDIT", n, t, c)

TransferReversal(a, t, n, c) == EnterTransfer(a, "REVERSAL", n, t, c)

Next ==
    \E a \in Account :
        \/ CreateAccount(a)
        \/ CloseAccount(a)
        \/ \E n \in Amount :
              \/ Deposit(a, n)
              \/ Withdraw(a, n)
              \/ \E t \in Transfer, c \in Currency :
                    \/ TransferDebit(a, t, n, c)
                    \/ TransferCredit(a, t, n, c)
                    \/ TransferReversal(a, t, n, c)

Spec == Init /\ [][Next]_vars
-----------------------------------------------------------------------------
\* No account is ever overdrawn: every way money leaves an account checks
\* the sum of its rows first (InsufficientFundsException otherwise).
NonNegativeBalance == \A a \in Account : ComputeBalance(ledger[a]) >= 0

\* Idempotency by (account, transfer, type), which no database constraint
\* backs: a transfer has at most one debit, credit and reversal per account.
AppliedOnce == \A a \in Account : AtMostOncePerTransfer(ledger[a])

\* A closed account is final: it stays closed and no row is added to it.
ClosedIsFrozen ==
    [][\A a \in Account : status[a] = "CLOSED" =>
          status'[a] = "CLOSED" /\ ledger'[a] = ledger[a]]_vars
=============================================================================
