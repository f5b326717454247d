----------------------------- MODULE MCAccounts -----------------------------
(* Small instances of Accounts: two accounts of two users, one transfer.   *)
EXTENDS Accounts, TLC

CONSTANTS a1, a2, u1, u2, t1, USD, EUR

MCOwner == [a \in Account |-> IF a = a1 THEN u1 ELSE u2]
MCCurrencyOf == [a \in Account |-> IF a = a1 THEN USD ELSE EUR]

User1(op, n) == [op |-> op, user |-> u1, account |-> a1, amount |-> n,
                 transfer |-> NoTransfer, currency |-> USD]

Internal(op, a, n) == [op |-> op, user |-> u1, account |-> a, amount |-> n,
                       transfer |-> t1, currency |-> USD]

\* Everything that moves the money of one account, and its closing.
MoneyCalls ==
    {User1("deposit", 2), User1("withdraw", 2), User1("close", 0),
     Internal("debit", a1, 2), Internal("reversal", a1, 2)}

\* Calls on the other account, which may not be created yet: a stranger's
\* withdrawal, and a credit.
OtherCalls ==
    {[User1("withdraw", 1) EXCEPT !.account = a2],
     [Internal("credit", a2, 1) EXCEPT !.currency = EUR]}

RacingCalls == MoneyCalls \cup OtherCalls

\* With an empty deposit, which is refused before any connection is taken, and
\* a credit in the wrong currency.
WaitingCalls ==
    MoneyCalls \cup
    {User1("deposit", 0), [Internal("credit", a1, 2) EXCEPT !.currency = EUR]}

Symmetry == Permutations(Request)
=============================================================================
