---------------------------- MODULE LedgerProofs ----------------------------
(***************************************************************************)
(* Proofs about Ledger, for every set of accounts, transfers and amounts.  *)
(*                                                                         *)
(* The balance is a sum defined by recursion over the rows.  That the sum  *)
(* exists and is the only one is itself part of the inductive invariant    *)
(* (Summable): it holds of no rows, and a step only ever appends a row.    *)
(***************************************************************************)
EXTENDS Ledger, TLAPS

\* f holds the running sums of rows.
RunningSums(f, rows) ==
    f = [i \in 0 .. Len(rows) |-> IF i = 0 THEN 0 ELSE f[i - 1] + rows[i].amount]

\* rows have running sums, of integers, and only these.
SumsTo(f, rows) ==
    /\ RunningSums(f, rows)
    /\ f \in [0 .. Len(rows) -> Int]
    /\ \A g : RunningSums(g, rows) => g = f

Summable(rows) == \E f : SumsTo(f, rows)

\* The balance is the last of the running sums.
LEMMA BalanceIsLastSum ==
    ASSUME NEW rows, NEW f, SumsTo(f, rows)
    PROVE  ComputeBalance(rows) = f[Len(rows)]
<1> DEFINE sums == CHOOSE g : RunningSums(g, rows)
<1>1. RunningSums(sums, rows)
  <2>1. \E g : RunningSums(g, rows)
    BY DEF SumsTo
  <2>2. QED
    BY <2>1
<1>2. sums = f
  BY <1>1 DEF SumsTo
<1>3. ComputeBalance(rows) = sums[Len(rows)]
  BY DEF ComputeBalance, RunningSums
<1>4. QED
  BY <1>2, <1>3

\* An account without rows has balance zero.
LEMMA SumOfNone == Summable(<<>>) /\ ComputeBalance(<<>>) = 0
<1> DEFINE f == [i \in 0 .. 0 |-> 0]
<1>1. SumsTo(f, <<>>)
  BY DEF SumsTo, RunningSums
<1>2. ComputeBalance(<<>>) = 0
  BY <1>1, BalanceIsLastSum
<1>3. QED
  BY <1>1, <1>2 DEF Summable

\* Appending a row adds its amount to the balance.
LEMMA SumOfAppend ==
    ASSUME NEW rows \in Seq(Row), NEW row \in Row, Summable(rows)
    PROVE  /\ Summable(Append(rows, row))
           /\ ComputeBalance(rows) \in Int
           /\ ComputeBalance(Append(rows, row)) = ComputeBalance(rows) + row.amount
<1> DEFINE n == Len(rows)
           more == Append(rows, row)
<1>1. PICK f : SumsTo(f, rows)
  BY DEF Summable
<1>2. n \in Nat /\ Len(more) = n + 1 /\ more[n + 1] = row
      /\ (\A i \in 1 .. n : more[i] = rows[i])
  OBVIOUS
<1>3. row.amount \in Int
  BY DEF Row
<1> DEFINE h == [i \in 0 .. n + 1 |-> IF i = n + 1 THEN f[n] + row.amount ELSE f[i]]
<1> HIDE DEF n, more
<1>4. f \in [0 .. n -> Int]
  BY <1>1 DEF SumsTo, n
<1>5. h \in [0 .. n + 1 -> Int]
  BY <1>2, <1>3, <1>4
<1>6. RunningSums(h, more)
  <2>1. \A i \in 0 .. n + 1 :
            h[i] = IF i = 0 THEN 0 ELSE h[i - 1] + more[i].amount
    <3> SUFFICES ASSUME NEW i \in 0 .. n + 1
                 PROVE  h[i] = IF i = 0 THEN 0 ELSE h[i - 1] + more[i].amount
      OBVIOUS
    <3>1. \A j \in 0 .. n : f[j] = IF j = 0 THEN 0 ELSE f[j - 1] + rows[j].amount
      BY <1>1 DEF SumsTo, RunningSums, n
    <3>2. CASE i = n + 1
      <4>1. h[i - 1] = f[n]
        BY <3>2, <1>2
      <4>2. QED
        BY <3>2, <4>1, <1>2
    <3>3. CASE i = 0
      BY <3>3, <3>1, <1>2
    <3>4. CASE i \in 1 .. n
      <4>1. h[i] = f[i] /\ h[i - 1] = f[i - 1] /\ more[i] = rows[i]
        BY <3>4, <1>2
      <4>2. QED
        BY <4>1, <3>4, <3>1, <1>2
    <3>5. QED
      BY <3>2, <3>3, <3>4, <1>2
  <2>2. QED
    BY <2>1, <1>2, <1>5 DEF RunningSums
<1>7. ASSUME NEW g, RunningSums(g, more)
      PROVE  g = h
  <2> DEFINE Sum(i) == IF i = 0 THEN 0 ELSE g[i - 1] + more[i].amount
  <2>0. g = [i \in 0 .. n + 1 |-> Sum(i)]
    BY <1>7, <1>2 DEF RunningSums
  <2> HIDE DEF Sum
  <2>1. \A i \in 0 .. n + 1 : g[i] = IF i = 0 THEN 0 ELSE g[i - 1] + more[i].amount
    BY <2>0 DEF Sum
  <2> DEFINE k == [i \in 0 .. n |-> g[i]]
  <2>2. RunningSums(k, rows)
    <3>1. \A i \in 0 .. n : k[i] = IF i = 0 THEN 0 ELSE k[i - 1] + rows[i].amount
      BY <2>1, <1>2
    <3>2. QED
      BY <3>1 DEF RunningSums, n
  <2>3. k = f
    BY <2>2, <1>1 DEF SumsTo
  <2>4. \A i \in 0 .. n : g[i] = f[i]
    BY <2>3
  <2>5. g[n + 1] = f[n] + row.amount
    <3>1. n + 1 \in 0 .. n + 1 /\ n + 1 # 0 /\ (n + 1) - 1 = n /\ n \in 0 .. n
      BY <1>2
    <3>2. g[n + 1] = g[n] + more[n + 1].amount
      BY <2>1, <3>1
    <3>3. QED
      BY <3>1, <3>2, <2>4, <1>2
  <2>6. \A i \in 0 .. n + 1 : g[i] = h[i]
    BY <2>4, <2>5, <1>2
  <2>7. g = [i \in 0 .. n + 1 |-> g[i]]
    BY <2>0
  <2>8. QED
    BY <2>6, <2>7
<1>8. SumsTo(h, more)
  BY <1>5, <1>6, <1>7, <1>2 DEF SumsTo
<1>9. ComputeBalance(rows) = f[n] /\ ComputeBalance(more) = h[n + 1]
  BY <1>1, <1>8, <1>2, BalanceIsLastSum DEF n
<1>10. QED
  BY <1>2, <1>4, <1>8, <1>9 DEF Summable, more

-----------------------------------------------------------------------------
\* A row the service enters is a row of the table.
LEMMA NewRowType ==
    ASSUME NEW type \in EntryType, NEW n \in Int, NEW t \in Transfer \cup {NoTransfer}
    PROVE  NewRow(type, n, t) \in Row
BY DEF NewRow, Row

\* A step changes the accounts in one of three ways.
LEMMA LedgerSteps ==
    ASSUME TypeOK, Next
    PROVE  \E a \in Account :
              \/ CreateAccount(a)
              \/ CloseAccount(a)
              \/ \E n \in Amount, t \in Transfer \cup {NoTransfer}, type \in EntryType :
                    /\ Enter(a, type, n, t)
                    /\ TakesMoney(type) => Covered(a, n)
                    /\ t \in Transfer => ~Existing(ledger[a], type, t)
<1>1. PICK a \in Account :
          \/ CreateAccount(a)
          \/ CloseAccount(a)
          \/ \E n \in Amount :
                \/ Deposit(a, n)
                \/ Withdraw(a, n)
                \/ \E t \in Transfer, c \in Currency :
                      \/ TransferDebit(a, t, n, c)
                      \/ TransferCredit(a, t, n, c)
                      \/ TransferReversal(a, t, n, c)
  BY DEF Next
<1> DEFINE Entering ==
       \E n \in Amount, t \in Transfer \cup {NoTransfer}, type \in EntryType :
          /\ Enter(a, type, n, t)
          /\ TakesMoney(type) => Covered(a, n)
          /\ t \in Transfer => ~Existing(ledger[a], type, t)
<1>2. ASSUME NEW n \in Amount, Deposit(a, n) \/ Withdraw(a, n)
      PROVE  Entering
  BY <1>2, LedgerAssumption DEF Deposit, Withdraw, TakesMoney, EntryType
<1>3. ASSUME NEW n \in Amount, NEW t \in Transfer, NEW c \in Currency,
             \/ TransferDebit(a, t, n, c)
             \/ TransferCredit(a, t, n, c)
             \/ TransferReversal(a, t, n, c)
      PROVE  Entering
  BY <1>3 DEF TransferDebit, TransferCredit, TransferReversal, EnterTransfer,
              TakesMoney, EntryType
<1>4. QED
  BY <1>1, <1>2, <1>3

\* Ledger keeps its types.
THEOREM LedgerTypeCorrect == Spec => []TypeOK
<1>1. Init => TypeOK
  BY DEF Init, TypeOK, Status
<1>2. TypeOK /\ [Next]_vars => TypeOK'
  <2> SUFFICES ASSUME TypeOK, [Next]_vars
               PROVE  TypeOK'
    OBVIOUS
  <2>1. ASSUME NEW a \in Account, CreateAccount(a) \/ CloseAccount(a)
        PROVE  TypeOK'
    BY <2>1 DEF TypeOK, Status, CreateAccount, CloseAccount
  <2>2. ASSUME NEW a \in Account, NEW n \in Amount, NEW type \in EntryType,
               NEW t \in Transfer \cup {NoTransfer}, Enter(a, type, n, t)
        PROVE  TypeOK'
    <3>1. NewRow(type, n, t) \in Row
      BY NewRowType, LedgerAssumption
    <3>2. QED
      BY <2>2, <3>1 DEF TypeOK, Enter
  <2>3. CASE UNCHANGED vars
    BY <2>3 DEF vars, TypeOK
  <2>4. QED
    BY <2>1, <2>2, <2>3, LedgerSteps
<1>3. QED
  BY <1>1, <1>2, PTL DEF Spec

\* The invariant behind NonNegativeBalance: no balance is negative, and the
\* recursion that defines it is well-defined.
BalanceInv ==
    \A a \in Account : Summable(ledger[a]) /\ ComputeBalance(ledger[a]) >= 0

\* No account is ever overdrawn.
THEOREM LedgerNonNegative == Spec => []NonNegativeBalance
<1>1. Init => BalanceInv
  BY SumOfNone DEF Init, BalanceInv
<1>2. TypeOK /\ BalanceInv /\ [Next]_vars => BalanceInv'
  <2> SUFFICES ASSUME TypeOK, BalanceInv, [Next]_vars
               PROVE  BalanceInv'
    OBVIOUS
  <2>1. ASSUME NEW a \in Account, CreateAccount(a) \/ CloseAccount(a)
        PROVE  BalanceInv'
    BY <2>1 DEF BalanceInv, CreateAccount, CloseAccount
  <2>2. ASSUME NEW a \in Account, NEW n \in Amount, NEW type \in EntryType,
               NEW t \in Transfer \cup {NoTransfer}, Enter(a, type, n, t),
               TakesMoney(type) => Covered(a, n)
        PROVE  BalanceInv'
    <3> DEFINE rows == ledger[a]
               row == NewRow(type, n, t)
    <3>1. n \in Nat
      BY LedgerAssumption
    <3>2. row \in Row /\ rows \in Seq(Row) /\ Summable(rows)
      BY <3>1, NewRowType DEF TypeOK, BalanceInv
    <3>3. /\ Summable(Append(rows, row))
          /\ ComputeBalance(rows) \in Int
          /\ ComputeBalance(Append(rows, row)) = ComputeBalance(rows) + row.amount
      BY <3>2, SumOfAppend
    <3>4. row.amount = IF TakesMoney(type) THEN -n ELSE n
      BY DEF NewRow
    <3>5. ComputeBalance(rows) >= 0
      BY DEF BalanceInv
    <3>6. TakesMoney(type) => ComputeBalance(rows) >= n
      <4>1. TakesMoney(type) => ~(ComputeBalance(rows) < n)
        BY <2>2 DEF Covered
      <4> HIDE DEF rows
      <4>2. QED
        BY <4>1, <3>1, <3>3
    <3>7. ComputeBalance(Append(rows, row)) >= 0
      <4> HIDE DEF rows, row
      <4>1. CASE TakesMoney(type)
        BY <4>1, <3>1, <3>3, <3>4, <3>6
      <4>2. CASE ~TakesMoney(type)
        BY <4>2, <3>1, <3>3, <3>4, <3>5
      <4>3. QED
        BY <4>1, <4>2
    <3>8. \A b \in Account : ledger'[b] = IF b = a THEN Append(rows, row) ELSE ledger[b]
      BY <2>2 DEF Enter, TypeOK
    <3>9. QED
      BY <3>3, <3>7, <3>8 DEF BalanceInv
  <2>3. CASE UNCHANGED vars
    BY <2>3 DEF vars, BalanceInv
  <2>4. QED
    BY <2>1, <2>2, <2>3, LedgerSteps
<1>3. BalanceInv => NonNegativeBalance
  BY DEF BalanceInv, NonNegativeBalance
<1>4. QED
  BY <1>1, <1>2, <1>3, LedgerTypeCorrect, PTL DEF Spec

\* No transfer is entered twice.
THEOREM LedgerAppliedOnce == Spec => []AppliedOnce
<1>1. Init => AppliedOnce
  BY DEF Init, AppliedOnce, AtMostOncePerTransfer
<1>2. TypeOK /\ AppliedOnce /\ [Next]_vars => AppliedOnce'
  <2> SUFFICES ASSUME TypeOK, AppliedOnce, [Next]_vars
               PROVE  AppliedOnce'
    OBVIOUS
  <2>1. ASSUME NEW a \in Account, CreateAccount(a) \/ CloseAccount(a)
        PROVE  AppliedOnce'
    BY <2>1 DEF AppliedOnce, CreateAccount, CloseAccount
  <2>2. ASSUME NEW a \in Account, NEW n \in Amount, NEW type \in EntryType,
               NEW t \in Transfer \cup {NoTransfer}, Enter(a, type, n, t),
               t \in Transfer => ~Existing(ledger[a], type, t)
        PROVE  AppliedOnce'
    <3> DEFINE rows == ledger[a]
               row == NewRow(type, n, t)
    <3>1. rows \in Seq(Row) /\ AtMostOncePerTransfer(rows)
      BY DEF TypeOK, AppliedOnce
    <3>2. row.type = type /\ row.ref = t
      BY DEF NewRow
    <3>3. row.ref = NoTransfer \/ ~Existing(rows, row.type, row.ref)
      BY <2>2, <3>2
    <3>4. AtMostOncePerTransfer(Append(rows, row))
      <4> HIDE DEF rows, row
      <4> DEFINE more == Append(rows, row)
      <4>1. SUFFICES ASSUME NEW i \in DOMAIN more, NEW j \in DOMAIN more,
                            more[i].ref # NoTransfer,
                            more[i].ref = more[j].ref,
                            more[i].type = more[j].type
                     PROVE  i = j
        BY DEF AtMostOncePerTransfer
      <4>2. /\ Len(rows) \in Nat
            /\ DOMAIN rows = 1 .. Len(rows)
            /\ DOMAIN more = 1 .. Len(rows) + 1
            /\ more[Len(rows) + 1] = row
            /\ \A k \in 1 .. Len(rows) : more[k] = rows[k]
        BY <3>1
      <4> HIDE DEF more
      <4>3. CASE i \in DOMAIN rows /\ j \in DOMAIN rows
        BY <4>1, <4>2, <4>3, <3>1 DEF AtMostOncePerTransfer
      <4>4. CASE i \in DOMAIN rows /\ j = Len(rows) + 1
        BY <4>1, <4>2, <4>4, <3>3 DEF Existing
      <4>5. CASE j \in DOMAIN rows /\ i = Len(rows) + 1
        BY <4>1, <4>2, <4>5, <3>3 DEF Existing
      <4>6. QED
        BY <4>2, <4>3, <4>4, <4>5
    <3>5. \A b \in Account : ledger'[b] = IF b = a THEN Append(rows, row) ELSE ledger[b]
      BY <2>2 DEF Enter, TypeOK
    <3>6. QED
      BY <3>4, <3>5 DEF AppliedOnce
  <2>3. CASE UNCHANGED vars
    BY <2>3 DEF vars, AppliedOnce
  <2>4. QED
    BY <2>1, <2>2, <2>3, LedgerSteps
<1>3. QED
  BY <1>1, <1>2, LedgerTypeCorrect, PTL DEF Spec

\* A closed account stays as it is.
THEOREM LedgerClosedIsFrozen == Spec => ClosedIsFrozen
<1> DEFINE Frozen == \A a \in Account : status[a] = "CLOSED" =>
                        status'[a] = "CLOSED" /\ ledger'[a] = ledger[a]
<1>1. TypeOK /\ [Next]_vars => [Frozen]_vars
  <2> SUFFICES ASSUME TypeOK, Next
               PROVE  Frozen
    OBVIOUS
  <2>1. ASSUME NEW a \in Account, CreateAccount(a) \/ CloseAccount(a)
        PROVE  Frozen
    BY <2>1 DEF TypeOK, CreateAccount, CloseAccount
  <2>2. ASSUME NEW a \in Account, NEW n, NEW type, NEW t, Enter(a, type, n, t)
        PROVE  Frozen
    BY <2>2 DEF TypeOK, Enter
  <2>3. QED
    BY <2>1, <2>2, LedgerSteps
<1>2. QED
  BY <1>1, LedgerTypeCorrect, PTL DEF Spec, ClosedIsFrozen
=============================================================================
