--------------------------- MODULE AccountsProofs ---------------------------
(***************************************************************************)
(* Proofs about Accounts, for any accounts, requests, calls and size of    *)
(* the connection pool, with and without database faults.                  *)
(*                                                                         *)
(* The argument is the one the row lock is there for.  What a request has  *)
(* found out about its account inside the lock (that it is active, that    *)
(* the transfer's row is missing, that the balance covers the amount)      *)
(* stays so until it commits, because every step of another request that   *)
(* could change it needs the lock.  RequestInv says so of one request;     *)
(* with it, each commit is a step of Ledger and the rest are stutters.     *)
(*                                                                         *)
(* And about AccountPage, for any pages.  What the service's invariant     *)
(* gives there is that an account once closed is closed for good and its   *)
(* rows are final (StaysClosed).  The page's own is what it read when,     *)
(* which is why the order of its two reads matters.                        *)
(***************************************************************************)
EXTENDS AccountPage, FiniteSetTheorems, TLAPS

LP == INSTANCE LedgerProofs

\* Inside the lock and past getActiveAccount.
Holding == {"existing", "funds", "commit"}

\* What a request in progress has established, by the statement it is at.
RequestInv(r) ==
    LET c == call[r]
        a == c.account
    IN  pc[r] \notin {"idle", "done"} =>
        /\ c \in Calls
        /\ c.op # "close" => c.amount > 0
        /\ pc[r] = "own" => c.op \notin TransferOp
        /\ pc[r] \in {"begin", "lock", "active"} => c.op # "close"
        /\ pc[r] \in {"close", "update"} => c.op = "close" /\ status[a] # "NONE"
        /\ pc[r] = "active" => lock[a] = r \/ status[a] = "NONE"
        /\ pc[r] \in Holding =>
              /\ c.op # "close"
              /\ lock[a] = r
              /\ status[a] = "ACTIVE"
              /\ c.op \in TransferOp => CurrencyOf[a] = c.currency
        /\ pc[r] = "existing" => c.op \in TransferOp
        /\ pc[r] = "funds" => c.op \in {"withdraw", "debit"}
        /\ pc[r] \in {"funds", "commit"} /\ c.op \in TransferOp =>
              ~Existing(ledger[a], EntryTypeOf[c.op], c.transfer)
        /\ pc[r] = "commit" /\ c.op \in {"withdraw", "debit"} =>
              ~(ComputeBalance(ledger[a]) < c.amount)

IInv == TypeOK /\ \A r \in Request : RequestInv(r)

\* A step of others that leaves request q's ground untouched: nothing at all
\* if q holds the row lock, and otherwise no creation of its account.
Spares(q) ==
    LET a == call[q].account IN
    /\ pc'[q] = pc[q]
    /\ call'[q] = call[q]
    /\ status[a] = "NONE" <=> status'[a] = "NONE"
    /\ lock[a] = q => /\ lock'[a] = q
                      /\ status'[a] = status[a]
                      /\ ledger'[a] = ledger[a]

LEMMA SparedKeepsInv ==
    ASSUME NEW q \in Request, RequestInv(q), pc'[q] = pc[q],
           pc[q] \notin {"idle", "done"} => Spares(q)
    PROVE  RequestInv(q)'
<1>1. CASE pc[q] \in {"idle", "done"}
  BY <1>1 DEF RequestInv
<1>2. CASE pc[q] \notin {"idle", "done"}
  BY <1>2 DEF RequestInv, Spares, Holding
<1>3. QED
  BY <1>1, <1>2

\* The fields of a call.
LEMMA CallFields ==
    ASSUME NEW c \in Calls
    PROVE  /\ c.op \in Op /\ c.user \in User /\ c.account \in Account
           /\ c.amount \in Nat /\ c.currency \in Currency
           /\ c.op \in TransferOp => c.transfer \in Transfer
BY AccountsAssumption, LedgerAssumption DEF Call

\* A request that ends its transaction, and one whose pc alone moves.
LEMMA EndKeepsInv ==
    ASSUME IInv, NEW r \in Request, NEW code \in Reply,
           Rollback(r, code) \/ Refuse(r, code)
    PROVE  IInv'
<1>1. TypeOK'
  BY DEF IInv, TypeOK, Rollback, Refuse, Answer, Goto, Unlock
<1>2. ASSUME NEW q \in Request, q # r
      PROVE  RequestInv(q)'
  <2>1. pc'[q] = pc[q] /\ call'[q] = call[q]
    BY <1>2 DEF IInv, TypeOK, Rollback, Refuse, Answer, Goto
  <2>2. UNCHANGED <<status, ledger>>
    BY DEF Rollback, Refuse
  <2>3. pc[q] \notin {"idle", "done"} => call[q].account \in Account
    BY CallFields DEF IInv, RequestInv
  <2>4. pc[q] \notin {"idle", "done"} /\ lock[call[q].account] = q
        => lock'[call[q].account] = q
    BY <1>2, <2>3 DEF Rollback, Refuse, Unlock
  <2>5. QED
    BY <2>1, <2>2, <2>4, SparedKeepsInv DEF IInv, Spares
<1>3. RequestInv(r)'
  BY DEF IInv, TypeOK, Rollback, Refuse, Answer, Goto, RequestInv
<1>4. QED
  BY <1>1, <1>2, <1>3 DEF IInv

LEMMA ContinueKeepsInv ==
    ASSUME IInv, NEW r \in Request,
           NEW label \in InTransaction \cup Waiting,
           Continue(r, label), RequestInv(r)'
    PROVE  IInv'
<1>1. TypeOK'
  BY DEF IInv, TypeOK, Continue, Goto
<1>2. ASSUME NEW q \in Request, q # r
      PROVE  RequestInv(q)'
  <2>1. pc'[q] = pc[q]
    BY <1>2 DEF IInv, TypeOK, Continue, Goto
  <2>2. Spares(q)
    BY <2>1 DEF Spares, Continue
  <2>3. QED
    BY <2>1, <2>2, SparedKeepsInv DEF IInv
<1>3. QED
  BY <1>1, <1>2 DEF IInv

LEMMA InitIInv == Init => IInv
BY DEF Init, IInv, TypeOK, RequestInv, NoCall, Reply

LEMMA CreateKeepsInv ==
    ASSUME IInv, NEW a \in Account, CreateAccount(a)
    PROVE  IInv'
<1>1. TypeOK'
  BY DEF IInv, TypeOK, CreateAccount
<1>2. ASSUME NEW q \in Request
      PROVE  RequestInv(q)'
  <2>1. pc[q] # "idle" => call[q].account # a
    BY DEF CreateAccount
  <2>2. pc[q] # "idle" => Spares(q)
    BY <2>1 DEF CreateAccount, Spares, IInv, TypeOK
  <2>3. QED
    BY <2>2, SparedKeepsInv DEF IInv, CreateAccount
<1>3. QED
  BY <1>1, <1>2 DEF IInv

LEMMA ReceiveKeepsInv ==
    ASSUME IInv, NEW r \in Request, NEW c \in Calls, Receive(r, c)
    PROVE  IInv'
<1>1. TypeOK'
  BY DEF IInv, TypeOK, Receive, Answer, Goto, Reply, Waiting
<1>2. ASSUME NEW q \in Request, q # r
      PROVE  RequestInv(q)'
  <2>1. pc'[q] = pc[q] /\ call'[q] = call[q] /\ UNCHANGED <<status, ledger, lock>>
    BY <1>2 DEF IInv, TypeOK, Receive, Answer, Goto
  <2>2. QED
    BY <2>1, SparedKeepsInv DEF IInv, Spares
<1>3. RequestInv(r)'
  <2>1. call'[r] = c
    BY DEF IInv, TypeOK, Receive
  <2>2. CASE c.op # "close" /\ c.amount <= 0
    <3>1. pc'[r] = "done"
      BY <2>2 DEF IInv, TypeOK, Receive, Answer, Goto
    <3>2. QED
      BY <3>1 DEF RequestInv
  <2>3. CASE ~(c.op # "close" /\ c.amount <= 0)
    <3>1. pc'[r] = IF c.op \in TransferOp THEN "begin" ELSE "own"
      BY <2>3 DEF IInv, TypeOK, Receive, Goto
    <3>2. c.op # "close" => c.amount > 0
      BY <2>3, CallFields
    <3>3. QED
      BY <2>1, <3>1, <3>2 DEF RequestInv, TransferOp, Holding
  <2>4. QED
    BY <2>2, <2>3
<1>4. QED
  BY <1>1, <1>2, <1>3 DEF IInv

\* Before the transaction: the owner's check, BEGIN and the UPDATE.
LEMMA PreludeKeepsInv ==
    ASSUME IInv, NEW r \in Request,
           GetOwnedAccount(r) \/ BeginTransaction(r) \/ BeginUpdate(r)
    PROVE  IInv'
<1>1. CASE GetOwnedAccount(r)
  <2>1. CASE Refuse(r, "NOT_FOUND") \/ Refuse(r, "FORBIDDEN")
    BY <2>1, EndKeepsInv DEF Reply
  <2> DEFINE label == IF call[r].op = "close" THEN "close" ELSE "begin"
  <2>2. CASE Continue(r, label) /\ status[call[r].account] # "NONE"
    <3>1. pc[r] = "own" /\ pc'[r] = label
      BY <1>1, <2>2 DEF GetOwnedAccount, Continue, Goto, IInv, TypeOK
    <3>2. RequestInv(r)'
      BY <2>2, <3>1 DEF IInv, RequestInv, Continue, Holding
    <3>3. QED
      BY <2>2, <3>2, ContinueKeepsInv DEF Waiting
  <2>3. QED
    BY <1>1, <2>1, <2>2 DEF GetOwnedAccount
<1>2. CASE BeginTransaction(r)
  <2>1. pc[r] = "begin" /\ pc'[r] = "lock"
    BY <1>2 DEF BeginTransaction, Continue, Goto, IInv, TypeOK
  <2>2. RequestInv(r)'
    BY <1>2, <2>1 DEF IInv, RequestInv, BeginTransaction, Continue, Holding
  <2>3. QED
    BY <1>2, <2>2, ContinueKeepsInv DEF BeginTransaction, InTransaction
<1>3. CASE BeginUpdate(r)
  <2>1. pc[r] = "close" /\ pc'[r] = "update"
    BY <1>3 DEF BeginUpdate, Continue, Goto, IInv, TypeOK
  <2>2. RequestInv(r)'
    BY <1>3, <2>1 DEF IInv, RequestInv, BeginUpdate, Continue, Holding
  <2>3. QED
    BY <1>3, <2>2, ContinueKeepsInv DEF BeginUpdate, InTransaction
<1>4. QED
  BY <1>1, <1>2, <1>3

\* The row lock is taken by one request and disturbs no other.
LEMMA LockKeepsInv ==
    ASSUME IInv, NEW r \in Request, LockAccount(r)
    PROVE  IInv'
<1> DEFINE a == call[r].account
<1>0. a \in Account /\ call[r].op # "close" /\ pc[r] = "lock" /\ call[r] \in Calls
  BY CallFields DEF LockAccount, IInv, RequestInv
<1>1. TypeOK'
  BY <1>0 DEF IInv, TypeOK, LockAccount, Goto, InTransaction
<1>2. ASSUME NEW q \in Request, q # r
      PROVE  RequestInv(q)'
  <2>1. pc'[q] = pc[q] /\ call'[q] = call[q] /\ UNCHANGED <<status, ledger>>
    BY <1>2 DEF IInv, TypeOK, LockAccount, Goto
  <2>2. \A b : lock[b] = q => lock'[b] = q
    BY <1>0, AccountsAssumption DEF LockAccount
  <2>3. QED
    BY <2>1, <2>2, SparedKeepsInv DEF IInv, Spares
<1>3. RequestInv(r)'
  <2>1. pc'[r] = "active" /\ call'[r] = call[r] /\ status' = status
    BY DEF IInv, TypeOK, LockAccount, Goto
  <2>2. status[a] # "NONE" => lock'[a] = r
    BY <1>0 DEF IInv, TypeOK, LockAccount
  <2>3. QED
    BY <1>0, <2>1, <2>2 DEF RequestInv, IInv, Holding
<1>4. QED
  BY <1>1, <1>2, <1>3 DEF IInv

\* Inside the lock: each check leaves what it found for the commit.
LEMMA CheckKeepsInv ==
    ASSUME IInv, NEW r \in Request,
           GetActiveAccount(r) \/ FindExisting(r) \/ CheckFunds(r)
    PROVE  IInv'
<1> DEFINE c == call[r]
           a == c.account
<1>1. CASE \E code \in Reply : Rollback(r, code)
  BY <1>1, EndKeepsInv
<1>2. ASSUME NEW label \in {"existing", "funds", "commit"}, Continue(r, label),
             pc[r] \in {"active"} \cup Holding, RequestInv(r)'
      PROVE  IInv'
  BY <1>2, ContinueKeepsInv DEF InTransaction
<1>3. ASSUME NEW label, Continue(r, label)
      PROVE  pc'[r] = label /\ UNCHANGED <<status, ledger, lock, call>>
  BY <1>3 DEF Continue, Goto, IInv, TypeOK
<1>4. CASE GetActiveAccount(r)
  <2>1. pc[r] = "active" /\ c \in Calls /\ c.op # "close" /\ c.op \in Op
    BY <1>4, CallFields DEF GetActiveAccount, IInv, RequestInv
  <2> DEFINE label == CASE c.op \in TransferOp -> "existing"
                        [] c.op = "withdraw"   -> "funds"
                        [] c.op = "deposit"    -> "commit"
  <2>2. CASE /\ status[a] = "ACTIVE"
             /\ c.op \in TransferOp => CurrencyOf[a] = c.currency
             /\ Continue(r, label)
    <3>1. \/ c.op \in TransferOp /\ label = "existing"
          \/ c.op = "withdraw" /\ c.op \notin TransferOp /\ label = "funds"
          \/ c.op = "deposit" /\ c.op \notin TransferOp /\ label = "commit"
      BY <2>1 DEF Op, TransferOp
    <3>2. pc'[r] = label /\ UNCHANGED <<status, ledger, lock, call>>
      BY <2>2, <1>3
    <3>3. RequestInv(r)'
      BY <2>1, <2>2, <3>1, <3>2 DEF IInv, RequestInv, Holding
    <3>4. QED
      BY <2>1, <2>2, <3>1, <3>3, <1>2
  <2>3. CASE \E code \in {"NOT_FOUND", "FORBIDDEN", "VALIDATION"} : Rollback(r, code)
    BY <2>3, <1>1 DEF Reply
  <2>4. QED
    BY <1>4, <2>2, <2>3 DEF GetActiveAccount
<1>5. CASE FindExisting(r)
  <2>1. pc[r] = "existing" /\ c \in Calls /\ c.op \in TransferOp
    BY <1>5 DEF FindExisting, IInv, RequestInv
  <2> DEFINE label == IF c.op = "debit" THEN "funds" ELSE "commit"
  <2>2. CASE /\ ~Existing(ledger[a], EntryTypeOf[c.op], c.transfer)
             /\ Continue(r, label)
    <3>1. pc'[r] = label /\ UNCHANGED <<status, ledger, lock, call>>
      BY <2>2, <1>3
    <3>2. RequestInv(r)'
      BY <2>1, <2>2, <3>1 DEF IInv, RequestInv, Holding, TransferOp
    <3>3. QED
      BY <2>1, <2>2, <3>2, <1>2 DEF Holding
  <2>3. CASE Rollback(r, "OK")
    BY <2>3, <1>1 DEF Reply
  <2>4. QED
    BY <1>5, <2>2, <2>3 DEF FindExisting
<1>6. CASE CheckFunds(r)
  <2>1. pc[r] = "funds" /\ c \in Calls
    BY <1>6 DEF CheckFunds, IInv, RequestInv
  <2>2. CASE /\ ~(ComputeBalance(ledger[a]) < c.amount)
             /\ Continue(r, "commit")
    <3>1. pc'[r] = "commit" /\ UNCHANGED <<status, ledger, lock, call>>
      BY <2>2, <1>3
    <3>2. RequestInv(r)'
      BY <2>1, <2>2, <3>1 DEF IInv, RequestInv, Holding
    <3>3. QED
      BY <2>1, <2>2, <3>2, <1>2 DEF Holding
  <2>3. CASE Rollback(r, "INSUFFICIENT_FUNDS")
    BY <2>3, <1>1 DEF Reply
  <2>4. QED
    BY <1>6, <2>2, <2>3 DEF CheckFunds
<1>7. QED
  BY <1>4, <1>5, <1>6

\* The row a request enters is one of the table's.
LEMMA CommittedRow ==
    ASSUME IInv, NEW r \in Request, Commit(r)
    PROVE  LET c == call[r]
               ref == IF c.op \in TransferOp THEN c.transfer ELSE NoTransfer
               row == NewRow(EntryTypeOf[c.op], c.amount, ref)
           IN  /\ c \in Calls /\ c.op \in Op \ {"close"} /\ c.account \in Account
               /\ c.amount \in Nat
               /\ row \in Row
               /\ ledger' = [ledger EXCEPT ![c.account] = Append(@, row)]
<1> DEFINE c == call[r]
           ref == IF c.op \in TransferOp THEN c.transfer ELSE NoTransfer
<1>1. c \in Calls /\ c.op # "close"
  BY DEF Commit, IInv, RequestInv, Holding
<1>2. c.op \in Op /\ c.account \in Account /\ c.amount \in Nat
  BY <1>1, CallFields
<1>3. ref \in Transfer \cup {NoTransfer}
  BY <1>1, CallFields
<1>4. EntryTypeOf[c.op] \in EntryType
  BY <1>1, <1>2 DEF Op, EntryTypeOf, EntryType
<1>5. NewRow(EntryTypeOf[c.op], c.amount, ref) \in Row
  BY <1>2, <1>3, <1>4 DEF NewRow, Row
<1>6. QED
  BY <1>1, <1>2, <1>5 DEF Commit

\* A commit adds to the ledger of an account no other request is inside.
LEMMA CommitKeepsInv ==
    ASSUME IInv, NEW r \in Request, Commit(r)
    PROVE  IInv'
<1> DEFINE c == call[r]
           a == c.account
<1>0. pc[r] = "commit" /\ a \in Account /\ lock[a] = r
  BY CommittedRow DEF Commit, IInv, RequestInv, Holding
<1>1. TypeOK'
  <2>1. ledger' \in [Account -> Seq(Row)]
    <3>1. PICK row \in Row : ledger' = [ledger EXCEPT ![a] = Append(@, row)]
      BY CommittedRow
    <3>2. ledger \in [Account -> Seq(Row)]
      BY DEF IInv, TypeOK
    <3>3. Append(ledger[a], row) \in Seq(Row)
      BY <1>0, <3>2
    <3>4. QED
      BY <1>0, <3>1, <3>2, <3>3
  <2>2. lock' \in [Account -> Request \cup {NoRequest}]
    BY DEF Commit, Unlock, IInv, TypeOK
  <2>3. /\ pc' \in [Request -> InTransaction \cup Waiting \cup {"idle", "done"}]
        /\ reply' \in [Request -> Reply]
    BY DEF Commit, Answer, Goto, IInv, TypeOK, Reply
  <2>4. UNCHANGED <<status, call>>
    BY DEF Commit
  <2>5. QED
    BY <2>1, <2>2, <2>3, <2>4 DEF IInv, TypeOK
<1>2. ASSUME NEW q \in Request, q # r
      PROVE  RequestInv(q)'
  <2>1. pc'[q] = pc[q] /\ call'[q] = call[q] /\ status' = status
    BY <1>2 DEF Commit, Answer, Goto, IInv, TypeOK
  <2>2. \A b \in Account : lock[b] = q => lock'[b] = q /\ ledger'[b] = ledger[b]
    <3> SUFFICES ASSUME NEW b \in Account, lock[b] = q
                 PROVE  lock'[b] = q /\ ledger'[b] = ledger[b]
      OBVIOUS
    <3>1. b # a
      BY <1>0, <1>2
    <3>2. QED
      BY <1>2, <3>1, CommittedRow DEF Commit, Unlock, IInv, TypeOK
  <2>3. pc[q] \notin {"idle", "done"} => call[q].account \in Account
    BY CallFields DEF IInv, RequestInv
  <2>4. pc[q] \notin {"idle", "done"} => Spares(q)
    BY <2>1, <2>2, <2>3 DEF Spares
  <2>5. QED
    BY <2>1, <2>4, SparedKeepsInv DEF IInv
<1>3. RequestInv(r)'
  BY DEF Commit, Answer, Goto, IInv, TypeOK, RequestInv
<1>4. QED
  BY <1>1, <1>2, <1>3 DEF IInv

\* Closing waits for the row lock, so no request is inside it.
LEMMA CloseKeepsInv ==
    ASSUME IInv, NEW r \in Request, CloseAccount(r)
    PROVE  IInv'
<1> DEFINE a == call[r].account
<1>0. a \in Account /\ lock[a] = NoRequest /\ status[a] # "NONE"
  BY CallFields DEF CloseAccount, IInv, RequestInv
<1>1. TypeOK'
  BY DEF IInv, TypeOK, CloseAccount, Answer, Goto, Reply
<1>2. ASSUME NEW q \in Request, q # r
      PROVE  RequestInv(q)'
  <2>1. pc'[q] = pc[q] /\ call'[q] = call[q] /\ UNCHANGED <<ledger, lock>>
    BY <1>2 DEF CloseAccount, Answer, Goto, IInv, TypeOK
  <2>2. \A b : lock[b] = q => b # a
    BY <1>0, AccountsAssumption
  <2>3. \A b \in Account : status'[b] = IF b = a THEN "CLOSED" ELSE status[b]
    BY DEF CloseAccount, IInv, TypeOK
  <2>4. pc[q] \notin {"idle", "done"} => call[q].account \in Account
    BY CallFields DEF IInv, RequestInv
  <2>5. pc[q] \notin {"idle", "done"} => Spares(q)
    BY <1>0, <2>1, <2>2, <2>3, <2>4 DEF Spares
  <2>6. QED
    BY <2>1, <2>5, SparedKeepsInv DEF IInv
<1>3. RequestInv(r)'
  BY DEF CloseAccount, Answer, Goto, IInv, TypeOK, RequestInv
<1>4. QED
  BY <1>1, <1>2, <1>3 DEF IInv

LEMMA StepKeepsInv == IInv /\ [Next]_vars => IInv'
<1> SUFFICES ASSUME IInv, [Next]_vars
             PROVE  IInv'
  OBVIOUS
<1>1. ASSUME NEW a \in Account, CreateAccount(a)
      PROVE  IInv'
  BY <1>1, CreateKeepsInv
<1>2. ASSUME NEW r \in Request, NEW c \in Calls, Receive(r, c)
      PROVE  IInv'
  BY <1>2, ReceiveKeepsInv
<1>3. ASSUME NEW r \in Request, Advance(r)
      PROVE  IInv'
  BY <1>3, PreludeKeepsInv, LockKeepsInv, CheckKeepsInv, CommitKeepsInv,
     CloseKeepsInv DEF Advance
<1>4. ASSUME NEW r \in Request, Abort(r)
      PROVE  IInv'
  BY <1>4, EndKeepsInv DEF Abort, Reply
<1>5. CASE UNCHANGED vars
  BY <1>5 DEF vars, IInv, TypeOK, RequestInv
<1>6. QED
  BY <1>1, <1>2, <1>3, <1>4, <1>5 DEF Next, Quiescent

\* What each request has established stays established.
THEOREM Invariance == Spec => []IInv
BY InitIInv, StepKeepsInv, PTL DEF Spec

\* Accounts keeps its types.
THEOREM AccountsTypeCorrect == Spec => []TypeOK
<1>1. IInv => TypeOK
  BY DEF IInv
<1>2. QED
  BY <1>1, Invariance, PTL
-----------------------------------------------------------------------------
(* The refinement.                                                         *)

\* A commit is the step of Ledger its operation stands for.
LEMMA CommitIsLedgerStep ==
    ASSUME IInv, NEW r \in Request, Commit(r)
    PROVE  L!Next
<1> DEFINE c == call[r]
           a == c.account
           n == c.amount
           t == c.transfer
           Entry(type, ref) == L!Enter(a, type, n, ref)
<1>1. /\ c \in Calls /\ c.op \in Op \ {"close"} /\ a \in Account
      /\ n \in Amount /\ c.currency \in Currency
      /\ c.op \in TransferOp => t \in Transfer
  BY CommittedRow, AccountsAssumption DEF Call
<1>2. /\ n > 0 /\ status[a] = "ACTIVE" /\ UNCHANGED status
      /\ c.op \in TransferOp =>
            /\ CurrencyOf[a] = c.currency
            /\ ~Existing(ledger[a], EntryTypeOf[c.op], t)
      /\ c.op \in {"withdraw", "debit"} => L!Covered(a, n)
  BY DEF Commit, IInv, RequestInv, Holding, L!Covered, L!ComputeBalance, ComputeBalance
<1>3. L!Enter(a, EntryTypeOf[c.op], n, IF c.op \in TransferOp THEN t ELSE NoTransfer)
  BY <1>2, CommittedRow DEF L!Enter, L!NewRow, NewRow, L!TakesMoney, TakesMoney
<1>4. CASE c.op = "deposit"
  <2>1. L!Deposit(a, n)
    BY <1>3, <1>4 DEF L!Deposit, EntryTypeOf, TransferOp
  <2>2. QED
    BY <1>1, <2>1 DEF L!Next
<1>5. CASE c.op = "withdraw"
  <2>1. L!Withdraw(a, n)
    BY <1>2, <1>3, <1>5 DEF L!Withdraw, EntryTypeOf, TransferOp
  <2>2. QED
    BY <1>1, <2>1 DEF L!Next
<1>6. CASE c.op \in TransferOp
  <2>1. L!EnterTransfer(a, EntryTypeOf[c.op], n, t, c.currency)
    BY <1>2, <1>3, <1>6 DEF L!EnterTransfer, L!Existing, Existing
  <2>2. \/ L!TransferDebit(a, t, n, c.currency)
        \/ L!TransferCredit(a, t, n, c.currency)
        \/ L!TransferReversal(a, t, n, c.currency)
    BY <1>2, <1>6, <2>1 DEF L!TransferDebit, L!TransferCredit, L!TransferReversal,
                            EntryTypeOf, TransferOp
  <2>3. QED
    BY <1>1, <1>6, <2>2 DEF L!Next
<1>7. QED
  BY <1>1, <1>4, <1>5, <1>6 DEF Op, TransferOp

\* Only three of the service's statements write an account's status or rows:
\* the INSERT of an account, the COMMIT of a row and the closing UPDATE.
LEMMA LedgerWriters ==
    ASSUME [Next]_vars
    PROVE  \/ UNCHANGED <<status, ledger>>
           \/ \E a \in Account : CreateAccount(a)
           \/ \E r \in Request : Commit(r) \/ CloseAccount(r)
<1>1. ASSUME NEW r \in Request,
             \/ \E c \in Calls : Receive(r, c)
             \/ GetOwnedAccount(r) \/ BeginTransaction(r) \/ LockAccount(r)
             \/ GetActiveAccount(r) \/ FindExisting(r) \/ CheckFunds(r)
             \/ BeginUpdate(r) \/ Abort(r)
      PROVE  UNCHANGED <<status, ledger>>
  BY <1>1 DEF Receive, GetOwnedAccount, BeginTransaction, LockAccount,
              GetActiveAccount, FindExisting, CheckFunds, BeginUpdate, Abort,
              Rollback, Refuse, Continue
<1>2. vars' = vars => UNCHANGED <<status, ledger>>
  BY DEF vars
<1>3. QED
  BY <1>1, <1>2 DEF Next, Advance, Quiescent

LEMMA CloseIsLedgerStep ==
    ASSUME IInv, NEW r \in Request, CloseAccount(r)
    PROVE  L!Next
<1> DEFINE a == call[r].account
<1>1. a \in Account /\ status[a] # "NONE"
  BY CallFields DEF CloseAccount, IInv, RequestInv
<1>2. L!CloseAccount(a)
  BY <1>1 DEF CloseAccount, L!CloseAccount
<1>3. QED
  BY <1>1, <1>2 DEF L!Next

LEMMA StepIsLedgerStep == IInv /\ [Next]_vars => [L!Next]_(L!vars)
<1> SUFFICES ASSUME IInv, [Next]_vars, ~UNCHANGED <<status, ledger>>
             PROVE  L!Next
  BY DEF L!vars
<1>1. ASSUME NEW a \in Account, CreateAccount(a)
      PROVE  L!Next
  BY <1>1 DEF CreateAccount, L!CreateAccount, L!Next
<1>2. QED
  BY <1>1, LedgerWriters, CommitIsLedgerStep, CloseIsLedgerStep

\* The service implements the atomic ledger.
THEOREM Refinement == Spec => LedgerSpec
<1>1. Init => L!Init
  BY DEF Init, L!Init
<1>2. QED
  BY <1>1, StepIsLedgerStep, Invariance, PTL DEF Spec, LedgerSpec, L!Spec

-----------------------------------------------------------------------------
(* What is proved of the atomic ledger therefore holds of the service.     *)

LEMMA LedgerConstants == LP!LedgerAssumption
BY LedgerAssumption DEF LP!LedgerAssumption

\* Accounts and the proofs name the same ledger by two instances.
LEMMA SameLedger == LedgerSpec => LP!Spec
<1>1. L!Init => LP!Init
  BY DEF L!Init, LP!Init
<1>2. L!Next => LP!Next
  BY DEF L!Next, L!CreateAccount, L!CloseAccount, L!Deposit, L!Withdraw,
         L!TransferDebit, L!TransferCredit, L!TransferReversal, L!EnterTransfer,
         L!Enter, L!Covered, L!NewRow, L!TakesMoney, L!Existing, L!ComputeBalance,
         LP!Next, LP!CreateAccount, LP!CloseAccount, LP!Deposit, LP!Withdraw,
         LP!TransferDebit, LP!TransferCredit, LP!TransferReversal,
         LP!EnterTransfer, LP!Enter, LP!Covered, LP!NewRow, LP!TakesMoney,
         LP!Existing, LP!ComputeBalance
<1>3. [L!Next]_(L!vars) => [LP!Next]_(LP!vars)
  BY <1>2 DEF L!vars, LP!vars
<1>4. QED
  BY <1>1, <1>3, PTL DEF LedgerSpec, L!Spec, LP!Spec

\* Whatever requests race, abort or are cut off, no account is overdrawn.
THEOREM AccountsNonNegative == Spec => []NonNegativeBalance
<1>1. LP!Spec => []LP!NonNegativeBalance
  BY LedgerConstants, LP!LedgerNonNegative, PTL
<1>2. LP!NonNegativeBalance => NonNegativeBalance
  BY DEF LP!NonNegativeBalance, NonNegativeBalance, L!NonNegativeBalance,
         LP!ComputeBalance, L!ComputeBalance
<1>3. QED
  BY <1>1, <1>2, Refinement, SameLedger, PTL

\* However often a transfer's step is asked for, and by however many
\* requests at a time, it is entered once.
THEOREM AccountsAppliedOnce == Spec => []AppliedOnce
<1>1. LP!Spec => []LP!AppliedOnce
  BY LedgerConstants, LP!LedgerAppliedOnce, PTL
<1>2. LP!AppliedOnce => AppliedOnce
  BY DEF LP!AppliedOnce, AppliedOnce, L!AppliedOnce, LP!AtMostOncePerTransfer,
         L!AtMostOncePerTransfer
<1>3. QED
  BY <1>1, <1>2, Refinement, SameLedger, PTL

\* Nothing reaches a closed account, although the check that an account is
\* active reads it outside the transaction that holds its lock.
THEOREM AccountsClosedIsFrozen == Spec => ClosedIsFrozen
<1>1. LP!Spec => LP!ClosedIsFrozen
  BY LedgerConstants, LP!LedgerClosedIsFrozen, PTL
<1>2. LP!ClosedIsFrozen => ClosedIsFrozen
  BY PTL DEF LP!ClosedIsFrozen, ClosedIsFrozen, L!ClosedIsFrozen, LP!vars, L!vars
<1>3. QED
  BY <1>1, <1>2, Refinement, SameLedger, PTL
-----------------------------------------------------------------------------
(***************************************************************************)
(* Answers and rows.                                                       *)
(***************************************************************************)
Said(a, op, code) ==
    {r \in Request : reply[r] = code /\ call[r].op = op /\ call[r].account = a}

Entries(a, type) == {i \in DOMAIN ledger[a] : ledger[a][i].type = type}

AnsweredRequests == {r \in Request : pc[r] = "done"}

\* OkMeansEntered of one account, for a transfer's step and for an operation
\* of the owner's.
StepTold(a) ==
    \A op \in TransferOp : \A r \in Said(a, op, "OK") :
        Existing(ledger[a], EntryTypeOf[op], call[r].transfer)

OwnTold(a, op) ==
    LET n == Cardinality(Entries(a, EntryTypeOf[op])) IN
    /\ Cardinality(Said(a, op, "OK")) <= n
    /\ n <= Cardinality(Said(a, op, "OK")) + Cardinality(Said(a, op, "ERROR"))

Told(a) == StepTold(a) /\ \A op \in {"deposit", "withdraw"} : OwnTold(a, op)

\* Only requests that were received are answered, each at its end, so there
\* are finitely many answers however many requests may come.
AnswersInv ==
    /\ \A r \in Request : pc[r] # "done" => reply[r] = "NONE"
    /\ IsFiniteSet(AnsweredRequests)
    /\ \A a \in Account : Told(a)

\* Request r is answered code; the others' answers and calls stay.
AnswerOf(r, code) ==
    /\ pc[r] # "done"
    /\ pc' = [pc EXCEPT ![r] = "done"]
    /\ reply' = [reply EXCEPT ![r] = code]
    /\ \A q \in Request \ {r} : call'[q] = call[q]

\* An answer other than a commit's: OK only to a closing, and to a transfer's
\* step whose row is there.
AnswerWithoutRow(r, code) ==
    /\ AnswerOf(r, code)
    /\ ledger' = ledger
    /\ code = "OK" =>
          \/ call'[r].op = "close"
          \/ /\ call'[r].op \in TransferOp
             /\ Existing(ledger[call'[r].account], EntryTypeOf[call'[r].op],
                         call'[r].transfer)

\* A step that answers nobody.
NoAnswer ==
    /\ UNCHANGED <<ledger, reply>>
    /\ \A q \in Request : pc'[q] = "done" <=> pc[q] = "done"
    /\ \A q \in Request : pc[q] = "done" => call'[q] = call[q]

LEMMA EndAnswers ==
    ASSUME IInv, NEW r \in Request, NEW code \in Reply \ {"NONE", "OK"},
           pc[r] # "done", Rollback(r, code) \/ Refuse(r, code)
    PROVE  AnswerWithoutRow(r, code)
BY DEF IInv, TypeOK, Rollback, Refuse, Answer, Goto, AnswerWithoutRow, AnswerOf

LEMMA ContinueAnswersNobody ==
    ASSUME IInv, NEW r \in Request, NEW label \in InTransaction \cup Waiting,
           pc[r] # "done", Continue(r, label)
    PROVE  NoAnswer
BY DEF IInv, TypeOK, Continue, Goto, NoAnswer, InTransaction, Waiting

\* Every step answers nobody, answers one request, or commits.
LEMMA StepAnswers ==
    ASSUME IInv, [Next]_vars
    PROVE  \/ NoAnswer
           \/ \E r \in Request, code \in Reply : AnswerWithoutRow(r, code)
           \/ \E r \in Request : Commit(r)
<1>1. CASE UNCHANGED vars
  BY <1>1 DEF vars, NoAnswer
<1>2. ASSUME NEW a \in Account, CreateAccount(a)
      PROVE  NoAnswer
  BY <1>2 DEF CreateAccount, NoAnswer
<1>3. ASSUME NEW r \in Request, NEW c \in Calls, Receive(r, c)
      PROVE  NoAnswer \/ \E code \in Reply : AnswerWithoutRow(r, code)
  <2>1. pc[r] = "idle" /\ ledger' = ledger
        /\ \A q \in Request \ {r} : call'[q] = call[q]
    BY <1>3 DEF Receive, IInv, TypeOK
  <2>2. CASE Answer(r, "VALIDATION")
    BY <2>1, <2>2 DEF Answer, Goto, AnswerWithoutRow, AnswerOf, IInv, TypeOK, Reply
  <2>3. CASE ~Answer(r, "VALIDATION")
    <3>1. /\ Goto(r, IF c.op \in TransferOp THEN "begin" ELSE "own")
          /\ UNCHANGED reply
      BY <1>3, <2>3 DEF Receive
    <3>2. QED
      BY <2>1, <3>1 DEF Goto, NoAnswer, IInv, TypeOK
  <2>4. QED
    BY <2>2, <2>3
<1>4. ASSUME NEW r \in Request, GetOwnedAccount(r)
      PROVE  NoAnswer \/ \E code \in Reply : AnswerWithoutRow(r, code)
  <2>1. pc[r] = "own"
    BY <1>4 DEF GetOwnedAccount
  <2>2. CASE Refuse(r, "NOT_FOUND") \/ Refuse(r, "FORBIDDEN")
    BY <2>1, <2>2, EndAnswers DEF Reply
  <2>3. CASE Continue(r, IF call[r].op = "close" THEN "close" ELSE "begin")
    BY <2>1, <2>3, ContinueAnswersNobody DEF Waiting
  <2>4. QED
    BY <1>4, <2>2, <2>3 DEF GetOwnedAccount
<1>5. ASSUME NEW r \in Request, BeginTransaction(r) \/ BeginUpdate(r)
      PROVE  NoAnswer
  BY <1>5, ContinueAnswersNobody
     DEF BeginTransaction, BeginUpdate, InTransaction, Waiting
<1>6. ASSUME NEW r \in Request, LockAccount(r)
      PROVE  NoAnswer
  BY <1>6 DEF LockAccount, Goto, NoAnswer, IInv, TypeOK
<1>7. ASSUME NEW r \in Request, GetActiveAccount(r)
      PROVE  NoAnswer \/ \E code \in Reply : AnswerWithoutRow(r, code)
  <2>1. pc[r] = "active" /\ call[r].op \in Op \ {"close"}
    BY <1>7, CallFields DEF GetActiveAccount, IInv, RequestInv
  <2>2. CASE \E code \in {"NOT_FOUND", "FORBIDDEN", "VALIDATION"} : Rollback(r, code)
    BY <2>1, <2>2, EndAnswers DEF Reply
  <2> DEFINE label == CASE call[r].op \in TransferOp -> "existing"
                        [] call[r].op = "withdraw"   -> "funds"
                        [] call[r].op = "deposit"    -> "commit"
  <2>3. CASE Continue(r, label)
    <3>1. label \in {"existing", "funds", "commit"}
      BY <2>1 DEF Op, TransferOp
    <3>2. QED
      BY <2>1, <2>3, <3>1, ContinueAnswersNobody DEF InTransaction
  <2>4. QED
    BY <1>7, <2>2, <2>3 DEF GetActiveAccount
<1>8. ASSUME NEW r \in Request, FindExisting(r)
      PROVE  NoAnswer \/ \E code \in Reply : AnswerWithoutRow(r, code)
  <2>1. pc[r] = "existing" /\ call[r].op \in TransferOp
    BY <1>8 DEF FindExisting, IInv, RequestInv
  <2>2. CASE /\ Existing(ledger[call[r].account], EntryTypeOf[call[r].op],
                         call[r].transfer)
             /\ Rollback(r, "OK")
    BY <2>1, <2>2 DEF Rollback, Answer, Goto, AnswerWithoutRow, AnswerOf,
       IInv, TypeOK, Reply
  <2>3. CASE Continue(r, IF call[r].op = "debit" THEN "funds" ELSE "commit")
    BY <2>1, <2>3, ContinueAnswersNobody DEF InTransaction
  <2>4. QED
    BY <1>8, <2>2, <2>3 DEF FindExisting
<1>9. ASSUME NEW r \in Request, CheckFunds(r)
      PROVE  NoAnswer \/ \E code \in Reply : AnswerWithoutRow(r, code)
  <2>1. pc[r] = "funds"
    BY <1>9 DEF CheckFunds
  <2>2. Rollback(r, "INSUFFICIENT_FUNDS") \/ Continue(r, "commit")
    BY <1>9 DEF CheckFunds
  <2>3. QED
    BY <2>1, <2>2, EndAnswers, ContinueAnswersNobody DEF InTransaction, Reply
<1>10. ASSUME NEW r \in Request, CloseAccount(r)
       PROVE  \E code \in Reply : AnswerWithoutRow(r, code)
  <2>1. pc[r] = "update" /\ call[r].op = "close"
    BY <1>10 DEF CloseAccount, IInv, RequestInv
  <2>2. QED
    BY <1>10, <2>1 DEF CloseAccount, Answer, Goto, AnswerWithoutRow, AnswerOf,
       IInv, TypeOK, Reply
<1>11. ASSUME NEW r \in Request, Abort(r)
       PROVE  \E code \in Reply : AnswerWithoutRow(r, code)
  BY <1>11, EndAnswers DEF Abort, InTransaction, Waiting, Reply
<1>12. QED
  BY <1>1, <1>2, <1>3, <1>4, <1>5, <1>6, <1>7, <1>8, <1>9, <1>10, <1>11
     DEF Next, Advance, Quiescent

\* Who was answered code: one more, if the answer was that and to such a call.
LEMMA SaidStep ==
    ASSUME AnswersInv, IInv, NEW r \in Request, NEW code \in Reply, AnswerOf(r, code),
           NEW a, NEW op, NEW k \in Reply \ {"NONE"}
    PROVE  Said(a, op, k)' =
              IF code = k /\ call'[r].op = op /\ call'[r].account = a
              THEN Said(a, op, k) \cup {r} ELSE Said(a, op, k)
<1>1. r \notin Said(a, op, k)
  BY DEF AnswersInv, AnswerOf, Said
<1>2. \A q \in Request \ {r} : reply'[q] = reply[q] /\ call'[q] = call[q]
  BY DEF AnswerOf, IInv, TypeOK
<1>3. reply'[r] = code
  BY DEF AnswerOf, IInv, TypeOK
<1>4. QED
  BY <1>1, <1>2, <1>3 DEF Said

LEMMA SaidSame ==
    ASSUME AnswersInv, IInv, NoAnswer, NEW a, NEW op, NEW k \in Reply \ {"NONE"}
    PROVE  Said(a, op, k)' = Said(a, op, k)
BY DEF NoAnswer, AnswersInv, IInv, TypeOK, Said

LEMMA SaidFinite ==
    ASSUME AnswersInv, NEW a, NEW op, NEW k \in Reply \ {"NONE"}
    PROVE  /\ IsFiniteSet(Said(a, op, k))
           /\ Cardinality(Said(a, op, k)) \in Nat
<1>1. Said(a, op, k) \subseteq AnsweredRequests
  BY DEF Said, AnsweredRequests, AnswersInv
<1>2. IsFiniteSet(AnsweredRequests)
  BY DEF AnswersInv
<1>3. QED
  BY <1>1, <1>2, FS_Subset, FS_CardinalityType

LEMMA EntriesFinite ==
    ASSUME IInv, NEW a \in Account, NEW type
    PROVE  /\ IsFiniteSet(Entries(a, type))
           /\ Cardinality(Entries(a, type)) \in Nat
<1>1. ledger[a] \in Seq(Row)
  BY DEF IInv, TypeOK
<1>2. Entries(a, type) \subseteq 1 .. Len(ledger[a])
  BY <1>1 DEF Entries
<1>3. IsFiniteSet(1 .. Len(ledger[a]))
  BY <1>1, FS_Interval
<1>4. QED
  BY <1>2, <1>3, FS_Subset, FS_CardinalityType

LEMMA AnsweredStep ==
    ASSUME AnswersInv, IInv, NEW r \in Request, NEW code \in Reply, AnswerOf(r, code)
    PROVE  /\ \A q \in Request : pc'[q] # "done" => reply'[q] = "NONE"
           /\ IsFiniteSet(AnsweredRequests')
<1>1. \A q \in Request \ {r} : pc'[q] = pc[q] /\ reply'[q] = reply[q]
  BY DEF AnswerOf, IInv, TypeOK
<1>2. pc'[r] = "done"
  BY DEF AnswerOf, IInv, TypeOK
<1>3. AnsweredRequests' = AnsweredRequests \cup {r}
  BY <1>1, <1>2 DEF AnsweredRequests
<1>4. IsFiniteSet(AnsweredRequests)
  BY DEF AnswersInv
<1>5. QED
  BY <1>1, <1>2, <1>3, <1>4, FS_AddElement DEF AnswersInv

LEMMA NoAnswerKeepsAnswers ==
    ASSUME AnswersInv, IInv, NoAnswer
    PROVE  AnswersInv'
<1>1. \A q \in Request : pc'[q] # "done" => reply'[q] = "NONE"
  BY DEF NoAnswer, AnswersInv
<1>2. AnsweredRequests' = AnsweredRequests
  BY DEF NoAnswer, AnsweredRequests
<1>3. ASSUME NEW a \in Account
      PROVE  Told(a)'
  <2>1. \A op, k : k \in Reply \ {"NONE"} => Said(a, op, k)' = Said(a, op, k)
    BY SaidSame
  <2>2. ledger' = ledger
    BY DEF NoAnswer
  <2>3. StepTold(a)'
    <3> SUFFICES ASSUME NEW op \in TransferOp, NEW q \in Said(a, op, "OK")'
                 PROVE  Existing(ledger'[a], EntryTypeOf[op], call'[q].transfer)
      BY DEF StepTold
    <3>1. q \in Said(a, op, "OK")
      BY <2>1 DEF Reply
    <3>2. Existing(ledger[a], EntryTypeOf[op], call[q].transfer)
      BY <3>1 DEF AnswersInv, Told, StepTold
    <3>3. call'[q] = call[q]
      BY <3>1 DEF NoAnswer, AnswersInv, Said
    <3>4. QED
      BY <2>2, <3>2, <3>3
  <2>4. ASSUME NEW op \in {"deposit", "withdraw"}
        PROVE  OwnTold(a, op)'
    <3>1. OwnTold(a, op)
      BY DEF AnswersInv, Told
    <3>2. Entries(a, EntryTypeOf[op])' = Entries(a, EntryTypeOf[op])
      BY <2>2 DEF Entries
    <3>3. Said(a, op, "OK")' = Said(a, op, "OK")
          /\ Said(a, op, "ERROR")' = Said(a, op, "ERROR")
      BY <2>1 DEF Reply
    <3>4. QED
      BY <3>1, <3>2, <3>3 DEF OwnTold
  <2>5. QED
    BY <2>3, <2>4 DEF Told
<1>4. QED
  BY <1>1, <1>2, <1>3 DEF AnswersInv

LEMMA AnswerKeepsAnswers ==
    ASSUME AnswersInv, IInv, NEW r \in Request, NEW code \in Reply,
           AnswerWithoutRow(r, code)
    PROVE  AnswersInv'
<1>0. AnswerOf(r, code) /\ ledger' = ledger
  BY DEF AnswerWithoutRow
<1>1. ASSUME NEW a \in Account
      PROVE  Told(a)'
  <2>1. ASSUME NEW op, NEW k \in Reply \ {"NONE"}
        PROVE  Said(a, op, k)' =
                  IF code = k /\ call'[r].op = op /\ call'[r].account = a
                  THEN Said(a, op, k) \cup {r} ELSE Said(a, op, k)
    BY <1>0, SaidStep
  <2>2. StepTold(a)'
    <3> SUFFICES ASSUME NEW op \in TransferOp, NEW q \in Said(a, op, "OK")'
                 PROVE  Existing(ledger'[a], EntryTypeOf[op], call'[q].transfer)
      BY DEF StepTold
    <3>1. CASE q \in Said(a, op, "OK")
      <4>1. Existing(ledger[a], EntryTypeOf[op], call[q].transfer)
        BY <3>1 DEF AnswersInv, Told, StepTold
      <4>2. q \in Request /\ q # r
        BY <1>0, <3>1 DEF AnswersInv, AnswerOf, Said
      <4>3. QED
        BY <1>0, <4>1, <4>2 DEF AnswerOf
    <3>2. CASE q \notin Said(a, op, "OK")
      <4>1. q = r /\ code = "OK" /\ call'[r].op = op /\ call'[r].account = a
        BY <2>1, <3>2 DEF Reply
      <4>2. Existing(ledger[a], EntryTypeOf[op], call'[r].transfer)
        BY <4>1 DEF AnswerWithoutRow, TransferOp
      <4>3. QED
        BY <1>0, <4>1, <4>2
    <3>3. QED
      BY <3>1, <3>2
  <2>3. ASSUME NEW op \in {"deposit", "withdraw"}
        PROVE  OwnTold(a, op)'
    <3>1. OwnTold(a, op)
      BY DEF AnswersInv, Told
    <3>2. Entries(a, EntryTypeOf[op])' = Entries(a, EntryTypeOf[op])
      BY <1>0 DEF Entries
    <3>3. Said(a, op, "OK")' = Said(a, op, "OK")
      BY <2>1 DEF AnswerWithoutRow, TransferOp, Reply
    <3>4. \/ Said(a, op, "ERROR")' = Said(a, op, "ERROR")
          \/ Said(a, op, "ERROR")' = Said(a, op, "ERROR") \cup {r}
      BY <2>1 DEF Reply
    <3>5. /\ Cardinality(Said(a, op, "OK")) \in Nat
          /\ IsFiniteSet(Said(a, op, "ERROR"))
          /\ Cardinality(Said(a, op, "ERROR")) \in Nat
          /\ Cardinality(Entries(a, EntryTypeOf[op])) \in Nat
      BY SaidFinite, EntriesFinite DEF Reply
    <3>6. Cardinality(Said(a, op, "ERROR")') \in
            {Cardinality(Said(a, op, "ERROR")), Cardinality(Said(a, op, "ERROR")) + 1}
      BY <3>4, <3>5, FS_AddElement
    <3>7. QED
      BY <3>1, <3>2, <3>3, <3>5, <3>6 DEF OwnTold
  <2>4. QED
    BY <2>2, <2>3 DEF Told
<1>2. QED
  BY <1>0, <1>1, AnsweredStep DEF AnswersInv

\* A row added is seen among the rows of its own type, and only there.
LEMMA EntriesGrow ==
    ASSUME NEW rows \in Seq(Row), NEW row \in Row, NEW type
    PROVE  LET of(s) == {i \in DOMAIN s : s[i].type = type} IN
           of(Append(rows, row)) =
              IF row.type = type THEN of(rows) \cup {Len(rows) + 1} ELSE of(rows)
<1> DEFINE more == Append(rows, row)
<1>1. /\ DOMAIN more = DOMAIN rows \cup {Len(rows) + 1}
      /\ Len(rows) + 1 \notin DOMAIN rows
      /\ more[Len(rows) + 1] = row
      /\ \A i \in DOMAIN rows : more[i] = rows[i]
  OBVIOUS
<1>2. QED
  BY <1>1

LEMMA ExistingGrows ==
    ASSUME NEW rows \in Seq(Row), NEW row \in Row, NEW type, NEW t,
           Existing(rows, type, t) \/ (row.type = type /\ row.ref = t)
    PROVE  Existing(Append(rows, row), type, t)
<1> DEFINE more == Append(rows, row)
<1>1. /\ DOMAIN more = DOMAIN rows \cup {Len(rows) + 1}
      /\ more[Len(rows) + 1] = row
      /\ \A i \in DOMAIN rows : more[i] = rows[i]
  OBVIOUS
<1>2. QED
  BY <1>1 DEF Existing

LEMMA CommitKeepsAnswers ==
    ASSUME AnswersInv, IInv, NEW r \in Request, Commit(r)
    PROVE  AnswersInv'
<1> DEFINE c == call[r]
           ref == IF c.op \in TransferOp THEN c.transfer ELSE NoTransfer
           row == NewRow(EntryTypeOf[c.op], c.amount, ref)
<1>1. /\ c.op \in Op \ {"close"} /\ c.account \in Account /\ row \in Row
      /\ ledger' = [ledger EXCEPT ![c.account] = Append(@, row)]
  BY CommittedRow
<1>2. row.type = EntryTypeOf[c.op] /\ row.ref = ref
  BY DEF NewRow
<1> HIDE DEF row
<1>3. PICK code \in {"OK", "ERROR"} : AnswerOf(r, code)
  BY DEF Commit, Answer, Goto, AnswerOf
<1>4. call' = call /\ code \in Reply
  BY DEF Commit, Reply
<1>5. ASSUME NEW a \in Account
      PROVE  Told(a)'
  <2>1. ASSUME NEW op, NEW k \in Reply \ {"NONE"}
        PROVE  Said(a, op, k)' =
                  IF code = k /\ c.op = op /\ c.account = a
                  THEN Said(a, op, k) \cup {r} ELSE Said(a, op, k)
    BY <1>3, <1>4, SaidStep
  <2>2. ledger[a] \in Seq(Row)
    BY DEF IInv, TypeOK
  <2>3. ledger'[a] = IF a = c.account THEN Append(ledger[a], row) ELSE ledger[a]
    BY <1>1 DEF IInv, TypeOK
  <2>4. StepTold(a)'
    <3> SUFFICES ASSUME NEW op \in TransferOp, NEW q \in Said(a, op, "OK")'
                 PROVE  Existing(ledger'[a], EntryTypeOf[op], call'[q].transfer)
      BY DEF StepTold
    <3>1. CASE q \in Said(a, op, "OK")
      <4>1. Existing(ledger[a], EntryTypeOf[op], call[q].transfer)
        BY <3>1 DEF AnswersInv, Told, StepTold
      <4>2. QED
        BY <1>1, <1>4, <2>2, <2>3, <4>1, ExistingGrows
    <3>2. CASE q \notin Said(a, op, "OK")
      <4>1. q = r /\ c.op = op /\ c.account = a
        BY <2>1, <3>2 DEF Reply
      <4>2. ref = call[q].transfer
        BY <4>1
      <4>3. QED
        BY <1>1, <1>2, <1>4, <2>2, <2>3, <4>1, <4>2, ExistingGrows
    <3>3. QED
      BY <3>1, <3>2
  <2>5. ASSUME NEW op \in {"deposit", "withdraw"}
        PROVE  OwnTold(a, op)'
    <3> DEFINE type == EntryTypeOf[op]
    <3>1. OwnTold(a, op)
      BY DEF AnswersInv, Told
    <3>2. /\ IsFiniteSet(Said(a, op, "OK")) /\ IsFiniteSet(Said(a, op, "ERROR"))
          /\ Cardinality(Said(a, op, "OK")) \in Nat
          /\ Cardinality(Said(a, op, "ERROR")) \in Nat
          /\ IsFiniteSet(Entries(a, type)) /\ Cardinality(Entries(a, type)) \in Nat
      BY SaidFinite, EntriesFinite DEF Reply
    <3>3. row.type = type <=> c.op = op
      BY <1>1, <1>2 DEF Op, EntryTypeOf
    <3>4. CASE c.op = op /\ c.account = a
      <4>1. /\ Entries(a, type)' = Entries(a, type) \cup {Len(ledger[a]) + 1}
            /\ Len(ledger[a]) + 1 \notin Entries(a, type)
        <5>1. \A i \in DOMAIN ledger[a] : i \in 1 .. Len(ledger[a])
          BY <2>2
        <5>2. Len(ledger[a]) + 1 \notin DOMAIN ledger[a]
          BY <2>2, <5>1
        <5>3. QED
          BY <1>1, <2>2, <2>3, <3>3, <3>4, <5>2, EntriesGrow DEF Entries
      <4>2. Cardinality(Entries(a, type)') = Cardinality(Entries(a, type)) + 1
        BY <3>2, <4>1, FS_AddElement
      <4>3. r \notin Said(a, op, "OK") /\ r \notin Said(a, op, "ERROR")
        BY <1>3 DEF AnswersInv, AnswerOf, Said
      <4>4. CASE code = "OK"
        <5>1. /\ Said(a, op, "OK")' = Said(a, op, "OK") \cup {r}
              /\ Said(a, op, "ERROR")' = Said(a, op, "ERROR")
          BY <2>1, <3>4, <4>4 DEF Reply
        <5>2. Cardinality(Said(a, op, "OK")') = Cardinality(Said(a, op, "OK")) + 1
          BY <3>2, <4>3, <5>1, FS_AddElement
        <5>3. QED
          BY <3>1, <3>2, <4>2, <5>1, <5>2 DEF OwnTold
      <4>5. CASE code = "ERROR"
        <5>1. /\ Said(a, op, "OK")' = Said(a, op, "OK")
              /\ Said(a, op, "ERROR")' = Said(a, op, "ERROR") \cup {r}
          BY <2>1, <3>4, <4>5 DEF Reply
        <5>2. Cardinality(Said(a, op, "ERROR")')
                = Cardinality(Said(a, op, "ERROR")) + 1
          BY <3>2, <4>3, <5>1, FS_AddElement
        <5>3. QED
          BY <3>1, <3>2, <4>2, <5>1, <5>2 DEF OwnTold
      <4>6. QED
        BY <1>3, <4>4, <4>5
    <3>5. CASE ~(c.op = op /\ c.account = a)
      <4>1. Entries(a, type)' = Entries(a, type)
        BY <1>1, <2>2, <2>3, <3>3, <3>5, EntriesGrow DEF Entries
      <4>2. /\ Said(a, op, "OK")' = Said(a, op, "OK")
            /\ Said(a, op, "ERROR")' = Said(a, op, "ERROR")
        BY <2>1, <3>5 DEF Reply
      <4>3. QED
        BY <3>1, <4>1, <4>2 DEF OwnTold
    <3>6. QED
      BY <3>4, <3>5
  <2>6. QED
    BY <2>4, <2>5 DEF Told
<1>6. QED
  BY <1>3, <1>4, <1>5, AnsweredStep DEF AnswersInv

LEMMA InitAnswers == Init => AnswersInv
<1> SUFFICES ASSUME Init
             PROVE  AnswersInv
  OBVIOUS
<1>1. AnsweredRequests = {}
  BY DEF Init, AnsweredRequests
<1>2. ASSUME NEW a \in Account
      PROVE  Told(a)
  <2>1. \A op : Said(a, op, "OK") = {} /\ Said(a, op, "ERROR") = {}
    BY DEF Init, Said
  <2>2. \A type : Entries(a, type) = {}
    BY DEF Init, Entries
  <2>3. QED
    BY <2>1, <2>2, FS_EmptySet DEF Told, StepTold, OwnTold
<1>3. QED
  BY <1>1, <1>2, FS_EmptySet DEF AnswersInv, Init

\* Every answer is told with the rows it speaks of, in any number of requests.
THEOREM AnswersInvariance == Spec => []AnswersInv
<1>1. AnswersInv /\ IInv /\ [Next]_vars => AnswersInv'
  BY StepAnswers, NoAnswerKeepsAnswers, AnswerKeepsAnswers, CommitKeepsAnswers
<1>2. QED
  BY <1>1, InitAnswers, Invariance, PTL DEF Spec

\* An answer tells the truth: OK means the row is in the ledger, and a lost
\* acknowledgement may add to the rows, never to the answers.
THEOREM AccountsOkMeansEntered == Spec => []OkMeansEntered
<1>1. ASSUME AnswersInv
      PROVE  OkMeansEntered
  <2>1. ASSUME NEW a \in Account
        PROVE  Told(a)
    BY <1>1 DEF AnswersInv
  <2>2. QED
    BY <2>1, Zenon DEF Told, StepTold, OwnTold, Said, Entries, OkMeansEntered
<1>2. QED
  BY <1>1, AnswersInvariance, PTL
-----------------------------------------------------------------------------
(* The page of an account, and the list of accounts.                       *)

\* What a page shows, or has read so far, of an account it found closed.
ClosedInv(p) ==
    LET a == AccountOf[p] IN
    /\ header[p].state = "CLOSED" => status[a] = "CLOSED" /\ header[p].rows = ledger[a]
    /\ reading[p].task \in {"balance", "account"} /\ reading[p].state = "CLOSED" =>
          status[a] = "CLOSED"
    /\ reading[p].task = "account" /\ reading[p].state = "CLOSED" =>
          reading[p].rows = ledger[a]

\* The same of a card.
CardInv(p, a) ==
    LET card == cards[p][a] IN
    card.at # "none" /\ card.state = "CLOSED" =>
        /\ status[a] = "CLOSED"
        /\ card.at # "asked" => card.rows = ledger[a]

PageInv ==
    /\ IInv
    /\ PageTypeOK
    /\ \A p \in Page : ClosedInv(p) /\ \A a \in Account : CardInv(p, a)
-----------------------------------------------------------------------------
\* A page does nothing to the service that its callers could not do.
LEMMA PageUsesAccounts == [PageNext]_<<vars, pageVars>> => [Next]_vars
<1> SUFFICES ASSUME PageNext
             PROVE  Next \/ UNCHANGED vars
  BY DEF vars
<1>1. ASSUME NEW p \in Page, OpenAccount(p)
      PROVE  Next
  BY <1>1, PageAssumption DEF OpenAccount, createAccount, Next
<1>2. ASSUME NEW p \in Page, NEW r \in Request, NEW c \in Calls, Submit(p, r, c)
      PROVE  Next
  BY <1>2 DEF Submit, Next
<1>3. ASSUME NEW p \in Page,
             \/ PageStep(p) \/ RenderFails(p) \/ LedgerFails(p) \/ Unauthorized(p)
             \/ Unavailable(p)
             \/ Visit(p) /\ UNCHANGED vars
             \/ VisitList(p) \/ Reload(p) \/ Refocus(p)
      PROVE  UNCHANGED vars
  BY <1>3 DEF PageStep, RenderAccount, getBalance, ShowAccount, GetLedger, ShowLedger,
              RenderList, listAccounts, ShowList, Hear, RenderFails, LedgerFails,
              Unauthorized, Unavailable, VisitList, Reload, Refocus
<1>4. QED
  BY <1>1, <1>2, <1>3 DEF PageNext

\* A closed account stays closed, with the rows it has.
LEMMA StaysClosed ==
    ASSUME IInv, [Next]_vars, NEW a \in Account, status[a] = "CLOSED"
    PROVE  status'[a] = "CLOSED" /\ ledger'[a] = ledger[a]
<1>1. ASSUME NEW b \in Account, CreateAccount(b)
      PROVE  status'[a] = "CLOSED" /\ ledger'[a] = ledger[a]
  BY <1>1 DEF CreateAccount, IInv, TypeOK
<1>2. ASSUME NEW r \in Request, Commit(r)
      PROVE  status'[a] = "CLOSED" /\ ledger'[a] = ledger[a]
  <2>1. status[call[r].account] = "ACTIVE" /\ UNCHANGED status
    BY <1>2 DEF Commit, IInv, RequestInv, Holding
  <2>2. QED
    BY <1>2, <2>1 DEF Commit, IInv, TypeOK
<1>3. ASSUME NEW r \in Request, CloseAccount(r)
      PROVE  status'[a] = "CLOSED" /\ ledger'[a] = ledger[a]
  BY <1>3 DEF CloseAccount, IInv, TypeOK
<1>4. ASSUME NEW r \in Request, NEW c \in Calls, Receive(r, c)
      PROVE  UNCHANGED <<status, ledger>>
  BY <1>4 DEF Receive
<1>5. ASSUME NEW r \in Request,
             \/ GetOwnedAccount(r) \/ BeginTransaction(r) \/ LockAccount(r)
             \/ GetActiveAccount(r) \/ FindExisting(r) \/ CheckFunds(r)
             \/ BeginUpdate(r) \/ Abort(r)
      PROVE  UNCHANGED <<status, ledger>>
  BY <1>5 DEF GetOwnedAccount, BeginTransaction, LockAccount, GetActiveAccount,
              FindExisting, CheckFunds, BeginUpdate, Abort, Refuse, Rollback, Continue
<1>6. QED
  BY <1>1, <1>2, <1>3, <1>4, <1>5 DEF Next, Advance, Quiescent, vars

\* A step of the service, or of nothing, leaves a page as right as it was.
LEMMA ServiceKeepsPage ==
    ASSUME IInv, [Next]_vars, NEW p \in Page, ClosedInv(p),
           header'[p] = header[p], reading'[p] = reading[p]
    PROVE  ClosedInv(p)'
<1>1. AccountOf[p] \in Account
  BY PageAssumption
<1>2. status[AccountOf[p]] = "CLOSED" =>
        status'[AccountOf[p]] = "CLOSED" /\ ledger'[AccountOf[p]] = ledger[AccountOf[p]]
  BY <1>1, StaysClosed
<1>3. QED
  BY <1>2 DEF ClosedInv

\* A page that shows and has read something else than its closed account.
LEMMA FreshKeepsPage ==
    ASSUME PageInv, PageTypeOK', [Next]_vars, NEW p \in Page,
           header'[p] = header[p] \/ header'[p].state # "CLOSED",
           reading'[p] = reading[p] \/ reading'[p].state # "CLOSED"
    PROVE  ClosedInv(p)'
<1> DEFINE a == AccountOf[p]
<1>1. a \in Account
  BY PageAssumption
<1>2. status[a] = "CLOSED" => status'[a] = "CLOSED" /\ ledger'[a] = ledger[a]
  BY <1>1, StaysClosed DEF PageInv
<1>3. ClosedInv(p)
  BY DEF PageInv
<1>4. QED
  BY <1>2, <1>3 DEF ClosedInv
\* So does every card that is cleared, or left as it was.
LEMMA CardKept ==
    ASSUME IInv, [Next]_vars, NEW p \in Page, NEW a \in Account, CardInv(p, a),
           cards'[p][a] = cards[p][a] \/ cards'[p][a] = NoCard
    PROVE  CardInv(p, a)'
<1>1. status[a] = "CLOSED" => status'[a] = "CLOSED" /\ ledger'[a] = ledger[a]
  BY StaysClosed
<1>2. QED
  BY <1>1 DEF CardInv, NoCard
-----------------------------------------------------------------------------
(* Each step keeps the invariant.                                          *)

LEMMA InitPageInv == PageInit => PageInv
<1> SUFFICES ASSUME PageInit
             PROVE  PageInv
  OBVIOUS
<1>1. IInv
  BY InitIInv DEF PageInit
<1>2. PageTypeOK
  BY <1>1 DEF IInv, PageInit, PageTypeOK, Header, Card, Table, Reading, Nothing, NoCard,
              NoCards, NotReading, Fetch
<1>3. ASSUME NEW p \in Page
      PROVE  ClosedInv(p) /\ \A a \in Account : CardInv(p, a)
  BY <1>3 DEF PageInit, ClosedInv, CardInv, Nothing, NoCard, NoCards, NotReading
<1>4. QED
  BY <1>1, <1>2, <1>3 DEF PageInv

LEMMA PageTypeStep == PageInv /\ IInv' /\ [PageNext]_<<vars, pageVars>> => PageTypeOK'
<1> SUFFICES ASSUME PageInv, IInv', [PageNext]_<<vars, pageVars>>
             PROVE  PageTypeOK'
  OBVIOUS
<1> USE DEF PageInv, PageTypeOK, Fetch
<1>0. TypeOK /\ TypeOK'
  BY DEF IInv
<1>c. NoCards \in [Account -> Card]
  BY DEF NoCards, NoCard, Card
<1>1. CASE UNCHANGED pageVars
  BY <1>0, <1>1 DEF pageVars
<1>2. ASSUME NEW p \in Page, RenderAccount(p)
      PROVE  PageTypeOK'
  <2>1. AccountOf[p] \in Account /\ <<>> \in Seq(Row)
    BY PageAssumption
  <2>2. CASE UNCHANGED header /\ status[AccountOf[p]] # "NONE"
             /\ reading' = [reading EXCEPT ![p] =
                  [task |-> "balance", state |-> status[AccountOf[p]], rows |-> <<>>]]
    <3>1. [task |-> "balance", state |-> status[AccountOf[p]], rows |-> <<>>] \in Reading
      BY <1>0, <2>1 DEF Reading, TypeOK
    <3>2. QED
      BY <1>0, <1>2, <2>2, <3>1 DEF RenderAccount
  <2>3. CASE UNCHANGED reading /\ ShowError(p)
    <3>1. [state |-> "ERROR", rows |-> <<>>] \in Header
      BY <2>1 DEF Header
    <3>2. QED
      BY <1>0, <1>2, <2>3, <3>1 DEF RenderAccount, ShowError
  <2>4. QED
    BY <1>2, <2>2, <2>3 DEF RenderAccount, getOwnedAccount
<1>3. ASSUME NEW p \in Page, getBalance(p)
      PROVE  PageTypeOK'
  <2>1. ledger[AccountOf[p]] \in Seq(Row)
    BY <1>0, PageAssumption DEF TypeOK
  <2>2. [task |-> "account", state |-> reading[p].state, rows |-> ledger[AccountOf[p]]]
            \in Reading
    BY <2>1 DEF Reading
  <2>3. reading'[p] =
          [task |-> "account", state |-> reading[p].state, rows |-> ledger[AccountOf[p]]]
    BY <1>3 DEF getBalance, Reading
  <2>4. QED
    BY <1>0, <1>3, <2>2, <2>3 DEF getBalance
<1>4. ASSUME NEW p \in Page, ShowAccount(p)
      PROVE  PageTypeOK'
  <2>1. [state |-> reading[p].state, rows |-> reading[p].rows] \in Header
    BY DEF Reading, Header
  <2>2. NotReading \in Reading
    BY DEF NotReading, Reading
  <2>3. QED
    BY <1>0, <1>4, <2>1, <2>2 DEF ShowAccount
<1>5. ASSUME NEW p \in Page, RenderFails(p)
      PROVE  PageTypeOK'
  BY <1>0, <1>5, <1>c DEF RenderFails, ShowError, NotReading, Reading, Header
<1>6. ASSUME NEW p \in Page, GetLedger(p)
      PROVE  PageTypeOK'
  <2>1. ledger[AccountOf[p]] \in Seq(Row)
    BY <1>0, PageAssumption DEF TypeOK
  <2>2. QED
    BY <1>0, <1>6, <2>1 DEF GetLedger, findLedgerEntries, Reading
<1>7. ASSUME NEW p \in Page, ShowLedger(p)
      PROVE  PageTypeOK'
  <2>1. [state |-> "SHOWN", rows |-> reading[p].rows] \in Table
    BY DEF Reading, Table
  <2>2. QED
    BY <1>0, <1>7, <2>1 DEF ShowLedger, NotReading, Reading
<1>8. ASSUME NEW p \in Page, LedgerFails(p)
      PROVE  PageTypeOK'
  <2>1. table[p] \in Table
    BY DEF Table
  <2>2. table'[p] = [state |-> "ERROR", rows |-> table[p].rows]
    BY <1>8 DEF LedgerFails, Table
  <2>3. QED
    BY <1>0, <1>8, <2>1, <2>2 DEF LedgerFails, NotReading, Reading, Table
<1>8a. ASSUME NEW p \in Page, Unauthorized(p)
       PROVE  PageTypeOK'
  <2>1. [state |-> "ERROR", rows |-> <<>>] \in Header
    BY DEF Header
  <2>2. table[p] \in Table /\ [table[p] EXCEPT !.state = "ERROR"] \in Table
    BY DEF Table
  <2>3. /\ header' = header \/ header' = [header EXCEPT ![p] = [state |-> "ERROR", rows |-> <<>>]]
        /\ table' = table \/ table' = [table EXCEPT ![p] = [table[p] EXCEPT !.state = "ERROR"]]
        /\ \E task \in Fetch : todo' = [todo EXCEPT ![p] = @ \ {task}]
    BY <1>8a DEF Unauthorized, ShowError, Fetch
  <2>4. header' \in [Page -> Header] /\ table' \in [Page -> Table]
    BY <2>1, <2>2, <2>3
  <2>5. todo' \in [Page -> SUBSET Fetch]
    BY <2>3
  <2>6. UNCHANGED <<cards, reading, waits, told>>
    BY <1>8a DEF Unauthorized
  <2>7. QED
    BY <1>0, <2>4, <2>5, <2>6
<1>9. ASSUME NEW p \in Page,
             Visit(p) \/ VisitList(p) \/ OpenAccount(p) \/ Reload(p) \/ Refocus(p)
      PROVE  PageTypeOK'
  <2>1. Nothing \in Header /\ Nothing \in Table
    BY DEF Nothing, Header, Table
  <2>2. CASE Visit(p) \/ OpenAccount(p)
    BY <1>0, <1>c, <2>2 DEF Visit, OpenAccount
  <2>l. CASE VisitList(p)
    BY <1>0, <1>c, <2>1, <2>l DEF VisitList
  <2>3. CASE Reload(p)
    BY <1>0, <2>1, <2>3 DEF Reload
  <2>4. CASE Refocus(p)
    BY <1>0, <2>4 DEF Refocus
  <2>5. QED
    BY <1>9, <2>2, <2>l, <2>3, <2>4
<1>10. ASSUME NEW p \in Page, NEW r \in Request, NEW c \in Calls, Submit(p, r, c)
       PROVE  PageTypeOK'
  BY <1>0, <1>10 DEF Submit
<1>11. ASSUME NEW p \in Page, Hear(p) \/ Unavailable(p)
       PROVE  PageTypeOK'
  <2>1. Len(ledger[AccountOf[p]]) \in Nat
    BY <1>0, PageAssumption DEF TypeOK
  <2>2. CASE Unavailable(p)
    BY <1>0, <2>2 DEF Unavailable
  <2>3. CASE Hear(p)
    <3>1. /\ UNCHANGED <<header, cards, table, reading>>
          /\ waits' = [waits EXCEPT ![p] = NoRequest]
          /\ AmountDone(p) \/ CloseDone(p) \/ UNCHANGED <<todo, told>>
      BY <2>3 DEF Hear
    <3>2. told' \in [Page -> Nat]
      BY <2>1, <3>1 DEF AmountDone, CloseDone
    <3>3. todo' \in [Page -> SUBSET Fetch]
      BY <3>1 DEF AmountDone, CloseDone
    <3>4. QED
      BY <1>0, <3>1, <3>2, <3>3
  <2>4. QED
    BY <1>11, <2>2, <2>3
<1>12. ASSUME NEW p \in Page, RenderList(p)
       PROVE  PageTypeOK'
  <2> DEFINE found == [a \in Account |->
                         IF a \in findAccountsByUserId(Viewer[p])
                         THEN [at |-> "asked", state |-> status[a], rows |-> <<>>]
                         ELSE NoCard]
  <2>1. ASSUME NEW a \in Account
        PROVE  found[a] \in Card
    BY <1>0 DEF findAccountsByUserId, NoCard, Card, TypeOK
  <2>2. found \in [Account -> Card]
    BY <2>1
  <2>3. [NotReading EXCEPT !.task = "list"] \in Reading
    <3>1. NotReading \in Reading /\ "list" \in {"none", "balance", "account", "list", "ledger"}
      BY DEF NotReading, Reading
    <3>2. QED
      BY <3>1 DEF Reading
  <2>4. QED
    BY <1>0, <1>12, <2>2, <2>3 DEF RenderList
<1>13. ASSUME NEW p \in Page, NEW a \in Account, listAccounts(p, a)
       PROVE  PageTypeOK'
  <2>1. [at |-> "read", state |-> cards[p][a].state, rows |-> ledger[a]] \in Card
    BY <1>0 DEF Card, TypeOK
  <2>2. QED
    BY <1>0, <1>13, <2>1 DEF listAccounts
<1>14. ASSUME NEW p \in Page, ShowList(p)
       PROVE  PageTypeOK'
  <2> DEFINE listed == [a \in Account |->
                          IF cards[p][a].at = "read"
                          THEN [at |-> "shown", state |-> cards[p][a].state,
                                rows |-> cards[p][a].rows]
                          ELSE NoCard]
  <2>1. ASSUME NEW a \in Account
        PROVE  listed[a] \in Card
    BY DEF NoCard, Card
  <2>2. listed \in [Account -> Card]
    BY <2>1
  <2>3. NotReading \in Reading
    BY DEF NotReading, Reading
  <2>4. QED
    <3>1. /\ cards' = [cards EXCEPT ![p] = listed]
          /\ reading' = [reading EXCEPT ![p] = NotReading]
          /\ UNCHANGED <<header, table, todo, waits, told>>
      BY <1>14 DEF ShowList
    <3>2. QED
      BY <1>0, <2>2, <2>3, <3>1
<1>15. QED
  BY <1>1, <1>2, <1>3, <1>4, <1>5, <1>6, <1>7, <1>8, <1>8a, <1>9, <1>10, <1>11, <1>12, <1>13, <1>14
     DEF PageNext, PageStep

\* The status is read, and afterwards the rows: what is final of an account
\* that was found closed was so at both times.
LEMMA PageStepKeepsClosed ==
    ASSUME PageInv, [PageNext]_<<vars, pageVars>>, PageTypeOK'
    PROVE  \A q \in Page : ClosedInv(q)'
<1>1. [Next]_vars
  BY PageUsesAccounts
<1>3. PageTypeOK /\ PageTypeOK'
  BY DEF PageInv
<1>4. SUFFICES ASSUME NEW q \in Page
               PROVE  ClosedInv(q)'
  OBVIOUS
<1>5. AccountOf[q] \in Account /\ ClosedInv(q)
  BY PageAssumption DEF PageInv
<1>6. CASE header'[q] = header[q] /\ reading'[q] = reading[q]
  BY <1>1, <1>5, <1>6, ServiceKeepsPage DEF PageInv
<1>7. CASE RenderAccount(q)
  <2>1. CASE reading' = [reading EXCEPT ![q] =
                [task |-> "balance", state |-> status[AccountOf[q]], rows |-> <<>>]]
             /\ UNCHANGED header
    <3>1. UNCHANGED <<status, ledger>>
      BY <1>7 DEF RenderAccount, vars
    <3>2. reading'[q] = [task |-> "balance", state |-> status[AccountOf[q]], rows |-> <<>>]
      BY <1>3, <2>1 DEF PageTypeOK
    <3>3. QED
      BY <1>5, <2>1, <3>1, <3>2 DEF ClosedInv
  <2>2. CASE ShowError(q) /\ UNCHANGED reading
    <3>1. header'[q].state = "ERROR"
      BY <1>3, <2>2 DEF PageTypeOK, ShowError
    <3>2. QED
      BY <1>1, <1>3, <2>2, <3>1, FreshKeepsPage
  <2>3. QED
    BY <1>7, <2>1, <2>2 DEF RenderAccount, getOwnedAccount
<1>8. CASE getBalance(q)
  <2>1. UNCHANGED <<status, ledger, header>> /\ reading[q].task = "balance"
    BY <1>8 DEF getBalance, vars
  <2>2. reading'[q] =
          [task |-> "account", state |-> reading[q].state, rows |-> ledger[AccountOf[q]]]
    <3>1. reading \in [Page -> Reading]
      BY <1>3 DEF PageTypeOK
    <3>2. QED
      BY <1>8, <3>1 DEF getBalance, Reading
  <2>3. QED
    BY <1>5, <2>1, <2>2 DEF ClosedInv
<1>9. CASE ShowAccount(q)
  <2>1. UNCHANGED <<status, ledger>> /\ reading[q].task = "account"
    BY <1>9 DEF ShowAccount, vars
  <2>2. /\ header'[q] = [state |-> reading[q].state, rows |-> reading[q].rows]
        /\ reading'[q] = NotReading
    BY <1>3, <1>9 DEF ShowAccount, PageTypeOK
  <2>3. QED
    BY <1>5, <2>1, <2>2 DEF ClosedInv, NotReading
<1>10. CASE \/ RenderFails(q) \/ LedgerFails(q) \/ ShowLedger(q) \/ GetLedger(q) \/ Reload(q)
            \/ Unauthorized(q) \/ VisitList(q) \/ RenderList(q) \/ ShowList(q)
  <2>1. header'[q] = header[q] \/ header'[q].state # "CLOSED"
    BY <1>3, <1>10 DEF PageTypeOK, RenderFails, LedgerFails, Unauthorized, ShowLedger, GetLedger, Reload,
                       VisitList, RenderList, ShowList, ShowError, Nothing
  <2>2. reading'[q] = reading[q] \/ reading'[q].state # "CLOSED"
    BY <1>3, <1>10 DEF PageTypeOK, RenderFails, LedgerFails, Unauthorized, ShowLedger, GetLedger, Reload,
                       VisitList, RenderList, ShowList, findLedgerEntries, NotReading
  <2>3. QED
    BY <1>1, <1>3, <2>1, <2>2, FreshKeepsPage
<1>11. ASSUME NEW p \in Page,
              \/ Visit(p) \/ OpenAccount(p) \/ Refocus(p) \/ Hear(p) \/ Unavailable(p)
              \/ \E r \in Request, c \in Calls : Submit(p, r, c)
              \/ \E a \in Account : listAccounts(p, a)
       PROVE  header'[q] = header[q] /\ reading'[q] = reading[q]
  BY <1>11 DEF Visit, OpenAccount, Refocus, Hear, Unavailable, Submit, listAccounts
<1>12. ASSUME NEW p \in Page, p # q,
              \/ PageStep(p) \/ RenderFails(p) \/ LedgerFails(p) \/ Unauthorized(p)
              \/ Reload(p) \/ VisitList(p)
       PROVE  header'[q] = header[q] /\ reading'[q] = reading[q]
  BY <1>3, <1>12 DEF PageStep, RenderFails, LedgerFails, Unauthorized, Reload, VisitList, RenderList,
                     listAccounts, ShowList, RenderAccount, getBalance,
                     ShowAccount, GetLedger, ShowLedger, Hear, PageTypeOK, getOwnedAccount,
                     findLedgerEntries, ShowError
<1>13. CASE UNCHANGED pageVars
  BY <1>6, <1>13 DEF pageVars
<1>14. QED
  BY <1>6, <1>7, <1>8, <1>9, <1>10, <1>11, <1>12, <1>13 DEF PageNext, PageStep

\* The cards' part of it.
LEMMA PageStepKeepsCards ==
    ASSUME PageInv, [PageNext]_<<vars, pageVars>>, PageTypeOK'
    PROVE  \A q \in Page, a \in Account : CardInv(q, a)'
<1>1. [Next]_vars
  BY PageUsesAccounts
<1>2. PageTypeOK /\ PageTypeOK' /\ IInv
  BY DEF PageInv
<1>3. SUFFICES ASSUME NEW q \in Page, NEW a \in Account
               PROVE  CardInv(q, a)'
  OBVIOUS
<1>4. CardInv(q, a) /\ cards \in [Page -> [Account -> Card]]
  BY DEF PageInv, PageTypeOK
<1>5. CASE cards'[q][a] = cards[q][a] \/ cards'[q][a] = NoCard
  BY <1>1, <1>2, <1>4, <1>5, CardKept
<1>6. CASE RenderList(q)
  <2>1. UNCHANGED status
    BY <1>6 DEF RenderList, vars
  <2>2. \/ cards'[q][a] = NoCard
        \/ cards'[q][a] = [at |-> "asked", state |-> status[a], rows |-> <<>>]
    BY <1>4, <1>6 DEF RenderList
  <2>3. CASE cards'[q][a] = [at |-> "asked", state |-> status[a], rows |-> <<>>]
    BY <2>1, <2>3 DEF CardInv
  <2>4. QED
    BY <1>5, <2>2, <2>3
<1>7. CASE listAccounts(q, a)
  <2>1. UNCHANGED <<status, ledger>> /\ cards[q][a].at = "asked"
    BY <1>7 DEF listAccounts, vars
  <2>2. cards'[q][a] = [at |-> "read", state |-> cards[q][a].state, rows |-> ledger[a]]
    BY <1>4, <1>7 DEF listAccounts
  <2>3. QED
    BY <1>4, <2>1, <2>2 DEF CardInv
<1>8. CASE ShowList(q)
  <2>1. UNCHANGED <<status, ledger>>
    BY <1>8 DEF ShowList, vars
  <2>2. \/ cards'[q][a] = NoCard
        \/ /\ cards[q][a].at = "read"
           /\ cards'[q][a] = [at |-> "shown", state |-> cards[q][a].state,
                             rows |-> cards[q][a].rows]
    BY <1>4, <1>8 DEF ShowList
  <2>3. QED
    BY <1>4, <1>5, <2>1, <2>2 DEF CardInv
<1>9. ASSUME NEW p \in Page,
             \/ Visit(p) \/ VisitList(p) \/ OpenAccount(p) \/ RenderFails(p)
             \/ p # q /\ (RenderList(p) \/ ShowList(p))
             \/ \E b \in Account : (p # q \/ a # b) /\ listAccounts(p, b)
      PROVE  cards'[q][a] = cards[q][a] \/ cards'[q][a] = NoCard
  <2>1. NoCards[a] = NoCard
    BY DEF NoCards
  <2>2. QED
    BY <1>4, <1>9, <2>1 DEF Visit, VisitList, OpenAccount, RenderFails, RenderList,
                            ShowList, listAccounts
<1>10. ASSUME NEW p \in Page,
              \/ RenderAccount(p) \/ getBalance(p) \/ ShowAccount(p) \/ GetLedger(p)
              \/ ShowLedger(p) \/ Hear(p) \/ LedgerFails(p) \/ Unauthorized(p)
              \/ Unavailable(p) \/ Reload(p) \/ Refocus(p)
              \/ \E r \in Request, c \in Calls : Submit(p, r, c)
       PROVE  UNCHANGED cards
  BY <1>10 DEF RenderAccount, getBalance, ShowAccount, GetLedger, ShowLedger, Hear,
               LedgerFails, Unauthorized, Unavailable, Reload, Refocus, Submit
<1>11. CASE UNCHANGED pageVars
  BY <1>5, <1>11 DEF pageVars
<1>12. QED
  BY <1>5, <1>6, <1>7, <1>8, <1>9, <1>10, <1>11 DEF PageNext, PageStep

LEMMA PageStepKeepsInv == PageInv /\ [PageNext]_<<vars, pageVars>> => PageInv'
<1> SUFFICES ASSUME PageInv, [PageNext]_<<vars, pageVars>>
             PROVE  PageInv'
  OBVIOUS
<1>1. IInv'
  BY PageUsesAccounts, StepKeepsInv DEF PageInv
<1>2. PageTypeOK'
  BY <1>1, PageTypeStep
<1>3. QED
  BY <1>1, <1>2, PageStepKeepsClosed, PageStepKeepsCards DEF PageInv
-----------------------------------------------------------------------------
\* The invariant of the page and of the service below it.
THEOREM PageInvariance == PageSpec => []PageInv
<1>1. PageSpec => PageInit /\ [][PageNext]_<<vars, pageVars>>
  BY PTL DEF PageSpec
<1>2. QED
  BY <1>1, InitPageInv, PageStepKeepsInv, PTL

\* A page, or a card, that says CLOSED shows the account's last balance.
THEOREM PageClosedBalanceIsFinal == PageSpec => []ClosedBalanceIsFinal
<1>1. PageInv => ClosedBalanceIsFinal
  BY PageAssumption DEF PageInv, ClosedInv, CardInv, ClosedBalanceIsFinal
<1>2. QED
  BY <1>1, PageInvariance, PTL

\* Pages, whatever they do, leave the accounts to the service's promises: the
\* rows are those of the atomic ledger.
THEOREM PageKeepsLedger == PageSpec => LedgerSpec
<1>1. PageInit => Init
  BY DEF PageInit
<1>2. PageSpec => PageInit /\ [][PageNext]_<<vars, pageVars>>
  BY PTL DEF PageSpec
<1>3. PageSpec => Spec
  BY <1>1, <1>2, PageUsesAccounts, PTL DEF Spec
<1>4. QED
  BY <1>3, Refinement, PTL
=============================================================================
