------------------------------ MODULE Accounts ------------------------------
(***************************************************************************)
(* The Accounts service, request by request.  Each request runs its        *)
(* handler one database statement at a time and the handlers of different  *)
(* requests interleave freely: a Node.js process yields at every await and *)
(* the service may run in several copies over one PostgreSQL database.     *)
(*                                                                         *)
(* What keeps the handlers apart is the row lock that withAccountLock      *)
(* takes (SELECT ... FOR UPDATE) and holds to the end of its transaction.  *)
(* Statements run at READ COMMITTED: each sees what is committed when it   *)
(* runs, and the row a transaction inserts is seen by the others when it   *)
(* commits.  A transaction keeps one connection of the pool; a statement   *)
(* outside it, getActiveAccount's included, needs another one.             *)
(***************************************************************************)
EXTENDS LedgerRows, FiniteSets

CONSTANTS User,
          Owner,      \* the user an account is created for
          Request,    \* requests, each served once
          NoRequest,  \* holder of a free row lock
          Calls,      \* what callers may ask
          PoolSize,   \* connections of the Prisma client
          DbFaults    \* may a statement or a commit fail?

\* close has no amount and the user's operations no transfer or currency:
\* they ignore those fields, as the internal ones ignore the user.
Op == {"deposit", "withdraw", "close", "debit", "credit", "reversal"}

Call == [op : Op, user : User, account : Account, amount : Amount,
         transfer : Transfer \cup {NoTransfer}, currency : Currency]

TransferOp == {"debit", "credit", "reversal"}

ASSUME AccountsAssumption ==
    /\ Owner \in [Account -> User]
    /\ NoRequest \notin Request
    /\ Calls \subseteq Call
    /\ \A c \in Calls : c.op \in TransferOp => c.transfer \in Transfer
    /\ PoolSize \in Nat \ {0}
    /\ DbFaults \in BOOLEAN

\* Mutant: an entry type the database does not know.
EntryTypeMisnamed ==
    [deposit |-> "DEPOSIT", withdraw |-> "WITHDRAW",
     debit |-> "TRANSFER_DEBIT", credit |-> "TRANSFER_CREDIT",
     reversal |-> "REVERSAL"]

EntryTypeOf ==
    [deposit |-> "DEPOSIT", withdraw |-> "WITHDRAWAL",
     debit |-> "TRANSFER_DEBIT", credit |-> "TRANSFER_CREDIT",
     reversal |-> "REVERSAL"]

VARIABLES status,   \* AccountStatus of each account, NONE before it exists
          ledger,   \* the committed rows of each account
          lock,     \* the request holding the row lock of each account
          call,     \* the input of each request, NoCall before it arrives
          pc,       \* the statement each request runs next
          reply     \* what each request was answered

vars == <<status, ledger, lock, call, pc, reply>>

L == INSTANCE Ledger

\* Between BEGIN and COMMIT, or blocked in an UPDATE: one connection each.
InTransaction == {"lock", "active", "existing", "funds", "commit", "update"}

Waiting == {"own", "begin", "close"}

NoCall == <<>>

Reply == {"NONE", "OK", "VALIDATION", "NOT_FOUND", "FORBIDDEN",
          "INSUFFICIENT_FUNDS", "ERROR"}

TypeOK ==
    /\ status \in [Account -> {"NONE", "ACTIVE", "CLOSED"}]
    /\ ledger \in [Account -> Seq(Row)]
    /\ lock \in [Account -> Request \cup {NoRequest}]
    /\ call \in [Request -> Calls \cup {NoCall}]
    /\ pc \in [Request -> InTransaction \cup Waiting \cup {"idle", "done"}]
    /\ reply \in [Request -> Reply]

Init ==
    /\ status = [a \in Account |-> "NONE"]
    /\ ledger = [a \in Account |-> <<>>]
    /\ lock = [a \in Account |-> NoRequest]
    /\ call = [r \in Request |-> NoCall]
    /\ pc = [r \in Request |-> "idle"]
    /\ reply = [r \in Request |-> "NONE"]
-----------------------------------------------------------------------------
FreeConnection ==
    Cardinality({r \in Request : pc[r] \in InTransaction}) < PoolSize

Goto(r, label) == pc' = [pc EXCEPT ![r] = label]

Answer(r, code) == Goto(r, "done") /\ reply' = [reply EXCEPT ![r] = code]

\* The end of r's transaction gives back its row lock, if it has one.
Unlock(r) ==
    lock' = [a \in Account |-> IF lock[a] = r THEN NoRequest ELSE lock[a]]

Rollback(r, code) == Answer(r, code) /\ Unlock(r) /\ UNCHANGED <<status, ledger, call>>

Continue(r, label) == Goto(r, label) /\ UNCHANGED <<status, ledger, lock, call, reply>>

Refuse(r, code) == Answer(r, code) /\ UNCHANGED <<status, ledger, lock, call>>

\* The row of a new account, its identifier fresh: no request names it yet.
CreateAccount(a) ==
    /\ status[a] = "NONE"
    /\ \A r \in {q \in Request : pc[q] # "idle"} : call[r].account # a
    /\ status' = [status EXCEPT ![a] = "ACTIVE"]
    /\ UNCHANGED <<ledger, lock, call, pc, reply>>

\* A request arrives; an amount that is not positive ends it at once.
Receive(r, c) ==
    /\ pc[r] = "idle"
    /\ call' = [call EXCEPT ![r] = c]
    /\ IF c.op # "close" /\ c.amount <= 0
       THEN Answer(r, "VALIDATION")
       ELSE /\ Goto(r, IF c.op \in TransferOp THEN "begin" ELSE "own")
            /\ UNCHANGED reply
    /\ UNCHANGED <<status, ledger, lock>>

GetOwnedAccount(r) ==
    LET c == call[r] IN
    /\ pc[r] = "own"
    /\ FreeConnection
    /\ \/ status[c.account] = "NONE" /\ Refuse(r, "NOT_FOUND")
       \/ /\ status[c.account] # "NONE"
          /\ Owner[c.account] # c.user
          /\ Refuse(r, "FORBIDDEN")
       \/ /\ status[c.account] # "NONE"
          /\ Owner[c.account] = c.user
          /\ Continue(r, IF c.op = "close" THEN "close" ELSE "begin")

BeginTransaction(r) == pc[r] = "begin" /\ FreeConnection /\ Continue(r, "lock")

\* Mutant: the SELECT without FOR UPDATE.
SelectWithoutLock(r) == pc[r] = "lock" /\ Continue(r, "active")

\* SELECT ... FOR UPDATE waits for the row, and locks nothing without one.
LockAccount(r) ==
    LET a == call[r].account IN
    /\ pc[r] = "lock"
    /\ lock[a] = NoRequest
    /\ lock' = IF status[a] = "NONE" THEN lock ELSE [lock EXCEPT ![a] = r]
    /\ Goto(r, "active")
    /\ UNCHANGED <<status, ledger, call, reply>>

\* Mutant: the account is only looked up, its status is not asked.
GetActiveAccountAnyStatus(r) ==
    LET c == call[r] IN
    /\ pc[r] = "active"
    /\ FreeConnection
    /\ \/ status[c.account] = "NONE" /\ Rollback(r, "NOT_FOUND")
       \/ /\ status[c.account] # "NONE"
          /\ Continue(r, CASE c.op \in TransferOp -> "existing"
                           [] c.op = "withdraw"   -> "funds"
                           [] c.op = "deposit"    -> "commit")

\* getActiveAccount, on a second connection, and the currency check.
GetActiveAccount(r) ==
    LET c == call[r] IN
    /\ pc[r] = "active"
    /\ FreeConnection
    /\ \/ status[c.account] = "NONE" /\ Rollback(r, "NOT_FOUND")
       \/ status[c.account] = "CLOSED" /\ Rollback(r, "FORBIDDEN")
       \/ /\ status[c.account] = "ACTIVE"
          /\ c.op \in TransferOp
          /\ CurrencyOf[c.account] # c.currency
          /\ Rollback(r, "VALIDATION")
       \/ /\ status[c.account] = "ACTIVE"
          /\ c.op \in TransferOp => CurrencyOf[c.account] = c.currency
          /\ Continue(r, CASE c.op \in TransferOp -> "existing"
                           [] c.op = "withdraw"   -> "funds"
                           [] c.op = "deposit"    -> "commit")

\* Mutant: no look-up of an earlier entry.
EnterAnew(r) ==
    pc[r] = "existing" /\ Continue(r, IF call[r].op = "debit" THEN "funds" ELSE "commit")

\* Mutant: any entry of the transfer counts, whatever its type.
FindExistingAnyType(r) ==
    LET c == call[r]
        found == \E type \in EntryType : Existing(ledger[c.account], type, c.transfer)
    IN
    /\ pc[r] = "existing"
    /\ \/ found /\ Rollback(r, "OK")
       \/ ~found /\ Continue(r, IF c.op = "debit" THEN "funds" ELSE "commit")

\* A transfer step already entered is answered without a second entry.
FindExisting(r) ==
    LET c == call[r]
        found == Existing(ledger[c.account], EntryTypeOf[c.op], c.transfer)
    IN
    /\ pc[r] = "existing"
    /\ \/ found /\ Rollback(r, "OK")
       \/ ~found /\ Continue(r, IF c.op = "debit" THEN "funds" ELSE "commit")

\* Mutant: insufficient funds are waited for instead of refused.
AwaitFunds(r) ==
    LET c == call[r]
        short == ComputeBalance(ledger[c.account]) < c.amount
    IN
    /\ pc[r] = "funds"
    /\ \/ /\ short
          /\ Goto(r, "begin")
          /\ Unlock(r)
          /\ UNCHANGED <<status, ledger, call, reply>>
       \/ ~short /\ Continue(r, "commit")

CheckFunds(r) ==
    LET c == call[r]
        short == ComputeBalance(ledger[c.account]) < c.amount
    IN
    /\ pc[r] = "funds"
    /\ \/ short /\ Rollback(r, "INSUFFICIENT_FUNDS")
       \/ ~short /\ Continue(r, "commit")

\* createLedgerEntry and COMMIT; the caller may not hear of a commit whose
\* connection breaks.
Commit(r) ==
    LET c == call[r]
        ref == IF c.op \in TransferOp THEN c.transfer ELSE NoTransfer
    IN
    /\ pc[r] = "commit"
    /\ ledger' = [ledger EXCEPT ![c.account] =
                    Append(@, NewRow(EntryTypeOf[c.op], c.amount, ref))]
    /\ Unlock(r)
    /\ \E code \in {"OK", "ERROR"} : (code = "ERROR" => DbFaults) /\ Answer(r, code)
    /\ UNCHANGED <<status, call>>

BeginUpdate(r) == pc[r] = "close" /\ FreeConnection /\ Continue(r, "update")

\* Mutant: the closing does not wait for the transactions in progress.
CloseAtOnce(r) ==
    /\ pc[r] = "update"
    /\ status' = [status EXCEPT ![call[r].account] = "CLOSED"]
    /\ Answer(r, "OK")
    /\ UNCHANGED <<ledger, lock, call>>

\* updateAccountStatus: the UPDATE waits for the row lock of others, and
\* its commit may not be acknowledged.
CloseAccount(r) ==
    LET a == call[r].account IN
    /\ pc[r] = "update"
    /\ lock[a] = NoRequest
    /\ status' = [status EXCEPT ![a] = "CLOSED"]
    /\ \E code \in {"OK", "ERROR"} : (code = "ERROR" => DbFaults) /\ Answer(r, code)
    /\ UNCHANGED <<ledger, lock, call>>

\* Every connection is taken by a request that waits: for another
\* connection, or for the lock of one that does.
Stalled ==
    /\ ~FreeConnection
    /\ \A r \in Request : pc[r] \in InTransaction =>
          \/ pc[r] = "active"
          \/ pc[r] \in {"lock", "update"} /\ lock[call[r].account] # NoRequest

\* A statement fails, the transaction or the wait for a connection times
\* out, or the process stops: the transaction is rolled back.
Abort(r) ==
    /\ pc[r] \in InTransaction \cup Waiting
    /\ DbFaults \/ Stalled
    /\ Rollback(r, "ERROR")

Advance(r) ==
    \/ GetOwnedAccount(r) \/ BeginTransaction(r) \/ LockAccount(r)
    \/ GetActiveAccount(r) \/ FindExisting(r) \/ CheckFunds(r) \/ Commit(r)
    \/ BeginUpdate(r) \/ CloseAccount(r)

\* All requests answered: nothing is left to do.
Quiescent == (\A r \in Request : pc[r] = "done") /\ UNCHANGED vars

Next ==
    \/ \E a \in Account : CreateAccount(a)
    \/ \E r \in Request, c \in Calls : Receive(r, c)
    \/ \E r \in Request : Advance(r) \/ Abort(r)
    \/ Quiescent

Spec == Init /\ [][Next]_vars

\* A request that was received keeps running: the event loop resumes it
\* when its statement returns, and every wait is cut by a time-out.
FairSpec == Spec /\ \A r \in Request : WF_vars(Advance(r) \/ Abort(r))
-----------------------------------------------------------------------------
\* No account is overdrawn, whatever requests race: the balance read by one
\* withdrawal or debit still holds when its row is committed.
NonNegativeBalance == L!NonNegativeBalance

\* Retries and concurrent copies of a transfer's step enter it once, though
\* only the row lock, and no unique index, guards the look-up and insert.
AppliedOnce == L!AppliedOnce

\* No row reaches an account after its closing: the closing waits for the
\* transactions that saw it active, though they read that outside the lock.
ClosedIsFrozen == L!ClosedIsFrozen

\* An answer tells the truth: a transfer step answered OK has its row, and
\* as many deposits and withdrawals as were answered OK are in the ledger
\* (a lost acknowledgement may add to the rows, never to the answers).
OkMeansEntered ==
    \A a \in Account :
        LET Ok(op) == {r \in Request : /\ reply[r] = "OK"
                                       /\ call[r].op = op
                                       /\ call[r].account = a}
            Unheard(op) == {r \in Request : /\ reply[r] = "ERROR"
                                            /\ call[r].op = op
                                            /\ call[r].account = a}
            Rows(type) == {i \in DOMAIN ledger[a] : ledger[a][i].type = type}
        IN  /\ \A op \in TransferOp : \A r \in Ok(op) :
                  Existing(ledger[a], EntryTypeOf[op], call[r].transfer)
            /\ \A op \in {"deposit", "withdraw"} :
                  LET n == Cardinality(Rows(EntryTypeOf[op])) IN
                  /\ Cardinality(Ok(op)) <= n
                  /\ n <= Cardinality(Ok(op)) + Cardinality(Unheard(op))

\* The request-by-request service implements the atomic ledger.
LedgerSpec == L!Spec

\* Every request received is answered, whatever it waits for: a row lock, a
\* connection of the pool, or a transaction that waits for one.
Answered == \A r \in Request : pc[r] # "idle" ~> pc[r] = "done"
=============================================================================
