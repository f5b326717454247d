---------------------------- MODULE TransferSaga ----------------------------
(***************************************************************************)
(* The Transfers service's orchestrator: transfers are created by requests *)
(* and advanced by ticks of TransferSagaRunner, each of which walks, one   *)
(* HTTP call at a time, through the snapshot of the non-terminal transfers *)
(* it read when it began.  A worker is one chain of such ticks.  More than *)
(* one runs when several instances are deployed, and also in one instance: *)
(* @Interval starts a tick whether or not the previous one has ended.      *)
(*                                                                         *)
(* The Accounts service is the atomic Ledger, which Accounts.tla is shown  *)
(* to implement.  Around the orchestrator, the owners deposit, withdraw    *)
(* and close, and things fail, each kind of fault a bounded number of      *)
(* times: see FaultKind.                                                   *)
(***************************************************************************)
EXTENDS LedgerRows

CONSTANTS From, To, AmountOf,
          TransferCurrency,  \* the columns of a transfer
          Worker,            \* chains of ticks
          Closable,          \* accounts whose owner may close them
          UserRows,          \* bound: owners move money on shorter ledgers only
          MaxFaults          \* bound: how often each kind of fault happens

\* crash: the process stops and forgets its tick.  error: Accounts answers
\* 500 and did nothing.  lost: the answer is lost, or the connection breaks
\* while the request is still to be served.  db: a write to transfers_db
\* throws, not having been done, or having been.
FaultKind == {"crash", "error", "lost", "db"}

ASSUME SagaAssumption ==
    /\ From \in [Transfer -> Account]
    /\ To \in [Transfer -> Account]
    /\ AmountOf \in [Transfer -> Amount]
    /\ TransferCurrency \in [Transfer -> Currency]
    /\ Closable \subseteq Account
    /\ UserRows \in Nat
    /\ MaxFaults \in [FaultKind -> Nat]

VARIABLES status, ledger,  \* the state of Ledger
          checked,         \* transfers whose source passed initiateTransfer
          saga,            \* sagaState of each transfer, NONE before its row
          outbox,          \* the outbox_events rows of each transfer
          todo,            \* rest of each worker's snapshot
          job,             \* the transfer each worker awaits an answer for
          pc,              \* where each worker is in advance()
          late,            \* abandoned calls Accounts may still serve
          faults           \* how many of each kind there were

accountVars == <<status, ledger>>
transferVars == <<checked, saga, outbox>>
workerVars == <<todo, job, pc>>
vars == <<accountVars, transferVars, workerVars, late, faults>>

L == INSTANCE Ledger

Terminal == {"COMPLETED", "COMPENSATED", "FAILED"}

ClaimState == {"INITIATED", "DEBIT_COMPLETE"}

CallState == {"DEBIT_PENDING", "CREDIT_PENDING", "COMPENSATING"}

NonTerminal == ClaimState \cup CallState

Event == {"transfer.completed", "transfer.failed"}

\* A row of a snapshot: the transfer and the state it was read in.
Task == Transfer \X NonTerminal

NoTask == <<>>

TypeOK ==
    /\ L!TypeOK
    /\ checked \subseteq Transfer
    /\ saga \in [Transfer -> NonTerminal \cup Terminal \cup {"NONE"}]
    /\ outbox \in [Transfer -> Seq(Event)]
    /\ todo \in [Worker -> SUBSET Task]
    /\ job \in [Worker -> (Transfer \X CallState) \cup {NoTask}]
    /\ pc \in [Worker -> {"ready", "settle", "catch"}]
    /\ \A w \in Worker : pc[w] = "ready" <=> job[w] = NoTask
    /\ late \subseteq Transfer \X CallState
    /\ faults \in [FaultKind -> Nat]

Init ==
    /\ L!Init
    /\ checked = {}
    /\ saga = [t \in Transfer |-> "NONE"]
    /\ outbox = [t \in Transfer |-> <<>>]
    /\ todo = [w \in Worker |-> {}]
    /\ job = [w \in Worker |-> NoTask]
    /\ pc = [w \in Worker |-> "ready"]
    /\ late = {}
    /\ faults = [k \in FaultKind |-> 0]

Fault(kind) ==
    /\ faults[kind] < MaxFaults[kind]
    /\ faults' = [faults EXCEPT ![kind] = @ + 1]
-----------------------------------------------------------------------------
(* POST /transfers: initiateTransfer awaits two answers, then inserts.     *)

\* The source exists, is active and in the right currency when it is read.
CheckSource(t) ==
    /\ saga[t] = "NONE"
    /\ t \notin checked
    /\ status[From[t]] = "ACTIVE"
    /\ CurrencyOf[From[t]] = TransferCurrency[t]
    /\ checked' = checked \cup {t}
    /\ UNCHANGED <<accountVars, saga, outbox, workerVars, late, faults>>

\* Of the destination only existence and currency are asked; the source may
\* have been closed since.
CreateTransfer(t) ==
    /\ saga[t] = "NONE"
    /\ t \in checked
    /\ status[To[t]] # "NONE"
    /\ CurrencyOf[To[t]] = TransferCurrency[t]
    /\ saga' = [saga EXCEPT ![t] = "INITIATED"]
    /\ UNCHANGED <<accountVars, checked, outbox, workerVars, late, faults>>
-----------------------------------------------------------------------------
(* What Accounts does with the call that a transfer in state s makes.      *)

EntryTypeOf ==
    [DEBIT_PENDING |-> "TRANSFER_DEBIT", CREDIT_PENDING |-> "TRANSFER_CREDIT",
     COMPENSATING |-> "REVERSAL"]

Target(t, s) == IF s = "CREDIT_PENDING" THEN To[t] ELSE From[t]

Entered(t, s) == Existing(ledger[Target(t, s)], EntryTypeOf[s], t)

\* Checked before the look-up of an earlier entry.
Eligible(t, s) ==
    /\ AmountOf[t] > 0
    /\ status[Target(t, s)] = "ACTIVE"
    /\ CurrencyOf[Target(t, s)] = TransferCurrency[t]

Short(t, s) ==
    s = "DEBIT_PENDING" /\ ComputeBalance(ledger[From[t]]) < AmountOf[t]

EnterStep(t, s) ==
    \/ /\ s = "DEBIT_PENDING"
       /\ L!TransferDebit(From[t], t, AmountOf[t], TransferCurrency[t])
    \/ /\ s = "CREDIT_PENDING"
       /\ L!TransferCredit(To[t], t, AmountOf[t], TransferCurrency[t])
    \/ /\ s = "COMPENSATING"
       /\ L!TransferReversal(From[t], t, AmountOf[t], TransferCurrency[t])

ServedOk(t, s) ==
    \/ EnterStep(t, s)
    \/ Eligible(t, s) /\ Entered(t, s) /\ UNCHANGED accountVars

\* Mutant: the funds are checked before an earlier entry is looked up.
RefusedByFundsFirst(t, s) ==
    /\ ~Eligible(t, s) \/ Short(t, s)
    /\ UNCHANGED accountVars

Refused(t, s) ==
    /\ ~Eligible(t, s) \/ (~Entered(t, s) /\ Short(t, s))
    /\ UNCHANGED accountVars
-----------------------------------------------------------------------------
(* The saga runner.                                                        *)

\* updateMany where the state is still the one expected.
ClaimTransfer(t, from, to) ==
    saga' = [saga EXCEPT ![t] = IF @ = from THEN to ELSE @]

\* Mutant: the outbox row is not part of the transaction.
AdvanceWithoutEvent(t, state, event) ==
    saga' = [saga EXCEPT ![t] = state] /\ UNCHANGED outbox

AdvanceWithEvent(t, state, event) ==
    /\ saga' = [saga EXCEPT ![t] = state]
    /\ outbox' = [outbox EXCEPT ![t] = Append(@, event)]

\* A tick begins: findNonTerminalTransfers.
Tick(w) ==
    LET rows == {x \in Task : saga[x[1]] = x[2]} IN
    /\ pc[w] = "ready"
    /\ todo[w] = {}
    /\ rows # {}
    /\ todo' = [todo EXCEPT ![w] = rows]
    /\ UNCHANGED <<accountVars, transferVars, job, pc, late, faults>>

Take(w, t, s) ==
    /\ pc[w] = "ready"
    /\ <<t, s>> \in todo[w]
    /\ todo' = [todo EXCEPT ![w] = @ \ {<<t, s>>}]

ClaimedAs == [INITIATED |-> "DEBIT_PENDING", DEBIT_COMPLETE |-> "CREDIT_PENDING"]

\* The states INITIATED and DEBIT_COMPLETE only claim the next one.
Claim(w, t, s) ==
    /\ Take(w, t, s)
    /\ ClaimTransfer(t, s, ClaimedAs[s])
    /\ UNCHANGED <<accountVars, checked, outbox, job, pc, late, faults>>

\* tick() logs the error of one transfer and goes on with the next.
ClaimFails(w, t, s) ==
    /\ Take(w, t, s)
    /\ Fault("db")
    /\ UNCHANGED <<accountVars, transferVars, job, pc, late>>

\* The worker calls Accounts and has its answer, or an exception.
CallAccounts(w, t, s) ==
    /\ Take(w, t, s)
    /\ job' = [job EXCEPT ![w] = <<t, s>>]
    /\ \/ /\ ServedOk(t, s)
          /\ pc' = [pc EXCEPT ![w] = "settle"]
          /\ UNCHANGED <<late, faults>>
       \/ /\ Refused(t, s)
          /\ pc' = [pc EXCEPT ![w] = "catch"]
          /\ UNCHANGED <<late, faults>>
       \/ /\ Fault("error")
          /\ pc' = [pc EXCEPT ![w] = "catch"]
          /\ UNCHANGED <<accountVars, late>>
       \/ /\ Fault("lost")
          /\ pc' = [pc EXCEPT ![w] = "catch"]
          /\ late' = late \cup {<<t, s>>}
          /\ UNCHANGED accountVars
    /\ UNCHANGED transferVars

\* A call its caller gave up on is served, or never is.
ServeLate(t, s) ==
    /\ <<t, s>> \in late
    /\ late' = late \ {<<t, s>>}
    /\ ServedOk(t, s) \/ Refused(t, s)
    /\ UNCHANGED <<transferVars, workerVars, faults>>

\* Mutant: the worker keeps hold of the transfer it has dealt with.
DoneButHolding(w) == pc' = [pc EXCEPT ![w] = "ready"] /\ UNCHANGED <<todo, job>>

Done(w) ==
    /\ job' = [job EXCEPT ![w] = NoTask]
    /\ pc' = [pc EXCEPT ![w] = "ready"]
    /\ UNCHANGED todo

\* After a good answer.  Only the debit's write looks at the state.
RecordSuccess(t, s) ==
    \/ /\ s = "DEBIT_PENDING"
       /\ ClaimTransfer(t, "DEBIT_PENDING", "DEBIT_COMPLETE")
       /\ UNCHANGED outbox
    \/ s = "CREDIT_PENDING" /\ AdvanceWithEvent(t, "COMPLETED", "transfer.completed")
    \/ s = "COMPENSATING" /\ AdvanceWithEvent(t, "COMPENSATED", "transfer.failed")

Settle(w) ==
    /\ pc[w] = "settle"
    /\ RecordSuccess(job[w][1], job[w][2])
    /\ Done(w)
    /\ UNCHANGED <<accountVars, checked, late, faults>>

\* The write is inside the try, so its error lands in the same catch as a
\* refusal by Accounts; it may have been committed all the same.
SettleFails(w) ==
    /\ pc[w] = "settle"
    /\ Fault("db")
    /\ \/ RecordSuccess(job[w][1], job[w][2])
       \/ UNCHANGED <<saga, outbox>>
    /\ pc' = [pc EXCEPT ![w] = "catch"]
    /\ UNCHANGED <<accountVars, checked, todo, job, late>>

\* Mutant: a refused debit is compensated too.
CompensateAlways(t, s) ==
    /\ saga' = [saga EXCEPT ![t] = "COMPENSATING"]
    /\ UNCHANGED outbox

\* Mutant: a refused credit ends the transfer without compensation.
FailAlways(t, s) ==
    \/ s # "COMPENSATING" /\ AdvanceWithEvent(t, "FAILED", "transfer.failed")
    \/ s = "COMPENSATING" /\ UNCHANGED <<saga, outbox>>

\* Mutant: a refused debit is tried again at the next tick.
RetryDebit(t, s) ==
    \/ s # "CREDIT_PENDING" /\ UNCHANGED <<saga, outbox>>
    \/ /\ s = "CREDIT_PENDING"
       /\ saga' = [saga EXCEPT ![t] = "COMPENSATING"]
       /\ UNCHANGED outbox

\* Mutant: a refused debit begins again.
RetryFromStart(t, s) ==
    \/ s = "COMPENSATING" /\ UNCHANGED <<saga, outbox>>
    \/ /\ s # "COMPENSATING"
       /\ saga' = [saga EXCEPT ![t] = IF s = "DEBIT_PENDING" THEN "INITIATED" ELSE "COMPENSATING"]
       /\ UNCHANGED outbox

\* The catch blocks: none looks at the state, or at what went wrong.
RecordFailure(t, s) ==
    \/ s = "DEBIT_PENDING" /\ AdvanceWithEvent(t, "FAILED", "transfer.failed")
    \/ /\ s = "CREDIT_PENDING"
       /\ saga' = [saga EXCEPT ![t] = "COMPENSATING"]
       /\ UNCHANGED outbox
    \/ s = "COMPENSATING" /\ UNCHANGED <<saga, outbox>>

Catch(w) ==
    /\ pc[w] = "catch"
    /\ RecordFailure(job[w][1], job[w][2])
    /\ Done(w)
    /\ UNCHANGED <<accountVars, checked, late, faults>>

CatchFails(w) ==
    /\ pc[w] = "catch"
    /\ job[w][2] # "COMPENSATING"
    /\ Fault("db")
    /\ Done(w)
    /\ UNCHANGED <<accountVars, transferVars, late>>

\* The worker's process stops between two steps; a restart polls anew.
Crash(w) ==
    /\ todo[w] # {} \/ pc[w] # "ready"
    /\ Fault("crash")
    /\ todo' = [todo EXCEPT ![w] = {}]
    /\ job' = [job EXCEPT ![w] = NoTask]
    /\ pc' = [pc EXCEPT ![w] = "ready"]
    /\ UNCHANGED <<accountVars, transferVars, late>>

Advance(w) ==
    \/ Tick(w)
    \/ \E t \in Transfer, s \in ClaimState : Claim(w, t, s)
    \/ \E t \in Transfer, s \in CallState : CallAccounts(w, t, s)
    \/ Settle(w)
    \/ Catch(w)

Fail(w) ==
    \/ \E t \in Transfer, s \in ClaimState : ClaimFails(w, t, s)
    \/ SettleFails(w)
    \/ CatchFails(w)
    \/ Crash(w)
-----------------------------------------------------------------------------
\* The owners' own operations.
Owners ==
    /\ \E a \in Account :
          \/ L!CreateAccount(a)
          \/ a \in Closable /\ status[a] = "ACTIVE" /\ L!CloseAccount(a)
          \/ \E n \in Amount :
                /\ Len(ledger[a]) < UserRows
                /\ L!Deposit(a, n) \/ L!Withdraw(a, n)
    /\ UNCHANGED <<transferVars, workerVars, late, faults>>

\* Nothing to poll, and no owner acts.
Idle ==
    /\ \A t \in Transfer : saga[t] \notin NonTerminal
    /\ \A w \in Worker : todo[w] = {} /\ pc[w] = "ready"
    /\ UNCHANGED vars

Next ==
    \/ \E t \in Transfer : CheckSource(t) \/ CreateTransfer(t)
    \/ \E w \in Worker : Advance(w) \/ Fail(w)
    \/ \E t \in Transfer, s \in CallState : ServeLate(t, s)
    \/ Owners
    \/ Idle

Spec == Init /\ [][Next]_vars

\* The interval timer fires again and again and every call returns or throws;
\* faults are not fair, nor is what owners do.
FairSpec == Spec /\ \A w \in Worker : WF_vars(Advance(w))
-----------------------------------------------------------------------------
Debited(t) == Entered(t, "DEBIT_PENDING")
Credited(t) == Entered(t, "CREDIT_PENDING")
Reversed(t) == Entered(t, "COMPENSATING")

\* No transfer pays out, to its destination or back, what it did not take:
\* whatever workers overlap, crash, retry or lose answers.
DebitFirst == \A t \in Transfer : Credited(t) \/ Reversed(t) => Debited(t)

\* A transfer in a terminal state has an outbox row that says so, and it is
\* the last one written for it.
TerminalAnnounced ==
    \A t \in Transfer : saga[t] \in Terminal =>
        /\ outbox[t] # <<>>
        /\ outbox[t][Len(outbox[t])] =
              IF saga[t] = "COMPLETED" THEN "transfer.completed" ELSE "transfer.failed"

\* What a terminal state says of the money is so: a completed transfer is
\* debited and credited, a compensated one debited and reversed, a failed
\* one never happened.
Settled ==
    \A t \in Transfer :
        /\ saga[t] = "COMPLETED" => Debited(t) /\ Credited(t) /\ ~Reversed(t)
        /\ saga[t] = "COMPENSATED" => Debited(t) /\ ~Credited(t) /\ Reversed(t)
        /\ saga[t] = "FAILED" => ~Debited(t)

\* The place of a transfer's money in TransferProtocol.
Place(t) ==
    CASE Credited(t) -> "destination"
      [] ~Credited(t) /\ Reversed(t) -> "returned"
      [] ~Credited(t) /\ ~Reversed(t) /\ Debited(t) -> "transit"
      [] OTHER -> "source"

Protocol == INSTANCE TransferProtocol WITH
    outcome <- [t \in Transfer |-> IF saga[t] \in NonTerminal THEN "OPEN" ELSE saga[t]],
    place <- [t \in Transfer |-> Place(t)],
    events <- outbox

\* The orchestrator and its ledger implement the protocol: the money of a
\* transfer moves as its state allows, a terminal state is final and true,
\* and exactly one event announces it.
ProtocolSpec == Protocol!Spec

\* Every transfer comes to an end; only one whose source is closed may not.
EventuallyTerminal ==
    \A t \in Transfer :
        saga[t] = "INITIATED" ~> saga[t] \in Terminal \/ status[From[t]] = "CLOSED"

\* FAILED means that Accounts refused the debit.
FailedMeansRefused == \A t \in Transfer : saga[t] = "FAILED" => ~Debited(t)
=============================================================================
