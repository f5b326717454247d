----------------------------- MODULE SagaProofs -----------------------------
(***************************************************************************)
(* Proofs about TransferSaga, for any transfers, accounts and amounts, any *)
(* number of overlapping workers and any number of faults of every kind.   *)
(*                                                                         *)
(* Whatever overlaps, a transfer's money is paid out or given back only    *)
(* after it was taken.  Rows are never removed, so it is enough that       *)
(* everything which may still lead to a credit or a reversal, be it a      *)
(* state, a row of some worker's old snapshot, an answer or an abandoned   *)
(* call, came about after the debit.  IInv says so of each of them.        *)
(***************************************************************************)
EXTENDS TransferSaga, TLAPS

\* The non-terminal states that only a debited transfer reaches.
Moved == {"DEBIT_COMPLETE", "CREDIT_PENDING", "COMPENSATING"}

TransferInv(t) ==
    /\ saga[t] \in Moved \cup {"COMPLETED", "COMPENSATED"} => Debited(t)
    /\ Credited(t) \/ Reversed(t) => Debited(t)

WorkerInv(w) ==
    /\ \A x \in todo[w] : x[2] \in Moved => Debited(x[1])
    /\ pc[w] # "ready" /\ (job[w][2] \in Moved \/ pc[w] = "settle") =>
          Debited(job[w][1])

LateInv == \A x \in late : x[2] \in Moved => Debited(x[1])

IInv ==
    /\ TypeOK
    /\ \A t \in Transfer : TransferInv(t)
    /\ \A w \in Worker : WorkerInv(w)
    /\ LateInv
-----------------------------------------------------------------------------
(* What a step does to the ledger.                                         *)

\* The steps of transfers that are entered stay so.
Grows == \A t \in Transfer, s \in CallState : Entered(t, s) => Entered(t, s)'

\* No step of a transfer is entered or removed.
SameEntries == \A t \in Transfer, s \in CallState : Entered(t, s) <=> Entered(t, s)'

LEMMA UntouchedLedger == UNCHANGED ledger => SameEntries
BY DEF SameEntries, Entered, Target

\* A row appended to a is found afterwards, with all that was found before.
LEMMA EnterAddsOne ==
    ASSUME L!TypeOK, NEW a \in Account, NEW type \in EntryType, NEW n \in Nat,
           NEW ref \in Transfer \cup {NoTransfer}, L!Enter(a, type, n, ref)
    PROVE  /\ L!TypeOK'
           /\ \A b \in Account, ty \in EntryType, r \in Transfer :
                 Existing(ledger'[b], ty, r) <=>
                    \/ Existing(ledger[b], ty, r)
                    \/ b = a /\ ty = type /\ r = ref
<1> DEFINE row == L!NewRow(type, n, ref)
           rows == ledger[a]
           more == Append(rows, row)
<1>1. row \in Row /\ row.type = type /\ row.ref = ref
  BY DEF L!NewRow, Row
<1>2. ledger \in [Account -> Seq(Row)] /\ L!Row = Row
  BY DEF L!TypeOK, L!Row, Row, L!EntryType, EntryType
<1>3. rows \in Seq(Row) /\ ledger' = [ledger EXCEPT ![a] = more]
  BY <1>2 DEF L!Enter
<1> HIDE DEF rows, row
<1>4. more \in Seq(Row)
  BY <1>1, <1>3
<1>5. L!TypeOK'
  BY <1>2, <1>3, <1>4 DEF L!TypeOK, L!Enter
<1>6. \A ty, r : Existing(more, ty, r) <=> Existing(rows, ty, r) \/ (ty = type /\ r = ref)
  <2>1. /\ Len(rows) \in Nat
        /\ DOMAIN rows = 1 .. Len(rows)
        /\ DOMAIN more = 1 .. Len(rows) + 1
        /\ more[Len(rows) + 1] = row
        /\ \A k \in 1 .. Len(rows) : more[k] = rows[k]
    BY <1>1, <1>3
  <2> HIDE DEF more
  <2>2. \A k \in DOMAIN more : k \in DOMAIN rows \/ k = Len(rows) + 1
    BY <2>1
  <2>3. Len(rows) + 1 \in DOMAIN more /\ \A k \in DOMAIN rows : k \in DOMAIN more
    BY <2>1
  <2>4. QED
    BY <2>1, <2>2, <2>3, <1>1 DEF Existing
<1>7. \A b \in Account : ledger'[b] = IF b = a THEN more ELSE ledger[b]
  BY <1>2, <1>3
<1>8. QED
  BY <1>5, <1>6, <1>7 DEF rows

\* A call that enters its step enters that one only, as Ledger allows.
LEMMA EnterStepAddsOne ==
    ASSUME TypeOK, NEW t \in Transfer, NEW s \in CallState, EnterStep(t, s)
    PROVE  /\ L!TypeOK'
           /\ L!Next
           /\ \A u \in Transfer, z \in CallState :
                 Entered(u, z)' <=> Entered(u, z) \/ (u = t /\ z = s)
<1> DEFINE n == AmountOf[t]
           a == Target(t, s)
<1>1. /\ n \in Amount /\ n \in Nat /\ TransferCurrency[t] \in Currency
      /\ From[t] \in Account /\ To[t] \in Account
      /\ a \in Account /\ EntryTypeOf[s] \in EntryType
  <2>1. AmountOf \in [Transfer -> Amount] /\ Amount \subseteq Nat
    BY SagaAssumption, LedgerAssumption
  <2>2. /\ TransferCurrency[t] \in Currency
        /\ From[t] \in Account /\ To[t] \in Account
    BY SagaAssumption
  <2>3. EntryTypeOf[s] \in EntryType
    BY DEF EntryTypeOf, EntryType, CallState
  <2>4. QED
    BY <2>1, <2>2, <2>3 DEF Target
<1>2. L!Enter(a, EntryTypeOf[s], n, t)
  <2>1. EnterStep(t, s) => L!EnterTransfer(a, EntryTypeOf[s], n, t, TransferCurrency[t])
    BY DEF EnterStep, L!TransferDebit, L!TransferCredit, L!TransferReversal,
           Target, EntryTypeOf, CallState
  <2>2. QED
    BY <2>1 DEF L!EnterTransfer
<1>3. L!Next
  BY <1>1 DEF EnterStep, L!Next
<1>4. L!TypeOK
  BY DEF TypeOK
<1>5. /\ L!TypeOK'
      /\ \A b \in Account, ty \in EntryType, r \in Transfer :
            Existing(ledger'[b], ty, r) <=>
               \/ Existing(ledger[b], ty, r)
               \/ b = a /\ ty = EntryTypeOf[s] /\ r = t
  <2> HIDE DEF a, n
  <2>1. QED
    BY <1>1, <1>2, <1>4, EnterAddsOne
<1>6. ASSUME NEW u \in Transfer, NEW z \in CallState
      PROVE  Entered(u, z)' <=> Entered(u, z) \/ (u = t /\ z = s)
  <2>1. Target(u, z) \in Account /\ EntryTypeOf[z] \in EntryType
    BY SagaAssumption DEF Target, EntryTypeOf, EntryType, CallState
  <2>2. EntryTypeOf[z] = EntryTypeOf[s] => z = s
    BY DEF EntryTypeOf, CallState
  <2>3. Entered(u, z)' <=> Existing(ledger'[Target(u, z)], EntryTypeOf[z], u)
    BY DEF Entered, Target
  <2>4. Entered(u, z) <=> Existing(ledger[Target(u, z)], EntryTypeOf[z], u)
    BY DEF Entered
  <2> HIDE DEF a
  <2>5. Existing(ledger'[Target(u, z)], EntryTypeOf[z], u) <=>
           \/ Existing(ledger[Target(u, z)], EntryTypeOf[z], u)
           \/ Target(u, z) = a /\ EntryTypeOf[z] = EntryTypeOf[s] /\ u = t
    BY <1>5, <2>1
  <2>6. u = t /\ z = s => Target(u, z) = a
    BY DEF a
  <2>7. QED
    BY <2>2, <2>3, <2>4, <2>5, <2>6
<1>7. QED
  BY <1>3, <1>5, <1>6

\* A call answered OK leaves its step entered, and the others as they were.
LEMMA ServedEntered ==
    ASSUME TypeOK, NEW t \in Transfer, NEW s \in CallState, ServedOk(t, s)
    PROVE  /\ L!TypeOK'
           /\ L!Next \/ UNCHANGED accountVars
           /\ \A u \in Transfer, z \in CallState :
                 Entered(u, z)' <=> Entered(u, z) \/ (u = t /\ z = s)
<1>1. CASE EnterStep(t, s)
  BY <1>1, EnterStepAddsOne
<1>2. CASE Entered(t, s) /\ UNCHANGED accountVars
  <2>1. L!TypeOK'
    BY <1>2 DEF TypeOK, L!TypeOK, accountVars
  <2>2. SameEntries
    BY <1>2, UntouchedLedger DEF accountVars
  <2>3. QED
    BY <1>2, <2>1, <2>2 DEF SameEntries
<1>3. QED
  BY <1>1, <1>2 DEF ServedOk

\* What owners do enters and removes no step of a transfer.
LEMMA OwnersKeepEntries ==
    ASSUME TypeOK, Owners
    PROVE  L!TypeOK' /\ L!Next /\ SameEntries
<1>1. PICK a \in Account :
          \/ L!CreateAccount(a) \/ L!CloseAccount(a)
          \/ \E n \in Amount : L!Deposit(a, n) \/ L!Withdraw(a, n)
  BY DEF Owners
<1>2. L!Next
  BY <1>1 DEF L!Next
<1>3. CASE L!CreateAccount(a) \/ L!CloseAccount(a)
  <2>1. L!TypeOK'
    BY <1>3 DEF TypeOK, L!TypeOK, L!Status, L!CreateAccount, L!CloseAccount
  <2>2. UNCHANGED ledger
    BY <1>3 DEF L!CreateAccount, L!CloseAccount
  <2>3. QED
    BY <1>2, <2>1, <2>2, UntouchedLedger
<1>4. ASSUME NEW n \in Amount, L!Deposit(a, n) \/ L!Withdraw(a, n)
      PROVE  L!TypeOK' /\ SameEntries
  <2>1. PICK type \in EntryType : L!Enter(a, type, n, NoTransfer)
    BY <1>4 DEF L!Deposit, L!Withdraw, EntryType
  <2>2. n \in Nat /\ L!TypeOK /\ NoTransfer \notin Transfer
    BY LedgerAssumption DEF TypeOK
  <2>3. /\ L!TypeOK'
        /\ \A b \in Account, ty \in EntryType, r \in Transfer :
              Existing(ledger'[b], ty, r) <=> Existing(ledger[b], ty, r)
    BY <2>1, <2>2, EnterAddsOne
  <2>4. ASSUME NEW t \in Transfer, NEW s \in CallState
        PROVE  Entered(t, s) <=> Entered(t, s)'
    <3>1. Target(t, s) \in Account /\ EntryTypeOf[s] \in EntryType
      BY SagaAssumption DEF Target, EntryTypeOf, EntryType, CallState
    <3>2. QED
      BY <2>3, <3>1 DEF Entered, Target
  <2>5. QED
    BY <2>3, <2>4 DEF SameEntries
<1>5. QED
  BY <1>1, <1>2, <1>3, <1>4
-----------------------------------------------------------------------------
(* The invariant.                                                          *)

LEMMA InitIInv == Init => IInv
<1> SUFFICES ASSUME Init PROVE IInv
  OBVIOUS
<1>1. \A t \in Transfer, s \in CallState : ~Entered(t, s)
  <2> SUFFICES ASSUME NEW t \in Transfer, NEW s \in CallState
               PROVE  ~Entered(t, s)
    OBVIOUS
  <2>1. ledger[Target(t, s)] = <<>>
    BY SagaAssumption DEF Init, L!Init, Target
  <2>2. QED
    BY <2>1 DEF Entered, Existing
<1>2. TypeOK
  BY DEF Init, L!Init, TypeOK, L!TypeOK, L!Status, NonTerminal, ClaimState, CallState
<1>3. QED
  BY <1>1, <1>2 DEF Init, IInv, TransferInv, WorkerInv, LateInv, Moved, Credited,
                    Reversed, CallState

\* What is known of debits survives a step that enters nothing.
LEMMA SameDebits ==
    ASSUME SameEntries, NEW t \in Transfer
    PROVE  /\ Debited(t)' <=> Debited(t)
           /\ Credited(t)' <=> Credited(t)
           /\ Reversed(t)' <=> Reversed(t)
BY DEF SameEntries, Debited, Credited, Reversed, CallState

\* A step of no worker that leaves the states alone and enters nothing.
LEMMA OwnersKeepInv == IInv /\ Owners => IInv'
<1> SUFFICES ASSUME IInv, Owners PROVE IInv'
  OBVIOUS
<1>1. L!TypeOK' /\ SameEntries
  BY OwnersKeepEntries DEF IInv
<1>2. UNCHANGED <<transferVars, workerVars, late, faults>>
  BY DEF Owners
<1>3. TypeOK'
  BY <1>1, <1>2 DEF IInv, TypeOK, transferVars, workerVars
<1>4. \A t \in Transfer : TransferInv(t)'
  BY <1>1, <1>2, SameDebits DEF IInv, TransferInv, transferVars
<1>5. ASSUME NEW w \in Worker PROVE WorkerInv(w)'
  BY <1>1, <1>2, SameDebits DEF IInv, TypeOK, Task, WorkerInv, workerVars
<1>6. LateInv'
  BY <1>1, <1>2, SameDebits DEF IInv, TypeOK, LateInv
<1>7. QED
  BY <1>3, <1>4, <1>5, <1>6 DEF IInv

\* The writes to transfers and outbox_events, after the call of t in state s.
LEMMA RecordKeepsInv ==
    ASSUME IInv, UNCHANGED ledger, NEW t \in Transfer, NEW s \in CallState,
           \/ RecordSuccess(t, s) /\ Debited(t)
           \/ RecordFailure(t, s) /\ (s \in Moved => Debited(t))
           \/ UNCHANGED <<saga, outbox>>
    PROVE  /\ saga' \in [Transfer -> NonTerminal \cup Terminal \cup {"NONE"}]
           /\ outbox' \in [Transfer -> Seq(Event)]
           /\ \A u \in Transfer : TransferInv(u)'
<1>1. /\ saga \in [Transfer -> NonTerminal \cup Terminal \cup {"NONE"}]
      /\ outbox \in [Transfer -> Seq(Event)]
  BY DEF IInv, TypeOK
<1>2. /\ saga' \in [Transfer -> NonTerminal \cup Terminal \cup {"NONE"}]
      /\ outbox' \in [Transfer -> Seq(Event)]
  <2>1. saga' \in [Transfer -> NonTerminal \cup Terminal \cup {"NONE"}]
    BY <1>1 DEF RecordSuccess, RecordFailure, ClaimTransfer, AdvanceWithEvent,
                NonTerminal, ClaimState, CallState, Terminal
  <2>2. \/ outbox' = outbox
        \/ \E e \in Event : outbox' = [outbox EXCEPT ![t] = Append(@, e)]
    BY DEF RecordSuccess, RecordFailure, AdvanceWithEvent, Event
  <2>3. ASSUME NEW e \in Event, outbox' = [outbox EXCEPT ![t] = Append(@, e)]
        PROVE  outbox' \in [Transfer -> Seq(Event)]
    <3>1. Append(outbox[t], e) \in Seq(Event)
      BY <1>1
    <3>2. QED
      BY <1>1, <2>3, <3>1
  <2>4. QED
    BY <1>1, <2>1, <2>2, <2>3
<1>3. ASSUME NEW u \in Transfer
      PROVE  saga'[u] = saga[u] \/ (u = t /\ (saga'[t] = "FAILED" \/ Debited(t)))
  BY <1>1 DEF RecordSuccess, RecordFailure, ClaimTransfer, AdvanceWithEvent, Moved
<1>4. ASSUME NEW u \in Transfer
      PROVE  TransferInv(u)'
  BY <1>3, UntouchedLedger, SameDebits DEF IInv, TransferInv, Moved
<1>5. QED
  BY <1>2, <1>4

\* The end of a worker's turn, or of its process.
LEMMA WorkerStepsKeepInv ==
    ASSUME IInv, NEW w \in Worker,
           Settle(w) \/ SettleFails(w) \/ Catch(w) \/ CatchFails(w) \/ Crash(w)
    PROVE  IInv'
<1> DEFINE t == job[w][1]
           s == job[w][2]
<1>1. UNCHANGED <<accountVars, checked, late>>
  BY DEF Settle, SettleFails, Catch, CatchFails, Crash, transferVars
<1>2. SameEntries /\ L!TypeOK'
  BY <1>1, UntouchedLedger DEF accountVars, IInv, TypeOK, L!TypeOK
<1>3. /\ saga' \in [Transfer -> NonTerminal \cup Terminal \cup {"NONE"}]
      /\ outbox' \in [Transfer -> Seq(Event)]
      /\ \A u \in Transfer : TransferInv(u)'
  <2>1. CASE pc[w] = "ready"
    <3>1. UNCHANGED <<saga, outbox>>
      BY <2>1 DEF Settle, SettleFails, Catch, CatchFails, Crash, transferVars
    <3>2. QED
      BY <1>2, <3>1, SameDebits DEF IInv, TypeOK, TransferInv
  <2>2. CASE pc[w] # "ready"
    <3>1. t \in Transfer /\ s \in CallState
      BY <2>2 DEF IInv, TypeOK
    <3>2. /\ pc[w] = "settle" => Debited(t)
          /\ s \in Moved => Debited(t)
      BY <2>2 DEF IInv, WorkerInv
    <3>3. \/ RecordSuccess(t, s) /\ Debited(t)
          \/ RecordFailure(t, s) /\ (s \in Moved => Debited(t))
          \/ UNCHANGED <<saga, outbox>>
      BY <3>2 DEF Settle, SettleFails, Catch, CatchFails, Crash, transferVars
    <3> HIDE DEF t, s
    <3>4. UNCHANGED ledger
      BY <1>1 DEF accountVars
    <3>5. QED
      BY <3>1, <3>3, <3>4, RecordKeepsInv
  <2>3. QED
    BY <2>1, <2>2
<1>4. /\ todo' \in [Worker -> SUBSET Task]
      /\ job' \in [Worker -> (Transfer \X CallState) \cup {NoTask}]
      /\ pc' \in [Worker -> {"ready", "settle", "catch"}]
      /\ \A v \in Worker : pc'[v] = "ready" <=> job'[v] = NoTask
      /\ faults' \in [FaultKind -> Nat]
  <2>1. TypeOK
    BY DEF IInv
  <2>2. todo' \in [Worker -> SUBSET Task]
    BY <2>1 DEF TypeOK, Settle, SettleFails, Catch, CatchFails, Crash, Done
  <2>3. /\ job' \in [Worker -> (Transfer \X CallState) \cup {NoTask}]
        /\ pc' \in [Worker -> {"ready", "settle", "catch"}]
    BY <2>1 DEF TypeOK, Settle, SettleFails, Catch, CatchFails, Crash, Done
  <2>4. \/ /\ job' = [job EXCEPT ![w] = NoTask]
           /\ pc' = [pc EXCEPT ![w] = "ready"]
        \/ /\ job' = job
           /\ pc[w] = "settle"
           /\ pc' = [pc EXCEPT ![w] = "catch"]
    BY DEF Settle, SettleFails, Catch, CatchFails, Crash, Done
  <2>5. \A v \in Worker : pc'[v] = "ready" <=> job'[v] = NoTask
    BY <2>1, <2>4 DEF TypeOK
  <2>6. faults' \in [FaultKind -> Nat]
    BY <2>1 DEF TypeOK, Settle, SettleFails, Catch, CatchFails, Crash, Fault
  <2>7. QED
    BY <2>2, <2>3, <2>5, <2>6
<1>5. TypeOK'
  BY <1>1, <1>2, <1>3, <1>4 DEF TypeOK, IInv
<1>6. ASSUME NEW v \in Worker PROVE WorkerInv(v)'
  <2>1. /\ todo'[v] \subseteq todo[v]
        /\ pc'[v] # "ready" => job'[v] = job[v] /\ pc[v] # "ready"
        /\ pc'[v] = "settle" => pc[v] = "settle"
    BY DEF Settle, SettleFails, Catch, CatchFails, Crash, Done, IInv, TypeOK
  <2>2. pc'[v] # "ready" => job[v] \in Transfer \X CallState
    BY <2>1 DEF IInv, TypeOK
  <2>3. \A x \in todo[v] : x[1] \in Transfer
    BY DEF IInv, TypeOK, Task
  <2>4. WorkerInv(v)
    BY DEF IInv
  <2>5. QED
    BY <1>2, <2>1, <2>2, <2>3, <2>4, SameDebits DEF WorkerInv
<1>7. LateInv'
  BY <1>1, <1>2, SameDebits DEF IInv, TypeOK, LateInv
<1>8. QED
  BY <1>3, <1>5, <1>6, <1>7 DEF IInv

\* A new transfer, and a worker that takes a snapshot or a row of it.
LEMMA CreationKeepsInv ==
    ASSUME IInv, NEW t \in Transfer, CheckSource(t) \/ CreateTransfer(t)
    PROVE  IInv'
<1>1. /\ UNCHANGED <<accountVars, outbox, workerVars, late, faults>>
      /\ checked' \subseteq Transfer
      /\ saga' = saga \/ saga' = [saga EXCEPT ![t] = "INITIATED"]
  BY DEF CheckSource, CreateTransfer, IInv, TypeOK
<1>2. SameEntries /\ L!TypeOK'
  BY <1>1, UntouchedLedger DEF accountVars, IInv, TypeOK, L!TypeOK
<1>3. TypeOK'
  BY <1>1, <1>2 DEF IInv, TypeOK, workerVars, NonTerminal, ClaimState
<1>4. ASSUME NEW u \in Transfer PROVE TransferInv(u)'
  BY <1>1, <1>2, SameDebits DEF IInv, TypeOK, TransferInv, Moved
<1>5. ASSUME NEW w \in Worker PROVE WorkerInv(w)'
  BY <1>1, <1>2, SameDebits DEF IInv, TypeOK, Task, WorkerInv, workerVars
<1>6. LateInv'
  BY <1>1, <1>2, SameDebits DEF IInv, TypeOK, LateInv
<1>7. QED
  BY <1>3, <1>4, <1>5, <1>6 DEF IInv

LEMMA PollKeepsInv ==
    ASSUME IInv, NEW w \in Worker,
           \/ Tick(w)
           \/ \E t \in Transfer, s \in ClaimState : Claim(w, t, s) \/ ClaimFails(w, t, s)
    PROVE  IInv'
<1>1. UNCHANGED <<accountVars, checked, outbox, job, pc, late>>
  BY DEF Tick, Claim, ClaimFails, transferVars
<1>2. SameEntries /\ L!TypeOK'
  BY <1>1, UntouchedLedger DEF accountVars, IInv, TypeOK, L!TypeOK
<1>3. saga \in [Transfer -> NonTerminal \cup Terminal \cup {"NONE"}]
  BY DEF IInv, TypeOK
<1>4. \/ saga' = saga
      \/ \E t \in Transfer, s \in ClaimState : ClaimTransfer(t, s, ClaimedAs[s])
  BY DEF Tick, Claim, ClaimFails, transferVars
<1>5. /\ saga' \in [Transfer -> NonTerminal \cup Terminal \cup {"NONE"}]
      /\ \A u \in Transfer :
            \/ saga'[u] = saga[u]
            \/ saga[u] = "INITIATED" /\ saga'[u] = "DEBIT_PENDING"
            \/ saga[u] = "DEBIT_COMPLETE" /\ saga'[u] = "CREDIT_PENDING"
  BY <1>3, <1>4 DEF ClaimTransfer, ClaimedAs, ClaimState, CallState, NonTerminal
<1>6. /\ todo' \in [Worker -> SUBSET Task]
      /\ \A v \in Worker : \A x \in todo'[v] : x \in todo[v] \/ saga[x[1]] = x[2]
  <2>1. todo \in [Worker -> SUBSET Task]
    BY DEF IInv, TypeOK
  <2>2. \E rows \in SUBSET Task :
           /\ todo' = [todo EXCEPT ![w] = rows]
           /\ \A x \in rows : x \in todo[w] \/ saga[x[1]] = x[2]
    BY <2>1 DEF Tick, Claim, ClaimFails, Take
  <2>3. QED
    BY <2>1, <2>2
<1>7. faults' \in [FaultKind -> Nat]
  BY DEF Tick, Claim, ClaimFails, Fault, IInv, TypeOK
<1>8. TypeOK'
  BY <1>1, <1>2, <1>5, <1>6, <1>7 DEF IInv, TypeOK
<1>9. ASSUME NEW u \in Transfer PROVE TransferInv(u)'
  BY <1>2, <1>5, SameDebits DEF IInv, TransferInv, Moved
<1>10. ASSUME NEW v \in Worker PROVE WorkerInv(v)'
  <2>1. ASSUME NEW x \in todo'[v], x[2] \in Moved PROVE Debited(x[1])'
    <3>1. x[1] \in Transfer
      BY <1>6 DEF Task
    <3>2. Debited(x[1])
      BY <1>6, <2>1, <3>1 DEF IInv, TransferInv, WorkerInv
    <3>3. QED
      BY <1>2, <3>1, <3>2, SameDebits
  <2>2. pc[v] # "ready" => job[v][1] \in Transfer
    BY DEF IInv, TypeOK
  <2>3. WorkerInv(v) /\ UNCHANGED <<job, pc>>
    BY <1>1 DEF IInv
  <2>4. QED
    BY <1>2, <2>1, <2>2, <2>3, SameDebits DEF WorkerInv
<1>11. LateInv'
  BY <1>1, <1>2, SameDebits DEF IInv, TypeOK, LateInv
<1>12. QED
  BY <1>8, <1>9, <1>10, <1>11 DEF IInv

\* The effect of a call of transfer t in state s on what is known of debits:
\* of other transfers nothing changes, and t is only credited or paid back
\* when debited before.
LEMMA CallKeepsTransfers ==
    ASSUME IInv, NEW t \in Transfer, NEW s \in CallState, s \in Moved => Debited(t),
           \/ ServedOk(t, s)
           \/ UNCHANGED accountVars,
           UNCHANGED saga
    PROVE  /\ L!TypeOK'
           /\ \A u \in Transfer : (Debited(u) => Debited(u)') /\ TransferInv(u)'
           /\ ServedOk(t, s) => Debited(t)'
<1>1. CASE ServedOk(t, s)
  <2>1. /\ L!TypeOK'
        /\ \A u \in Transfer, z \in CallState :
              Entered(u, z)' <=> Entered(u, z) \/ (u = t /\ z = s)
    BY <1>1, ServedEntered DEF IInv
  <2>2. \A u \in Transfer :
           /\ Debited(u)' <=> Debited(u) \/ (u = t /\ s = "DEBIT_PENDING")
           /\ Credited(u)' <=> Credited(u) \/ (u = t /\ s = "CREDIT_PENDING")
           /\ Reversed(u)' <=> Reversed(u) \/ (u = t /\ s = "COMPENSATING")
    BY <2>1 DEF Debited, Credited, Reversed, CallState
  <2>3. QED
    BY <2>1, <2>2 DEF IInv, TransferInv, Moved, CallState
<1>2. CASE ~ServedOk(t, s)
  <2>1. L!TypeOK' /\ SameEntries
    BY <1>2, UntouchedLedger DEF accountVars, IInv, TypeOK, L!TypeOK
  <2>2. QED
    BY <1>2, <2>1, SameDebits DEF IInv, TransferInv
<1>3. QED
  BY <1>1, <1>2

LEMMA CallKeepsInv ==
    ASSUME IInv, NEW w \in Worker, NEW t \in Transfer, NEW s \in CallState,
           CallAccounts(w, t, s)
    PROVE  IInv'
<1>1. s \in Moved => Debited(t)
  BY DEF CallAccounts, Take, IInv, WorkerInv
<1>2. /\ ServedOk(t, s) \/ UNCHANGED accountVars
      /\ pc'[w] = "settle" => ServedOk(t, s)
      /\ UNCHANGED transferVars
      /\ late' = late \/ late' = late \cup {<<t, s>>}
      /\ todo' = [todo EXCEPT ![w] = @ \ {<<t, s>>}]
      /\ job' = [job EXCEPT ![w] = <<t, s>>]
      /\ pc' = [pc EXCEPT ![w] = "settle"] \/ pc' = [pc EXCEPT ![w] = "catch"]
  BY DEF CallAccounts, Take, Refused, IInv, TypeOK
<1>3. /\ L!TypeOK'
      /\ \A u \in Transfer : (Debited(u) => Debited(u)') /\ TransferInv(u)'
      /\ ServedOk(t, s) => Debited(t)'
  BY <1>1, <1>2, CallKeepsTransfers DEF transferVars
<1>4. TypeOK'
  <2>1. faults' \in [FaultKind -> Nat]
    <3>1. faults' = faults \/ Fault("error") \/ Fault("lost")
      BY DEF CallAccounts
    <3>2. QED
      BY <3>1 DEF Fault, IInv, TypeOK, FaultKind
  <2>2. TypeOK
    BY DEF IInv
  <2> DEFINE x == <<t, s>>
  <2>0. x \in Transfer \X CallState /\ x # NoTask
    BY DEF NoTask
  <2> HIDE DEF x
  <2>3. /\ todo' \in [Worker -> SUBSET Task]
        /\ job' \in [Worker -> (Transfer \X CallState) \cup {NoTask}]
        /\ pc' \in [Worker -> {"ready", "settle", "catch"}]
        /\ late' \subseteq Transfer \X CallState
    <3>1. /\ todo' = [todo EXCEPT ![w] = @ \ {x}]
          /\ job' = [job EXCEPT ![w] = x]
          /\ late' = late \/ late' = late \cup {x}
      BY <1>2 DEF x
    <3>2. todo' \in [Worker -> SUBSET Task]
      BY <2>2, <3>1 DEF TypeOK
    <3>3. job' \in [Worker -> (Transfer \X CallState) \cup {NoTask}]
      BY <2>0, <2>2, <3>1 DEF TypeOK
    <3>4. late' \subseteq Transfer \X CallState
      BY <2>0, <2>2, <3>1 DEF TypeOK
    <3>5. pc' \in [Worker -> {"ready", "settle", "catch"}]
      BY <1>2, <2>2 DEF TypeOK
    <3>6. QED
      BY <3>2, <3>3, <3>4, <3>5
  <2>4. ASSUME NEW v \in Worker
        PROVE  pc'[v] = "ready" <=> job'[v] = NoTask
    <3>1. job' = [job EXCEPT ![w] = x]
      BY <1>2 DEF x
    <3>2. CASE v = w
      BY <1>2, <2>0, <2>2, <3>1, <3>2 DEF TypeOK
    <3>3. CASE v # w
      BY <1>2, <2>2, <3>1, <3>3 DEF TypeOK
    <3>4. QED
      BY <3>2, <3>3
  <2>5. QED
    BY <1>2, <1>3, <2>1, <2>2, <2>3, <2>4 DEF TypeOK, transferVars
<1>5. ASSUME NEW v \in Worker PROVE WorkerInv(v)'
  <2>1. WorkerInv(v) /\ TypeOK
    BY DEF IInv
  <2>2. todo'[v] \subseteq todo[v] /\ \A x \in todo[v] : x[1] \in Transfer
    BY <1>2, <2>1 DEF TypeOK, Task
  <2>3. CASE v = w
    <3>1. job'[v] = <<t, s>>
      BY <1>2, <2>1, <2>3 DEF TypeOK
    <3>2. QED
      BY <1>1, <1>2, <1>3, <2>1, <2>2, <2>3, <3>1 DEF WorkerInv
  <2>4. CASE v # w
    <3>1. job'[v] = job[v] /\ pc'[v] = pc[v]
      BY <1>2, <2>1, <2>4 DEF TypeOK
    <3>2. pc[v] # "ready" => job[v][1] \in Transfer
      BY <2>1 DEF TypeOK
    <3>3. QED
      BY <1>3, <2>1, <2>2, <3>1, <3>2 DEF WorkerInv
  <2>5. QED
    BY <2>3, <2>4
<1>6. LateInv'
  BY <1>1, <1>2, <1>3 DEF IInv, TypeOK, LateInv
<1>7. QED
  BY <1>3, <1>4, <1>5, <1>6 DEF IInv

LEMMA LateKeepsInv ==
    ASSUME IInv, NEW t \in Transfer, NEW s \in CallState, ServeLate(t, s)
    PROVE  IInv'
<1>1. s \in Moved => Debited(t)
  BY DEF ServeLate, IInv, LateInv
<1>2. /\ ServedOk(t, s) \/ UNCHANGED accountVars
      /\ late' \subseteq late
      /\ UNCHANGED <<transferVars, workerVars, faults>>
  BY DEF ServeLate, Refused
<1>3. /\ L!TypeOK'
      /\ \A u \in Transfer : (Debited(u) => Debited(u)') /\ TransferInv(u)'
  BY <1>1, <1>2, CallKeepsTransfers DEF transferVars
<1>4. TypeOK'
  BY <1>2, <1>3 DEF IInv, TypeOK, transferVars, workerVars
<1>5. ASSUME NEW w \in Worker PROVE WorkerInv(w)'
  BY <1>2, <1>3 DEF IInv, TypeOK, Task, WorkerInv, workerVars
<1>6. LateInv'
  BY <1>2, <1>3 DEF IInv, TypeOK, LateInv
<1>7. QED
  BY <1>3, <1>4, <1>5, <1>6 DEF IInv

LEMMA StepKeepsInv == IInv /\ [Next]_vars => IInv'
<1> SUFFICES ASSUME IInv, [Next]_vars
             PROVE  IInv'
  OBVIOUS
<1>1. ASSUME NEW t \in Transfer, CheckSource(t) \/ CreateTransfer(t)
      PROVE  IInv'
  BY <1>1, CreationKeepsInv
<1>2. ASSUME NEW w \in Worker, Advance(w)
      PROVE  IInv'
  BY <1>2, PollKeepsInv, CallKeepsInv, WorkerStepsKeepInv DEF Advance
<1>3. ASSUME NEW w \in Worker, Fail(w)
      PROVE  IInv'
  BY <1>3, PollKeepsInv, WorkerStepsKeepInv DEF Fail
<1>4. ASSUME NEW t \in Transfer, NEW s \in CallState, ServeLate(t, s)
      PROVE  IInv'
  BY <1>4, LateKeepsInv
<1>5. CASE Owners
  BY <1>5, OwnersKeepInv
<1>6. CASE UNCHANGED vars
  <2>1. SameEntries
    BY <1>6, UntouchedLedger DEF vars, accountVars
  <2>2. TypeOK'
    BY <1>6 DEF vars, accountVars, transferVars, workerVars, IInv, TypeOK, L!TypeOK
  <2>3. \A t \in Transfer : TransferInv(t)'
    BY <1>6, <2>1, SameDebits DEF vars, transferVars, IInv, TransferInv
  <2>4. ASSUME NEW w \in Worker PROVE WorkerInv(w)'
    BY <1>6, <2>1, SameDebits DEF vars, workerVars, IInv, TypeOK, Task, WorkerInv
  <2>5. LateInv'
    BY <1>6, <2>1, SameDebits DEF vars, IInv, TypeOK, LateInv
  <2>6. QED
    BY <2>2, <2>3, <2>4, <2>5 DEF IInv
<1>7. QED
  BY <1>1, <1>2, <1>3, <1>4, <1>5, <1>6 DEF Next, Idle

\* Everything that may still pay out came about after the debit.
THEOREM SagaInvariance == Spec => []IInv
BY InitIInv, StepKeepsInv, PTL DEF Spec

\* TransferSaga keeps its types.
THEOREM SagaTypeCorrect == Spec => []TypeOK
<1>1. IInv => TypeOK
  BY DEF IInv
<1>2. QED
  BY <1>1, SagaInvariance, PTL

\* Whatever workers overlap, crash, retry and lose answers, no transfer pays
\* out, to its destination or back, what it did not take.
THEOREM SagaDebitFirst == Spec => []DebitFirst
<1>1. IInv => DebitFirst
  BY DEF IInv, TransferInv, DebitFirst
<1>2. QED
  BY <1>1, SagaInvariance, PTL

\* The orchestrator and the owners use the accounts only as Ledger allows:
\* what is proved of Ledger holds of the system of both services.
THEOREM SagaUsesLedger == Spec => L!Spec
<1>1. Init => L!Init
  BY DEF Init
<1>2. IInv /\ [Next]_vars => [L!Next]_(L!vars)
  <2> SUFFICES ASSUME IInv, [Next]_vars
               PROVE  L!Next \/ UNCHANGED accountVars
    BY DEF L!vars, accountVars
  <2>1. ASSUME NEW t \in Transfer, NEW s \in CallState, ServedOk(t, s)
        PROVE  L!Next \/ UNCHANGED accountVars
    BY <2>1, ServedEntered DEF IInv
  <2>2. ASSUME NEW w \in Worker, NEW t \in Transfer, NEW s \in CallState,
               CallAccounts(w, t, s) \/ ServeLate(t, s)
        PROVE  ServedOk(t, s) \/ UNCHANGED accountVars
    BY <2>2 DEF CallAccounts, ServeLate, Refused
  <2>3. CASE Owners
    BY <2>3, OwnersKeepEntries DEF IInv
  <2>4. ASSUME NEW w \in Worker, Advance(w) \/ Fail(w)
        PROVE  L!Next \/ UNCHANGED accountVars
    BY <2>1, <2>2, <2>4 DEF Advance, Fail, Tick, Claim, ClaimFails, Settle,
                            SettleFails, Catch, CatchFails, Crash
  <2>5. ASSUME NEW t \in Transfer, NEW s \in CallState, ServeLate(t, s)
        PROVE  L!Next \/ UNCHANGED accountVars
    BY <2>1, <2>5 DEF ServeLate, Refused
  <2>6. ASSUME NEW t \in Transfer, CheckSource(t) \/ CreateTransfer(t)
        PROVE  UNCHANGED accountVars
    BY <2>6 DEF CheckSource, CreateTransfer
  <2>7. CASE UNCHANGED vars
    BY <2>7 DEF vars
  <2>8. QED
    BY <2>3, <2>4, <2>5, <2>6, <2>7 DEF Next, Idle
<1>3. QED
  BY <1>1, <1>2, SagaInvariance, PTL DEF Spec, L!Spec
-----------------------------------------------------------------------------
(* The outbox.                                                             *)

\* The last event of t says what its terminal state says.
Announced(t) ==
    saga[t] \in Terminal =>
        /\ outbox[t] # <<>>
        /\ outbox[t][Len(outbox[t])] =
              IF saga[t] = "COMPLETED" THEN "transfer.completed" ELSE "transfer.failed"

\* A terminal state is written together with its event; any other write
\* leaves a state that is not terminal.
LEMMA WriteKeepsAnnounced ==
    ASSUME TypeOK, NEW t \in Transfer, NEW u \in Transfer, Announced(u),
           \/ \E state \in Terminal :
                 AdvanceWithEvent(t, state, IF state = "COMPLETED"
                                            THEN "transfer.completed"
                                            ELSE "transfer.failed")
           \/ \E state \in NonTerminal :
                 /\ saga' = saga \/ saga' = [saga EXCEPT ![t] = state]
                 /\ UNCHANGED outbox
    PROVE  Announced(u)'
<1>1. CASE UNCHANGED outbox /\ \E state \in NonTerminal :
              saga' = saga \/ saga' = [saga EXCEPT ![t] = state]
  BY <1>1 DEF TypeOK, Announced, Terminal, NonTerminal, ClaimState, CallState
<1>2. ASSUME NEW state \in Terminal, NEW event \in Event,
             event = IF state = "COMPLETED" THEN "transfer.completed"
                                            ELSE "transfer.failed",
             AdvanceWithEvent(t, state, event)
      PROVE  Announced(u)'
  <2>1. /\ saga'[u] = IF u = t THEN state ELSE saga[u]
        /\ outbox'[u] = IF u = t THEN Append(outbox[u], event) ELSE outbox[u]
    BY <1>2 DEF AdvanceWithEvent, TypeOK
  <2>2. outbox[u] \in Seq(Event)
    BY DEF TypeOK
  <2> DEFINE more == Append(outbox[u], event)
  <2>3. more # <<>> /\ more[Len(more)] = event
    BY <1>2, <2>2
  <2> HIDE DEF more
  <2>4. CASE u = t
    <3>1. outbox'[u] = more /\ saga'[u] = state
      BY <2>1, <2>4 DEF more
    <3>2. QED
      BY <1>2, <2>3, <3>1 DEF Announced
  <2>5. CASE u # t
    BY <2>1, <2>5 DEF Announced
  <2>6. QED
    BY <2>4, <2>5
<1>3. QED
  BY <1>1, <1>2 DEF Event

LEMMA RecordKeepsAnnounced ==
    ASSUME TypeOK, NEW t \in Transfer, NEW s \in CallState, NEW u \in Transfer,
           Announced(u), RecordSuccess(t, s) \/ RecordFailure(t, s)
    PROVE  Announced(u)'
<1>1. CASE \/ AdvanceWithEvent(t, "COMPLETED", "transfer.completed")
           \/ AdvanceWithEvent(t, "COMPENSATED", "transfer.failed")
           \/ AdvanceWithEvent(t, "FAILED", "transfer.failed")
  BY <1>1, WriteKeepsAnnounced DEF Terminal
<1>2. CASE /\ UNCHANGED outbox
           /\ \E state \in NonTerminal :
                 saga' = saga \/ saga' = [saga EXCEPT ![t] = state]
  BY <1>2, WriteKeepsAnnounced
<1>3. CASE ClaimTransfer(t, "DEBIT_PENDING", "DEBIT_COMPLETE") /\ UNCHANGED outbox
  <2>1. saga' = saga \/ saga' = [saga EXCEPT ![t] = "DEBIT_COMPLETE"]
    BY <1>3 DEF ClaimTransfer, TypeOK
  <2>2. QED
    BY <1>2, <1>3, <2>1 DEF NonTerminal, ClaimState
<1>4. CASE UNCHANGED outbox /\ saga' = [saga EXCEPT ![t] = "COMPENSATING"]
  BY <1>2, <1>4 DEF NonTerminal, CallState
<1>5. CASE UNCHANGED <<saga, outbox>>
  BY <1>5 DEF Announced
<1>6. QED
  BY <1>1, <1>3, <1>4, <1>5 DEF RecordSuccess, RecordFailure

\* A terminal transfer has an event that agrees with its state, and it is the
\* last: even when one worker writes over what another wrote.
THEOREM SagaTerminalAnnounced == Spec => []TerminalAnnounced
<1> DEFINE Inv == \A t \in Transfer : Announced(t)
<1>1. Init => Inv
  BY DEF Init, Announced, Terminal
<1>2. IInv /\ Inv /\ [Next]_vars => Inv'
  <2> SUFFICES ASSUME IInv, Inv, [Next]_vars, NEW u \in Transfer
               PROVE  Announced(u)'
    OBVIOUS
  <2>0. TypeOK /\ Announced(u)
    BY DEF IInv
  <2>1. CASE UNCHANGED <<saga, outbox>>
    BY <2>0, <2>1 DEF Announced
  <2>2. ASSUME NEW t \in Transfer, CreateTransfer(t)
        PROVE  Announced(u)'
    BY <2>0, <2>2, WriteKeepsAnnounced DEF CreateTransfer, NonTerminal, ClaimState
  <2>3. ASSUME NEW w \in Worker, NEW t \in Transfer, NEW s \in ClaimState, Claim(w, t, s)
        PROVE  Announced(u)'
    <3>1. UNCHANGED outbox /\ ClaimedAs[s] \in NonTerminal
      BY <2>3 DEF Claim, ClaimedAs, NonTerminal, ClaimState, CallState
    <3>2. saga' = saga \/ saga' = [saga EXCEPT ![t] = ClaimedAs[s]]
      BY <2>0, <2>3 DEF Claim, ClaimTransfer, TypeOK
    <3>3. QED
      BY <2>0, <3>1, <3>2, WriteKeepsAnnounced
  <2>4. ASSUME NEW w \in Worker, Settle(w) \/ SettleFails(w) \/ Catch(w)
        PROVE  Announced(u)'
    <3>1. job[w][1] \in Transfer /\ job[w][2] \in CallState
      BY <2>0, <2>4 DEF TypeOK, Settle, SettleFails, Catch
    <3>2. QED
      BY <2>0, <2>1, <2>4, <3>1, RecordKeepsAnnounced DEF Settle, SettleFails, Catch
  <2>5. QED
    BY <2>1, <2>2, <2>3, <2>4
    DEF Next, Advance, Fail, CheckSource, Tick, ClaimFails, CallAccounts, CatchFails,
        Crash, ServeLate, Owners, Idle, transferVars, vars
<1>3. Inv => TerminalAnnounced
  BY DEF Announced, TerminalAnnounced
<1>4. QED
  BY <1>1, <1>2, <1>3, SagaInvariance, PTL DEF Spec
=============================================================================
