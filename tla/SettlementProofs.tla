-------------------------- MODULE SettlementProofs --------------------------
(***************************************************************************)
(* Proofs that a transfer ends as its state says, for any transfers,       *)
(* accounts and amounts, under the conditions Dependable states: a single  *)
(* chain of ticks, no answer and no write lost, and either a process that  *)
(* does not stop in the middle of a tick, or accounts that stay open and   *)
(* answer no 500.  Each condition is needed: without it TLC finds          *)
(* Settled violated, for one lost answer, one failing write, a second      *)
(* worker, a crash and one 500, or a crash and one closing.                *)
(*                                                                         *)
(* Under them a worker's snapshot and its job agree with the rows of       *)
(* transfers, so that every write follows from the state it replaces; and  *)
(* a step that was entered for a transfer is never refused or failed       *)
(* afterwards, so that no catch block takes it back.                       *)
(***************************************************************************)
EXTENDS TransferStatus, SagaProofs

Dependable ==
    /\ \A v, w \in Worker : v = w
    /\ MaxFaults["lost"] = 0 /\ MaxFaults["db"] = 0
    /\ MaxFaults["crash"] = 0 \/ (MaxFaults["error"] = 0 /\ Closable = {})

\* Which steps of t are entered in each state; a pending one may be.
Steps(t) ==
    /\ saga[t] \in {"NONE", "INITIATED", "FAILED"} => ~Debited(t)
    /\ saga[t] \in Moved \cup {"COMPLETED", "COMPENSATED"} => Debited(t)
    /\ saga[t] \notin {"CREDIT_PENDING", "COMPLETED"} => ~Credited(t)
    /\ saga[t] \notin {"COMPENSATING", "COMPENSATED"} => ~Reversed(t)
    /\ saga[t] = "COMPLETED" => Credited(t)
    /\ saga[t] = "COMPENSATED" => Reversed(t)

\* Nothing is announced of t before it ends.
Quiet(t) == saga[t] \notin Terminal => outbox[t] = <<>>

\* What worker w read is still so, and its job is no longer in its snapshot.
Current(w) ==
    /\ \A x \in todo[w] : saga[x[1]] = x[2]
    /\ pc[w] # "ready" =>
          /\ saga[job[w][1]] = job[w][2]
          /\ \A x \in todo[w] : x[1] # job[w][1]

\* Whether the call was served decides how the worker goes on.
Truthful(w) ==
    pc[w] # "ready" => (pc[w] = "settle" <=> Entered(job[w][1], job[w][2]))

\* Where the process does not stop, the step a transfer waits for is entered
\* only while its worker holds the answer.
Fresh(t) ==
    MaxFaults["crash"] = 0 /\ saga[t] \in CallState /\ Entered(t, saga[t]) =>
        \E w \in Worker : pc[w] = "settle" /\ job[w] = <<t, saga[t]>>

\* Where accounts stay open, a step that was entered can be asked for again.
Lasting(t) ==
    Closable = {} => \A s \in CallState : Entered(t, s) => Eligible(t, s)

TransferSettled(t) == Steps(t) /\ Quiet(t) /\ Fresh(t) /\ Lasting(t)

SInv ==
    /\ IInv
    /\ late = {}
    /\ \A t \in Transfer : TransferSettled(t)
    /\ \A w \in Worker : Current(w) /\ Truthful(w)
-----------------------------------------------------------------------------
(* The invariant.                                                          *)

LEMMA InitSInv == Init => SInv
<1> SUFFICES ASSUME Init PROVE SInv
  OBVIOUS
<1>1. \A t \in Transfer, s \in CallState : ~Entered(t, s)
  <2> SUFFICES ASSUME NEW t \in Transfer, NEW s \in CallState
               PROVE  ~Entered(t, s)
    OBVIOUS
  <2>1. ledger[Target(t, s)] = <<>>
    BY SagaAssumption DEF Init, L!Init, Target
  <2>2. QED
    BY <2>1 DEF Entered, Existing
<1>2. IInv
  BY InitIInv
<1>3. ASSUME NEW t \in Transfer PROVE TransferSettled(t)
  BY <1>1, <1>3 DEF Init, TransferSettled, Steps, Quiet, Fresh, Lasting, Debited,
                    Credited, Reversed, CallState, Moved, Terminal
<1>4. ASSUME NEW w \in Worker PROVE Current(w) /\ Truthful(w)
  BY <1>4 DEF Init, Current, Truthful
<1>5. QED
  BY <1>2, <1>3, <1>4 DEF Init, SInv

LEMMA WorkerTypes ==
    ASSUME TypeOK, NEW w \in Worker
    PROVE  /\ \A x \in todo[w] :
                 x = <<x[1], x[2]>> /\ x[1] \in Transfer /\ x[2] \in NonTerminal
           /\ pc[w] # "ready" =>
                 /\ job[w] = <<job[w][1], job[w][2]>>
                 /\ job[w][1] \in Transfer /\ job[w][2] \in CallState
<1>1. todo[w] \subseteq Task
  BY DEF TypeOK
<1>2. pc[w] # "ready" => job[w] \in Transfer \X CallState
  BY DEF TypeOK
<1>3. QED
  BY <1>1, <1>2 DEF Task

\* A step that leaves the transfers and the workers alone, enters no step
\* and makes none ineligible.
LEMMA AsideKeepsSettled ==
    ASSUME SInv, SameEntries, UNCHANGED <<saga, outbox, todo, job, pc>>,
           \A t \in Transfer, s \in CallState : Lasting(t) /\ Entered(t, s) =>
              Lasting(t)'
    PROVE  /\ \A t \in Transfer : TransferSettled(t)'
           /\ \A w \in Worker : Current(w)' /\ Truthful(w)'
<1>0. IInv /\ TypeOK
  BY DEF SInv, IInv
<1>1. ASSUME NEW t \in Transfer PROVE TransferSettled(t)'
  <2>1. TransferSettled(t)
    BY DEF SInv
  <2>2. Steps(t)' /\ Quiet(t)'
    BY <2>1, SameDebits DEF TransferSettled, Steps, Quiet
  <2>3. Fresh(t)'
    BY <2>1 DEF TransferSettled, Fresh, SameEntries
  <2>4. Lasting(t)'
    <3>1. CASE \E s \in CallState : Entered(t, s)
      BY <2>1, <3>1 DEF TransferSettled
    <3>2. CASE \A s \in CallState : ~Entered(t, s)
      BY <3>2 DEF Lasting, SameEntries
    <3>3. QED
      BY <3>1, <3>2
  <2>5. QED
    BY <2>2, <2>3, <2>4 DEF TransferSettled
<1>2. ASSUME NEW w \in Worker PROVE Current(w)' /\ Truthful(w)'
  <2>1. Current(w) /\ Truthful(w)
    BY DEF SInv
  <2>2. pc[w] # "ready" => job[w][1] \in Transfer /\ job[w][2] \in CallState
    BY <1>0, WorkerTypes
  <2>3. Current(w)'
    BY <2>1 DEF Current
  <2>4. Truthful(w)'
    BY <2>1, <2>2 DEF Truthful, SameEntries
  <2>5. QED
    BY <2>3, <2>4
<1>3. QED
  BY <1>1, <1>2

\* A step that leaves the accounts alone.
LEMMA SameAccounts ==
    ASSUME UNCHANGED accountVars
    PROVE  /\ SameEntries
           /\ \A t \in Transfer, s \in CallState :
                 (Entered(t, s)' <=> Entered(t, s)) /\ (Eligible(t, s)' <=> Eligible(t, s))
           /\ \A t \in Transfer :
                 /\ (Debited(t)' <=> Debited(t)) /\ (Credited(t)' <=> Credited(t))
                 /\ (Reversed(t)' <=> Reversed(t)) /\ (Lasting(t)' <=> Lasting(t))
<1>1. SameEntries
  BY UntouchedLedger DEF accountVars
<1>2. \A t \in Transfer, s \in CallState :
         (Entered(t, s)' <=> Entered(t, s)) /\ (Eligible(t, s)' <=> Eligible(t, s))
  BY <1>1 DEF SameEntries, Eligible, Target, accountVars
<1>3. \A t \in Transfer : Lasting(t)' <=> Lasting(t)
  BY <1>2 DEF Lasting
<1>4. QED
  BY <1>1, <1>2, <1>3, SameDebits

LEMMA OwnersKeepSettled ==
    ASSUME SInv, Owners
    PROVE  /\ \A t \in Transfer : TransferSettled(t)'
           /\ \A w \in Worker : Current(w)' /\ Truthful(w)'
<1>1. SameEntries
  BY OwnersKeepEntries DEF SInv, IInv
<1>2. UNCHANGED <<saga, outbox, todo, job, pc>>
  BY DEF Owners, transferVars, workerVars
<1>3. ASSUME NEW t \in Transfer, Lasting(t) PROVE Lasting(t)'
  <2>1. status \in [Account -> L!Status]
    BY DEF SInv, IInv, TypeOK, L!TypeOK
  <2>2. Closable = {} => \A a \in Account : status[a] = "ACTIVE" => status'[a] = "ACTIVE"
    BY <2>1 DEF Owners, L!CreateAccount, L!Deposit, L!Withdraw, L!Enter
  <2>3. ASSUME NEW s \in CallState, Closable = {}, Eligible(t, s)
        PROVE  Eligible(t, s)'
    <3>1. Target(t, s) \in Account
      BY SagaAssumption DEF Target
    <3>2. QED
      BY <2>2, <2>3, <3>1 DEF Eligible, Target
  <2>4. QED
    BY <1>1, <1>3, <2>3 DEF Lasting, SameEntries
<1>4. QED
  BY <1>1, <1>2, <1>3, AsideKeepsSettled

LEMMA CreationKeepsSettled ==
    ASSUME SInv, NEW t \in Transfer, CheckSource(t) \/ CreateTransfer(t)
    PROVE  /\ \A u \in Transfer : TransferSettled(u)'
           /\ \A w \in Worker : Current(w)' /\ Truthful(w)'
<1>1. /\ UNCHANGED <<accountVars, outbox, todo, job, pc>>
      /\ saga[t] = "NONE"
      /\ saga' = saga \/ saga' = [saga EXCEPT ![t] = "INITIATED"]
  BY DEF CheckSource, CreateTransfer, workerVars
<1>2. TypeOK
  BY DEF SInv, IInv
<1>3. ASSUME NEW u \in Transfer PROVE TransferSettled(u)'
  <2>1. TransferSettled(u)
    BY DEF SInv
  <2>2. saga'[u] = saga[u] \/ (saga[u] = "NONE" /\ saga'[u] = "INITIATED")
    BY <1>1, <1>2 DEF TypeOK
  <2>3. Steps(u)' /\ Quiet(u)' /\ Lasting(u)'
    BY <1>1, <2>1, <2>2, SameAccounts DEF TransferSettled, Steps, Quiet, Moved, Terminal
  <2>4. Fresh(u)'
    BY <1>1, <2>1, <2>2, SameAccounts DEF TransferSettled, Fresh, CallState
  <2>5. QED
    BY <2>3, <2>4 DEF TransferSettled
<1>4. ASSUME NEW w \in Worker PROVE Current(w)' /\ Truthful(w)'
  <2>1. Current(w) /\ Truthful(w)
    BY DEF SInv
  <2>2. /\ \A x \in todo[w] : x[1] \in Transfer /\ x[2] # "NONE"
        /\ pc[w] # "ready" => job[w][1] \in Transfer /\ job[w][2] \in CallState
    BY <1>2, WorkerTypes DEF NonTerminal, ClaimState, CallState
  <2>3. \A u \in Transfer : saga[u] # "NONE" => saga'[u] = saga[u]
    BY <1>1, <1>2 DEF TypeOK
  <2>4. Current(w)'
    BY <1>1, <2>1, <2>2, <2>3 DEF Current, CallState
  <2>5. Truthful(w)'
    BY <1>1, <2>1, <2>2, SameAccounts DEF Truthful
  <2>6. QED
    BY <2>4, <2>5
<1>5. QED
  BY <1>3, <1>4

LEMMA TickKeepsSettled ==
    ASSUME Dependable, SInv, NEW w \in Worker, Tick(w)
    PROVE  /\ \A t \in Transfer : TransferSettled(t)'
           /\ \A v \in Worker : Current(v)' /\ Truthful(v)'
<1>1. /\ UNCHANGED <<accountVars, saga, outbox, job, pc>>
      /\ pc[w] = "ready"
      /\ todo' = [todo EXCEPT ![w] = {x \in Task : saga[x[1]] = x[2]}]
  BY DEF Tick, transferVars
<1>2. TypeOK
  BY DEF SInv, IInv
<1>3. ASSUME NEW t \in Transfer PROVE TransferSettled(t)'
  <2>1. TransferSettled(t)
    BY DEF SInv
  <2>2. Fresh(t)'
    BY <1>1, <2>1, SameAccounts DEF TransferSettled, Fresh
  <2>3. QED
    BY <1>1, <2>1, <2>2, SameAccounts DEF TransferSettled, Steps, Quiet
<1>4. ASSUME NEW v \in Worker PROVE Current(v)' /\ Truthful(v)'
  <2>1. v = w
    BY DEF Dependable
  <2>2. todo'[v] = {x \in Task : saga[x[1]] = x[2]}
    BY <1>1, <1>2, <2>1 DEF TypeOK
  <2>3. QED
    BY <1>1, <2>1, <2>2 DEF Current, Truthful
<1>5. QED
  BY <1>3, <1>4

LEMMA ClaimKeepsSettled ==
    ASSUME Dependable, SInv, NEW w \in Worker, NEW t \in Transfer, NEW s \in ClaimState,
           Claim(w, t, s)
    PROVE  /\ \A u \in Transfer : TransferSettled(u)'
           /\ \A v \in Worker : Current(v)' /\ Truthful(v)'
<1>1. TypeOK
  BY DEF SInv, IInv
<1>2. /\ UNCHANGED <<accountVars, outbox, job, pc>>
      /\ pc[w] = "ready"
      /\ <<t, s>> \in todo[w]
      /\ todo' = [todo EXCEPT ![w] = @ \ {<<t, s>>}]
  BY DEF Claim, Take
<1>3. saga[t] = s /\ \A x \in todo[w] : saga[x[1]] = x[2]
  BY <1>2 DEF SInv, Current
<1>4. saga' = [saga EXCEPT ![t] = ClaimedAs[s]]
  BY <1>1, <1>3 DEF Claim, ClaimTransfer, TypeOK
<1>5. \/ saga[t] = "INITIATED" /\ saga'[t] = "DEBIT_PENDING"
      \/ saga[t] = "DEBIT_COMPLETE" /\ saga'[t] = "CREDIT_PENDING"
  BY <1>1, <1>3, <1>4 DEF TypeOK, ClaimedAs, ClaimState
<1>6. ASSUME NEW u \in Transfer PROVE TransferSettled(u)'
  <2>1. TransferSettled(u)
    BY DEF SInv
  <2>2. saga'[u] = IF u = t THEN saga'[t] ELSE saga[u]
    BY <1>1, <1>4 DEF TypeOK
  <2>3. Steps(u)' /\ Quiet(u)' /\ Lasting(u)'
    BY <1>2, <1>5, <2>1, <2>2, SameAccounts
    DEF TransferSettled, Steps, Quiet, Moved, Terminal
  <2>4. Fresh(u)'
    <3>1. CASE u = t
      <4>1. ~Entered(u, saga'[u])
        BY <1>5, <2>1, <3>1 DEF TransferSettled, Steps, Debited, Credited
      <4>2. saga'[u] \in CallState
        BY <1>5, <3>1 DEF CallState
      <4>3. QED
        BY <1>2, <4>1, <4>2, SameAccounts DEF Fresh
    <3>2. CASE u # t
      BY <1>2, <2>1, <2>2, <3>2, SameAccounts DEF TransferSettled, Fresh
    <3>3. QED
      BY <3>1, <3>2
  <2>5. QED
    BY <2>3, <2>4 DEF TransferSettled
<1>7. ASSUME NEW v \in Worker PROVE Current(v)' /\ Truthful(v)'
  <2>1. v = w
    BY DEF Dependable
  <2>2. todo'[v] = todo[v] \ {<<t, s>>} /\ todo[v] \subseteq Task
    BY <1>1, <1>2, <2>1 DEF TypeOK
  <2>3. ASSUME NEW x \in todo'[v] PROVE saga'[x[1]] = x[2]
    <3>1. x \in Task /\ x # <<t, s>> /\ saga[x[1]] = x[2]
      BY <1>3, <2>1, <2>2
    <3>2. x = <<x[1], x[2]>> /\ x[1] \in Transfer
      BY <3>1 DEF Task
    <3>3. x[1] # t
      BY <1>3, <3>1, <3>2
    <3>4. QED
      BY <1>1, <1>4, <3>1, <3>2, <3>3 DEF TypeOK
  <2>4. QED
    BY <1>2, <2>1, <2>3 DEF Current, Truthful
<1>8. QED
  BY <1>6, <1>7

\* A fault that must not happen does not.
LEMMA NoFault ==
    ASSUME TypeOK, NEW kind \in FaultKind, MaxFaults[kind] = 0
    PROVE  ~Fault(kind)
BY SagaAssumption DEF TypeOK, Fault

\* A call that does not end in an answer of the kind "served" leaves the
\* accounts alone, and its step is not entered unless it is a reversal.
LEMMA UnservedCall ==
    ASSUME Dependable, SInv, NEW w \in Worker, NEW t \in Transfer, NEW s \in CallState,
           CallAccounts(w, t, s), pc'[w] # "settle"
    PROVE  UNCHANGED accountVars /\ ~Entered(t, s)
<1>1. TypeOK /\ TransferSettled(t)
  BY DEF SInv, IInv
<1>2. pc[w] = "ready" /\ saga[t] = s
  BY DEF CallAccounts, Take, SInv, Current
<1>3. ~Fault("lost") /\ (MaxFaults["crash"] # 0 => ~Fault("error"))
  BY <1>1, NoFault DEF Dependable, FaultKind
<1>4. \/ Refused(t, s)
      \/ Fault("error") /\ UNCHANGED accountVars
  BY <1>1, <1>3 DEF CallAccounts, TypeOK
<1>5. CASE MaxFaults["crash"] = 0
  <2>1. \A v \in Worker : pc[v] = "ready"
    BY <1>2 DEF Dependable
  <2>2. ~Entered(t, s)
    BY <1>1, <1>2, <1>5, <2>1 DEF TransferSettled, Fresh
  <2>3. QED
    BY <1>4, <2>2 DEF Refused
<1>6. CASE MaxFaults["crash"] # 0
  <2>1. Closable = {} /\ Refused(t, s)
    BY <1>3, <1>4, <1>6 DEF Dependable
  <2>2. Entered(t, s) => Eligible(t, s)
    BY <1>1, <2>1 DEF TransferSettled, Lasting
  <2>3. QED
    BY <2>1, <2>2 DEF Refused
<1>7. QED
  BY <1>5, <1>6

\* A step that has just been entered was eligible, and is.
LEMMA ServedEligible ==
    ASSUME TypeOK, NEW t \in Transfer, NEW s \in CallState, ServedOk(t, s)
    PROVE  Eligible(t, s) /\ UNCHANGED status
<1>1. AmountOf[t] \in Nat
  BY SagaAssumption, LedgerAssumption
<1>2. QED
  BY <1>1 DEF ServedOk, EnterStep, Eligible, Target, CallState, accountVars, L!TransferDebit,
              L!TransferCredit, L!TransferReversal, L!EnterTransfer, L!Enter

LEMMA CallKeepsSettled ==
    ASSUME Dependable, SInv, NEW w \in Worker, NEW t \in Transfer, NEW s \in CallState,
           CallAccounts(w, t, s)
    PROVE  /\ late' = {}
           /\ \A u \in Transfer : TransferSettled(u)'
           /\ \A v \in Worker : Current(v)' /\ Truthful(v)'
<1>1. TypeOK /\ \A u \in Transfer : TransferSettled(u)
  BY DEF SInv, IInv
<1>2. /\ UNCHANGED <<saga, outbox>>
      /\ pc[w] = "ready"
      /\ <<t, s>> \in todo[w]
      /\ todo' = [todo EXCEPT ![w] = @ \ {<<t, s>>}]
      /\ job' = [job EXCEPT ![w] = <<t, s>>]
      /\ pc' = [pc EXCEPT ![w] = "settle"] \/ pc' = [pc EXCEPT ![w] = "catch"]
  BY DEF CallAccounts, Take, transferVars
<1>3. saga[t] = s /\ \A x \in todo[w] : saga[x[1]] = x[2]
  BY <1>2 DEF SInv, Current
<1>4. \A v \in Worker : v = w
  BY DEF Dependable
<1>5. late' = {}
  <2>1. ~Fault("lost")
    BY <1>1, NoFault DEF Dependable, FaultKind
  <2>2. QED
    BY <2>1 DEF CallAccounts, SInv
<1>6. job'[w] = <<t, s>> /\ todo'[w] = todo[w] \ {<<t, s>>}
  BY <1>1, <1>2 DEF TypeOK
<1>7. Current(w)'
  <2>1. ASSUME NEW x \in todo'[w] PROVE saga[x[1]] = x[2] /\ x[1] # t
    <3>1. x \in todo[w] /\ x # <<t, s>> /\ x = <<x[1], x[2]>>
      BY <1>1, <1>6, WorkerTypes
    <3>2. saga[x[1]] = x[2]
      BY <1>3, <3>1
    <3>3. x[1] # t
      BY <1>3, <3>1, <3>2
    <3>4. QED
      BY <3>2, <3>3
  <2>2. job'[w][1] = t /\ job'[w][2] = s
    BY <1>6
  <2>3. QED
    BY <1>2, <1>3, <2>1, <2>2 DEF Current
<1>8. CASE pc'[w] = "settle"
  <2>1. ServedOk(t, s)
    BY <1>1, <1>8 DEF CallAccounts, TypeOK
  <2>2. \A u \in Transfer, z \in CallState :
           Entered(u, z)' <=> Entered(u, z) \/ (u = t /\ z = s)
    BY <1>1, <2>1, ServedEntered
  <2>3. Truthful(w)'
    BY <1>6, <1>8, <2>2 DEF Truthful
  <2>4. ASSUME NEW u \in Transfer PROVE TransferSettled(u)'
    <3>0. TransferSettled(u)
      BY <1>1
    <3>1. /\ Debited(u)' <=> Debited(u) \/ (u = t /\ s = "DEBIT_PENDING")
          /\ Credited(u)' <=> Credited(u) \/ (u = t /\ s = "CREDIT_PENDING")
          /\ Reversed(u)' <=> Reversed(u) \/ (u = t /\ s = "COMPENSATING")
      BY <2>2 DEF Debited, Credited, Reversed, CallState
    <3>2. Steps(u)' /\ Quiet(u)'
      BY <1>2, <1>3, <3>0, <3>1 DEF TransferSettled, Steps, Quiet, Moved, CallState
    <3>3. Fresh(u)'
      <4>1. CASE u = t
        <5>1. pc'[w] = "settle" /\ job'[w] = <<u, saga'[u]>>
          BY <1>2, <1>3, <1>6, <1>8, <4>1
        <5>2. QED
          BY <5>1 DEF Fresh
      <4>2. CASE u # t
        <5>1. \A v \in Worker : pc[v] # "settle"
          BY <1>2, <1>4
        <5>2. ASSUME NEW z \in CallState, z = saga[u], MaxFaults["crash"] = 0
              PROVE  ~Entered(u, z)'
          BY <2>2, <3>0, <4>2, <5>1, <5>2 DEF TransferSettled, Fresh
        <5>3. QED
          BY <1>2, <5>2 DEF Fresh
      <4>3. QED
        BY <4>1, <4>2
    <3>4. Lasting(u)'
      <4>1. UNCHANGED status /\ Eligible(t, s)
        BY <1>1, <2>1, ServedEligible
      <4>2. \A z \in CallState : Eligible(u, z) => Eligible(u, z)'
        BY <4>1 DEF Eligible, Target
      <4>3. QED
        BY <2>2, <3>0, <4>1, <4>2 DEF TransferSettled, Lasting
    <3>5. QED
      BY <3>2, <3>3, <3>4 DEF TransferSettled
  <2>5. QED
    BY <1>4, <1>5, <1>7, <2>3, <2>4
<1>9. CASE pc'[w] # "settle"
  <2>1. UNCHANGED accountVars /\ ~Entered(t, s)
    BY <1>9, UnservedCall
  <2>2. Truthful(w)'
    BY <1>6, <1>9, <2>1, SameAccounts DEF Truthful
  <2>3. ASSUME NEW u \in Transfer PROVE TransferSettled(u)'
    <3>1. TransferSettled(u) /\ \A v \in Worker : pc[v] # "settle"
      BY <1>1, <1>2, <1>4
    <3>2. Fresh(u)'
      BY <1>2, <2>1, <3>1, SameAccounts DEF TransferSettled, Fresh
    <3>3. QED
      BY <1>2, <2>1, <3>1, <3>2, SameAccounts DEF TransferSettled, Steps, Quiet
  <2>4. QED
    BY <1>4, <1>5, <1>7, <2>2, <2>3
<1>10. QED
  BY <1>8, <1>9

\* The write at the end of a turn that the call of t in state s began.
Outcome(t, s) ==
    \/ /\ s = "DEBIT_PENDING" /\ Debited(t)
       /\ saga' = [saga EXCEPT ![t] = "DEBIT_COMPLETE"] /\ UNCHANGED outbox
    \/ /\ s = "DEBIT_PENDING" /\ ~Debited(t)
       /\ AdvanceWithEvent(t, "FAILED", "transfer.failed")
    \/ /\ s = "CREDIT_PENDING" /\ Credited(t)
       /\ AdvanceWithEvent(t, "COMPLETED", "transfer.completed")
    \/ /\ s = "CREDIT_PENDING" /\ ~Credited(t)
       /\ saga' = [saga EXCEPT ![t] = "COMPENSATING"] /\ UNCHANGED outbox
    \/ /\ s = "COMPENSATING" /\ Reversed(t)
       /\ AdvanceWithEvent(t, "COMPENSATED", "transfer.failed")
    \/ /\ s = "COMPENSATING" /\ ~Reversed(t)
       /\ UNCHANGED <<saga, outbox>>

\* The state it replaces is the one the call was made in.
LEMMA TurnEnds ==
    ASSUME Dependable, SInv, NEW w \in Worker,
           Settle(w) \/ SettleFails(w) \/ Catch(w) \/ CatchFails(w)
    PROVE  /\ job[w][1] \in Transfer /\ job[w][2] \in CallState
           /\ saga[job[w][1]] = job[w][2]
           /\ \A x \in todo[w] : x[1] # job[w][1]
           /\ Outcome(job[w][1], job[w][2])
           /\ Done(w)
           /\ UNCHANGED <<accountVars, checked, late, faults>>
<1> DEFINE t == job[w][1]
           s == job[w][2]
<1>1. TypeOK /\ pc[w] # "ready"
  BY DEF SInv, IInv, Settle, SettleFails, Catch, CatchFails
<1>2. ~Fault("db")
  BY <1>1, NoFault DEF Dependable, FaultKind
<1>3. /\ t \in Transfer /\ s \in CallState
      /\ saga[t] = s
      /\ \A x \in todo[w] : x[1] # t
      /\ pc[w] = "settle" <=> Entered(t, s)
  BY <1>1, WorkerTypes DEF SInv, Current, Truthful
<1>4. CASE Settle(w)
  <2>1. Entered(t, s) /\ RecordSuccess(t, s)
    BY <1>3, <1>4 DEF Settle
  <2> HIDE DEF t, s
  <2>2. Outcome(t, s)
    BY <1>1, <1>3, <2>1
    DEF RecordSuccess, ClaimTransfer, Outcome, Debited, Credited, Reversed, TypeOK
  <2>3. QED
    BY <1>3, <1>4, <2>2 DEF Settle, t, s
<1>5. CASE Catch(w)
  <2>1. ~Entered(t, s) /\ RecordFailure(t, s)
    BY <1>3, <1>5 DEF Catch
  <2> HIDE DEF t, s
  <2>2. Outcome(t, s)
    BY <2>1 DEF RecordFailure, Outcome, Debited, Credited, Reversed
  <2>3. QED
    BY <1>3, <1>5, <2>2 DEF Catch, t, s
<1>6. QED
  BY <1>2, <1>4, <1>5 DEF SettleFails, CatchFails

LEMMA TurnKeepsSettled ==
    ASSUME Dependable, SInv, NEW w \in Worker,
           Settle(w) \/ SettleFails(w) \/ Catch(w) \/ CatchFails(w)
    PROVE  /\ \A u \in Transfer : TransferSettled(u)'
           /\ \A v \in Worker : Current(v)' /\ Truthful(v)'
<1> DEFINE t == job[w][1]
           s == job[w][2]
<1>1. /\ TypeOK
      /\ t \in Transfer /\ s \in CallState /\ saga[t] = s
      /\ \A x \in todo[w] : x[1] # t
      /\ Outcome(t, s) /\ Done(w) /\ UNCHANGED accountVars
  BY TurnEnds DEF SInv, IInv
<1> HIDE DEF t, s
<1>2. \A u \in Transfer : u # t => saga'[u] = saga[u] /\ outbox'[u] = outbox[u]
  BY <1>1 DEF Outcome, AdvanceWithEvent, TypeOK
<1>3. pc' = [pc EXCEPT ![w] = "ready"] /\ UNCHANGED todo
  BY <1>1 DEF Done
<1>4. ASSUME NEW u \in Transfer PROVE TransferSettled(u)'
  <2>1. TransferSettled(u)
    BY DEF SInv
  <2>2. CASE u # t
    <3>1. \A v \in Worker : pc[v] = "settle" => job[v][1] = t
      BY DEF Dependable, t
    <3>2. Fresh(u)'
      BY <1>1, <1>2, <2>1, <2>2, <3>1, SameAccounts DEF TransferSettled, Fresh
    <3>3. QED
      BY <1>1, <1>2, <2>1, <2>2, <3>2, SameAccounts DEF TransferSettled, Steps, Quiet
  <2>3. CASE u = t
    <3>1. /\ Outcome(u, s) /\ saga[u] = s /\ saga \in [Transfer -> NonTerminal \cup Terminal \cup {"NONE"}]
          /\ saga[u] \in CallState
      BY <1>1, <2>3 DEF TypeOK
    <3>2. Steps(u)' /\ Lasting(u)'
      BY <1>1, <2>1, <3>1, SameAccounts
      DEF Outcome, AdvanceWithEvent, TransferSettled, Steps, Moved
    <3>3. Quiet(u)'
      BY <2>1, <3>1 DEF Outcome, AdvanceWithEvent, TransferSettled, Quiet, Terminal, CallState
    <3>4. saga'[u] \in CallState => saga'[u] = "COMPENSATING" /\ ~Reversed(u)
      BY <2>1, <3>1
      DEF Outcome, AdvanceWithEvent, TransferSettled, Steps, CallState
    <3>5. ASSUME NEW z \in CallState, z = saga'[u] PROVE ~Entered(u, z)'
      BY <1>1, <3>4, <3>5, SameAccounts DEF Reversed
    <3>6. Fresh(u)'
      BY <3>5 DEF Fresh
    <3>7. QED
      BY <3>2, <3>3, <3>6 DEF TransferSettled
  <2>4. QED
    BY <2>2, <2>3
<1>5. ASSUME NEW v \in Worker PROVE Current(v)' /\ Truthful(v)'
  <2>1. v = w
    BY DEF Dependable
  <2>2. pc'[v] = "ready" /\ todo'[v] = todo[w]
    BY <1>1, <1>3, <2>1 DEF TypeOK
  <2>3. \A x \in todo[w] : saga[x[1]] = x[2] /\ x[1] \in Transfer
    BY <1>1, WorkerTypes DEF SInv, Current
  <2>4. \A x \in todo[w] : saga'[x[1]] = x[2]
    BY <1>1, <1>2, <2>3
  <2>5. QED
    BY <2>2, <2>4 DEF Current, Truthful
<1>6. QED
  BY <1>4, <1>5

LEMMA CrashKeepsSettled ==
    ASSUME Dependable, SInv, NEW w \in Worker, Crash(w)
    PROVE  /\ \A t \in Transfer : TransferSettled(t)'
           /\ \A v \in Worker : Current(v)' /\ Truthful(v)'
<1>1. TypeOK /\ MaxFaults["crash"] # 0
  BY NoFault DEF SInv, IInv, Crash, FaultKind
<1>2. UNCHANGED <<accountVars, saga, outbox>>
  BY DEF Crash, transferVars
<1>3. ASSUME NEW t \in Transfer PROVE TransferSettled(t)'
  <2>1. TransferSettled(t)
    BY DEF SInv
  <2>2. QED
    BY <1>1, <1>2, <2>1, SameAccounts DEF TransferSettled, Steps, Quiet, Fresh
<1>4. ASSUME NEW v \in Worker PROVE Current(v)' /\ Truthful(v)'
  <2>1. v = w
    BY DEF Dependable
  <2>2. pc'[v] = "ready" /\ todo'[v] = {}
    BY <1>1, <2>1 DEF Crash, TypeOK
  <2>3. QED
    BY <2>2 DEF Current, Truthful
<1>5. QED
  BY <1>3, <1>4

LEMMA StepKeepsSInv == Dependable /\ SInv /\ [Next]_vars => SInv'
<1> SUFFICES ASSUME Dependable, SInv, [Next]_vars
             PROVE  SInv'
  OBVIOUS
<1> DEFINE Kept == /\ \A t \in Transfer : TransferSettled(t)'
                   /\ \A w \in Worker : Current(w)' /\ Truthful(w)'
<1>1. IInv' /\ TypeOK
  BY StepKeepsInv DEF SInv, IInv
<1>2. ASSUME NEW t \in Transfer, CheckSource(t) \/ CreateTransfer(t)
      PROVE  Kept /\ UNCHANGED late
  BY <1>2, CreationKeepsSettled DEF CheckSource, CreateTransfer
<1>3. ASSUME NEW w \in Worker, NEW t \in Transfer, NEW s \in CallState,
             CallAccounts(w, t, s)
      PROVE  Kept /\ late' = {}
  BY <1>3, CallKeepsSettled
<1>4. ASSUME NEW w \in Worker, Tick(w)
      PROVE  Kept /\ UNCHANGED late
  BY <1>4, TickKeepsSettled DEF Tick
<1>5. ASSUME NEW w \in Worker, NEW t \in Transfer, NEW s \in ClaimState, Claim(w, t, s)
      PROVE  Kept /\ UNCHANGED late
  BY <1>5, ClaimKeepsSettled DEF Claim
<1>6. ASSUME NEW w \in Worker, Settle(w) \/ SettleFails(w) \/ Catch(w) \/ CatchFails(w)
      PROVE  Kept /\ UNCHANGED late
  BY <1>6, TurnKeepsSettled DEF Settle, SettleFails, Catch, CatchFails
<1>7. ASSUME NEW w \in Worker, Crash(w)
      PROVE  Kept /\ UNCHANGED late
  BY <1>7, CrashKeepsSettled DEF Crash
<1>8. ~Fault("db")
  BY <1>1, NoFault DEF Dependable, FaultKind
<1>9. CASE Owners
  BY <1>9, OwnersKeepSettled, <1>1 DEF Owners, SInv
<1>10. CASE UNCHANGED vars
  <2>1. UNCHANGED <<saga, outbox, todo, job, pc, late, accountVars>>
    BY <1>10 DEF vars, transferVars, workerVars
  <2>2. SameEntries /\ \A t \in Transfer : Lasting(t)' <=> Lasting(t)
    BY <2>1, SameAccounts
  <2>3. Kept
    BY <2>1, <2>2, AsideKeepsSettled
  <2>4. QED
    BY <1>1, <2>1, <2>3 DEF SInv
<1>11. ASSUME NEW t \in Transfer, NEW s \in CallState, ServeLate(t, s)
       PROVE  FALSE
  BY <1>11 DEF ServeLate, SInv
<1> HIDE DEF Kept
<1>12. ASSUME NEW w \in Worker, Advance(w) \/ Fail(w)
       PROVE  Kept /\ late' = {}
  <2>1. late = {}
    BY DEF SInv
  <2>2. QED
    BY <1>3, <1>4, <1>5, <1>6, <1>7, <1>8, <1>12, <2>1 DEF Advance, Fail, ClaimFails
<1>13. Kept /\ late' = {} => SInv'
  BY <1>1 DEF SInv, Kept
<1>14. QED
  BY <1>2, <1>9, <1>10, <1>11, <1>12, <1>13 DEF Next, Idle, SInv

\* Under Dependable the worker's view of transfers is current, and what was
\* entered for a transfer is never taken for refused.
THEOREM SettlementInvariance == ASSUME Dependable PROVE Spec => []SInv
<1>1. Init => SInv
  BY InitSInv
<1>2. SInv /\ [Next]_vars => SInv'
  BY StepKeepsSInv
<1>3. QED
  BY <1>1, <1>2, PTL DEF Spec

\* A completed transfer is debited and credited, a compensated one debited
\* and given back, a failed one never happened.
THEOREM SagaSettled == ASSUME Dependable PROVE Spec => []Settled
<1>1. SInv => Settled
  BY DEF SInv, TransferSettled, Steps, Settled, Moved
<1>2. QED
  BY <1>1, SettlementInvariance, PTL
-----------------------------------------------------------------------------
(* The protocol.                                                           *)

\* The two expressions that TransferProtocol's variables stand for.
Said == [t \in Transfer |-> IF saga[t] \in NonTerminal THEN "OPEN" ELSE saga[t]]
Places == [t \in Transfer |-> Place(t)]

LEMMA SamePlaces ==
    ASSUME SameEntries
    PROVE  UNCHANGED Places
<1>1. \A t \in Transfer : Place(t)' = Place(t)
  BY SameDebits DEF Place
<1>2. QED
  BY <1>1 DEF Places

\* A state that is not terminal is replaced by another.
LEMMA SameSaid ==
    ASSUME TypeOK, NEW t \in Transfer, saga[t] \in NonTerminal,
           NEW state \in NonTerminal,
           saga' = saga \/ saga' = [saga EXCEPT ![t] = state]
    PROVE  UNCHANGED Said
<1>1. \A u \in Transfer :
         (saga[u] \in NonTerminal /\ saga'[u] \in NonTerminal) \/ saga'[u] = saga[u]
  BY DEF TypeOK
<1>2. QED
  BY <1>1 DEF Said

\* Where the steps that are entered place the money of t.
LEMMA PlaceFollows ==
    ASSUME NEW t \in Transfer
    PROVE  /\ ~Debited(t) /\ ~Credited(t) /\ ~Reversed(t) => Place(t) = "source"
           /\ Debited(t) /\ ~Credited(t) /\ ~Reversed(t) => Place(t) = "transit"
           /\ Credited(t) => Place(t) = "destination"
           /\ ~Credited(t) /\ Reversed(t) => Place(t) = "returned"
BY DEF Place

LEMMA InitProtocol == Init => Protocol!Init
<1> SUFFICES ASSUME Init PROVE Protocol!Init
  OBVIOUS
<1>1. SInv
  BY InitSInv
<1>2. \A t \in Transfer : saga[t] = "NONE" /\ Steps(t)
  BY <1>1 DEF Init, SInv, TransferSettled
<1>3. \A t \in Transfer : Place(t) = "source"
  BY <1>2, PlaceFollows DEF Steps, Moved
<1>4. QED
  BY <1>2, <1>3 DEF Protocol!Init, Init, NonTerminal, ClaimState, CallState

LEMMA CallImplements ==
    ASSUME Dependable, SInv, NEW w \in Worker, NEW t \in Transfer, NEW s \in CallState,
           CallAccounts(w, t, s)
    PROVE  Protocol!Next \/ UNCHANGED Protocol!vars
<1>1. /\ UNCHANGED <<saga, outbox>> /\ TypeOK
      /\ saga[t] = s /\ Steps(t)
  BY DEF CallAccounts, Take, transferVars, SInv, IInv, Current, TransferSettled
<1>2. UNCHANGED Said
  BY <1>1 DEF Said
<1>3. CASE SameEntries
  <2>1. UNCHANGED Places
    BY <1>3, SamePlaces
  <2>2. QED
    BY <1>1, <1>2, <2>1 DEF Protocol!vars, Said, Places
<1>4. CASE ~SameEntries
  <2>1. ServedOk(t, s)
    <3>1. ServedOk(t, s) \/ UNCHANGED ledger
      BY <1>4, UnservedCall DEF accountVars, CallAccounts, Refused
    <3>2. QED
      BY <1>4, <3>1, UntouchedLedger
  <2>2. \A u \in Transfer, z \in CallState :
           Entered(u, z)' <=> Entered(u, z) \/ (u = t /\ z = s)
    BY <1>1, <2>1, ServedEntered
  <2>3. ~Entered(t, s)
    BY <1>4, <2>2 DEF SameEntries
  <2>4. \A u \in Transfer :
           /\ Debited(u)' <=> Debited(u) \/ (u = t /\ s = "DEBIT_PENDING")
           /\ Credited(u)' <=> Credited(u) \/ (u = t /\ s = "CREDIT_PENDING")
           /\ Reversed(u)' <=> Reversed(u) \/ (u = t /\ s = "COMPENSATING")
    BY <2>2 DEF Debited, Credited, Reversed, CallState
  <2>5. \A u \in Transfer \ {t} : Place(u)' = Place(u)
    BY <2>4 DEF Place
  <2>6. \/ Place(t) = "source" /\ Place(t)' = "transit"
        \/ Place(t) = "transit" /\ Place(t)' = "destination"
        \/ Place(t) = "transit" /\ Place(t)' = "returned"
    <3>1. CASE s = "DEBIT_PENDING"
      BY <1>1, <2>3, <2>4, <3>1 DEF Place, Steps, Debited
    <3>2. CASE s = "CREDIT_PENDING"
      BY <1>1, <2>3, <2>4, <3>2 DEF Place, Steps, Credited, Moved
    <3>3. CASE s = "COMPENSATING"
      BY <1>1, <2>3, <2>4, <3>3 DEF Place, Steps, Reversed, Moved
    <3>4. QED
      BY <3>1, <3>2, <3>3 DEF CallState
  <2>7. Places' = [Places EXCEPT ![t] = Place(t)']
    BY <2>5 DEF Places
  <2>8. Said[t] = "OPEN" /\ Places[t] = Place(t)
    BY <1>1 DEF Said, Places, NonTerminal
  <2>9. \/ Protocol!Move(t, "source", "transit")
        \/ Protocol!Move(t, "transit", "destination")
        \/ Protocol!Move(t, "transit", "returned")
    BY <1>1, <1>2, <2>6, <2>7, <2>8 DEF Protocol!Move, Said, Places
  <2>10. QED
    BY <2>9 DEF Protocol!Next
<1>5. QED
  BY <1>3, <1>4

\* The end of a turn either leaves the transfer open or finishes it.
LEMMA TurnImplements ==
    ASSUME Dependable, SInv, NEW w \in Worker,
           Settle(w) \/ SettleFails(w) \/ Catch(w) \/ CatchFails(w)
    PROVE  Protocol!Next \/ UNCHANGED Protocol!vars
<1>1. PICK t \in Transfer, s \in CallState :
         saga[t] = s /\ Outcome(t, s) /\ UNCHANGED accountVars
  BY TurnEnds
<1>2. TypeOK /\ Steps(t) /\ Quiet(t)
  BY <1>1 DEF SInv, IInv, TransferSettled
<1>3. UNCHANGED Places
  BY <1>1, SameAccounts, SamePlaces
<1>4. CASE /\ UNCHANGED outbox
           /\ \E state \in NonTerminal : saga' = saga \/ saga' = [saga EXCEPT ![t] = state]
  <2>1. saga[t] \in NonTerminal
    BY <1>1 DEF NonTerminal
  <2>2. UNCHANGED Said
    BY <1>2, <1>4, <2>1, SameSaid
  <2>3. QED
    BY <1>3, <1>4, <2>2 DEF Protocol!vars, Said, Places
<1>5. ASSUME NEW state \in Terminal, NEW event \in Event, NEW where,
             AdvanceWithEvent(t, state, event), Place(t) = where
      PROVE  Protocol!Finish(t, where, state, event)
  <2>1. Said[t] = "OPEN" /\ Places[t] = where /\ outbox[t] = <<>>
    BY <1>1, <1>2, <1>5 DEF Said, Places, Quiet, NonTerminal, CallState, Terminal
  <2>2. state \notin NonTerminal
    BY DEF Terminal, NonTerminal, ClaimState, CallState
  <2>3. Said' = [Said EXCEPT ![t] = state]
    BY <1>2, <1>5, <2>2 DEF Said, AdvanceWithEvent, TypeOK
  <2>4. outbox' = [outbox EXCEPT ![t] = <<event>>]
    BY <1>2, <1>5, <2>1 DEF AdvanceWithEvent, TypeOK
  <2>5. QED
    BY <1>3, <2>1, <2>3, <2>4 DEF Protocol!Finish, Said, Places
<1>6. CASE s = "DEBIT_PENDING" /\ ~Debited(t) /\ AdvanceWithEvent(t, "FAILED", "transfer.failed")
  <2>1. Place(t) = "source"
    BY <1>1, <1>2, <1>6, PlaceFollows DEF Steps
  <2>2. Protocol!Finish(t, "source", "FAILED", "transfer.failed")
    BY <1>5, <1>6, <2>1 DEF Terminal, Event
  <2>3. QED
    BY <2>2 DEF Protocol!Next
<1>7. CASE s = "CREDIT_PENDING" /\ Credited(t) /\ AdvanceWithEvent(t, "COMPLETED", "transfer.completed")
  <2>1. Place(t) = "destination"
    BY <1>7, PlaceFollows
  <2>2. Protocol!Finish(t, "destination", "COMPLETED", "transfer.completed")
    BY <1>5, <1>7, <2>1 DEF Terminal, Event
  <2>3. QED
    BY <2>2 DEF Protocol!Next
<1>8. CASE s = "COMPENSATING" /\ Reversed(t) /\ AdvanceWithEvent(t, "COMPENSATED", "transfer.failed")
  <2>1. Place(t) = "returned"
    BY <1>1, <1>2, <1>8, PlaceFollows DEF Steps
  <2>2. Protocol!Finish(t, "returned", "COMPENSATED", "transfer.failed")
    BY <1>5, <1>8, <2>1 DEF Terminal, Event
  <2>3. QED
    BY <2>2 DEF Protocol!Next
<1>9. QED
  BY <1>1, <1>4, <1>6, <1>7, <1>8 DEF Outcome, NonTerminal, ClaimState, CallState

LEMMA StepImplements ==
    ASSUME Dependable, SInv, [Next]_vars
    PROVE  Protocol!Next \/ UNCHANGED Protocol!vars
<1>0. TypeOK
  BY DEF SInv, IInv
<1>1. ASSUME UNCHANGED <<saga, outbox>>, SameEntries
      PROVE  UNCHANGED Protocol!vars
  <2>1. UNCHANGED Said /\ UNCHANGED Places
    BY <1>1, SamePlaces DEF Said
  <2>2. QED
    BY <1>1, <2>1 DEF Protocol!vars, Said, Places
<1>2. CASE UNCHANGED <<saga, outbox, accountVars>>
  BY <1>1, <1>2, SameAccounts
<1>3. CASE Owners
  <2>1. SameEntries /\ UNCHANGED <<saga, outbox>>
    BY <1>0, <1>3, OwnersKeepEntries DEF Owners, transferVars
  <2>2. QED
    BY <1>1, <2>1
<1>4. ASSUME NEW t \in Transfer, CreateTransfer(t)
      PROVE  Protocol!Next
  <2>1. /\ saga[t] = "NONE" /\ saga' = [saga EXCEPT ![t] = "INITIATED"]
        /\ UNCHANGED <<outbox, accountVars>>
    BY <1>4 DEF CreateTransfer
  <2>2. UNCHANGED Places
    BY <2>1, SameAccounts, SamePlaces
  <2>3. Said[t] = "NONE" /\ Said' = [Said EXCEPT ![t] = "OPEN"]
    BY <1>0, <2>1 DEF Said, TypeOK, NonTerminal, ClaimState, CallState
  <2>4. Protocol!Open(t)
    BY <2>1, <2>2, <2>3 DEF Protocol!Open, Said, Places
  <2>5. QED
    BY <2>4 DEF Protocol!Next
<1>5. ASSUME NEW w \in Worker, NEW t \in Transfer, NEW s \in ClaimState, Claim(w, t, s)
      PROVE  UNCHANGED Protocol!vars
  <2>1. saga[t] = s /\ UNCHANGED <<outbox, accountVars>>
    BY <1>5 DEF Claim, Take, SInv, Current
  <2>2. saga' = [saga EXCEPT ![t] = ClaimedAs[s]] /\ ClaimedAs[s] \in NonTerminal
    BY <1>0, <1>5, <2>1
    DEF Claim, ClaimTransfer, TypeOK, ClaimedAs, NonTerminal, ClaimState, CallState
  <2>3. UNCHANGED Said
    BY <1>0, <2>1, <2>2, SameSaid DEF NonTerminal
  <2>4. UNCHANGED Places
    BY <2>1, SameAccounts, SamePlaces
  <2>5. QED
    BY <2>1, <2>3, <2>4 DEF Protocol!vars, Said, Places
<1>6. ASSUME NEW w \in Worker, Advance(w) \/ Fail(w)
      PROVE  Protocol!Next \/ UNCHANGED Protocol!vars
  <2>1. CASE Tick(w) \/ Crash(w) \/ \E t \in Transfer, s \in ClaimState : ClaimFails(w, t, s)
    BY <1>2, <2>1 DEF Tick, Crash, ClaimFails, transferVars
  <2>2. QED
    BY <1>5, <1>6, <2>1, CallImplements, TurnImplements DEF Advance, Fail
<1>7. QED
  BY <1>2, <1>3, <1>4, <1>6
  DEF Next, Idle, CheckSource, ServeLate, SInv, vars, transferVars

\* The orchestrator, its ledger and the outbox implement the protocol: money
\* moves as the state allows, the outcome is final and true, and one event
\* announces it.
THEOREM SagaImplementsProtocol == ASSUME Dependable PROVE Spec => ProtocolSpec
<1>1. Init => Protocol!Init
  BY InitProtocol
<1>2. SInv /\ [Next]_vars => [Protocol!Next]_(Protocol!vars)
  BY StepImplements
<1>3. QED
  BY <1>1, <1>2, SettlementInvariance, PTL DEF Spec, ProtocolSpec, Protocol!Spec
-----------------------------------------------------------------------------
(* What the owner sees.                                                    *)

SagaState == NonTerminal \cup Terminal \cup {"NONE"}

\* The state x is y or comes before it.
Upto(x, y) == x = y \/ Progress[x] < Progress[y]

\* Whatever the owner was shown, the transfer has come at least as far; what
\* is on its way to a page is no older than what the page holds.
PageInv(t) ==
    /\ listed[t] \in SagaState /\ shown[t] \in SagaState /\ read[t] \in SagaState
    /\ Upto(listed[t], saga[t])
    /\ Upto(shown[t], saga[t])
    /\ Upto(read[t], saga[t])
    /\ read[t] # "NONE" => Upto(shown[t], read[t])

ViewInv ==
    /\ SInv
    /\ listed \in [Watched -> SagaState]
    /\ shown \in [Watched -> SagaState]
    /\ read \in [Watched -> SagaState]
    /\ \A t \in Watched : PageInv(t)

LEMMA ProgressTypes ==
    /\ \A x \in SagaState : Progress[x] \in 0 .. 6
    /\ Progress["NONE"] = 0
    /\ \A x \in SagaState : x # "NONE" => Progress[x] > 0
BY DEF SagaState, NonTerminal, ClaimState, CallState, Terminal, Progress

LEMMA UptoOrder ==
    ASSUME NEW x \in SagaState, NEW y \in SagaState, NEW z \in SagaState
    PROVE  /\ Upto(x, x) /\ Upto("NONE", x)
           /\ Upto(x, y) /\ Upto(y, z) => Upto(x, z)
           /\ Upto(x, y) /\ x # y => Progress[y] > Progress[x]
<1>1. Progress[x] \in Int /\ Progress[y] \in Int /\ Progress[z] \in Int
  BY ProgressTypes
<1>2. Upto("NONE", x)
  BY ProgressTypes DEF Upto
<1>3. QED
  BY <1>1, <1>2 DEF Upto

\* A transfer's state is replaced by one that is further on.
LEMMA SagaForward ==
    ASSUME Dependable, SInv, [Next]_vars, NEW t \in Transfer
    PROVE  Upto(saga[t], saga'[t])
<1>0. TypeOK
  BY DEF SInv, IInv
<1>1. CASE saga'[t] = saga[t]
  BY <1>1 DEF Upto
<1>2. ASSUME NEW u \in Transfer, CreateTransfer(u)
      PROVE  Upto(saga[t], saga'[t])
  BY <1>0, <1>2 DEF CreateTransfer, TypeOK, Upto, Progress
<1>3. ASSUME NEW w \in Worker, NEW u \in Transfer, NEW s \in ClaimState, Claim(w, u, s)
      PROVE  Upto(saga[t], saga'[t])
  BY <1>0, <1>3 DEF Claim, ClaimTransfer, TypeOK, ClaimedAs, ClaimState, Upto, Progress
<1>4. ASSUME NEW w \in Worker,
             Settle(w) \/ SettleFails(w) \/ Catch(w) \/ CatchFails(w)
      PROVE  Upto(saga[t], saga'[t])
  <2>1. PICK u \in Transfer, s \in CallState : saga[u] = s /\ Outcome(u, s)
    BY <1>4, TurnEnds
  <2>2. QED
    BY <1>0, <2>1 DEF Outcome, AdvanceWithEvent, TypeOK, Upto, Progress
<1>5. QED
  BY <1>1, <1>2, <1>3, <1>4
  DEF Next, Idle, Owners, Advance, Fail, CheckSource, Tick, ClaimFails, CallAccounts,
      Crash, ServeLate, vars, transferVars

LEMMA InitViewInv == PageInit => ViewInv
<1>1. Init => \A t \in Transfer : saga[t] = "NONE"
  BY DEF Init
<1>2. QED
  BY <1>1, InitSInv, StatusAssumption DEF PageInit, ViewInv, PageInv, Upto, SagaState

\* What the owner or the query client does with the list or page of u.
PageEffect(u) ==
    /\ UNCHANGED vars
    /\ \/ UNCHANGED listed
       \/ listed' = [listed EXCEPT ![u] = saga[u]]
    /\ \/ UNCHANGED <<shown, read>>
       \/ UNCHANGED shown /\ read' = [read EXCEPT ![u] = "NONE"]
       \/ UNCHANGED shown /\ read' = [read EXCEPT ![u] = saga[u]]
       \/ /\ read[u] # "NONE"
          /\ shown' = [shown EXCEPT ![u] = read[u]]
          /\ read' = [read EXCEPT ![u] = "NONE"]
       \/ /\ read[u] = "NONE" /\ UNCHANGED read
          /\ shown' = [shown EXCEPT ![u] = "NONE"]

LEMMA PageEffects ==
    ASSUME ViewInv, [PageNext]_<<vars, pageVars>>
    PROVE  /\ [Next]_vars
           /\ UNCHANGED <<listed, shown, read>> \/ \E u \in Watched : PageEffect(u)
           /\ listed' \in [Watched -> SagaState]
           /\ shown' \in [Watched -> SagaState]
           /\ read' \in [Watched -> SagaState]
<1>1. /\ listed \in [Watched -> SagaState]
      /\ shown \in [Watched -> SagaState]
      /\ read \in [Watched -> SagaState]
      /\ \A u \in Watched : saga[u] \in SagaState
      /\ "NONE" \in SagaState
  BY StatusAssumption DEF ViewInv, SInv, IInv, TypeOK, SagaState
<1>2. ASSUME NEW u \in Watched,
             VisitList(u) \/ Forget(u) \/ OpenPage(u) \/ Poll(u) \/ Refocus(u)
                \/ Show(u) \/ Miss(u)
      PROVE  PageEffect(u)
  BY <1>2 DEF VisitList, listTransfers, Forget, OpenPage, getTransfer, Poll, Refocus,
              AskAgain, Show, Miss, PageEffect
<1>3. \/ UNCHANGED <<listed, shown, read>> /\ [Next]_vars
      \/ \E u \in Watched : PageEffect(u)
  BY <1>2 DEF PageNext, pageVars
<1>4. QED
  BY <1>1, <1>3 DEF PageEffect

\* What one step does to the list and the page of t.
LEMMA PageSteps ==
    ASSUME ViewInv, [PageNext]_<<vars, pageVars>>, NEW t \in Watched
    PROVE  /\ listed'[t] = listed[t] \/ (listed'[t] = saga[t] /\ UNCHANGED vars)
           /\ \/ UNCHANGED <<shown[t], read[t]>>
              \/ shown'[t] = shown[t] /\ read'[t] = "NONE"
              \/ shown'[t] = shown[t] /\ read'[t] = saga[t] /\ UNCHANGED vars
              \/ shown'[t] = read[t] /\ read[t] # "NONE" /\ read'[t] = "NONE"
              \/ shown'[t] = "NONE" /\ read'[t] = read[t] /\ read[t] = "NONE"
<1>1. /\ listed \in [Watched -> SagaState]
      /\ shown \in [Watched -> SagaState]
      /\ read \in [Watched -> SagaState]
  BY DEF ViewInv
<1>2. ASSUME NEW u \in Watched, PageEffect(u), u = t
      PROVE  /\ listed'[t] = listed[t] \/ (listed'[t] = saga[t] /\ UNCHANGED vars)
             /\ \/ UNCHANGED <<shown[t], read[t]>>
                \/ shown'[t] = shown[t] /\ read'[t] = "NONE"
                \/ shown'[t] = shown[t] /\ read'[t] = saga[t] /\ UNCHANGED vars
                \/ shown'[t] = read[t] /\ read[t] # "NONE" /\ read'[t] = "NONE"
                \/ shown'[t] = "NONE" /\ read'[t] = read[t] /\ read[t] = "NONE"
  BY <1>1, <1>2 DEF PageEffect
<1>3. ASSUME NEW u \in Watched, PageEffect(u), u # t
      PROVE  UNCHANGED <<listed[t], shown[t], read[t]>>
  BY <1>1, <1>3 DEF PageEffect
<1>4. QED
  BY <1>2, <1>3, PageEffects

LEMMA StepKeepsView ==
    ASSUME Dependable, ViewInv, [PageNext]_<<vars, pageVars>>
    PROVE  ViewInv'
<1>1. SInv /\ \A t \in Watched : PageInv(t)
  BY DEF ViewInv
<1>2. ASSUME NEW t \in Watched PROVE PageInv(t)'
  <2>0. PageInv(t) /\ t \in Transfer /\ [Next]_vars
    BY <1>1, PageEffects, StatusAssumption
  <2>1. SInv'
    BY <1>1, <2>0, StepKeepsSInv
  <2>2. saga[t] \in SagaState /\ saga'[t] \in SagaState /\ Upto(saga[t], saga'[t])
    BY <1>1, <2>0, <2>1, SagaForward DEF SInv, IInv, TypeOK, SagaState
  <2>3. UNCHANGED vars => saga'[t] = saga[t]
    BY DEF vars, transferVars
  <2>4. /\ listed'[t] = listed[t] \/ (listed'[t] = saga[t] /\ UNCHANGED vars)
        /\ \/ UNCHANGED <<shown[t], read[t]>>
           \/ shown'[t] = shown[t] /\ read'[t] = "NONE"
           \/ shown'[t] = shown[t] /\ read'[t] = saga[t] /\ UNCHANGED vars
           \/ shown'[t] = read[t] /\ read[t] # "NONE" /\ read'[t] = "NONE"
           \/ shown'[t] = "NONE" /\ read'[t] = read[t] /\ read[t] = "NONE"
    BY PageSteps
  <2>5. "NONE" \in SagaState
    BY DEF SagaState
  <2>6. Upto(listed'[t], saga'[t]) /\ listed'[t] \in SagaState
    BY <2>0, <2>2, <2>3, <2>4, UptoOrder DEF PageInv
  <2>7. Upto(shown'[t], saga'[t]) /\ shown'[t] \in SagaState
    BY <2>0, <2>2, <2>3, <2>4, <2>5, UptoOrder DEF PageInv
  <2>8. Upto(read'[t], saga'[t]) /\ read'[t] \in SagaState
    BY <2>0, <2>2, <2>3, <2>4, <2>5, UptoOrder DEF PageInv
  <2>9. read'[t] # "NONE" => Upto(shown'[t], read'[t])
    BY <2>0, <2>4, <2>5, UptoOrder DEF PageInv
  <2>10. QED
    BY <2>0, <2>6, <2>7, <2>8, <2>9 DEF PageInv
<1>3. SInv'
  BY <1>1, PageEffects, StepKeepsSInv
<1>4. QED
  BY <1>2, <1>3, PageEffects DEF ViewInv

\* Under Dependable, for every spec of the pages: the system underneath is
\* the one proved about above, and no page is ahead of its transfer.
THEOREM ViewInvariance == ASSUME Dependable PROVE PageSpec => []ViewInv
<1>1. PageInit => ViewInv
  BY InitViewInv
<1>2. ViewInv /\ [PageNext]_<<vars, pageVars>> => ViewInv'
  BY StepKeepsView
<1>3. QED
  BY <1>1, <1>2, PTL DEF PageSpec

\* Who watches a transfer sees it go forward only, and no outcome replaced by
\* another.
THEOREM OwnerNeverSeesBackwards == ASSUME Dependable PROVE PageSpec => NeverBackwards
<1> DEFINE Forward == \A t \in Watched :
          /\ listed'[t] # listed[t] => Progress[listed'[t]] > Progress[listed[t]]
          /\ shown'[t] \notin {shown[t], "NONE"} => Progress[shown'[t]] > Progress[shown[t]]
<1>1. ASSUME ViewInv, [PageNext]_<<vars, pageVars>>, NEW t \in Watched
      PROVE  /\ listed'[t] # listed[t] => Progress[listed'[t]] > Progress[listed[t]]
             /\ shown'[t] \notin {shown[t], "NONE"} => Progress[shown'[t]] > Progress[shown[t]]
  <2>1. PageInv(t) /\ saga[t] \in SagaState
    BY <1>1, StatusAssumption DEF ViewInv, SInv, IInv, TypeOK, SagaState
  <2>2. listed'[t] # listed[t] => listed'[t] = saga[t]
    BY <1>1, PageSteps
  <2>3. shown'[t] \notin {shown[t], "NONE"} => shown'[t] = read[t] /\ read[t] # "NONE"
    BY <1>1, PageSteps
  <2>4. listed'[t] # listed[t] => Progress[listed'[t]] > Progress[listed[t]]
    BY <2>1, <2>2, UptoOrder DEF PageInv
  <2>5. shown'[t] \notin {shown[t], "NONE"} => Progress[shown'[t]] > Progress[shown[t]]
    BY <2>1, <2>3, UptoOrder DEF PageInv
  <2>6. QED
    BY <2>4, <2>5
<1>2. ViewInv /\ [PageNext]_<<vars, pageVars>> => [Forward]_pageVars
  BY <1>1
<1>3. QED
  BY <1>2, ViewInvariance, PTL DEF PageSpec, NeverBackwards
=============================================================================
