------------------------- MODULE IdempotencyProofs -------------------------
(***************************************************************************)
(* Proofs about IdempotencyKeys, for any keys, bodies, requests and        *)
(* instances: it implements OnceOnly.  And about TransferRequests, for any *)
(* forms and programs in front of it.                                      *)
(*                                                                         *)
(* The heart of it is KeyInv.  A key is in one of four stages: free;       *)
(* claimed by the one handler that works on it, undecided; decided, with   *)
(* the one result on its way to Redis, or lost; and decided with the       *)
(* result in Redis.  So no second handler ever finds it free.              *)
(*                                                                         *)
(* RInv relates what the forms keep to that.  A key of a form's making is  *)
(* used with one body (OneBody) and before it is made with none (Made); a  *)
(* transfer form's key is the number of the first submission of its series *)
(* (Series); and while the form may press again, whatever was entered for  *)
(* the series is a row with that key (Kept), so a handler that found the   *)
(* key free enters the first one.                                          *)
(***************************************************************************)
EXTENDS TransferRequests, TLAPS

KeyInv(k) ==
    /\ \A r \in Request : pc[r] \in Handling /\ call[r].key = k =>
          redis[k] = PENDING /\ outcome[k] = Free /\ \A s \in pending : s.key # k
    /\ \A q, r \in Request :
          pc[q] \in Handling /\ call[q].key = k /\ pc[r] \in Handling /\ call[r].key = k => q = r
    /\ \A s \in pending : s.key = k => redis[k] = PENDING /\ outcome[k] = s.value
    /\ \A s, t \in pending : s.key = k /\ t.key = k => s = t
    /\ redis[k] \notin {Free, PENDING} => outcome[k] = redis[k]
    /\ redis[k] = Free => outcome[k] = Free

Working == \A r \in Request : pc[r] # "idle" => call[r] \in Call

IInv == TypeOK /\ Working /\ \A k \in Key : KeyInv(k)

LEMMA ValueFacts ==
    /\ Free # PENDING
    /\ \A v \in Result : v # Free /\ v # PENDING /\ v = Value(v.body, v.code, v.row)
    /\ \A b \in Body, code \in {"created", "rejected"}, n \in Nat : Value(b, code, n) \in Result
BY IdempotencyAssumption DEF Free, PENDING, Value, Result

\* The steps of one request: its label, and what it is answered.
LEMMA ReplyType ==
    ASSUME TypeOK, Working, NEW r \in Request, pc[r] # "idle",
           NEW code \in Doubt \cup {"created", "rejected"}, NEW n \in Nat, Reply(r, code, n)
    PROVE  /\ pc' \in [Request -> Busy \cup {"idle", "answer"}]
           /\ call' \in [Request -> Call \cup {NoCall}]
           /\ Working'
           /\ pc'[r] = "answer"
           /\ call'[r] \in Call
           /\ call'[r].key = call[r].key /\ call'[r].body = call[r].body
           /\ call'[r].code = code /\ call'[r].row = n
           /\ \A q \in Request \ {r} : pc'[q] = pc[q] /\ call'[q] = call[q]
<1>1. call[r] \in Call
  BY DEF Working
<1>2. call' = [call EXCEPT ![r] = [call[r] EXCEPT !.code = code, !.row = n]]
  BY DEF Reply
<1>3. [call[r] EXCEPT !.code = code, !.row = n] \in Call
  BY <1>1 DEF Call
<1>4. call'[r] = [call[r] EXCEPT !.code = code, !.row = n]
  BY <1>2 DEF TypeOK
<1>5. /\ call'[r].key = call[r].key /\ call'[r].body = call[r].body
      /\ call'[r].code = code /\ call'[r].row = n
  BY <1>1, <1>4 DEF Call
<1>6. /\ pc'[r] = "answer"
      /\ \A q \in Request \ {r} : pc'[q] = pc[q] /\ call'[q] = call[q]
      /\ pc' \in [Request -> Busy \cup {"idle", "answer"}]
      /\ call' \in [Request -> Call \cup {NoCall}]
  BY <1>2, <1>3 DEF Reply, TypeOK
<1>7. Working'
  BY <1>3, <1>4, <1>6 DEF Working
<1>8. QED
  BY <1>3, <1>4, <1>5, <1>6, <1>7

LEMMA GotoType ==
    ASSUME TypeOK, Working, NEW r \in Request, pc[r] # "idle",
           NEW label \in Busy, Goto(r, label)
    PROVE  /\ pc' \in [Request -> Busy \cup {"idle", "answer"}]
           /\ call' = call
           /\ Working'
           /\ pc'[r] = label
           /\ \A q \in Request \ {r} : pc'[q] = pc[q]
BY DEF TypeOK, Working, Goto

LEMMA InitHolds == Init => IInv
BY DEF Init, IInv, TypeOK, Working, KeyInv, Handling, Free, PENDING, Value

\* A key is left alone by steps that bring it no handler and no result.
LEMMA QuietKey ==
    ASSUME NEW k, KeyInv(k), redis'[k] = redis[k], outcome'[k] = outcome[k],
           \A s \in pending' : s.key = k => s \in pending,
           \A q \in Request : pc'[q] \in Handling /\ call'[q].key = k =>
                                 pc[q] \in Handling /\ call[q].key = k
    PROVE  KeyInv(k)'
BY DEF KeyInv

\* One request moves, to somewhere outside the handler or within it.
LEMMA QuietStep ==
    ASSUME IInv, NEW r \in Request, UNCHANGED <<redis, pending, outcome>>,
           \A q \in Request \ {r} : pc'[q] = pc[q] /\ call'[q] = call[q],
           pc'[r] \in Handling => pc[r] \in Handling /\ call'[r].key = call[r].key
    PROVE  \A k \in Key : KeyInv(k)'
BY QuietKey DEF IInv

LEMMA ReplyKeepsIInv ==
    ASSUME IInv, NEW r \in Request, pc[r] # "idle",
           NEW code \in Doubt \cup {"created", "rejected"}, NEW n \in Nat, Reply(r, code, n),
           UNCHANGED <<redis, pending, rows, outcome>>
    PROVE  IInv'
<1>1. /\ pc' \in [Request -> Busy \cup {"idle", "answer"}]
      /\ call' \in [Request -> Call \cup {NoCall}]
      /\ Working'
      /\ pc'[r] = "answer"
      /\ \A q \in Request \ {r} : pc'[q] = pc[q] /\ call'[q] = call[q]
  BY ReplyType DEF IInv
<1>2. pc'[r] \notin Handling
  BY <1>1 DEF Handling
<1>3. \A k \in Key : KeyInv(k)'
  BY <1>1, <1>2, QuietStep
<1>4. TypeOK'
  BY <1>1 DEF IInv, TypeOK
<1>5. QED
  BY <1>1, <1>3, <1>4 DEF IInv

LEMMA ReceiveKeepsIInv ==
    ASSUME IInv, NEW r \in Request, NEW k \in Key, NEW b \in Body, NEW i \in Instance,
           Receive(r, k, b, i)
    PROVE  IInv'
<1> DEFINE c == [key |-> k, body |-> b, at |-> i, code |-> "none", row |-> 0]
<1>1. pc' = [pc EXCEPT ![r] = "claim"] /\ call' = [call EXCEPT ![r] = c]
      /\ UNCHANGED <<redis, pending, rows, outcome>>
  BY DEF Receive
<1>2. c \in Call
  BY DEF Call, Doubt
<1>3. /\ pc' \in [Request -> Busy \cup {"idle", "answer"}]
      /\ call' \in [Request -> Call \cup {NoCall}]
  BY <1>1, <1>2 DEF IInv, TypeOK, Busy
<1>4. /\ pc'[r] = "claim" /\ call'[r] = c
      /\ \A q \in Request \ {r} : pc'[q] = pc[q] /\ call'[q] = call[q]
  BY <1>1 DEF IInv, TypeOK
<1>5. Working'
  BY <1>2, <1>4 DEF IInv, Working
<1>6. \A j \in Key : KeyInv(j)'
  BY <1>1, <1>4, QuietStep DEF Handling
<1>7. TypeOK'
  BY <1>1, <1>3 DEF IInv, TypeOK
<1>8. QED
  BY <1>5, <1>6, <1>7 DEF IInv

\* A key is claimed only when no handler and no result has to do with it.
LEMMA ClaimedKeepsKey ==
    ASSUME IInv, NEW k \in Key, Claimed(k), UNCHANGED <<pending, rows, outcome>>,
           NEW r \in Request, pc[r] \notin Handling, call'[r].key = k,
           \A q \in Request \ {r} : pc'[q] = pc[q] /\ call'[q] = call[q]
    PROVE  /\ \A j \in Key : KeyInv(j)'
           /\ redis' \in [Key -> Result \cup {Free, PENDING}]
<1>1. /\ redis[k] = Free /\ redis' = [redis EXCEPT ![k] = PENDING]
      /\ redis' \in [Key -> Result \cup {Free, PENDING}]
      /\ redis'[k] = PENDING
      /\ \A j \in Key \ {k} : redis'[j] = redis[j]
  BY DEF Claimed, IInv, TypeOK
<1>2. /\ outcome[k] = Free
      /\ \A q \in Request : ~(pc[q] \in Handling /\ call[q].key = k)
      /\ \A s \in pending : s.key # k
  BY <1>1, ValueFacts DEF IInv, KeyInv
<1>3. KeyInv(k)'
  BY <1>1, <1>2, ValueFacts DEF KeyInv
<1>4. ASSUME NEW j \in Key, j # k
      PROVE  KeyInv(j)'
  BY <1>1, <1>4, QuietKey DEF IInv
<1>5. QED
  BY <1>1, <1>3, <1>4

LEMMA ClaimKeepsIInv ==
    ASSUME IInv, NEW r \in Request, Claim(r)
    PROVE  IInv'
<1> DEFINE k == call[r].key
<1>1. pc[r] = "claim" /\ UNCHANGED <<pending, rows, outcome>> /\ TypeOK /\ Working
  BY DEF Claim, IInv
<1>2. call[r] \in Call /\ k \in Key /\ pc[r] \notin Handling /\ pc[r] # "idle"
  BY <1>1 DEF Working, Call, Handling
<1>3. CASE Claimed(k) /\ Goto(r, "source")
  <2>1. /\ pc' \in [Request -> Busy \cup {"idle", "answer"}]
        /\ call' = call /\ Working'
        /\ \A q \in Request \ {r} : pc'[q] = pc[q]
    BY <1>1, <1>2, <1>3, GotoType DEF Busy, Handling
  <2>2. /\ \A j \in Key : KeyInv(j)'
        /\ redis' \in [Key -> Result \cup {Free, PENDING}]
    BY <1>1, <1>2, <1>3, <2>1, ClaimedKeepsKey
  <2>3. TypeOK'
    BY <1>1, <2>1, <2>2 DEF TypeOK
  <2>4. QED
    BY <2>1, <2>2, <2>3 DEF IInv
<1>4. CASE Goto(r, "get") /\ redis' = redis
  <2>1. /\ pc' \in [Request -> Busy \cup {"idle", "answer"}]
        /\ call' = call /\ Working' /\ pc'[r] = "get"
        /\ \A q \in Request \ {r} : pc'[q] = pc[q]
    BY <1>1, <1>2, <1>4, GotoType DEF Busy
  <2>2. \A j \in Key : KeyInv(j)'
    BY <1>1, <1>4, <2>1, QuietStep DEF Handling
  <2>3. TypeOK'
    BY <1>1, <1>4, <2>1 DEF TypeOK
  <2>4. QED
    BY <2>1, <2>2, <2>3 DEF IInv
<1>5. CASE Claimed(k) /\ Reply(r, "error", 0)
  <2>1. /\ pc' \in [Request -> Busy \cup {"idle", "answer"}]
        /\ call' \in [Request -> Call \cup {NoCall}]
        /\ Working'
        /\ call'[r].key = k
        /\ \A q \in Request \ {r} : pc'[q] = pc[q] /\ call'[q] = call[q]
    BY <1>1, <1>2, <1>5, ReplyType DEF Doubt
  <2>2. /\ \A j \in Key : KeyInv(j)'
        /\ redis' \in [Key -> Result \cup {Free, PENDING}]
    BY <1>1, <1>2, <1>5, <2>1, ClaimedKeepsKey
  <2>3. TypeOK'
    BY <1>1, <2>1, <2>2 DEF TypeOK
  <2>4. QED
    BY <2>1, <2>2, <2>3 DEF IInv
<1>6. CASE redis' = redis /\ Reply(r, "error", 0)
  BY <1>1, <1>2, <1>6, ReplyKeepsIInv DEF Doubt
<1>7. QED
  BY <1>3, <1>4, <1>5, <1>6 DEF Claim

LEMMA ReplayStep ==
    ASSUME IInv, NEW r \in Request, Replay(r)
    PROVE  /\ pc[r] # "idle" /\ call[r] \in Call
           /\ UNCHANGED <<redis, pending, rows, outcome>>
           /\ \E code \in Doubt \cup {"created", "rejected"}, n \in Nat :
                 /\ Reply(r, code, n)
                 /\ code \in Doubt \/ outcome[call[r].key] = Value(call[r].body, code, n)
<1> DEFINE found == redis[call[r].key]
<1>1. pc[r] # "idle" /\ UNCHANGED <<redis, pending, rows, outcome>>
  BY DEF Replay
<1>2. call[r] \in Call /\ call[r].key \in Key
  BY <1>1 DEF IInv, Working, Call
<1>3. CASE Reply(r, "error", 0) \/ Reply(r, "conflict", 0) \/ Reply(r, "mismatch", 0)
  BY <1>1, <1>2, <1>3 DEF Doubt
<1>4. CASE found \notin {Free, PENDING} /\ found.body = call[r].body
           /\ Reply(r, found.code, found.row)
  <2>1. found \in Result
    BY <1>2, <1>4 DEF IInv, TypeOK
  <2>2. found.code \in {"created", "rejected"} /\ found.row \in Nat
    BY <2>1 DEF Result
  <2>3. outcome[call[r].key] = found
    BY <1>2, <1>4 DEF IInv, KeyInv
  <2>4. outcome[call[r].key] = Value(call[r].body, found.code, found.row)
    BY <1>4, <2>1, <2>3, ValueFacts
  <2>5. QED
    BY <1>1, <1>2, <1>4, <2>2, <2>4
<1>5. QED
  BY <1>3, <1>4 DEF Replay

LEMMA ReplayKeepsIInv ==
    ASSUME IInv, NEW r \in Request, Replay(r)
    PROVE  IInv'
BY ReplayStep, ReplyKeepsIInv

\* The handler of k ends, decided or not: by then k is PENDING, no result
\* of it is on its way, and no other handler works on it.
LEMMA DecidedKeepsKey ==
    ASSUME IInv, NEW r \in Request, pc[r] \in Handling, NEW k \in Key, call[r].key = k,
           redis' = redis, NEW v \in Result, outcome' = [outcome EXCEPT ![k] = v],
           NEW i \in Instance,
           pending' \in {pending, pending \cup {[at |-> i, key |-> k, value |-> v]}},
           pc'[r] \notin Handling,
           \A q \in Request \ {r} : pc'[q] = pc[q] /\ call'[q] = call[q]
    PROVE  /\ \A j \in Key : KeyInv(j)'
           /\ outcome' \in [Key -> Result \cup {Free}]
           /\ pending' \subseteq [at : Instance, key : Key, value : Result]
<1> DEFINE s == [at |-> i, key |-> k, value |-> v]
<1>1. /\ outcome' \in [Key -> Result \cup {Free}]
      /\ outcome'[k] = v
      /\ \A j \in Key \ {k} : outcome'[j] = outcome[j]
  BY DEF IInv, TypeOK
<1>2. pending' \subseteq [at : Instance, key : Key, value : Result]
  BY DEF IInv, TypeOK
<1>3. /\ redis[k] = PENDING
      /\ \A t \in pending : t.key # k
      /\ \A q \in Request \ {r} : ~(pc[q] \in Handling /\ call[q].key = k)
  BY DEF IInv, KeyInv
<1>4. KeyInv(k)'
  <2>1. \A t \in pending' : t.key = k => t = s
    BY <1>3
  <2>2. \A q \in Request : ~(pc'[q] \in Handling /\ call'[q].key = k)
    BY <1>3
  <2>3. s.value = v
    OBVIOUS
  <2>4. QED
    BY <1>1, <1>3, <2>1, <2>2, <2>3, ValueFacts DEF KeyInv
<1>5. ASSUME NEW j \in Key, j # k
      PROVE  KeyInv(j)'
  <2>1. \A t \in pending' : t.key = j => t \in pending
    BY <1>5
  <2>2. QED
    BY <1>1, <1>5, <2>1, QuietKey DEF IInv
<1>6. QED
  BY <1>1, <1>2, <1>4, <1>5

LEMMA DecideKeepsIInv ==
    ASSUME IInv, NEW r \in Request, pc[r] \in Handling, redis' = redis,
           NEW code \in {"created", "rejected"}, NEW n \in Nat, Decide(r, code, n),
           rows' \in Seq([key : Key, body : Body])
    PROVE  IInv'
<1> DEFINE v == Value(call[r].body, code, n)
           k == call[r].key
           i == call[r].at
<1>1. pc[r] # "idle" /\ call[r] \in Call /\ TypeOK /\ Working
  BY DEF IInv, Working, Handling
<1>2. k \in Key /\ i \in Instance /\ v \in Result
  BY <1>1, ValueFacts DEF Call
<1>3. /\ pc' \in [Request -> Busy \cup {"idle", "answer"}]
      /\ call' \in [Request -> Call \cup {NoCall}]
      /\ Working'
      /\ pc'[r] = "answer"
      /\ \A q \in Request \ {r} : pc'[q] = pc[q] /\ call'[q] = call[q]
  BY <1>1, ReplyType DEF Decide
<1>4. /\ outcome' = [outcome EXCEPT ![k] = v]
      /\ pending' = pending \cup {[at |-> i, key |-> k, value |-> v]}
  BY DEF Decide
<1>5. pc'[r] \notin Handling
  BY <1>3 DEF Handling
<1>6. /\ \A j \in Key : KeyInv(j)'
      /\ outcome' \in [Key -> Result \cup {Free}]
      /\ pending' \subseteq [at : Instance, key : Key, value : Result]
  BY <1>2, <1>3, <1>4, <1>5, DecidedKeepsKey
<1>7. TypeOK'
  BY <1>1, <1>3, <1>6 DEF TypeOK
<1>8. QED
  BY <1>3, <1>6, <1>7 DEF IInv

LEMMA FailKeepsIInv ==
    ASSUME IInv, NEW r \in Request, pc[r] \in Handling, redis' = redis, Fail(r)
    PROVE  IInv'
BY ReplyKeepsIInv DEF Fail, Handling, Doubt

\* Either account looked up: the handler goes on, refuses or fails.
LEMMA CheckCases ==
    ASSUME NEW r \in Request, CheckAccounts(r)
    PROVE  /\ pc[r] \in Handling /\ redis' = redis
           /\ \/ \E next \in {"destination", "create"} :
                    Goto(r, next) /\ UNCHANGED <<pending, rows, outcome>>
              \/ Decide(r, "rejected", 0) /\ UNCHANGED rows
              \/ Fail(r)
BY DEF CheckAccounts, getAccount, getAccountInternal, Checked, Handling

LEMMA CheckKeepsIInv ==
    ASSUME IInv, NEW r \in Request, CheckAccounts(r)
    PROVE  IInv'
<1>1. pc[r] \in Handling /\ redis' = redis
  BY CheckCases
<1>2. ASSUME NEW next \in {"destination", "create"},
             Goto(r, next), UNCHANGED <<pending, rows, outcome>>
      PROVE  IInv'
  <2>1. /\ pc' \in [Request -> Busy \cup {"idle", "answer"}]
        /\ call' = call /\ Working'
        /\ \A q \in Request \ {r} : pc'[q] = pc[q]
    BY <1>1, <1>2, GotoType DEF Busy, Handling, IInv
  <2>2. \A j \in Key : KeyInv(j)'
    BY <1>1, <1>2, <2>1, QuietStep
  <2>3. TypeOK'
    BY <1>1, <1>2, <2>1 DEF IInv, TypeOK
  <2>4. QED
    BY <2>1, <2>2, <2>3 DEF IInv
<1>3. CASE Decide(r, "rejected", 0) /\ rows' = rows
  BY <1>1, <1>3, DecideKeepsIInv DEF IInv, TypeOK
<1>4. CASE Fail(r)
  BY <1>1, <1>4, FailKeepsIInv
<1>5. QED
  BY <1>2, <1>3, <1>4, CheckCases

\* A row is inserted.
LEMMA InsertType ==
    ASSUME IInv, NEW r \in Request, pc[r] \in Handling, rows' = Append(rows, NewRow(r))
    PROVE  /\ rows' \in Seq([key : Key, body : Body])
           /\ Len(rows) \in Nat
           /\ Len(rows') \in Nat
           /\ Len(rows') = Len(rows) + 1
<1>1. rows \in Seq([key : Key, body : Body])
  BY DEF IInv, TypeOK
<1>2. NewRow(r) \in [key : Key, body : Body]
  BY DEF IInv, Working, Handling, NewRow, Call
<1>3. QED
  BY <1>1, <1>2

LEMMA CreateKeepsIInv ==
    ASSUME IInv, NEW r \in Request, CreateTransfer(r)
    PROVE  IInv'
<1>1. pc[r] \in Handling /\ pc[r] # "idle" /\ redis' = redis
  BY DEF CreateTransfer, Handling
<1>2. CASE rows' = Append(rows, NewRow(r)) /\ Decide(r, "created", Len(rows'))
  BY <1>1, <1>2, InsertType, DecideKeepsIInv
<1>3. CASE Fail(r)
  BY <1>1, <1>3, FailKeepsIInv
<1>4. CASE /\ rows' = Append(rows, NewRow(r))
           /\ outcome' = [outcome EXCEPT ![call[r].key] =
                             Value(call[r].body, "created", Len(rows'))]
           /\ Reply(r, "error", 0)
           /\ pending' = pending
  <2>1. call[r] \in Call /\ call[r].key \in Key /\ call[r].body \in Body /\ call[r].at \in Instance
    BY <1>1 DEF IInv, Working, Call
  <2>2. rows' \in Seq([key : Key, body : Body]) /\ Len(rows') \in Nat
    BY <1>1, <1>4, InsertType
  <2>3. Value(call[r].body, "created", Len(rows')) \in Result
    BY <2>1, <2>2, ValueFacts
  <2>4. /\ pc' \in [Request -> Busy \cup {"idle", "answer"}]
        /\ call' \in [Request -> Call \cup {NoCall}]
        /\ Working'
        /\ pc'[r] = "answer"
        /\ \A q \in Request \ {r} : pc'[q] = pc[q] /\ call'[q] = call[q]
    BY <1>1, <1>4, ReplyType DEF IInv, Doubt
  <2>5. pc'[r] \notin Handling
    BY <2>4 DEF Handling
  <2>6. /\ \A j \in Key : KeyInv(j)'
        /\ outcome' \in [Key -> Result \cup {Free}]
        /\ pending' \subseteq [at : Instance, key : Key, value : Result]
    BY <1>1, <1>4, <2>1, <2>3, <2>4, <2>5, DecidedKeepsKey
  <2>7. TypeOK'
    BY <1>1, <2>2, <2>4, <2>6 DEF IInv, TypeOK
  <2>8. QED
    BY <2>4, <2>6, <2>7 DEF IInv
<1>5. QED
  BY <1>2, <1>3, <1>4 DEF CreateTransfer

LEMMA StoreKeepsIInv ==
    ASSUME IInv, NEW s \in pending, storeResult(s)
    PROVE  IInv'
<1> DEFINE k == s.key
<1>1. /\ redis' = [redis EXCEPT ![k] = s.value] /\ pending' = pending \ {s}
      /\ UNCHANGED <<rows, outcome, pc, call>>
  BY DEF storeResult
<1>2. k \in Key /\ s.value \in Result
  BY DEF IInv, TypeOK
<1>3. /\ redis' \in [Key -> Result \cup {Free, PENDING}]
      /\ redis'[k] = s.value
      /\ \A j \in Key \ {k} : redis'[j] = redis[j]
  BY <1>1, <1>2 DEF IInv, TypeOK
<1>4. KeyInv(k)'
  <2>1. /\ outcome[k] = s.value
        /\ \A q \in Request : ~(pc[q] \in Handling /\ call[q].key = k)
        /\ \A t \in pending : t.key = k => t = s
    BY <1>2 DEF IInv, KeyInv
  <2>2. QED
    BY <1>1, <1>2, <1>3, <2>1, ValueFacts DEF KeyInv
<1>5. ASSUME NEW j \in Key, j # k
      PROVE  KeyInv(j)'
  BY <1>1, <1>3, <1>5, QuietKey DEF IInv
<1>6. TypeOK' /\ Working'
  BY <1>1, <1>3 DEF IInv, TypeOK, Working
<1>7. QED
  BY <1>4, <1>5, <1>6 DEF IInv

LEMMA FinishKeepsIInv ==
    ASSUME IInv, NEW r \in Request, Finish(r)
    PROVE  IInv'
<1>1. /\ pc' = [pc EXCEPT ![r] = "idle"] /\ call' = [call EXCEPT ![r] = NoCall]
      /\ UNCHANGED <<redis, pending, rows, outcome>>
  BY DEF Finish
<1>2. /\ pc'[r] = "idle" /\ TypeOK' /\ Working'
      /\ \A q \in Request \ {r} : pc'[q] = pc[q] /\ call'[q] = call[q]
  BY <1>1 DEF IInv, TypeOK, Working
<1>3. \A k \in Key : KeyInv(k)'
  BY <1>1, <1>2, QuietStep DEF Handling
<1>4. QED
  BY <1>2, <1>3 DEF IInv

LEMMA CrashStep ==
    ASSUME IInv, NEW i \in Instance, Crash(i), NEW q \in Request
    PROVE  \/ pc'[q] = pc[q] /\ call'[q] = call[q]
           \/ /\ pc[q] # "idle" /\ pc'[q] = "answer" /\ call[q] \in Call
              /\ call'[q] = [call[q] EXCEPT !.code = "error"]
              /\ call'[q] \in Call
BY DEF IInv, TypeOK, Working, Crash, Busy, Handling, Call, Doubt

LEMMA CrashKeepsIInv ==
    ASSUME IInv, NEW i \in Instance, Crash(i)
    PROVE  IInv'
<1>1. /\ pending' \subseteq pending /\ UNCHANGED <<redis, rows, outcome>>
      /\ DOMAIN pc' = Request /\ DOMAIN call' = Request
      /\ pc' = [q \in Request |-> pc'[q]] /\ call' = [q \in Request |-> call'[q]]
  BY DEF Crash
<1>2. \A q \in Request : pc'[q] \in Handling => pc'[q] = pc[q] /\ call'[q] = call[q]
  BY CrashStep DEF Handling
<1>3. \A k \in Key : KeyInv(k)'
  BY <1>1, <1>2, QuietKey DEF IInv
<1>4. \A q \in Request : /\ pc'[q] \in Busy \cup {"idle", "answer"}
                         /\ call'[q] \in Call \cup {NoCall}
                         /\ pc'[q] # "idle" => call'[q] \in Call
  BY CrashStep DEF IInv, TypeOK, Working
<1>5. TypeOK' /\ Working'
  BY <1>1, <1>4 DEF IInv, TypeOK, Working
<1>6. QED
  BY <1>3, <1>5 DEF IInv

LEMMA ExpireKeepsIInv ==
    ASSUME IInv, NEW k \in Key, Expire(k)
    PROVE  IInv'
<1>1. /\ redis' = [redis EXCEPT ![k] = Free] /\ outcome' = [outcome EXCEPT ![k] = Free]
      /\ UNCHANGED <<pending, rows, pc, call>>
      /\ \A r \in Request : pc[r] \in Handling => call[r].key # k
      /\ \A s \in pending : s.key # k
  BY DEF Expire
<1>2. TypeOK' /\ Working'
  BY <1>1 DEF IInv, TypeOK, Working
<1>3. /\ redis'[k] = Free /\ outcome'[k] = Free
      /\ \A j \in Key \ {k} : redis'[j] = redis[j] /\ outcome'[j] = outcome[j]
  BY <1>1 DEF IInv, TypeOK
<1>4. KeyInv(k)'
  BY <1>1, <1>3 DEF KeyInv
<1>5. ASSUME NEW j \in Key, j # k
      PROVE  KeyInv(j)'
  BY <1>1, <1>3, <1>5, QuietKey DEF IInv
<1>6. QED
  BY <1>2, <1>4, <1>5 DEF IInv

LEMMA NextKeepsIInv == IInv /\ [Next]_keyVars => IInv'
<1> SUFFICES ASSUME IInv, [Next]_keyVars PROVE IInv'
  OBVIOUS
<1>1. CASE UNCHANGED keyVars
  BY <1>1 DEF IInv, TypeOK, Working, KeyInv, keyVars
<1>2. ASSUME NEW r \in Request, Step(r) \/ Finish(r)
      PROVE  IInv'
  BY <1>2, ClaimKeepsIInv, ReplayKeepsIInv, CheckKeepsIInv, CreateKeepsIInv,
     FinishKeepsIInv DEF Step
<1>3. QED
  BY <1>1, <1>2, ReceiveKeepsIInv, StoreKeepsIInv, CrashKeepsIInv, ExpireKeepsIInv DEF Next

LEMMA Invariance == Spec => []IInv
BY InitHolds, NextKeepsIInv, PTL DEF Spec

\* Redis, the rows and the requests keep their types.
THEOREM KeysTypeCorrect == Spec => []TypeOK
<1>1. IInv => TypeOK
  BY DEF IInv
<1>2. QED
  BY <1>1, Invariance, PTL
-----------------------------------------------------------------------------
\* A request is answered: what it is told is in doubt, or was decided.
LEMMA ReplyAnswers ==
    ASSUME IInv, NEW r \in Request, pc[r] # "idle",
           NEW code \in Doubt \cup {"created", "rejected"}, NEW n \in Nat, Reply(r, code, n),
           code \in Doubt \/ outcome'[call[r].key] = Value(call[r].body, code, n)
    PROVE  Once!Answers
<1>0. TypeOK /\ Working
  BY DEF IInv
<1>1. /\ call'[r].key = call[r].key /\ call'[r].body = call[r].body
      /\ call'[r].code = code /\ call'[r].row = n
      /\ \A q \in Request \ {r} : call'[q] = call[q]
  BY <1>0, ReplyType
<1>2. QED
  BY <1>1 DEF Once!Answers, Value

LEMMA DecideAnswers ==
    ASSUME IInv, NEW r \in Request, pc[r] \in Handling,
           NEW code \in {"created", "rejected"}, NEW n \in Nat, Decide(r, code, n)
    PROVE  /\ Once!Answers
           /\ call[r].key \in Key /\ call[r].body \in Body
           /\ outcome[call[r].key] = Free
           /\ outcome' = [outcome EXCEPT ![call[r].key] = Value(call[r].body, code, n)]
<1>1. pc[r] # "idle" /\ call[r] \in Call /\ call[r].key \in Key /\ call[r].body \in Body
  BY DEF IInv, Working, Handling, Call
<1>2. outcome' = [outcome EXCEPT ![call[r].key] = Value(call[r].body, code, n)]
  BY DEF Decide
<1>3. outcome'[call[r].key] = Value(call[r].body, code, n)
  BY <1>1, <1>2 DEF IInv, TypeOK
<1>4. Once!Answers
  BY <1>1, <1>3, ReplyAnswers DEF Decide
<1>5. outcome[call[r].key] = Free
  BY <1>1 DEF IInv, KeyInv
<1>6. QED
  BY <1>1, <1>2, <1>4, <1>5

LEMMA CheckImplements ==
    ASSUME IInv, NEW r \in Request, CheckAccounts(r)
    PROVE  Once!Next
<1>1. pc[r] \in Handling
  BY CheckCases
<1>2. ASSUME NEW next \in {"destination", "create"}, Goto(r, next), UNCHANGED <<rows, outcome>>
      PROVE  Once!Next
  BY <1>2 DEF Goto, Once!Next, Once!Answers
<1>3. CASE Decide(r, "rejected", 0) /\ rows' = rows
  <2>1. Once!Refuse(call[r].key, call[r].body)
    BY <1>1, <1>3, DecideAnswers DEF Once!Refuse, Once!Decide, Value
  <2>2. QED
    BY <1>1, <1>3, <2>1, DecideAnswers DEF Once!Next
<1>4. CASE Fail(r)
  BY <1>1, <1>4, ReplyAnswers DEF Fail, Once!Next, Doubt, Handling
<1>5. QED
  BY <1>2, <1>3, <1>4, CheckCases

LEMMA CreateImplements ==
    ASSUME IInv, NEW r \in Request, CreateTransfer(r)
    PROVE  Once!Next
<1>1. pc[r] = "create" /\ pc[r] \in Handling
  BY DEF CreateTransfer, Handling
<1>2. CASE rows' = Append(rows, NewRow(r)) /\ Decide(r, "created", Len(rows'))
  <2>1. Len(rows') \in Nat /\ Len(rows') = Len(rows) + 1
    BY <1>1, <1>2, InsertType
  <2>2. /\ Once!Answers
        /\ call[r].key \in Key /\ call[r].body \in Body
        /\ outcome[call[r].key] = Free
        /\ outcome' = [outcome EXCEPT ![call[r].key] =
                          Value(call[r].body, "created", Len(rows'))]
    BY <1>1, <1>2, <2>1, DecideAnswers
  <2>3. Once!Transfer(call[r].key, call[r].body)
    BY <2>1, <2>2 DEF Once!Transfer, Once!Decide, Value
  <2>4. QED
    BY <2>2, <2>3 DEF Once!Next
<1>3. CASE Fail(r)
  BY <1>1, <1>3, ReplyAnswers DEF Fail, Once!Next, Doubt
<1>4. CASE /\ rows' = Append(rows, NewRow(r))
           /\ outcome' = [outcome EXCEPT ![call[r].key] =
                             Value(call[r].body, "created", Len(rows'))]
           /\ Reply(r, "error", 0)
  <2>1. Len(rows') = Len(rows) + 1
    BY <1>1, <1>4, InsertType
  <2>2. call[r].key \in Key /\ call[r].body \in Body /\ outcome[call[r].key] = Free
    BY <1>1 DEF IInv, Working, KeyInv, Call
  <2>3. Once!Answers
    BY <1>1, <1>4, ReplyAnswers DEF Doubt
  <2>4. Once!Transfer(call[r].key, call[r].body)
    BY <1>4, <2>1, <2>2 DEF Once!Transfer, Once!Decide, Value
  <2>5. QED
    BY <2>2, <2>3, <2>4 DEF Once!Next
<1>5. QED
  BY <1>2, <1>3, <1>4 DEF CreateTransfer

LEMMA StepImplements ==
    ASSUME IInv, NEW r \in Request, Step(r)
    PROVE  Once!Next
<1>1. CASE Claim(r)
  <2>1. pc[r] # "idle" /\ UNCHANGED <<rows, outcome>>
    BY <1>1 DEF Claim
  <2>2. UNCHANGED call \/ Reply(r, "error", 0)
    BY <1>1 DEF Claim, Goto
  <2>3. Once!Answers
    <3>1. CASE UNCHANGED call
      BY <3>1 DEF Once!Answers
    <3>2. CASE Reply(r, "error", 0)
      BY <2>1, <3>2, ReplyAnswers DEF Doubt
    <3>3. QED
      BY <2>2, <3>1, <3>2
  <2>4. QED
    BY <2>1, <2>3 DEF Once!Next
<1>2. CASE Replay(r)
  <2>1. pc[r] # "idle" /\ UNCHANGED <<rows, outcome>>
    BY <1>2, ReplayStep
  <2>2. Once!Answers
    BY <1>2, <2>1, ReplayStep, ReplyAnswers
  <2>3. QED
    BY <2>1, <2>2 DEF Once!Next
<1>3. QED
  BY <1>1, <1>2, CheckImplements, CreateImplements DEF Step

LEMMA NextImplements == IInv /\ [Next]_keyVars => [Once!Next]_(Once!vars)
<1> SUFFICES ASSUME IInv, [Next]_keyVars PROVE [Once!Next]_(Once!vars)
  OBVIOUS
<1>1. CASE UNCHANGED keyVars
  BY <1>1 DEF keyVars, Once!vars
<1>2. ASSUME NEW r \in Request, NEW k \in Key, NEW b \in Body, NEW i \in Instance,
             Receive(r, k, b, i)
      PROVE  Once!Next
  BY <1>2 DEF Receive, IInv, TypeOK, Once!Next, Once!Answers, Doubt
<1>3. ASSUME NEW r \in Request, Finish(r)
      PROVE  Once!Next
  BY <1>3 DEF Finish, IInv, TypeOK, NoCall, Once!Next, Once!Answers, Doubt
<1>4. ASSUME NEW s \in pending, storeResult(s)
      PROVE  Once!Next
  BY <1>4 DEF storeResult, Once!Next, Once!Answers
<1>5. ASSUME NEW i \in Instance, Crash(i)
      PROVE  Once!Next
  <2>1. \A q \in Request : call'[q] = call[q] \/ call'[q].code = "error"
    BY <1>5, CrashStep DEF Call
  <2>2. UNCHANGED <<rows, outcome>>
    BY <1>5 DEF Crash
  <2>3. QED
    BY <2>1, <2>2 DEF Once!Next, Once!Answers, Doubt
<1>6. ASSUME NEW k \in Key, Expire(k)
      PROVE  Once!Next
  BY <1>6 DEF Expire, Once!Next, Once!Forget, Once!Answers
<1>7. QED
  BY <1>1, <1>2, <1>3, <1>4, <1>5, <1>6, StepImplements DEF Next

\* However requests with one key overlap and wherever they are cut short,
\* the service decides the key once and answers with the decision.
THEOREM KeysImplementOnceOnly == Spec => OnceOnlySpec
<1>1. Init => Once!Init
  BY DEF Init, NoCall, Once!Init, Doubt
<1>2. QED
  BY <1>1, NextImplements, Invariance, PTL DEF Spec, OnceOnlySpec, Once!Spec
-----------------------------------------------------------------------------
(* The forms and programs that call.                                       *)

Action ==
    [at : {"gateway", "service", "done"}, by : Person, number : DOMAIN series,
     key : Key, values : Body, refreshed : BOOLEAN,
     code : Doubt \cup {"created", "rejected", "unauthorized"}, row : Nat]

RequestsTypeOK ==
    /\ waits \in [Person -> Request \cup {Nobody}]
    /\ last \in [TransferForm -> [key : DOMAIN series, values : Body] \cup {NoAttempt}]
    /\ web \in [Request -> Action \cup {NoAction}]
    /\ series \in Seq(DOMAIN series)
    /\ entered \in Seq(Nat)
    /\ DOMAIN entered = DOMAIN series
    /\ DOMAIN series \subseteq Submission
    /\ expired \subseteq Key

\* k is the key of an attempt that a transfer form may still press again, or
\* has under way.
Attempt(k) ==
    \/ \E f \in TransferForm : last[f] # NoAttempt /\ last[f].key = k
    \/ \E r \in Request : web[r] # NoAction /\ web[r].by \in TransferForm /\ web[r].key = k

\* The body b came, or will come, with the key k.
Used(k, b) ==
    \/ \E f \in TransferForm : last[f] = [key |-> k, values |-> b]
    \/ \E r \in Request : web[r] # NoAction /\ web[r].key = k /\ web[r].values = b
    \/ outcome[k] # Free /\ outcome[k].body = b

\* A key of the forms' own making comes with one body.
OneBody ==
    \A k \in Submission, b, c \in Body : Used(k, b) /\ Used(k, c) => b = c

\* No key is used before it is made.
Made == \A k \in Submission, b \in Body : Used(k, b) => k \in DOMAIN series

\* A transfer form's submissions carry the number of the first of them; those
\* of others are alone, and no form's.
Series(r) ==
    /\ web[r].by \in TransferForm => web[r].key = series[web[r].number]
    /\ web[r].by \in Form => web[r].key \in Submission
    /\ web[r].by \notin TransferForm =>
          /\ ~Attempt(series[web[r].number])
          /\ \A m \in DOMAIN series : series[m] = series[web[r].number] => m = web[r].number

\* The service works on what the action asked for, and on nothing else.
Passed(r) ==
    IF web[r].at = "service"
    THEN /\ web[r].by \notin AmountForm
         /\ pc[r] # "idle"
         /\ call[r].key = web[r].key /\ call[r].body = web[r].values
    ELSE pc[r] = "idle"

\* What an answer says of the transfer with the key k and the body b.
Holds(by, k, b, code, row) ==
    /\ code = "created" =>
          row \in DOMAIN rows /\ rows[row] = [key |-> k, body |-> b]
    /\ code = "rejected" => k \in expired \/ outcome[k].code = "rejected"
    /\ code = "mismatch" => by \in Program

\* A row was entered for a submission only if its answer does not say no.
Answer(r) ==
    /\ web[r].at = "gateway" => entered[web[r].number] = 0
    /\ web[r].at = "service" =>
          /\ entered[web[r].number] # 0 =>
                pc[r] = "answer" /\ call[r].code \in {"created", "error"}
          /\ pc[r] # "answer" => call[r].code = "none"
          /\ Holds(web[r].by, web[r].key, web[r].values, call[r].code, call[r].row)
    /\ web[r].at = "done" =>
          /\ web[r].code \in {"rejected", "unauthorized"} => entered[web[r].number] = 0
          /\ web[r].by \notin AmountForm =>
                Holds(web[r].by, web[r].key, web[r].values, web[r].code, web[r].row)
          /\ web[r].code = "mismatch" => web[r].by \in Program

\* The rows of a key are what was decided of it, once it was not forgotten.
RowsOf(k) ==
    /\ outcome[k].code = "created" =>
          /\ outcome[k].row \in DOMAIN rows
          /\ rows[outcome[k].row] = [key |-> k, body |-> outcome[k].body]
    /\ k \notin expired => \A i \in DOMAIN rows : rows[i].key = k =>
          outcome[k].code = "created"

\* The row of an attempt that was entered is there.
Kept ==
    \A n \in DOMAIN series :
        entered[n] # 0 /\ series[n] \notin expired /\ Attempt(series[n]) =>
            \E i \in DOMAIN rows : rows[i].key = series[n]

RInv ==
    /\ IInv
    /\ RequestsTypeOK
    /\ OneBody /\ Made
    /\ \A f \in TransferForm : last[f] # NoAttempt => series[last[f].key] = last[f].key
    /\ \A r \in Request : web[r] # NoAction => Series(r) /\ Answer(r)
    /\ \A r \in Request : Passed(r)
    /\ \A q, r \in Request :
          web[q] # NoAction /\ web[r] # NoAction /\ web[q].number = web[r].number => q = r
    /\ \A k \in Key : RowsOf(k)
    /\ Kept
    /\ OneRowPerSubmission
    /\ PressedAgainOnce

LEMMA ActionFacts ==
    ASSUME RequestsTypeOK
    PROVE  /\ \A x \in Action : x # NoAction /\ x.at # "none"
           /\ \A r \in Request : web[r] # NoAction => web[r] \in Action
           /\ \A r \in Request : web[r].at # "none" => web[r] # NoAction
           /\ \A r \in Request : web[r] = NoAction => web[r].at = "none"
<1>1. \A x \in Action : x.at # "none"
  BY DEF Action
<1>2. NoAction.at = "none"
  BY DEF NoAction
<1>3. \A r \in Request : web[r] \in Action \cup {NoAction}
  BY DEF RequestsTypeOK
<1>4. QED
  BY <1>1, <1>2, <1>3

\* What the guards, Accounts and the service answer.
LEMMA Heard ==
    ASSUME RequestsTypeOK, NEW r \in Request, web[r] # NoAction,
           NEW code \in Doubt \cup {"created", "rejected", "unauthorized"},
           NEW n \in Nat, Hear(r, code, n)
    PROVE  /\ web' \in [Request -> Action \cup {NoAction}]
           /\ \A q \in Request \ {r} : web'[q] = web[q]
           /\ web'[r] \in Action
           /\ web'[r].at = "done" /\ web'[r].code = code /\ web'[r].row = n
           /\ web'[r].by = web[r].by /\ web'[r].number = web[r].number
           /\ web'[r].key = web[r].key /\ web'[r].values = web[r].values
<1> DEFINE x == [web[r] EXCEPT !.at = "done", !.code = code, !.row = n]
<1>1. web[r] \in Action
  BY ActionFacts
<1>2. /\ x \in Action
      /\ x.at = "done" /\ x.code = code /\ x.row = n
      /\ x.by = web[r].by /\ x.number = web[r].number
      /\ x.key = web[r].key /\ x.values = web[r].values
  BY <1>1 DEF Action
<1> HIDE DEF x
<1>3. web' = [web EXCEPT ![r] = x]
  BY DEF Hear, x
<1>4. QED
  BY <1>2, <1>3 DEF RequestsTypeOK

\* The action goes to the gateway again, or on to the service.
LEMMA MovedOn ==
    ASSUME RequestsTypeOK, NEW r \in Request, web[r] # NoAction,
           NEW at \in {"gateway", "service"}, NEW again \in BOOLEAN,
           web' = [web EXCEPT ![r] = [web[r] EXCEPT !.at = at, !.refreshed = again]]
    PROVE  /\ web' \in [Request -> Action \cup {NoAction}]
           /\ \A q \in Request \ {r} : web'[q] = web[q]
           /\ web'[r] \in Action
           /\ web'[r].at = at
           /\ web'[r].by = web[r].by /\ web'[r].number = web[r].number
           /\ web'[r].key = web[r].key /\ web'[r].values = web[r].values
<1> DEFINE x == [web[r] EXCEPT !.at = at, !.refreshed = again]
<1>1. web[r] \in Action
  BY ActionFacts
<1>2. /\ x \in Action /\ x.at = at
      /\ x.by = web[r].by /\ x.number = web[r].number
      /\ x.key = web[r].key /\ x.values = web[r].values
  BY <1>1 DEF Action
<1> HIDE DEF x
<1>3. web' = [web EXCEPT ![r] = x]
  BY DEF x
<1>4. QED
  BY <1>2, <1>3 DEF RequestsTypeOK

\* No attempt, no body and no series is new.
Calm ==
    /\ \A f \in TransferForm : last'[f] = last[f] \/ last'[f] = NoAttempt
    /\ \A r \in Request :
          \/ web'[r] = NoAction
          \/ /\ web[r] # NoAction
             /\ web'[r].by = web[r].by /\ web'[r].number = web[r].number
             /\ web'[r].key = web[r].key /\ web'[r].values = web[r].values
    /\ \A k \in Key :
          \/ outcome'[k] = outcome[k] \/ outcome'[k] = Free
          \/ \E r \in Request : web[r] # NoAction /\ web[r].key = k
                                /\ outcome'[k].body = web[r].values
    /\ series' = series

LEMMA CalmKeeps ==
    ASSUME RInv, Calm
    PROVE  /\ \A k \in Key : Attempt(k)' => Attempt(k)
           /\ OneBody' /\ Made'
           /\ \A f \in TransferForm : last'[f] # NoAttempt => series'[last'[f].key] = last'[f].key
           /\ \A r \in Request : web'[r] # NoAction => Series(r)'
           /\ \A q, r \in Request :
                 web'[q] # NoAction /\ web'[r] # NoAction /\ web'[q].number = web'[r].number
                    => q = r
<1>1. \A k : Attempt(k)' => Attempt(k)
  BY DEF Calm, Attempt
<1>2. ASSUME NEW k \in Submission, NEW b, Used(k, b)'
      PROVE  Used(k, b)
  <2>1. k \in Key
    BY RequestsAssumption
  <2>3. CASE \E f \in TransferForm : last'[f] = [key |-> k, values |-> b]
    <3>1. PICK f \in TransferForm : last'[f] = [key |-> k, values |-> b]
      BY <2>3
    <3>2. CASE last'[f] = last[f]
      BY <3>1, <3>2 DEF Used
    <3>3. CASE last'[f] = NoAttempt
      <4>1. k = 0
        BY <3>1, <3>3 DEF NoAttempt
      <4>2. QED
        BY <4>1, RequestsAssumption DEF Submission
    <3>4. QED
      BY <3>2, <3>3 DEF Calm
  <2>4. CASE \E r \in Request : web'[r] # NoAction /\ web'[r].key = k /\ web'[r].values = b
    BY <2>4 DEF Calm, Used
  <2>5. CASE outcome'[k] # Free /\ outcome'[k].body = b
    BY <2>1, <2>5 DEF Calm, Used
  <2>6. QED
    BY <1>2, <2>3, <2>4, <2>5 DEF Used
<1>3. OneBody' /\ Made'
  BY <1>2 DEF RInv, OneBody, Made, Calm
<1>4. \A f \in TransferForm : last'[f] # NoAttempt => series'[last'[f].key] = last'[f].key
  BY DEF RInv, Calm
<1>5. ASSUME NEW r \in Request, web'[r] # NoAction
      PROVE  Series(r)'
  BY <1>1, <1>5 DEF RInv, Calm, Series
<1>6. QED
  BY <1>1, <1>3, <1>4, <1>5 DEF RInv, Calm

\* What was said of transfers stays true.
Stable ==
    /\ \A i \in DOMAIN rows : i \in DOMAIN rows' /\ rows'[i] = rows[i]
    /\ expired \subseteq expired'
    /\ \A k \in Key : outcome[k].code = "rejected" =>
          outcome'[k].code = "rejected" \/ k \in expired'

LEMMA HoldsStays ==
    ASSUME Stable, NEW by, NEW k \in Key, NEW b, NEW code, NEW row,
           Holds(by, k, b, code, row)
    PROVE  Holds(by, k, b, code, row)'
BY DEF Stable, Holds

\* An action that a step does not touch.
LEMMA UntouchedAction ==
    ASSUME RInv, Stable, NEW r \in Request, web'[r] = web[r], pc'[r] = pc[r],
           call'[r] = call[r],
           web[r] # NoAction => entered'[web[r].number] = entered[web[r].number]
    PROVE  Passed(r)' /\ (web'[r] # NoAction => Answer(r)')
<1>1. Passed(r)'
  BY DEF RInv, Passed
<1>2. ASSUME web[r] # NoAction
      PROVE  Answer(r)'
  <2>1. Answer(r) /\ web[r].key \in Key
    BY <1>2, ActionFacts DEF RInv, Action
  <2>2. \A by, b, code, row :
           Holds(by, web[r].key, b, code, row) => Holds(by, web[r].key, b, code, row)'
    <3> DEFINE k == web[r].key
    <3> HIDE DEF k
    <3>1. k \in Key
      BY <2>1 DEF k
    <3>2. \A by, b, code, row : Holds(by, k, b, code, row) =>
             /\ code = "created" =>
                   row \in DOMAIN rows' /\ rows'[row] = [key |-> k, body |-> b]
             /\ code = "rejected" => k \in expired' \/ outcome'[k].code = "rejected"
             /\ code = "mismatch" => by \in Program
      BY <3>1 DEF Stable, Holds
    <3>3. QED
      BY <3>2 DEF k, Holds
  <2>3. QED
    BY <1>2, <2>1, <2>2 DEF Answer, Holds
<1>3. QED
  BY <1>1, <1>2

\* A step that enters nothing keeps what relates rows to submissions.
LEMMA NothingEntered ==
    ASSUME RInv, Calm, Stable, UNCHANGED <<rows, entered>>
    PROVE  Kept' /\ OneRowPerSubmission' /\ PressedAgainOnce'
<1>1. \A n \in DOMAIN series : series[n] \in Key
  BY RequestsAssumption DEF RInv, RequestsTypeOK
<1>2. \A k \in Key : Attempt(k)' => Attempt(k)
  BY CalmKeeps
<1>3. Kept'
  BY <1>1, <1>2 DEF RInv, Kept, Calm, Stable
<1>4. OneRowPerSubmission'
  BY DEF RInv, OneRowPerSubmission
<1>5. PressedAgainOnce'
  BY DEF RInv, PressedAgainOnce, Calm, Stable
<1>6. QED
  BY <1>3, <1>4, <1>5

\* The parts of the invariant that no action of a slot is part of.
Rest ==
    /\ IInv /\ RequestsTypeOK
    /\ \A k \in Key : RowsOf(k)
    /\ Kept /\ OneRowPerSubmission /\ PressedAgainOnce

LEMMA CalmStep ==
    ASSUME RInv, Calm, Rest',
           \A r \in Request : Passed(r)' /\ (web'[r] # NoAction => Answer(r)')
    PROVE  RInv'
BY CalmKeeps DEF RInv, Rest

\* The service does nothing.
LEMMA ServiceStill ==
    ASSUME RInv, UNCHANGED <<keyVars, expired>>
    PROVE  IInv' /\ Stable /\ \A k \in Key : RowsOf(k)'
<1>1. IInv'
  BY NextKeepsIInv DEF RInv
<1>2. Stable
  BY DEF Stable, keyVars
<1>3. \A k \in Key : RowsOf(k)'
  BY DEF RInv, RowsOf, keyVars
<1>4. QED
  BY <1>1, <1>2, <1>3

\* A form or an action comes to its end.
LEMMA EndKeepsRInv ==
    ASSUME RInv,
           \/ \E f \in Person : Disconnect(f)
           \/ \E f \in TransferForm : Reload(f)
           \/ \E r \in Request : Return(r)
    PROVE  RInv'
<1>0. RequestsTypeOK
  BY DEF RInv
<1>1. /\ UNCHANGED <<keyVars, series, entered, expired>>
      /\ last' = last \/ \E f \in Person : Forgets(f)
      /\ waits' = waits \/ \E f \in Person : waits' = [waits EXCEPT ![f] = Nobody]
      /\ \/ web' = web
         \/ \E r \in Request : web[r].at = "done" /\ web' = [web EXCEPT ![r] = NoAction]
  <2>1. ASSUME NEW r \in Request, Return(r) PROVE web[r].by \in Person
    <3>1. web[r] \in Action
      BY <1>0, <2>1, ActionFacts DEF Return
    <3>2. QED
      BY <3>1 DEF Action
  <2>2. TransferForm \subseteq Person
    BY DEF Person, Form
  <2>3. QED
    BY <2>1, <2>2 DEF Disconnect, Reload, Return
<1>2. /\ \A f \in TransferForm : last'[f] = last[f] \/ last'[f] = NoAttempt
      /\ last' \in [TransferForm -> [key : DOMAIN series, values : Body] \cup {NoAttempt}]
  BY <1>0, <1>1 DEF Forgets, RequestsTypeOK
<1>3. /\ \A r \in Request : web'[r] = web[r] \/ (web[r].at = "done" /\ web'[r] = NoAction)
      /\ web' \in [Request -> Action \cup {NoAction}]
  BY <1>0, <1>1 DEF RequestsTypeOK
<1>4. Calm
  BY <1>1, <1>2, <1>3, ActionFacts, <1>0 DEF Calm, keyVars
<1>5. IInv' /\ Stable /\ \A k \in Key : RowsOf(k)'
  BY <1>1, ServiceStill
<1>6. RequestsTypeOK'
  <2>1. waits' \in [Person -> Request \cup {Nobody}]
    BY <1>0, <1>1 DEF RequestsTypeOK
  <2>2. QED
    BY <1>0, <1>1, <1>2, <1>3, <2>1 DEF RequestsTypeOK, Action
<1>7. Rest'
  BY <1>1, <1>4, <1>5, <1>6, NothingEntered DEF Rest, keyVars
<1>8. ASSUME NEW r \in Request
      PROVE  Passed(r)' /\ (web'[r] # NoAction => Answer(r)')
  <2>1. CASE web'[r] = web[r]
    BY <1>1, <1>5, <2>1, UntouchedAction DEF keyVars
  <2>2. CASE web[r].at = "done" /\ web'[r] = NoAction
    <3>1. pc[r] = "idle" /\ pc'[r] = "idle"
      BY <1>1, <2>2 DEF RInv, Passed, keyVars
    <3>2. QED
      BY <2>2, <3>1 DEF Passed, NoAction
  <2>3. QED
    BY <1>3, <2>1, <2>2
<1>9. QED
  BY <1>4, <1>7, <1>8, CalmStep

\* An action is answered without the service, or asks again.
LEMMA AnsweredEarly ==
    ASSUME RInv, NEW r \in Request, Unauthorized(r) \/ Unavailable(r) \/ Retry(r)
    PROVE  RInv'
<1>0. RequestsTypeOK /\ web[r] # NoAction /\ Answer(r) /\ Passed(r)
  <2>1. RequestsTypeOK /\ web[r].at # "none"
    BY DEF RInv, Unauthorized, Unavailable, Retry
  <2>2. QED
    BY <2>1, ActionFacts DEF RInv
<1>1. UNCHANGED <<keyVars, waits, last, series, entered, expired>>
  BY DEF Unauthorized, Unavailable, Retry
<1>2. /\ web' \in [Request -> Action \cup {NoAction}]
      /\ \A q \in Request \ {r} : web'[q] = web[q]
      /\ web'[r] \in Action
      /\ web'[r].by = web[r].by /\ web'[r].number = web[r].number
      /\ web'[r].key = web[r].key /\ web'[r].values = web[r].values
      /\ pc[r] = "idle" /\ entered[web[r].number] = 0
      /\ \/ web'[r].at = "gateway"
         \/ web'[r].at = "done" /\ web'[r].code \in {"unauthorized", "error"}
  <2>1. CASE Unauthorized(r) \/ Unavailable(r)
    <3>1. PICK code \in {"unauthorized", "error"} : Hear(r, code, 0)
      BY <2>1 DEF Unauthorized, Unavailable
    <3>2. web[r].at = "gateway"
      BY <2>1 DEF Unauthorized, Unavailable
    <3>3. code \in Doubt \cup {"created", "rejected", "unauthorized"} /\ 0 \in Nat
      BY DEF Doubt
    <3>4. pc[r] = "idle" /\ entered[web[r].number] = 0
      BY <1>0, <3>2 DEF Passed, Answer
    <3>5. QED
      BY <1>0, <3>1, <3>3, <3>4, Heard
  <2>2. CASE Retry(r)
    <3>1. web' = [web EXCEPT ![r] = [web[r] EXCEPT !.at = "gateway", !.refreshed = TRUE]]
      BY <2>2 DEF Retry
    <3>2. pc[r] = "idle" /\ entered[web[r].number] = 0
      BY <1>0, <2>2 DEF Retry, Passed, Answer
    <3>3. QED
      BY <1>0, <3>1, <3>2, MovedOn
  <2>3. QED
    BY <2>1, <2>2
<1>3. Calm
  BY <1>0, <1>1, <1>2 DEF Calm, keyVars
<1>4. IInv' /\ Stable /\ \A k \in Key : RowsOf(k)'
  BY <1>1, ServiceStill
<1>5. RequestsTypeOK'
  BY <1>0, <1>1, <1>2 DEF RequestsTypeOK, Action
<1>6. Rest'
  BY <1>1, <1>3, <1>4, <1>5, NothingEntered DEF Rest, keyVars
<1>7. ASSUME NEW q \in Request
      PROVE  Passed(q)' /\ (web'[q] # NoAction => Answer(q)')
  <2>1. CASE q # r
    BY <1>1, <1>2, <1>4, <2>1, UntouchedAction DEF keyVars
  <2>2. CASE q = r
    BY <1>1, <1>2, <2>2 DEF Passed, Answer, Holds, keyVars
  <2>3. QED
    BY <2>1, <2>2
<1>8. QED
  BY <1>3, <1>6, <1>7, CalmStep

\* A row is entered for one submission, for the first time.
LEMMA EnteredType ==
    ASSUME RInv, NEW r \in Request, web[r] # NoAction, entered[web[r].number] = 0,
           entered' = [entered EXCEPT ![web[r].number] = @ + 1]
    PROVE  /\ entered' \in Seq(Nat) /\ DOMAIN entered' = DOMAIN entered
           /\ entered'[web[r].number] = 1
           /\ \A n \in DOMAIN series : n # web[r].number => entered'[n] = entered[n]
           /\ OneRowPerSubmission'
<1>1. web[r].number \in DOMAIN entered /\ entered \in Seq(Nat)
  BY ActionFacts DEF RInv, RequestsTypeOK, Action
<1>2. entered' \in Seq(Nat) /\ DOMAIN entered' = DOMAIN entered /\ entered'[web[r].number] = 1
  BY <1>1
<1>3. \A n \in DOMAIN series : n # web[r].number => entered'[n] = entered[n]
  BY <1>1 DEF RInv, RequestsTypeOK
<1>4. OneRowPerSubmission'
  BY <1>1, <1>2, <1>3 DEF RInv, OneRowPerSubmission, RequestsTypeOK
<1>5. QED
  BY <1>2, <1>3, <1>4

\* That breaks no promise if nothing else was entered in its series.
LEMMA EnteredOnce ==
    ASSUME RInv, Stable, series' = series, NEW r \in Request, web[r] # NoAction,
           entered[web[r].number] = 0,
           entered' = [entered EXCEPT ![web[r].number] = @ + 1],
           series[web[r].number] \notin expired =>
              \A m \in DOMAIN series : series[m] = series[web[r].number] => entered[m] = 0
    PROVE  PressedAgainOnce'
<1> DEFINE n == web[r].number
<1>1. /\ entered'[n] = 1 /\ \A m \in DOMAIN series : m # n => entered'[m] = entered[m]
      /\ n \in DOMAIN series /\ \A m \in DOMAIN series : entered[m] \in Nat
  BY EnteredType, ActionFacts DEF RInv, RequestsTypeOK, Action
<1> HIDE DEF n
<1>2. ASSUME NEW l \in DOMAIN series, NEW m \in DOMAIN series, l < m,
             series[l] = series[m], series[l] \notin expired
      PROVE  entered'[l] + entered'[m] <= 1
  <2>0. DOMAIN series \subseteq Nat
    BY DEF RInv, RequestsTypeOK, Submission
  <2>1. l # m
    BY <1>2, <2>0
  <2>2. CASE l # n /\ m # n
    <3>1. entered[l] + entered[m] <= 1
      BY <1>2 DEF RInv, PressedAgainOnce
    <3>2. QED
      BY <1>1, <2>2, <3>1
  <2>3. CASE l = n
    <3>1. entered[m] = 0
      BY <1>2, <2>3 DEF n
    <3>2. QED
      BY <1>1, <2>1, <2>3, <3>1
  <2>4. CASE m = n
    <3>1. entered[l] = 0
      BY <1>2, <2>4 DEF n
    <3>2. QED
      BY <1>1, <2>1, <2>4, <3>1
  <2>5. QED
    BY <2>2, <2>3, <2>4
<1>3. QED
  BY <1>2 DEF PressedAgainOnce, Stable

LEMMA PostAmountKeepsRInv ==
    ASSUME RInv, NEW r \in Request, PostAmount(r)
    PROVE  RInv'
<1>0. RequestsTypeOK /\ web[r] # NoAction /\ Answer(r) /\ Passed(r) /\ Series(r)
  BY ActionFacts DEF RInv, PostAmount
<1>1. /\ UNCHANGED <<keyVars, waits, last, series, expired>>
      /\ web[r].at = "gateway" /\ web[r].by \in AmountForm
      /\ entered[web[r].number] = 0 /\ pc[r] = "idle"
  BY <1>0 DEF PostAmount, Answer, Passed
<1>2. /\ web' \in [Request -> Action \cup {NoAction}]
      /\ \A q \in Request \ {r} : web'[q] = web[q]
      /\ web'[r] \in Action
      /\ web'[r].by = web[r].by /\ web'[r].number = web[r].number
      /\ web'[r].key = web[r].key /\ web'[r].values = web[r].values
      /\ web'[r].at = "done"
      /\ \/ /\ entered' = [entered EXCEPT ![web[r].number] = @ + 1]
            /\ web'[r].code \in {"created", "error"}
         \/ /\ entered' = entered
            /\ web'[r].code \in {"rejected", "error"}
  <2>1. PICK code \in {"created", "rejected", "error"} :
           /\ Hear(r, code, 0)
           /\ \/ /\ entered' = [entered EXCEPT ![web[r].number] = @ + 1]
                 /\ code \in {"created", "error"}
              \/ /\ entered' = entered
                 /\ code \in {"rejected", "error"}
    BY DEF PostAmount
  <2>2. code \in Doubt \cup {"created", "rejected", "unauthorized"} /\ 0 \in Nat
    BY DEF Doubt
  <2>3. QED
    BY <1>0, <2>1, <2>2, Heard
<1>3. Calm
  BY <1>0, <1>1, <1>2 DEF Calm, keyVars
<1>4. IInv' /\ Stable /\ \A k \in Key : RowsOf(k)'
  BY <1>1, ServiceStill
<1>5. web[r].by \notin TransferForm
  BY <1>1, RequestsAssumption
<1>6. /\ entered' \in Seq(Nat) /\ DOMAIN entered' = DOMAIN entered
      /\ \A n \in DOMAIN series : n # web[r].number => entered'[n] = entered[n]
      /\ OneRowPerSubmission'
  BY <1>0, <1>1, <1>2, EnteredType DEF RInv, RequestsTypeOK, OneRowPerSubmission
<1>7. RequestsTypeOK'
  BY <1>0, <1>1, <1>2, <1>6 DEF RequestsTypeOK, Action
<1>8. Kept'
  <2>1. ASSUME NEW n \in DOMAIN series, Attempt(series[n])'
        PROVE  Attempt(series[n]) /\ n # web[r].number
    <3>1. series[n] \in Key /\ web[r].number \in DOMAIN series
      BY <1>0, ActionFacts, RequestsAssumption DEF RequestsTypeOK, Action
    <3>2. Attempt(series[n])
      BY <1>1, <2>1, <3>1, <1>3, CalmKeeps DEF Attempt
    <3>3. QED
      BY <1>0, <1>5, <3>2 DEF Series
  <2>2. QED
    BY <1>1, <1>6, <2>1 DEF RInv, Kept, keyVars
<1>9. PressedAgainOnce'
  <2>1. CASE entered' = entered
    BY <1>1, <2>1 DEF RInv, PressedAgainOnce
  <2>2. CASE entered' = [entered EXCEPT ![web[r].number] = @ + 1]
    <3>1. \A m \in DOMAIN series : series[m] = series[web[r].number] => entered[m] = 0
      BY <1>0, <1>1, <1>5 DEF Series
    <3>2. QED
      BY <1>0, <1>1, <1>4, <2>2, <3>1, EnteredOnce
  <2>3. QED
    BY <1>2, <2>1, <2>2
<1>10. Rest'
  BY <1>4, <1>6, <1>7, <1>8, <1>9 DEF Rest
<1>11. ASSUME NEW q \in Request
       PROVE  Passed(q)' /\ (web'[q] # NoAction => Answer(q)')
  <2>1. CASE q # r
    <3>1. web[q] # NoAction => web[q].number \in DOMAIN series /\ web[q].number # web[r].number
      BY <1>0, <2>1, ActionFacts DEF RInv, Action
    <3>2. web[q] # NoAction => entered'[web[q].number] = entered[web[q].number]
      BY <1>6, <3>1
    <3>3. QED
      BY <1>1, <1>2, <1>4, <2>1, <3>2, UntouchedAction DEF keyVars
  <2>2. CASE q = r
    BY <1>1, <1>2, <2>2 DEF Passed, Answer, Holds, keyVars
  <2>3. QED
    BY <2>1, <2>2
<1>12. QED
  BY <1>3, <1>10, <1>11, CalmStep

\* The call is handed to the service.
LEMMA ForwardKeepsRInv ==
    ASSUME RInv, NEW r \in Request, Forward(r)
    PROVE  RInv'
<1>0. RequestsTypeOK /\ TypeOK /\ web[r] # NoAction /\ web[r] \in Action /\ Answer(r)
  BY ActionFacts DEF RInv, IInv, Forward
<1>1. PICK i \in Instance : Receive(r, web[r].key, web[r].values, i)
  BY DEF Forward
<1>2. /\ UNCHANGED <<redis, pending, rows, outcome, waits, last, series, entered, expired>>
      /\ web[r].by \notin AmountForm /\ entered[web[r].number] = 0
      /\ web' = [web EXCEPT ![r] = [web[r] EXCEPT !.at = "service", !.refreshed = @]]
  <2>1. [web[r] EXCEPT !.at = "service"] = [web[r] EXCEPT !.at = "service", !.refreshed = @]
    BY <1>0 DEF Action
  <2>2. QED
    BY <1>0, <1>1, <2>1 DEF Forward, Receive, Answer
<1>3. /\ web' \in [Request -> Action \cup {NoAction}]
      /\ \A q \in Request \ {r} : web'[q] = web[q]
      /\ web'[r] \in Action /\ web'[r].at = "service"
      /\ web'[r].by = web[r].by /\ web'[r].number = web[r].number
      /\ web'[r].key = web[r].key /\ web'[r].values = web[r].values
  <2>1. web[r].refreshed \in BOOLEAN
    BY <1>0 DEF Action
  <2>2. web' = [web EXCEPT ![r] = [web[r] EXCEPT !.at = "service",
                                                 !.refreshed = web[r].refreshed]]
    BY <1>2
  <2>3. QED
    BY <1>0, <2>1, <2>2, MovedOn
<1>4. Calm
  BY <1>0, <1>2, <1>3 DEF Calm
<1>5. Stable
  BY <1>2 DEF Stable
<1>6. IInv'
  <2>1. web[r].key \in Key /\ web[r].values \in Body
    BY <1>0 DEF Action
  <2>2. QED
    BY <1>1, <2>1, ReceiveKeepsIInv DEF RInv
<1>7. /\ pc'[r] = "claim"
      /\ call'[r].key = web[r].key /\ call'[r].body = web[r].values /\ call'[r].code = "none"
      /\ \A q \in Request \ {r} : pc'[q] = pc[q] /\ call'[q] = call[q]
  BY <1>0, <1>1 DEF Receive, TypeOK
<1>8. RequestsTypeOK'
  BY <1>0, <1>2, <1>3 DEF RequestsTypeOK, Action
<1>9. \A k \in Key : RowsOf(k)'
  BY <1>2 DEF RInv, RowsOf
<1>10. Rest'
  BY <1>2, <1>4, <1>5, <1>6, <1>8, <1>9, NothingEntered DEF Rest
<1>11. ASSUME NEW q \in Request
       PROVE  Passed(q)' /\ (web'[q] # NoAction => Answer(q)')
  <2>1. CASE q # r
    BY <1>2, <1>3, <1>5, <1>7, <2>1, UntouchedAction
  <2>2. CASE q = r
    BY <1>2, <1>3, <1>7, <2>2 DEF Passed, Answer, Holds
  <2>3. QED
    BY <2>1, <2>2
<1>12. QED
  BY <1>4, <1>10, <1>11, CalmStep

\* The service's answer comes back, or is lost.
LEMMA AnsweredKeepsRInv ==
    ASSUME RInv, NEW r \in Request, Answered(r)
    PROVE  RInv'
<1>0. /\ RequestsTypeOK /\ TypeOK /\ web[r] # NoAction /\ web[r] \in Action
      /\ Answer(r) /\ Passed(r) /\ web[r].at = "service" /\ call[r] \in Call
  BY ActionFacts DEF RInv, IInv, Working, Answered, Passed
<1>1. /\ pc[r] = "answer"
      /\ pc' = [pc EXCEPT ![r] = "idle"] /\ call' = [call EXCEPT ![r] = NoCall]
      /\ UNCHANGED <<redis, pending, rows, outcome, waits, last, series, entered, expired>>
  BY DEF Answered, Finish
<1>2. /\ web' \in [Request -> Action \cup {NoAction}]
      /\ \A q \in Request \ {r} : web'[q] = web[q]
      /\ web'[r] \in Action /\ web'[r].at = "done"
      /\ web'[r].by = web[r].by /\ web'[r].number = web[r].number
      /\ web'[r].key = web[r].key /\ web'[r].values = web[r].values
      /\ \/ web'[r].code = call[r].code /\ web'[r].row = call[r].row
         \/ web'[r].code = "error"
  <2>1. PICK code \in Doubt \cup {"created", "rejected"}, n \in Nat :
           /\ Hear(r, code, n)
           /\ (code = call[r].code /\ n = call[r].row) \/ code = "error"
    <3>1. call[r].code \in Doubt \cup {"created", "rejected"} /\ call[r].row \in Nat
      BY <1>0 DEF Call
    <3>2. "error" \in Doubt /\ 0 \in Nat
      BY DEF Doubt
    <3>3. QED
      BY <3>1, <3>2 DEF Answered
  <2>2. QED
    BY <1>0, <2>1, Heard
<1>3. Calm
  BY <1>0, <1>1, <1>2 DEF Calm
<1>4. Stable
  BY <1>1 DEF Stable
<1>5. IInv'
  BY FinishKeepsIInv DEF RInv, Answered
<1>6. /\ pc'[r] = "idle"
      /\ \A q \in Request \ {r} : pc'[q] = pc[q] /\ call'[q] = call[q]
  BY <1>0, <1>1 DEF TypeOK
<1>7. RequestsTypeOK'
  BY <1>0, <1>1, <1>2 DEF RequestsTypeOK, Action
<1>8. \A k \in Key : RowsOf(k)'
  BY <1>1 DEF RInv, RowsOf
<1>9. Rest'
  BY <1>1, <1>3, <1>4, <1>5, <1>7, <1>8, NothingEntered DEF Rest
<1>10. ASSUME NEW q \in Request
       PROVE  Passed(q)' /\ (web'[q] # NoAction => Answer(q)')
  <2>1. CASE q # r
    BY <1>1, <1>2, <1>4, <1>6, <2>1, UntouchedAction
  <2>2. CASE q = r
    <3>1. Passed(r)'
      BY <1>2, <1>6 DEF Passed
    <3>2. /\ web'[r].code = "created" =>
                web'[r].row \in DOMAIN rows'
                /\ rows'[web'[r].row] = [key |-> web'[r].key, body |-> web'[r].values]
          /\ web'[r].code = "rejected" =>
                web'[r].key \in expired' \/ outcome'[web'[r].key].code = "rejected"
      <4>1. Holds(web[r].by, web[r].key, web[r].values, call[r].code, call[r].row)
        BY <1>0 DEF Answer
      <4>2. QED
        BY <1>1, <1>2, <4>1 DEF Holds
    <3>3. web'[r].code \in {"rejected", "unauthorized"} => entered'[web'[r].number] = 0
      <4>1. call[r].code # "unauthorized"
        BY <1>0 DEF Call, Doubt
      <4>2. QED
        BY <1>0, <1>1, <1>2, <4>1 DEF Answer
    <3>4. web'[r].code = "mismatch" => web'[r].by \in Program
      BY <1>0, <1>2 DEF Answer, Holds
    <3>5. Answer(r)'
      BY <1>2, <3>2, <3>3, <3>4 DEF Answer, Holds
    <3>6. QED
      BY <2>2, <3>1, <3>5
  <2>3. QED
    BY <2>1, <2>2
<1>11. QED
  BY <1>3, <1>9, <1>10, CalmStep

\* A result reaches Redis; an instance stops.
LEMMA ServiceStepKeepsRInv ==
    ASSUME RInv, UNCHANGED webVars,
           \/ \E s \in pending : storeResult(s)
           \/ \E i \in Instance : Crash(i)
    PROVE  RInv'
<1>0. RequestsTypeOK /\ IInv
  BY DEF RInv
<1>1. UNCHANGED <<rows, outcome, waits, last, web, series, entered, expired>>
  BY DEF webVars, storeResult, Crash
<1>2. IInv'
  BY <1>0, StoreKeepsIInv, CrashKeepsIInv
<1>3. ASSUME NEW q \in Request
      PROVE  \/ pc'[q] = pc[q] /\ call'[q] = call[q]
             \/ /\ pc[q] \in Busy /\ pc'[q] = "answer"
                /\ call'[q].code = "error"
                /\ call'[q].key = call[q].key /\ call'[q].body = call[q].body
  <2>1. CASE \E s \in pending : storeResult(s)
    BY <2>1 DEF storeResult
  <2>2. ASSUME NEW i \in Instance, Crash(i), pc[q] \in Busy /\ call[q].at = i
        PROVE  /\ pc'[q] = "answer" /\ call'[q].code = "error"
               /\ call'[q].key = call[q].key /\ call'[q].body = call[q].body
    <3>1. call[q] \in Call
      BY <1>0, <2>2 DEF IInv, Working, Busy, Handling
    <3>2. pc'[q] = "answer" /\ call'[q] = [call[q] EXCEPT !.code = "error"]
      BY <2>2 DEF Crash
    <3>3. QED
      BY <3>1, <3>2 DEF Call
  <2>3. ASSUME NEW i \in Instance, Crash(i), ~(pc[q] \in Busy /\ call[q].at = i)
        PROVE  pc'[q] = pc[q] /\ call'[q] = call[q]
    BY <2>3 DEF Crash
  <2>4. QED
    BY <2>1, <2>2, <2>3
<1>4. Calm /\ Stable
  BY <1>0, <1>1 DEF Calm, Stable
<1>5. RequestsTypeOK' /\ \A k \in Key : RowsOf(k)'
  BY <1>0, <1>1 DEF RInv, RequestsTypeOK, Action, RowsOf
<1>6. Rest'
  BY <1>1, <1>2, <1>4, <1>5, NothingEntered DEF Rest
<1>7. ASSUME NEW q \in Request
      PROVE  Passed(q)' /\ (web'[q] # NoAction => Answer(q)')
  <2>1. CASE pc'[q] = pc[q] /\ call'[q] = call[q]
    BY <1>1, <1>4, <2>1, UntouchedAction
  <2>2. CASE /\ pc[q] \in Busy /\ pc'[q] = "answer"
             /\ call'[q].code = "error"
             /\ call'[q].key = call[q].key /\ call'[q].body = call[q].body
    <3>1. pc[q] # "idle" /\ pc[q] # "answer"
      BY <2>2 DEF Busy, Handling
    <3>2. web[q].at = "service" /\ web[q] # NoAction
      BY <1>0, <3>1, ActionFacts DEF RInv, Passed
    <3>3. Passed(q) /\ Answer(q)
      BY <3>2 DEF RInv
    <3>4. QED
      BY <1>1, <2>2, <3>1, <3>2, <3>3 DEF Passed, Answer, Holds
  <2>3. QED
    BY <1>3, <2>1, <2>2
<1>8. QED
  BY <1>4, <1>6, <1>7, CalmStep

\* A key is forgotten.
LEMMA ExpireKeepsRInv ==
    ASSUME RInv, NEW k \in Key, ExpireKey(k)
    PROVE  RInv'
<1>0. RequestsTypeOK /\ TypeOK
  BY DEF RInv, IInv
<1>1. /\ UNCHANGED <<pending, rows, pc, call, waits, last, web, series, entered>>
      /\ outcome' = [outcome EXCEPT ![k] = Free] /\ expired' = expired \cup {k}
  BY DEF ExpireKey, Expire
<1>2. \A j \in Key : outcome'[j] = IF j = k THEN Free ELSE outcome[j]
  BY <1>0, <1>1 DEF TypeOK
<1>3. IInv'
  BY ExpireKeepsIInv DEF RInv, ExpireKey
<1>4. Calm /\ Stable
  BY <1>0, <1>1, <1>2 DEF Calm, Stable
<1>5. RequestsTypeOK'
  BY <1>0, <1>1 DEF RequestsTypeOK, Action
<1>6. \A j \in Key : RowsOf(j)'
  BY <1>1, <1>2 DEF RInv, RowsOf, Free, Value
<1>7. Rest'
  BY <1>1, <1>3, <1>4, <1>5, <1>6, NothingEntered DEF Rest
<1>8. \A q \in Request : Passed(q)' /\ (web'[q] # NoAction => Answer(q)')
  BY <1>1, <1>4, UntouchedAction
<1>9. QED
  BY <1>4, <1>7, <1>8, CalmStep

\* What a step of the interceptor or of the handler does: it goes on, it
\* gives no answer, it finds one, it refuses or it inserts.
LEMMA StepEffect ==
    ASSUME IInv, NEW r \in Request, Step(r)
    PROVE  /\ pc[r] \in Busy /\ call[r] \in Call
           /\ \A q \in Request \ {r} : pc'[q] = pc[q] /\ call'[q] = call[q]
           /\ pc'[r] # "idle"
           /\ call'[r].key = call[r].key /\ call'[r].body = call[r].body
           /\ \/ /\ UNCHANGED <<rows, outcome>>
                 /\ pc'[r] # "answer" /\ call'[r] = call[r]
              \/ /\ UNCHANGED <<rows, outcome>>
                 /\ pc'[r] = "answer" /\ call'[r].code \in {"error", "conflict"}
              \/ /\ UNCHANGED <<rows, outcome>>
                 /\ pc'[r] = "answer" /\ call'[r].code = "mismatch"
                 /\ outcome[call[r].key] # Free /\ outcome[call[r].key].body # call[r].body
              \/ /\ UNCHANGED <<rows, outcome>>
                 /\ pc'[r] = "answer" /\ call'[r].code \in {"created", "rejected"}
                 /\ outcome[call[r].key] = Value(call[r].body, call'[r].code, call'[r].row)
              \/ /\ outcome[call[r].key] = Free /\ rows' = rows
                 /\ outcome' = [outcome EXCEPT ![call[r].key] = Value(call[r].body, "rejected", 0)]
                 /\ pc'[r] = "answer" /\ call'[r].code = "rejected"
              \/ /\ outcome[call[r].key] = Free /\ rows' = Append(rows, NewRow(r))
                 /\ outcome' = [outcome EXCEPT ![call[r].key] =
                                   Value(call[r].body, "created", Len(rows'))]
                 /\ pc'[r] = "answer"
                 /\ \/ call'[r].code = "created" /\ call'[r].row = Len(rows')
                    \/ call'[r].code = "error"
<1>1. TypeOK /\ Working /\ pc[r] \in Busy /\ pc[r] # "idle" /\ call[r] \in Call
  <2>1. TypeOK /\ Working /\ pc[r] \in Busy
    BY CheckCases DEF IInv, Step, Claim, Replay, CreateTransfer, Busy, Handling
  <2>2. QED
    BY <2>1 DEF Working, Busy, Handling
<1>2. call[r].key \in Key /\ call[r].body \in Body
  BY <1>1 DEF Call
<1>3. ASSUME NEW label \in Busy, Goto(r, label), UNCHANGED <<rows, outcome>>
      PROVE  /\ \A q \in Request \ {r} : pc'[q] = pc[q] /\ call'[q] = call[q]
             /\ pc'[r] # "idle" /\ pc'[r] # "answer" /\ call'[r] = call[r]
  BY <1>1, <1>3, GotoType DEF Busy, Handling
<1>4. ASSUME NEW code \in Doubt \cup {"created", "rejected"}, NEW n \in Nat, Reply(r, code, n)
      PROVE  /\ \A q \in Request \ {r} : pc'[q] = pc[q] /\ call'[q] = call[q]
             /\ pc'[r] = "answer"
             /\ call'[r].key = call[r].key /\ call'[r].body = call[r].body
             /\ call'[r].code = code /\ call'[r].row = n
  BY <1>1, <1>4, ReplyType
<1>5. pc[r] \in Handling => outcome[call[r].key] = Free
  BY <1>2 DEF IInv, KeyInv
<1>6. \A code \in {"error", "conflict", "mismatch"} : code \in Doubt
  BY DEF Doubt
<1>7. CASE Claim(r)
  <2>1. UNCHANGED <<rows, outcome>>
    BY <1>7 DEF Claim
  <2>2. CASE Goto(r, "source") \/ Goto(r, "get")
    BY <1>1, <1>3, <2>1, <2>2 DEF Busy, Handling
  <2>3. CASE Reply(r, "error", 0)
    BY <1>1, <1>4, <1>6, <2>1, <2>3
  <2>4. QED
    BY <1>7, <2>2, <2>3 DEF Claim
<1>8. CASE Replay(r)
  <2> DEFINE found == redis[call[r].key]
  <2>1. UNCHANGED <<rows, outcome>>
    BY <1>8 DEF Replay
  <2>2. CASE Reply(r, "error", 0) \/ Reply(r, "conflict", 0)
    BY <1>1, <1>4, <1>6, <2>1, <2>2
  <2>3. CASE found \notin {Free, PENDING} /\ found.body = call[r].body
             /\ Reply(r, found.code, found.row)
    <3>1. found \in Result /\ outcome[call[r].key] = found
      BY <1>1, <1>2, <2>3 DEF IInv, TypeOK, KeyInv
    <3>2. found.code \in {"created", "rejected"} /\ found.row \in Nat
      BY <3>1 DEF Result
    <3>3. outcome[call[r].key] = Value(call[r].body, found.code, found.row)
      BY <2>3, <3>1, ValueFacts
    <3>4. QED
      BY <1>1, <1>4, <2>1, <2>3, <3>2, <3>3
  <2>4. CASE found \notin {Free, PENDING} /\ found.body # call[r].body
             /\ Reply(r, "mismatch", 0)
    <3>1. outcome[call[r].key] = found
      BY <1>1, <1>2, <2>4 DEF IInv, KeyInv
    <3>2. QED
      BY <1>1, <1>4, <1>6, <2>1, <2>4, <3>1
  <2>5. QED
    BY <1>8, <2>2, <2>3, <2>4 DEF Replay
<1>9. CASE CheckAccounts(r)
  <2>1. outcome[call[r].key] = Free
    BY <1>5, <1>9, CheckCases
  <2>2. CASE \E next \in {"destination", "create"} :
                Goto(r, next) /\ UNCHANGED <<pending, rows, outcome>>
    BY <1>1, <1>3, <2>2 DEF Busy, Handling
  <2>3. CASE Decide(r, "rejected", 0) /\ UNCHANGED rows
    BY <1>1, <1>4, <2>1, <2>3 DEF Decide
  <2>4. CASE Fail(r)
    BY <1>1, <1>4, <1>6, <2>4 DEF Fail
  <2>5. QED
    BY <1>9, <2>2, <2>3, <2>4, CheckCases
<1>10. CASE CreateTransfer(r)
  <2>1. outcome[call[r].key] = Free /\ pc[r] \in Handling
    BY <1>5, <1>10 DEF CreateTransfer, Handling
  <2>2. CASE rows' = Append(rows, NewRow(r)) /\ Decide(r, "created", Len(rows'))
    <3>1. Len(rows') \in Nat
      BY <2>1, <2>2, InsertType
    <3>2. QED
      BY <1>1, <1>4, <2>1, <2>2, <3>1 DEF Decide
  <2>3. CASE Fail(r)
    BY <1>1, <1>4, <1>6, <2>3 DEF Fail
  <2>4. CASE /\ rows' = Append(rows, NewRow(r))
             /\ outcome' = [outcome EXCEPT ![call[r].key] =
                               Value(call[r].body, "created", Len(rows'))]
             /\ Reply(r, "error", 0)
    BY <1>1, <1>4, <1>6, <2>1, <2>4
  <2>5. QED
    BY <1>10, <2>2, <2>3, <2>4 DEF CreateTransfer
<1>11. QED
  BY <1>7, <1>8, <1>9, <1>10 DEF Step

\* The interceptor and the handler work on what an action asked for.  The
\* handler has found the key free: no other row was entered in the series.
LEMMA ServeKeepsRInv ==
    ASSUME RInv, NEW r \in Request, Serve(r)
    PROVE  RInv'
<1> DEFINE k == web[r].key
           b == web[r].values
           n == web[r].number
<1>0. /\ RequestsTypeOK /\ IInv /\ web[r] # NoAction /\ web[r] \in Action
      /\ Answer(r) /\ Passed(r) /\ Series(r) /\ web[r].at = "service"
  BY ActionFacts DEF RInv, Serve
<1>1. /\ Step(r) /\ UNCHANGED <<waits, last, web, series, expired>>
      /\ entered' = IF rows' = rows THEN entered ELSE [entered EXCEPT ![n] = @ + 1]
  BY DEF Serve
<1>2. /\ k \in Key /\ b \in Body /\ n \in DOMAIN series
      /\ web[r].by \notin AmountForm /\ call[r].key = k /\ call[r].body = b
  BY <1>0 DEF Action, Passed
<1>3. pc[r] \in Busy /\ pc[r] # "answer" /\ entered[n] = 0 /\ call[r] \in Call
  <2>1. pc[r] \in Busy /\ call[r] \in Call
    BY <1>0, <1>1, StepEffect
  <2>2. pc[r] # "answer"
    BY <2>1 DEF Busy, Handling
  <2>3. QED
    BY <1>0, <2>1, <2>2 DEF Answer
<1>4. /\ pc'[r] # "idle" /\ call'[r].key = k /\ call'[r].body = b
      /\ \A q \in Request \ {r} : pc'[q] = pc[q] /\ call'[q] = call[q]
  BY <1>0, <1>1, <1>2, StepEffect
<1>5. IInv'
  BY <1>0, <1>1, NextKeepsIInv DEF Next
<1> HIDE DEF k, b, n
\* What is owed: that the key's decision is as it was, or is the handler's.
<1>6. ASSUME Calm, Stable, \A j \in Key : RowsOf(j)', Kept', OneRowPerSubmission',
             PressedAgainOnce', entered' \in Seq(Nat), DOMAIN entered' = DOMAIN entered,
             \A m \in DOMAIN series : m # n => entered'[m] = entered[m],
             entered'[n] # 0 => pc'[r] = "answer" /\ call'[r].code \in {"created", "error"},
             pc'[r] # "answer" => call'[r].code = "none",
             call'[r].code = "created" =>
                call'[r].row \in DOMAIN rows' /\ rows'[call'[r].row] = [key |-> k, body |-> b],
             call'[r].code = "rejected" => outcome'[k].code = "rejected",
             call'[r].code = "mismatch" => web[r].by \in Program
      PROVE  RInv'
  <2>1. RequestsTypeOK'
    BY <1>0, <1>1, <1>6 DEF RequestsTypeOK, Action
  <2>2. Rest'
    BY <1>5, <1>6, <2>1 DEF Rest
  <2>3. ASSUME NEW q \in Request
        PROVE  Passed(q)' /\ (web'[q] # NoAction => Answer(q)')
    <3>1. CASE q # r
      <4>1. web[q] # NoAction => web[q].number \in DOMAIN series /\ web[q].number # n
        BY <1>0, <3>1, ActionFacts DEF RInv, Action, n
      <4>2. web[q] # NoAction => entered'[web[q].number] = entered[web[q].number]
        BY <1>6, <4>1
      <4>3. QED
        BY <1>1, <1>4, <1>6, <3>1, <4>2, UntouchedAction
    <3>2. CASE q = r
      <4>1. Passed(r)'
        BY <1>0, <1>1, <1>2, <1>4 DEF Passed, k, b
      <4>2. Answer(r)'
        BY <1>0, <1>1, <1>6 DEF Answer, Holds, k, b, n
      <4>3. QED
        BY <3>2, <4>1, <4>2
    <3>3. QED
      BY <3>1, <3>2
  <2>4. QED
    BY <1>6, <2>2, <2>3, CalmStep
<1>7. ASSUME UNCHANGED <<rows, outcome>>,
             pc'[r] # "answer" => call'[r].code = "none",
             call'[r].code = "created" =>
                call'[r].row \in DOMAIN rows /\ rows[call'[r].row] = [key |-> k, body |-> b],
             call'[r].code = "rejected" => outcome[k].code = "rejected",
             call'[r].code = "mismatch" => web[r].by \in Program
      PROVE  RInv'
  <2>1. entered' = entered
    BY <1>1, <1>7
  <2>2. Calm /\ Stable
    BY <1>0, <1>1, <1>7 DEF Calm, Stable
  <2>3. \A j \in Key : RowsOf(j)'
    BY <1>1, <1>7 DEF RInv, RowsOf
  <2>4. Kept' /\ OneRowPerSubmission' /\ PressedAgainOnce'
    BY <1>7, <2>1, <2>2, NothingEntered
  <2>5. QED
    BY <1>0, <1>1, <1>3, <1>6, <1>7, <2>1, <2>2, <2>3, <2>4 DEF RequestsTypeOK
\* The handler decides.
<1>8. ASSUME NEW code \in {"created", "rejected"}, NEW row \in Nat, outcome[k] = Free,
             outcome' = [outcome EXCEPT ![k] = Value(b, code, row)],
             \A i \in DOMAIN rows : i \in DOMAIN rows' /\ rows'[i] = rows[i]
      PROVE  /\ Calm /\ Stable
             /\ outcome'[k] = Value(b, code, row)
             /\ \A j \in Key \ {k} : outcome'[j] = outcome[j]
  <2>1. /\ outcome'[k] = Value(b, code, row)
        /\ \A j \in Key \ {k} : outcome'[j] = outcome[j]
    BY <1>0, <1>2, <1>8 DEF IInv, TypeOK
  <2>2. outcome[k].code # "rejected"
    BY <1>8 DEF Free, Value
  <2>3. outcome'[k].body = web[r].values
    BY <2>1 DEF Value, b
  <2>4. Calm
    BY <1>0, <1>1, <2>1, <2>3 DEF Calm, k
  <2>5. QED
    BY <1>1, <1>8, <2>1, <2>2, <2>4 DEF Stable
\* Nothing was decided of the key, since it was forgotten at least.
<1>9. ASSUME outcome[k] = Free
      PROVE  k \notin expired => \A i \in DOMAIN rows : rows[i].key # k
  <2>1. RowsOf(k) /\ outcome[k].code # "created"
    BY <1>2, <1>9 DEF RInv, Free, Value
  <2>2. QED
    BY <2>1 DEF RowsOf
<1>10. CASE /\ outcome[k] = Free /\ rows' = rows
            /\ outcome' = [outcome EXCEPT ![k] = Value(b, "rejected", 0)]
            /\ pc'[r] = "answer" /\ call'[r].code = "rejected"
  <2>1. /\ Calm /\ Stable /\ outcome'[k] = Value(b, "rejected", 0)
        /\ \A j \in Key \ {k} : outcome'[j] = outcome[j]
    BY <1>8, <1>10
  <2>2. entered' = entered
    BY <1>1, <1>10
  <2>3. ASSUME NEW j \in Key
        PROVE  RowsOf(j)'
    <3>1. CASE j = k
      BY <1>1, <1>9, <1>10, <2>1, <3>1 DEF RowsOf, Value
    <3>2. CASE j # k
      BY <1>1, <1>10, <2>1, <3>2 DEF RInv, RowsOf
    <3>3. QED
      BY <3>1, <3>2
  <2>4. Kept' /\ OneRowPerSubmission' /\ PressedAgainOnce'
    BY <1>10, <2>1, <2>2, NothingEntered
  <2>5. outcome'[k].code = "rejected"
    BY <2>1 DEF Value
  <2>6. QED
    BY <1>0, <1>3, <1>6, <1>10, <2>1, <2>2, <2>3, <2>4, <2>5 DEF RequestsTypeOK
<1>11. CASE /\ outcome[k] = Free /\ rows' = Append(rows, NewRow(r))
            /\ outcome' = [outcome EXCEPT ![k] = Value(b, "created", Len(rows'))]
            /\ pc'[r] = "answer"
            /\ \/ call'[r].code = "created" /\ call'[r].row = Len(rows')
               \/ call'[r].code = "error"
  <2>1. /\ rows \in Seq([key : Key, body : Body])
        /\ NewRow(r) = [key |-> k, body |-> b]
    BY <1>0, <1>2 DEF IInv, TypeOK, NewRow
  <2>2. /\ Len(rows') \in Nat /\ Len(rows') \in DOMAIN rows'
        /\ rows'[Len(rows')] = [key |-> k, body |-> b]
        /\ rows' # rows
        /\ \A i \in DOMAIN rows : i \in DOMAIN rows' /\ rows'[i] = rows[i]
        /\ \A i \in DOMAIN rows' : i \in DOMAIN rows \/ rows'[i] = [key |-> k, body |-> b]
    <3>1. rows' \in Seq([key : Key, body : Body]) /\ Len(rows') = Len(rows) + 1
      BY <1>2, <1>11, <2>1
    <3>2. QED
      BY <1>11, <2>1, <3>1
  <2>3. /\ Calm /\ Stable /\ outcome'[k] = Value(b, "created", Len(rows'))
        /\ \A j \in Key \ {k} : outcome'[j] = outcome[j]
    BY <1>8, <1>11, <2>2
  <2>4. entered' = [entered EXCEPT ![n] = @ + 1]
    BY <1>1, <2>2
  <2>5. /\ entered' \in Seq(Nat) /\ DOMAIN entered' = DOMAIN entered /\ entered'[n] = 1
        /\ \A m \in DOMAIN series : m # n => entered'[m] = entered[m]
        /\ OneRowPerSubmission'
    BY <1>0, <1>3, <2>4, EnteredType DEF n
  <2>6. ASSUME NEW j \in Key
        PROVE  RowsOf(j)'
    <3>1. CASE j = k
      BY <2>2, <2>3, <3>1 DEF RowsOf, Value
    <3>2. CASE j # k
      BY <1>1, <2>2, <2>3, <3>2 DEF RInv, RowsOf
    <3>3. QED
      BY <3>1, <3>2
  <2>7. web[r].by \in TransferForm => series[n] = k /\ Attempt(k)
    BY <1>0 DEF Series, Attempt, k, n
  <2>8. web[r].by \notin TransferForm =>
           /\ ~Attempt(series[n])
           /\ \A m \in DOMAIN series : series[m] = series[n] => m = n
    BY <1>0 DEF Series, n
  <2>9. series[n] \notin expired =>
           \A m \in DOMAIN series : series[m] = series[n] => entered[m] = 0
    <3>1. CASE web[r].by \in TransferForm
      BY <1>2, <1>9, <1>11, <2>7, <3>1 DEF RInv, Kept
    <3>2. CASE web[r].by \notin TransferForm
      BY <1>3, <2>8, <3>2
    <3>3. QED
      BY <3>1, <3>2
  <2>10. PressedAgainOnce'
    BY <1>0, <1>1, <1>3, <2>3, <2>4, <2>9, EnteredOnce DEF n
  <2>11. Kept'
    <3>1. ASSUME NEW m \in DOMAIN series, entered'[m] # 0, series[m] \notin expired,
                 Attempt(series[m])'
          PROVE  \E i \in DOMAIN rows' : rows'[i].key = series[m]
      <4>1. Attempt(series[m])
        <5>1. series[m] \in Key
          BY <1>0, RequestsAssumption DEF RequestsTypeOK
        <5>2. Attempt(series[m])
          BY <1>1, <3>1 DEF Attempt
        <5>3. QED
          BY <5>2
      <4>2. CASE m = n
        BY <2>2, <2>7, <2>8, <4>1, <4>2
      <4>3. CASE m # n
        BY <2>2, <2>5, <3>1, <4>1, <4>3 DEF RInv, Kept
      <4>4. QED
        BY <4>2, <4>3
    <3>2. QED
      BY <1>1, <3>1 DEF Kept
  <2>12. QED
    BY <1>6, <1>11, <2>2, <2>3, <2>5, <2>6, <2>10, <2>11
<1>12. CASE /\ UNCHANGED <<rows, outcome>>
            /\ pc'[r] # "answer" /\ call'[r] = call[r]
  <2>1. call'[r].code = "none"
    BY <1>0, <1>3, <1>12 DEF Answer
  <2>2. QED
    BY <1>7, <1>12, <2>1
<1>13. CASE /\ UNCHANGED <<rows, outcome>>
            /\ pc'[r] = "answer" /\ call'[r].code \in {"error", "conflict"}
  BY <1>7, <1>13
<1>14. CASE /\ UNCHANGED <<rows, outcome>>
            /\ pc'[r] = "answer" /\ call'[r].code = "mismatch"
            /\ outcome[k] # Free /\ outcome[k].body # b
  <2>1. ASSUME web[r].by \notin Program PROVE FALSE
    <3>1. web[r].by \in Form
      BY <1>0, <2>1 DEF Action, Person
    <3>2. k \in Submission
      BY <1>0, <3>1 DEF Series, k
    <3>3. outcome[k].body \in Body
      BY <1>0, <1>2, <1>14 DEF IInv, TypeOK, Result
    <3>4. Used(k, b) /\ Used(k, outcome[k].body)
      BY <1>0, <1>14 DEF Used, k, b
    <3>5. QED
      BY <1>2, <1>14, <3>2, <3>3, <3>4 DEF RInv, OneBody
  <2>2. QED
    BY <1>7, <1>14, <2>1
<1>15. CASE /\ UNCHANGED <<rows, outcome>>
            /\ pc'[r] = "answer" /\ call'[r].code \in {"created", "rejected"}
            /\ outcome[k] = Value(b, call'[r].code, call'[r].row)
  BY <1>2, <1>7, <1>15 DEF RInv, RowsOf, Value
<1>16. QED
  BY <1>0, <1>1, <1>2, <1>10, <1>11, <1>12, <1>13, <1>14, <1>15, StepEffect

\* What makes a submission new, or the same attempt again.
Begins(f, b, k, first) ==
    \/ /\ k = Fresh /\ first = Fresh /\ f \in Form
       /\ last' = [g \in TransferForm |-> IF g = f THEN [key |-> k, values |-> b] ELSE last[g]]
    \/ /\ first = k /\ f \in TransferForm /\ last' = last
       /\ last[f] # NoAttempt /\ last[f] = [key |-> k, values |-> b]
    \/ k \notin Submission /\ first = Fresh /\ f \in Program /\ last' = last

LEMMA SubmissionBegins ==
    ASSUME RInv, NEW b \in Body, NEW f,
           \/ f \in TransferForm /\ SubmitTransfer(f, b)
           \/ f \in AmountForm /\ SubmitAmount(f, b)
           \/ f \in Program /\ \E k \in ProgramKey : CallTransfers(f, b, k)
    PROVE  f \in Person /\ \E k \in Key : \E first : Start(f, b, k, first) /\ Begins(f, b, k, first)
<1>0. RequestsTypeOK
  BY DEF RInv
<1>1. CASE f \in TransferForm /\ SubmitTransfer(f, b)
  <2>1. Fresh \in Submission /\ Fresh \in Key
    BY <1>1, RequestsAssumption DEF SubmitTransfer, Start
  <2>2. f \in Person /\ f \in Form
    BY <1>1 DEF Person, Form
  <2>3. CASE isRetryOfSameAttempt(f, b)
    <3>1. last[f] # NoAttempt /\ last[f].values = b
      BY <2>3 DEF isRetryOfSameAttempt
    <3>2. /\ last[f].key \in DOMAIN series /\ last[f].key \in Key
          /\ last[f] = [key |-> last[f].key, values |-> b]
      BY <1>0, <1>1, <3>1, RequestsAssumption DEF RequestsTypeOK
    <3>3. series[last[f].key] = last[f].key
      BY <1>1, <3>1 DEF RInv
    <3>4. Start(f, b, last[f].key, last[f].key)
      BY <1>1, <2>3, <3>3 DEF SubmitTransfer, idempotencyKey
    <3>5. last' = last
      <4>1. last' = [last EXCEPT ![f] = [key |-> last[f].key, values |-> b]]
        BY <1>1, <2>3 DEF SubmitTransfer, idempotencyKey
      <4>2. QED
        BY <1>0, <1>1, <3>2, <4>1 DEF RequestsTypeOK
    <3>6. QED
      BY <1>1, <2>2, <3>1, <3>2, <3>4, <3>5 DEF Begins
  <2>4. CASE ~isRetryOfSameAttempt(f, b)
    <3>1. Start(f, b, Fresh, Fresh)
      BY <1>1, <2>4 DEF SubmitTransfer, idempotencyKey
    <3>2. last' = [g \in TransferForm |-> IF g = f THEN [key |-> Fresh, values |-> b] ELSE last[g]]
      <4>1. last' = [last EXCEPT ![f] = [key |-> Fresh, values |-> b]]
        BY <1>1, <2>4 DEF SubmitTransfer, idempotencyKey
      <4>2. QED
        BY <1>0, <4>1 DEF RequestsTypeOK
    <3>3. QED
      BY <2>1, <2>2, <3>1, <3>2 DEF Begins
  <2>5. QED
    BY <2>3, <2>4
<1>2. CASE f \in AmountForm /\ SubmitAmount(f, b)
  <2>1. Start(f, b, Fresh, Fresh) /\ last' = last /\ Fresh \in Key
    BY <1>2, RequestsAssumption DEF SubmitAmount, Start
  <2>2. f \notin TransferForm /\ f \in Form /\ f \in Person
    BY <1>2, RequestsAssumption DEF Form, Person
  <2>3. last' = [g \in TransferForm |-> IF g = f THEN [key |-> Fresh, values |-> b] ELSE last[g]]
    BY <1>0, <2>1, <2>2 DEF RequestsTypeOK
  <2>4. QED
    BY <2>1, <2>2, <2>3 DEF Begins
<1>3. CASE f \in Program /\ \E k \in ProgramKey : CallTransfers(f, b, k)
  <2>1. PICK k \in ProgramKey : CallTransfers(f, b, k)
    BY <1>3
  <2>2. k \in Key /\ k \notin Submission /\ f \in Person
    BY <1>3, RequestsAssumption DEF Person
  <2>3. QED
    BY <1>3, <2>1, <2>2 DEF CallTransfers, Begins
<1>4. QED
  BY <1>1, <1>2, <1>3

\* A submission begins.
LEMMA StartKeepsRInv ==
    ASSUME RInv, NEW f \in Person, NEW b \in Body, NEW k \in Key, NEW first,
           Start(f, b, k, first), Begins(f, b, k, first)
    PROVE  RInv'
<1>a. PICK n : n = Fresh
  OBVIOUS
<1> DEFINE x == [at |-> "gateway", by |-> f, number |-> n, key |-> k, values |-> b,
                 refreshed |-> FALSE, code |-> "none", row |-> 0]
<1>0. RequestsTypeOK /\ IInv
  BY DEF RInv
<1>1. PICK r \in Request : /\ web[r] = NoAction
                           /\ web' = [web EXCEPT ![r] = x]
                           /\ waits' = [waits EXCEPT ![f] = r]
  <2> DEFINE q == CHOOSE q \in Request : web[q] = NoAction
  <2>1. q \in Request /\ web[q] = NoAction
    BY DEF Start
  <2>2. QED
    BY <1>a, <2>1 DEF Start
<1>2. /\ n \in Submission
      /\ series' = Append(series, first) /\ entered' = Append(entered, 0)
      /\ UNCHANGED <<keyVars, expired>>
  BY <1>a DEF Start
<1>3. /\ n \in Nat /\ n = Len(series) + 1
      /\ DOMAIN series = 1..Len(series) /\ DOMAIN entered = DOMAIN series
      /\ Len(entered) = Len(series) /\ Len(series) \in Nat
      /\ \A m \in DOMAIN series : series[m] \in DOMAIN series /\ entered[m] \in Nat
      /\ series \in Seq(DOMAIN series) /\ entered \in Seq(Nat)
      /\ DOMAIN series \subseteq Submission
  BY <1>0, <1>a DEF RequestsTypeOK, Fresh
<1>4. n \notin DOMAIN series /\ \A m \in DOMAIN series : series[m] # n
  BY <1>3
\* The three ways to begin.
<1>5. /\ k # n => k \notin Submission \/ (f \in TransferForm /\ Used(k, b) /\ Attempt(k)
                                          /\ k \in DOMAIN series /\ series[k] = k)
      /\ first = n \/ (first = k /\ f \in TransferForm /\ Attempt(k) /\ k \in DOMAIN series)
      /\ f \in TransferForm => first = k
      /\ f \in Form => k = n \/ k \in DOMAIN series
      /\ k \in Submission => f \in Form
  <2>1. CASE k = n /\ first = n /\ f \in Form
    BY <2>1
  <2>2. CASE /\ first = k /\ f \in TransferForm
             /\ last[f] # NoAttempt /\ last[f] = [key |-> k, values |-> b]
    <3>1. last[f].key = k /\ k \in DOMAIN series
      BY <1>0, <2>2 DEF RequestsTypeOK
    <3>2. series[k] = k
      BY <2>2, <3>1 DEF RInv
    <3>3. Used(k, b) /\ Attempt(k)
      BY <2>2, <3>1 DEF Used, Attempt
    <3>4. QED
      BY <2>2, <3>1, <3>2, <3>3 DEF Form
  <2>3. CASE k \notin Submission /\ first = n /\ f \in Program
    BY <2>3, RequestsAssumption DEF Form
  <2>4. QED
    BY <1>a, <2>1, <2>2, <2>3 DEF Begins
<1>6. /\ DOMAIN series' = DOMAIN series \cup {n} /\ DOMAIN entered' = DOMAIN series'
      /\ series'[n] = first /\ entered'[n] = 0
      /\ \A m \in DOMAIN series : series'[m] = series[m] /\ entered'[m] = entered[m]
      /\ series' \in Seq(DOMAIN series') /\ entered' \in Seq(Nat)
      /\ DOMAIN series' \subseteq Submission
  <2>1. /\ DOMAIN series' = DOMAIN series \cup {n} /\ DOMAIN entered' = DOMAIN series'
        /\ series'[n] = first /\ entered'[n] = 0 /\ Len(series') = n
        /\ \A m \in DOMAIN series : series'[m] = series[m] /\ entered'[m] = entered[m]
    BY <1>2, <1>3
  <2>2. first \in DOMAIN series'
    BY <1>5, <2>1
  <2>3. series \in Seq(DOMAIN series')
    BY <1>3, <2>1
  <2>4. series' \in Seq(DOMAIN series') /\ entered' \in Seq(Nat)
    BY <1>2, <1>3, <2>2, <2>3
  <2>5. QED
    BY <1>2, <1>3, <2>1, <2>4
<1>7. /\ x \in Action' /\ web'[r] = x /\ \A q \in Request \ {r} : web'[q] = web[q]
      /\ web'[r] # NoAction /\ x.at = "gateway" /\ x.by = f /\ x.number = n
      /\ x.key = k /\ x.values = b
  <2>1. x \in Action'
    BY <1>6 DEF Action, Doubt
  <2>2. web'[r] = x /\ \A q \in Request \ {r} : web'[q] = web[q]
    BY <1>0, <1>1 DEF RequestsTypeOK
  <2>3. x.at # NoAction.at
    BY DEF NoAction
  <2>4. QED
    BY <2>1, <2>2, <2>3
<1> HIDE DEF x
<1>8. \A g \in TransferForm : last'[g] = last[g] \/ (g = f /\ last'[g] = [key |-> k, values |-> b])
  BY DEF Begins
<1>9. ASSUME NEW q \in Request, web[q] # NoAction
      PROVE  /\ web[q].number \in DOMAIN series /\ web[q] \in Action /\ web[q] \in Action'
             /\ q # r
  <2>1. web[q] \in Action /\ q # r
    BY <1>0, <1>1, <1>9, ActionFacts
  <2>2. QED
    BY <1>6, <2>1 DEF Action
<1>10. ASSUME NEW j, Attempt(j)'
       PROVE  Attempt(j) \/ (j = k /\ f \in TransferForm)
  BY <1>7, <1>8, <1>10 DEF Attempt
<1>11. ~Attempt(n)
  <2>1. ASSUME NEW g \in TransferForm, last[g] # NoAttempt PROVE last[g].key # n
    BY <1>0, <1>4, <2>1 DEF RequestsTypeOK
  <2>2. ASSUME NEW q \in Request, web[q] # NoAction, web[q].by \in TransferForm
        PROVE  web[q].key # n
    BY <1>4, <1>9, <2>2 DEF RInv, Series
  <2>3. QED
    BY <2>1, <2>2 DEF Attempt
<1>12. \A j, c : Used(j, c)' => Used(j, c) \/ (j = k /\ c = b)
  <2>1. ASSUME NEW j, NEW c, Used(j, c)'
        PROVE  Used(j, c) \/ (j = k /\ c = b)
    <3>1. CASE \E g \in TransferForm : last'[g] = [key |-> j, values |-> c]
      BY <1>8, <3>1 DEF Used
    <3>2. CASE \E q \in Request : web'[q] # NoAction /\ web'[q].key = j /\ web'[q].values = c
      BY <1>7, <3>2 DEF Used
    <3>3. CASE outcome'[j] # Free /\ outcome'[j].body = c
      BY <1>2, <3>3 DEF Used, keyVars
    <3>4. QED
      BY <2>1, <3>1, <3>2, <3>3 DEF Used
  <2>2. QED
    BY <2>1
<1>13. OneBody'
  <2>1. \A c \in Body : k \in Submission /\ Used(k, c) => c = b
    <3>1. CASE k = n
      BY <1>4, <3>1 DEF RInv, Made
    <3>2. CASE k # n
      BY <1>5, <3>2 DEF RInv, OneBody
    <3>3. QED
      BY <3>1, <3>2
  <2>2. QED
    BY <1>12, <2>1 DEF RInv, OneBody
<1>14. Made'
  BY <1>5, <1>6, <1>12 DEF RInv, Made
<1>15. ASSUME NEW g \in TransferForm, last'[g] # NoAttempt
       PROVE  series'[last'[g].key] = last'[g].key
  <2>1. CASE last'[g] = last[g]
    <3>1. last[g].key \in DOMAIN series /\ series[last[g].key] = last[g].key
      BY <1>0, <1>15, <2>1 DEF RInv, RequestsTypeOK
    <3>2. QED
      BY <1>6, <2>1, <3>1
  <2>2. CASE g = f /\ last'[g] = [key |-> k, values |-> b]
    <3>1. last'[g].key = k /\ first = k
      BY <1>5, <2>2
    <3>2. CASE k = n
      BY <1>6, <3>1, <3>2
    <3>3. CASE k # n
      BY <1>5, <1>6, <2>2, <3>1, <3>3, RequestsAssumption DEF Form
    <3>4. QED
      BY <3>2, <3>3
  <2>3. QED
    BY <1>8, <2>1, <2>2
<1>16. ASSUME NEW q \in Request, web'[q] # NoAction
       PROVE  Series(q)'
  <2>1. CASE q = r
    <3>1. /\ web'[q].by = f /\ web'[q].key = k /\ web'[q].number = n
          /\ series'[n] = first
      BY <1>6, <1>7, <2>1
    <3>2. f \in Form => k \in Submission
      BY <1>2, <1>3, <1>5
    <3>3. f \notin TransferForm =>
             /\ first = n /\ ~Attempt(n)'
             /\ \A m \in DOMAIN series' : series'[m] = n => m = n
      BY <1>4, <1>5, <1>6, <1>10, <1>11
    <3>4. QED
      BY <1>5, <3>1, <3>2, <3>3 DEF Series
  <2>2. CASE q # r
    <3>1. web'[q] = web[q] /\ web[q] # NoAction
      BY <1>7, <1>16, <2>2
    <3>2. Series(q) /\ web[q].number \in DOMAIN series
      BY <1>9, <3>1 DEF RInv
    <3>3. series'[web[q].number] = series[web[q].number] /\ series[web[q].number] # n
      BY <1>4, <1>6, <3>2
    <3>4. PICK s : s = series[web[q].number]
      OBVIOUS
    <3>5. ~Attempt(s) => ~Attempt(s)' /\ first # s
      BY <1>5, <1>10, <3>3, <3>4 DEF Form
    <3>6. QED
      BY <1>4, <1>6, <3>1, <3>2, <3>3, <3>4, <3>5 DEF Series
  <2>3. QED
    BY <2>1, <2>2
<1>17. ASSUME NEW p \in Request, NEW q \in Request,
              web'[p] # NoAction, web'[q] # NoAction, web'[p].number = web'[q].number
       PROVE  p = q
  BY <1>4, <1>7, <1>9, <1>17 DEF RInv
<1>18. IInv' /\ Stable /\ \A j \in Key : RowsOf(j)'
  BY <1>2, ServiceStill
<1>19. OneRowPerSubmission'
  BY <1>3, <1>6 DEF RInv, OneRowPerSubmission
<1>20. PressedAgainOnce'
  <2>1. ASSUME NEW l \in DOMAIN series', NEW m \in DOMAIN series', l < m,
               series'[l] = series'[m], series'[l] \notin expired
        PROVE  entered'[l] + entered'[m] <= 1
    <3>1. l \in DOMAIN series
      BY <1>3, <1>6, <2>1
    <3>2. CASE m = n
      BY <1>3, <1>6, <3>1, <3>2 DEF RInv, OneRowPerSubmission
    <3>3. CASE m # n
      BY <1>3, <1>6, <2>1, <3>1, <3>3 DEF RInv, PressedAgainOnce
    <3>4. QED
      BY <3>2, <3>3
  <2>2. QED
    BY <1>2, <2>1 DEF PressedAgainOnce
<1>21. Kept'
  <2>1. ASSUME NEW m \in DOMAIN series', entered'[m] # 0, series'[m] \notin expired,
               Attempt(series[m])'
        PROVE  \E i \in DOMAIN rows : rows[i].key = series'[m]
    <3>1. m \in DOMAIN series /\ entered[m] # 0 /\ series'[m] = series[m] /\ series[m] # n
      BY <1>4, <1>6, <2>1
    <3>2. Attempt(series[m])
      <4>1. ASSUME NEW j, j = series[m] PROVE Attempt(j)
        <5>1. Attempt(j) \/ (j = k /\ f \in TransferForm)
          BY <2>1, <3>1, <4>1 , <1>10
        <5>2. QED
          BY <1>5, <3>1, <4>1, <5>1 DEF Form
      <4>2. QED
        BY <4>1
    <3>3. QED
      BY <2>1, <3>1, <3>2 DEF RInv, Kept
  <2>2. QED
    BY <1>2, <2>1 DEF Kept, keyVars
<1>22. RequestsTypeOK'
  <2>1. waits' \in [Person -> Request \cup {Nobody}]
    BY <1>0, <1>1 DEF RequestsTypeOK
  <2>2. web' \in [Request -> Action' \cup {NoAction}]
    <3>1. \A q \in Request : web'[q] \in Action' \cup {NoAction}
      BY <1>0, <1>7, <1>9 DEF RequestsTypeOK
    <3>2. web' = [q \in Request |-> web'[q]]
      BY <1>0, <1>1 DEF RequestsTypeOK
    <3>3. QED
      BY <3>1, <3>2
  <2>3. last' \in [TransferForm -> [key : DOMAIN series', values : Body] \cup {NoAttempt}]
    <3>1. last' = [g \in TransferForm |-> last'[g]]
      BY <1>0 DEF Begins, RequestsTypeOK
    <3>2. ASSUME NEW g \in TransferForm
          PROVE  last'[g] \in [key : DOMAIN series', values : Body] \cup {NoAttempt}
      <4>1. last[g] \in [key : DOMAIN series', values : Body] \cup {NoAttempt}
        BY <1>0, <1>6 DEF RequestsTypeOK
      <4>2. g = f => k \in DOMAIN series'
        BY <1>5, <1>6 DEF Form
      <4>3. QED
        BY <1>8, <4>1, <4>2
    <3>3. QED
      BY <3>1, <3>2
  <2>4. expired' \subseteq Key
    BY <1>0, <1>2 DEF RequestsTypeOK
  <2>5. QED
    BY <1>6, <2>1, <2>2, <2>3, <2>4 DEF RequestsTypeOK
<1>23. ASSUME NEW q \in Request
       PROVE  Passed(q)' /\ (web'[q] # NoAction => Answer(q)')
  <2>1. CASE q = r
    <3>1. pc'[r] = "idle"
      <4>1. web[r].at # "service"
        BY <1>1 DEF NoAction
      <4>2. QED
        BY <1>2, <4>1 DEF RInv, Passed, keyVars
    <3>2. QED
      BY <1>6, <1>7, <2>1, <3>1 DEF Passed, Answer
  <2>2. CASE q # r
    BY <1>2, <1>6, <1>7, <1>9, <1>18, <2>2, UntouchedAction DEF keyVars
  <2>3. QED
    BY <2>1, <2>2
<1>24. QED
  BY <1>13, <1>14, <1>15, <1>16, <1>17, <1>18, <1>19, <1>20, <1>21, <1>22, <1>23 DEF RInv

LEMMA RequestsInitHolds == RequestsInit => RInv
<1> SUFFICES ASSUME RequestsInit PROVE RInv
  OBVIOUS
<1>1. /\ IInv /\ series = <<>> /\ entered = <<>> /\ rows = <<>>
      /\ outcome = [k \in Key |-> Free] /\ pc = [r \in Request |-> "idle"]
  BY InitHolds DEF RequestsInit, Init
<1>2. RequestsTypeOK
  BY <1>1 DEF RequestsInit, RequestsTypeOK
<1>3. /\ \A f \in TransferForm : last[f] = NoAttempt
      /\ \A r \in Request : web[r] = NoAction
      /\ \A k \in Key : outcome[k] = Free
  BY <1>1 DEF RequestsInit
<1>4. OneBody /\ Made
  <2>1. \A k \in Submission, b \in Body : ~Used(k, b)
    <3>1. \A k \in Submission : k # 0 /\ k \in Key
      BY RequestsAssumption DEF Submission
    <3>2. QED
      BY <1>3, <3>1 DEF Used, NoAttempt
  <2>2. QED
    BY <2>1 DEF OneBody, Made
<1>5. \A r \in Request : Passed(r)
  BY <1>1, <1>3 DEF Passed, NoAction
<1>6. \A k \in Key : RowsOf(k)
  <2>1. Free.code # "created" /\ DOMAIN rows = {}
    BY <1>1 DEF Free, Value
  <2>2. QED
    BY <1>3, <2>1 DEF RowsOf
<1>7. Kept /\ OneRowPerSubmission /\ PressedAgainOnce
  BY <1>1 DEF Kept, OneRowPerSubmission, PressedAgainOnce
<1>8. QED
  BY <1>1, <1>2, <1>3, <1>4, <1>5, <1>6, <1>7 DEF RInv

LEMMA RequestsNextKeepsRInv == RInv /\ [RequestsNext]_vars => RInv'
<1> SUFFICES ASSUME RInv, [RequestsNext]_vars PROVE RInv'
  OBVIOUS
<1>1. CASE UNCHANGED vars
  <2>1. UNCHANGED <<keyVars, waits, last, web, series, entered, expired>>
    BY <1>1 DEF vars, webVars
  <2>2. IInv' /\ Stable /\ \A k \in Key : RowsOf(k)'
    BY <2>1, ServiceStill
  <2>3. Calm /\ RequestsTypeOK'
    BY <2>1 DEF RInv, Calm, RequestsTypeOK, Action, keyVars
  <2>4. Rest'
    BY <2>1, <2>2, <2>3, NothingEntered DEF Rest, keyVars
  <2>5. \A r \in Request : Passed(r)' /\ (web'[r] # NoAction => Answer(r)')
    BY <2>1, <2>2, UntouchedAction DEF keyVars
  <2>6. QED
    BY <2>3, <2>4, <2>5, CalmStep
<1>2. ASSUME NEW b \in Body,
             \/ \E f \in TransferForm : SubmitTransfer(f, b)
             \/ \E f \in AmountForm : SubmitAmount(f, b)
             \/ \E f \in Program, k \in ProgramKey : CallTransfers(f, b, k)
      PROVE  RInv'
  <2>1. PICK f : \/ f \in TransferForm /\ SubmitTransfer(f, b)
                 \/ f \in AmountForm /\ SubmitAmount(f, b)
                 \/ f \in Program /\ \E k \in ProgramKey : CallTransfers(f, b, k)
    BY <1>2
  <2>2. PICK k \in Key : \E first : Start(f, b, k, first) /\ Begins(f, b, k, first)
    BY <2>1, SubmissionBegins
  <2>3. f \in Person
    BY <2>1, SubmissionBegins
  <2>4. PICK first : Start(f, b, k, first) /\ Begins(f, b, k, first)
    BY <2>2
  <2>5. QED
    BY <2>3, <2>4, StartKeepsRInv
<1>3. ASSUME NEW r \in Request, Progress(r)
      PROVE  RInv'
  BY <1>3, AnsweredEarly, ForwardKeepsRInv, PostAmountKeepsRInv, ServeKeepsRInv,
     AnsweredKeepsRInv, EndKeepsRInv DEF Progress
<1>4. QED
  BY <1>1, <1>2, <1>3, EndKeepsRInv, ServiceStepKeepsRInv, ExpireKeepsRInv
     DEF RequestsNext, StoreResult

\* What the forms have asked for, the service works on and Redis remembers
\* fit together.
THEOREM RequestsInvariance == RequestsSpec => []RInv
BY RequestsInitHolds, RequestsNextKeepsRInv, PTL DEF RequestsSpec

\* A submission enters one row at most, though apiFetch sends it again after
\* a 401 and whatever is lost on the way: the guards come before the handler.
THEOREM SubmissionEntersOneRow == RequestsSpec => []OneRowPerSubmission
<1>1. RInv => OneRowPerSubmission
  BY DEF RInv
<1>2. QED
  BY <1>1, RequestsInvariance, PTL

\* The transfer form may be sent again after any failure, and while the
\* service still works on it: one transfer is made until the key expires.
THEOREM FormPressedAgainOnce == RequestsSpec => []PressedAgainOnce
<1>1. RInv => PressedAgainOnce
  BY DEF RInv
<1>2. QED
  BY <1>1, RequestsInvariance, PTL

LEMMA AnswerHolds ==
    ASSUME RInv, NEW r \in Request, web[r].at = "done"
    PROVE  Answer(r) /\ web[r].key \in Key /\ web[r] # NoAction
<1>1. web[r] # NoAction /\ web[r] \in Action
  BY ActionFacts DEF RInv
<1>2. QED
  BY <1>1 DEF RInv, Action

\* Whoever is told that a transfer was refused, or was not let in, need not
\* fear that it was made all the same.
THEOREM RefusedEntersNothing == RequestsSpec => []RefusedMeansNone
<1>1. RInv => RefusedMeansNone
  <2> SUFFICES ASSUME RInv, NEW r \in Request, web[r].at = "done",
                      web[r].code \in {"rejected", "unauthorized"}
               PROVE  /\ entered[web[r].number] = 0
                      /\ web[r].code = "rejected" /\ web[r].by \notin AmountForm =>
                            \A i \in DOMAIN rows :
                               rows[i].key = web[r].key => web[r].key \in expired
    BY DEF RefusedMeansNone
  <2>1. Answer(r) /\ RowsOf(web[r].key)
    BY AnswerHolds DEF RInv
  <2>2. QED
    BY <2>1 DEF Answer, Holds, RowsOf
<1>2. QED
  BY <1>1, RequestsInvariance, PTL

\* Whoever is told of a transfer finds it there, with the key and the body
\* it was asked for with.
THEOREM AnsweredWithTheirOwn == RequestsSpec => []ToldTheirOwn
<1>1. RInv => ToldTheirOwn
  BY AnswerHolds DEF ToldTheirOwn, Answer, Holds
<1>2. QED
  BY <1>1, RequestsInvariance, PTL

\* No form is told that its key was used with another body: it makes a new
\* key when a value changes.
THEOREM FormsNeverBlamed == RequestsSpec => []NeverBlamed
<1>1. RInv => NeverBlamed
  BY AnswerHolds DEF NeverBlamed, Answer
<1>2. QED
  BY <1>1, RequestsInvariance, PTL

\* A step of the composed system is a step of the service, or none.
LEMMA RequestsStep == RInv /\ [RequestsNext]_vars => [Next]_keyVars
<1> SUFFICES ASSUME RInv, [RequestsNext]_vars PROVE [Next]_keyVars
  OBVIOUS
<1>1. ASSUME NEW r \in Request, Forward(r)
      PROVE  Next
  <2>1. web[r] \in Action
    BY <1>1, ActionFacts DEF RInv, Forward
  <2>2. web[r].key \in Key /\ web[r].values \in Body
    BY <2>1 DEF Action
  <2>3. QED
    BY <1>1, <2>2 DEF Forward, Next
<1>2. ASSUME NEW r \in Request, Progress(r)
      PROVE  Next \/ UNCHANGED keyVars
  <2>1. CASE Serve(r) \/ Answered(r)
    BY <2>1 DEF Serve, Answered, Next
  <2>2. CASE Unauthorized(r) \/ Unavailable(r) \/ PostAmount(r) \/ Retry(r) \/ Return(r)
    BY <2>2 DEF Unauthorized, Unavailable, PostAmount, Retry, Return
  <2>3. QED
    BY <1>1, <1>2, <2>1, <2>2 DEF Progress
<1>3. ASSUME NEW b \in Body,
             \/ \E f \in TransferForm : SubmitTransfer(f, b)
             \/ \E f \in AmountForm : SubmitAmount(f, b)
             \/ \E f \in Program, k \in ProgramKey : CallTransfers(f, b, k)
      PROVE  UNCHANGED keyVars
  BY <1>3 DEF SubmitTransfer, SubmitAmount, CallTransfers, Start
<1>4. CASE UNCHANGED vars
  BY <1>4 DEF vars
<1>5. CASE \/ \E s \in pending : StoreResult(s)
           \/ \E i \in Instance : Crash(i)
           \/ \E k \in Key : ExpireKey(k)
  BY <1>5 DEF StoreResult, ExpireKey, Next
<1>6. CASE (\E f \in Person : Disconnect(f)) \/ (\E f \in TransferForm : Reload(f))
  BY <1>6 DEF Disconnect, Reload
<1>7. QED
  BY <1>2, <1>3, <1>4, <1>5, <1>6 DEF RequestsNext

\* With the forms, the programs and apiFetch in front of it, the service
\* still decides each key once.
THEOREM RequestsImplementOnceOnly == RequestsSpec => OnceOnlySpec
<1>1. RequestsInit => Init
  BY DEF RequestsInit
<1>2. RequestsSpec => Spec
  BY <1>1, RequestsStep, RequestsInvariance, PTL DEF RequestsSpec, Spec
<1>3. QED
  BY <1>2, KeysImplementOnceOnly, PTL
=============================================================================
