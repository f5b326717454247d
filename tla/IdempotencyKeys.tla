--------------------------- MODULE IdempotencyKeys ---------------------------
(***************************************************************************)
(* POST /transfers in the Transfers service: the interceptor that claims   *)
(* the Idempotency-Key in Redis, or replays what is stored under it, and   *)
(* the handler it guards, which checks two accounts and inserts the row.   *)
(*                                                                         *)
(* The service may run in several instances.  Each sends its commands to   *)
(* Redis over one connection, in order; a result is stored without being   *)
(* waited for.  A stored result that Redis refuses is an unhandled         *)
(* rejection, which ends the process, as a crash does.                     *)
(*                                                                         *)
(* The handler looks the accounts up as they are at some instant: whether  *)
(* a request is refused is left open here.  Redis is taken to lose nothing *)
(* but what expires, and no handler to take as long as a key lives.        *)
(***************************************************************************)
EXTENDS Integers, Sequences

CONSTANTS Key,      \* a user's id with an Idempotency-Key
          Body,     \* what bodyHash tells apart
          NoBody,
          Request,  \* requests in progress at a time
          Instance  \* processes of the service

ASSUME IdempotencyAssumption == NoBody \notin Body

VARIABLES redis,     \* the value under each key
          pending,   \* results on their way to Redis
          rows,      \* the rows of transfers, and the key each came with
          outcome,   \* auxiliary: what was decided since a key was free
          pc,        \* what each request does next
          call       \* what each request works on, and is answered

keyVars == <<redis, pending, rows, outcome, pc, call>>

Value(b, code, row) == [body |-> b, code |-> code, row |-> row]

Free == Value(NoBody, "free", 0)

PENDING == Value(NoBody, "PENDING", 0)

\* CachedResult.  Every AppException is "rejected", the 503 of an Accounts
\* service that answers badly included.
Result == [body : Body, code : {"created", "rejected"}, row : Nat]

Doubt == {"none", "conflict", "mismatch", "error"}

Call == [key : Key, body : Body, at : Instance,
         code : Doubt \cup {"created", "rejected"}, row : Nat]

NoCall == [code |-> "none"]

\* The handler runs: the key is claimed.
Handling == {"source", "destination", "create"}

Busy == {"claim", "get"} \cup Handling

TypeOK ==
    /\ redis \in [Key -> Result \cup {Free, PENDING}]
    /\ pending \subseteq [at : Instance, key : Key, value : Result]
    /\ rows \in Seq([key : Key, body : Body])
    /\ outcome \in [Key -> Result \cup {Free}]
    /\ pc \in [Request -> Busy \cup {"idle", "answer"}]
    /\ call \in [Request -> Call \cup {NoCall}]

Init ==
    /\ redis = [k \in Key |-> Free]
    /\ pending = {}
    /\ rows = <<>>
    /\ outcome = [k \in Key |-> Free]
    /\ pc = [r \in Request |-> "idle"]
    /\ call = [r \in Request |-> NoCall]
-----------------------------------------------------------------------------
Goto(r, label) == pc' = [pc EXCEPT ![r] = label] /\ UNCHANGED call

Reply(r, code, row) ==
    /\ pc' = [pc EXCEPT ![r] = "answer"]
    /\ call' = [call EXCEPT ![r].code = code, ![r].row = row]

\* A request passes the guards of instance i.  One without a key is refused
\* there and then.
Receive(r, k, b, i) ==
    /\ pc[r] = "idle"
    /\ pc' = [pc EXCEPT ![r] = "claim"]
    /\ call' = [call EXCEPT ![r] = [key |-> k, body |-> b, at |-> i,
                                    code |-> "none", row |-> 0]]
    /\ UNCHANGED <<redis, pending, rows, outcome>>

\* The instance of r has no command queued before the next one of r.
Flushed(r) == \A s \in pending : s.at # call[r].at

Claimed(k) == redis[k] = Free /\ redis' = [redis EXCEPT ![k] = PENDING]

\* Mutant: SET without NX.
ClaimAnyway(r) ==
    /\ pc[r] = "claim" /\ Flushed(r)
    /\ redis' = [redis EXCEPT ![call[r].key] = PENDING]
    /\ Goto(r, "source")
    /\ UNCHANGED <<pending, rows, outcome>>

\* SET NX EX, which may fail, having been done or not.
Claim(r) ==
    LET k == call[r].key IN
    /\ pc[r] = "claim" /\ Flushed(r)
    /\ \/ Claimed(k) /\ Goto(r, "source")
       \/ redis[k] # Free /\ Goto(r, "get") /\ UNCHANGED redis
       \/ /\ Claimed(k) \/ UNCHANGED redis
          /\ Reply(r, "error", 0)
    /\ UNCHANGED <<pending, rows, outcome>>

\* Mutant: the body is not compared.
ReplayAnyBody(r) ==
    LET found == redis[call[r].key] IN
    /\ pc[r] = "get" /\ Flushed(r)
    /\ \/ Reply(r, "error", 0)
       \/ found \in {Free, PENDING} /\ Reply(r, "conflict", 0)
       \/ found \notin {Free, PENDING} /\ Reply(r, found.code, found.row)
    /\ UNCHANGED <<redis, pending, rows, outcome>>

\* GET.  The key may have expired since it was found claimed.
Replay(r) ==
    LET found == redis[call[r].key] IN
    /\ pc[r] = "get" /\ Flushed(r)
    /\ \/ Reply(r, "error", 0)
       \/ found \in {Free, PENDING} /\ Reply(r, "conflict", 0)
       \/ /\ found \notin {Free, PENDING}
          /\ IF found.body = call[r].body
             THEN Reply(r, found.code, found.row)
             ELSE Reply(r, "mismatch", 0)
    /\ UNCHANGED <<redis, pending, rows, outcome>>

\* The handler's answer is decided: it is sent, and its result on its way.
Decide(r, code, row) ==
    LET result == Value(call[r].body, code, row) IN
    /\ outcome' = [outcome EXCEPT ![call[r].key] = result]
    /\ pending' = pending \cup {[at |-> call[r].at, key |-> call[r].key, value |-> result]}
    /\ Reply(r, code, row)

\* What is not an AppException, of the ValidationPipe, of fetch or of the
\* database, is answered and not stored.
Fail(r) == Reply(r, "error", 0) /\ UNCHANGED <<pending, rows, outcome>>

\* An account is found, and passes the checks that follow, or not.
Checked(r, next) ==
    \/ Goto(r, next) /\ UNCHANGED <<pending, rows, outcome>>
    \/ Decide(r, "rejected", 0) /\ UNCHANGED rows
    \/ Fail(r)

\* The source, which Accounts shows to its owner only.
getAccount(r) == pc[r] = "source" /\ Checked(r, "destination")

\* The destination, which may be anyone's.
getAccountInternal(r) == pc[r] = "destination" /\ Checked(r, "create")

CheckAccounts(r) == (getAccount(r) \/ getAccountInternal(r)) /\ UNCHANGED redis

NewRow(r) == [key |-> call[r].key, body |-> call[r].body]

\* createTransfer.  The insert may fail, or be committed and seem to fail:
\* then the key stays PENDING though the transfer exists.
CreateTransfer(r) ==
    /\ pc[r] = "create"
    /\ \/ /\ rows' = Append(rows, NewRow(r))
          /\ Decide(r, "created", Len(rows'))
       \/ Fail(r)
       \/ /\ rows' = Append(rows, NewRow(r))
          /\ outcome' = [outcome EXCEPT ![call[r].key] =
                            Value(call[r].body, "created", Len(rows'))]
          /\ Reply(r, "error", 0)
          /\ UNCHANGED pending
    /\ UNCHANGED redis

\* The result takes the place of the claim, for TTL_SECONDS from now.
storeResult(s) ==
    /\ s \in pending
    /\ redis' = [redis EXCEPT ![s.key] = s.value]
    /\ pending' = pending \ {s}
    /\ UNCHANGED <<rows, outcome, pc, call>>

Finish(r) ==
    /\ pc[r] = "answer"
    /\ pc' = [pc EXCEPT ![r] = "idle"]
    /\ call' = [call EXCEPT ![r] = NoCall]
    /\ UNCHANGED <<redis, pending, rows, outcome>>

\* An instance stops.  Who called it finds the connection closed.
Crash(i) ==
    LET lost == {r \in Request : pc[r] \in Busy /\ call[r].at = i} IN
    /\ pc' = [r \in Request |-> IF r \in lost THEN "answer" ELSE pc[r]]
    /\ call' = [r \in Request |-> IF r \in lost THEN [call[r] EXCEPT !.code = "error"]
                                                ELSE call[r]]
    /\ pending' = {s \in pending : s.at # i}
    /\ UNCHANGED <<redis, rows, outcome>>

\* TTL_SECONDS have passed.
Expire(k) ==
    /\ redis[k] # Free
    /\ \A r \in Request : pc[r] \in Handling => call[r].key # k
    /\ \A s \in pending : s.key # k
    /\ redis' = [redis EXCEPT ![k] = Free]
    /\ outcome' = [outcome EXCEPT ![k] = Free]
    /\ UNCHANGED <<pending, rows, pc, call>>

Step(r) == Claim(r) \/ Replay(r) \/ CheckAccounts(r) \/ CreateTransfer(r)

Next ==
    \/ \E r \in Request :
          \/ \E k \in Key, b \in Body, i \in Instance : Receive(r, k, b, i)
          \/ Step(r)
          \/ Finish(r)
    \/ \E s \in pending : storeResult(s)
    \/ \E i \in Instance : Crash(i)
    \/ \E k \in Key : Expire(k)

Spec == Init /\ [][Next]_keyVars
-----------------------------------------------------------------------------
\* However requests with one key overlap, and wherever they are cut short,
\* at most one of them makes a transfer, and every answer that is one agrees
\* with it.
Once == INSTANCE OnceOnly WITH
            Open <- Free,
            made <- Len(rows),
            answer <- call

OnceOnlySpec == Once!Spec
=============================================================================
