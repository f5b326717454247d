-------------------------- MODULE TransferRequests --------------------------
(***************************************************************************)
(* From the forms of the web client to the rows they are meant to enter:   *)
(* the transfer form, which names its attempts, the forms for deposits and *)
(* withdrawals, which do not, the server action and apiFetch behind each,  *)
(* the guards of the gateway and of the service, and IdempotencyKeys.      *)
(* Other programs call the gateway too, with keys of their own choice.     *)
(*                                                                         *)
(* A submission is one action of the Next.js server.  It runs on when its  *)
(* browser has stopped listening, and the service's handler runs on when   *)
(* the gateway has: the form may be sent again while both still do.        *)
(***************************************************************************)
EXTENDS IdempotencyKeys

CONSTANTS TransferForm, AmountForm, Program,  \* who submits
          Offers,                             \* and what
          ProgramKey,                         \* the keys programs use
          Nobody,
          MaxSubmissions                      \* bound

Submission == 1..MaxSubmissions

Form == TransferForm \cup AmountForm

Person == Form \cup Program

\* randomUUID never gives a key twice: it gives the submission's number.
ASSUME RequestsAssumption ==
    /\ MaxSubmissions \in Nat
    /\ TransferForm \cap AmountForm = {} /\ Form \cap Program = {}
    /\ Offers \subseteq Person \X Body
    /\ Submission \cup ProgramKey \subseteq Key
    /\ Submission \cap ProgramKey = {}
    /\ Nobody \notin Request

VARIABLES waits,    \* the action each form or program waits for
          last,     \* lastAttemptRef of each transfer form
          web,      \* the action that runs in each request slot
          series,   \* auxiliary: the first submission of what is pressed again
          entered,  \* auxiliary: the rows entered for each submission
          expired   \* auxiliary: keys that were forgotten

webVars == <<waits, last, web, series, entered, expired>>
vars == <<keyVars, webVars>>

NoAttempt == [key |-> 0, values |-> NoBody]

\* What a slot holds when no action runs in it; Start says what it holds else.
NoAction == [at |-> "none"]

RequestsInit ==
    /\ Init
    /\ waits = [f \in Person |-> Nobody]
    /\ last = [f \in TransferForm |-> NoAttempt]
    /\ web = [r \in Request |-> NoAction]
    /\ series = <<>> /\ entered = <<>>
    /\ expired = {}
-----------------------------------------------------------------------------
\* The number of the next submission, and the key randomUUID would make.
Fresh == Len(series) + 1

\* Mutant: a form keeps its first key.
KeyKept(f, b) == IF last[f] # NoAttempt THEN last[f].key ELSE Fresh

\* Mutant: every press makes a key.
KeyMade(f, b) == Fresh

isRetryOfSameAttempt(f, b) == last[f] # NoAttempt /\ last[f].values = b

idempotencyKey(f, b) == IF isRetryOfSameAttempt(f, b) THEN last[f].key ELSE Fresh

\* An action begins, with any slot that is free.  number: of the submission;
\* refreshed: tryRefresh was called.  A form's button is disabled
\* until the one it waits for has answered, and a program waits too.
Start(f, b, k, first) ==
    LET r == CHOOSE q \in Request : web[q] = NoAction IN
    /\ <<f, b>> \in Offers
    /\ waits[f] = Nobody
    /\ Fresh \in Submission
    /\ \E q \in Request : web[q] = NoAction
    /\ web' = [web EXCEPT ![r] =
                  [at |-> "gateway", by |-> f, number |-> Fresh, key |-> k, values |-> b,
                   refreshed |-> FALSE, code |-> "none", row |-> 0]]
    /\ waits' = [waits EXCEPT ![f] = r]
    /\ series' = Append(series, first)
    /\ entered' = Append(entered, 0)
    /\ UNCHANGED <<keyVars, expired>>

\* onSubmit of the transfer form.
SubmitTransfer(f, b) ==
    /\ Start(f, b, idempotencyKey(f, b),
             IF isRetryOfSameAttempt(f, b) THEN series[last[f].key] ELSE Fresh)
    /\ last' = [last EXCEPT ![f] = [key |-> idempotencyKey(f, b), values |-> b]]

\* onSubmit of the form for an amount.
SubmitAmount(f, b) == Start(f, b, Fresh, Fresh) /\ UNCHANGED last

\* A program calls the gateway itself.
CallTransfers(f, b, k) == Start(f, b, k, Fresh) /\ UNCHANGED last

\* The action hears this of its call.
Hear(r, code, row) ==
    web' = [web EXCEPT ![r].at = "done", ![r].code = code, ![r].row = row]

\* A guard, of the gateway or of the service, finds the access token missing,
\* unsound or expired.
Unauthorized(r) ==
    /\ web[r].at = "gateway"
    /\ Hear(r, "unauthorized", 0)
    /\ UNCHANGED <<keyVars, waits, last, series, entered, expired>>

\* The service cannot be reached; or the rate limit refuses the call.
Unavailable(r) ==
    /\ web[r].at = "gateway"
    /\ Hear(r, "error", 0)
    /\ UNCHANGED <<keyVars, waits, last, series, entered, expired>>

\* The gateway passes a transfer on to an instance of the service.
Forward(r) ==
    /\ web[r].at = "gateway"
    /\ web[r].by \notin AmountForm
    /\ \E i \in Instance : Receive(r, web[r].key, web[r].values, i)
    /\ web' = [web EXCEPT ![r].at = "service"]
    /\ UNCHANGED <<waits, last, series, entered, expired>>

\* A deposit or a withdrawal: Accounts enters it or not, whatever it says.
PostAmount(r) ==
    /\ web[r].at = "gateway"
    /\ web[r].by \in AmountForm
    /\ \/ /\ entered' = [entered EXCEPT ![web[r].number] = @ + 1]
          /\ Hear(r, "created", 0) \/ Hear(r, "error", 0)
       \/ /\ Hear(r, "rejected", 0) \/ Hear(r, "error", 0)
          /\ UNCHANGED entered
    /\ UNCHANGED <<keyVars, waits, last, series, expired>>

\* The interceptor and the handler go on.
Serve(r) ==
    /\ web[r].at = "service"
    /\ Step(r)
    /\ entered' = IF rows' = rows THEN entered
                  ELSE [entered EXCEPT ![web[r].number] = @ + 1]
    /\ UNCHANGED <<waits, last, web, series, expired>>

\* forward answers what the service answered, or 503 when it was lost.
Answered(r) ==
    /\ web[r].at = "service"
    /\ Hear(r, call[r].code, call[r].row) \/ Hear(r, "error", 0)
    /\ Finish(r)
    /\ UNCHANGED <<waits, last, series, entered, expired>>

\* Mutant: apiFetch retries whatever may pass.
RetryAnyFailure(r) ==
    /\ web[r].at = "done"
    /\ web[r].code \in {"unauthorized", "error"}
    /\ web[r].by \in Form
    /\ ~web[r].refreshed
    /\ web' = [web EXCEPT ![r].at = "gateway", ![r].refreshed = TRUE]
    /\ UNCHANGED <<keyVars, waits, last, series, entered, expired>>

\* Mutant: apiFetch retries for as long as it is told 401.
RetryForEver(r) ==
    /\ web[r].at = "done"
    /\ web[r].code = "unauthorized"
    /\ web[r].by \in Form
    /\ web' = [web EXCEPT ![r].at = "gateway", ![r].refreshed = TRUE]
    /\ UNCHANGED <<keyVars, waits, last, series, entered, expired>>

\* apiFetch was answered 401, and tryRefresh gave it a token.
Retry(r) ==
    /\ web[r].at = "done"
    /\ web[r].code = "unauthorized"
    /\ web[r].by \in Form
    /\ ~web[r].refreshed
    /\ web' = [web EXCEPT ![r].at = "gateway", ![r].refreshed = TRUE]
    /\ UNCHANGED <<keyVars, waits, last, series, entered, expired>>

Forgets(f) == last' = [g \in TransferForm |-> IF g = f THEN NoAttempt ELSE last[g]]

\* The action returns.  A form that made its transfer leaves the page.
Return(r) ==
    LET f == web[r].by IN
    /\ web[r].at = "done"
    /\ web' = [web EXCEPT ![r] = NoAction]
    /\ IF waits[f] = r
       THEN /\ waits' = [waits EXCEPT ![f] = Nobody]
            /\ IF web[r].code = "created" THEN Forgets(f) ELSE UNCHANGED last
       ELSE UNCHANGED <<waits, last>>
    /\ UNCHANGED <<keyVars, series, entered, expired>>

\* The connection to the form is lost, or to the program; what was asked
\* runs on.
Disconnect(f) ==
    /\ waits[f] # Nobody
    /\ waits' = [waits EXCEPT ![f] = Nobody]
    /\ UNCHANGED <<keyVars, last, web, series, entered, expired>>

\* The page is loaded anew.
Reload(f) ==
    /\ last[f] # NoAttempt
    /\ waits' = [waits EXCEPT ![f] = Nobody]
    /\ Forgets(f)
    /\ UNCHANGED <<keyVars, web, series, entered, expired>>

Progress(r) ==
    \/ Unauthorized(r) \/ Unavailable(r) \/ Forward(r) \/ PostAmount(r)
    \/ Serve(r) \/ Answered(r) \/ Retry(r) \/ Return(r)

StoreResult(s) == storeResult(s) /\ UNCHANGED webVars

ExpireKey(k) ==
    /\ Expire(k)
    /\ expired' = expired \cup {k}
    /\ UNCHANGED <<waits, last, web, series, entered>>

RequestsNext ==
    \/ \E b \in Body :
          \/ \E f \in TransferForm : SubmitTransfer(f, b)
          \/ \E f \in AmountForm : SubmitAmount(f, b)
          \/ \E f \in Program, k \in ProgramKey : CallTransfers(f, b, k)
    \/ \E f \in Person : Disconnect(f)
    \/ \E f \in TransferForm : Reload(f)
    \/ \E r \in Request : Progress(r)
    \/ \E s \in pending : StoreResult(s)
    \/ \E i \in Instance : Crash(i) /\ UNCHANGED webVars
    \/ \E k \in Key : ExpireKey(k)

\* What a process has begun it goes on with, and commands are not held back
\* from Redis for ever.
Fairness ==
    /\ \A r \in Request : WF_vars(Progress(r))
    /\ WF_vars(\E s \in pending : StoreResult(s))

RequestsSpec == RequestsInit /\ [][RequestsNext]_vars /\ Fairness
-----------------------------------------------------------------------------
\* A submission enters one row at most, though apiFetch may send it twice
\* and an amount carries no key: a 401 is always from before the handler.
OneRowPerSubmission == \A n \in DOMAIN entered : entered[n] <= 1

\* Pressing the button again with the same values, after whatever error, and
\* while the first action may still be running, makes no second transfer
\* until the first one's key is forgotten.
PressedAgainOnce ==
    \A m, n \in DOMAIN series :
        m < n /\ series[m] = series[n] /\ series[m] \notin expired
            => entered[m] + entered[n] <= 1

\* Who is told that a transfer was refused can be sure that none was made
\* under its key, by this submission or an earlier one.
RefusedMeansNone ==
    \A r \in Request : web[r].at = "done" /\ web[r].code \in {"rejected", "unauthorized"} =>
        /\ entered[web[r].number] = 0
        /\ web[r].code = "rejected" /\ web[r].by \notin AmountForm =>
              \A i \in DOMAIN rows : rows[i].key = web[r].key => web[r].key \in expired

\* Who is told of a transfer is told of the one asked for.
ToldTheirOwn ==
    \A r \in Request : web[r].at = "done" /\ web[r].code = "created" /\ web[r].by \notin AmountForm =>
        rows[web[r].row] = [key |-> web[r].key, body |-> web[r].values]

\* A form is never blamed for a key used with another body.
NeverBlamed ==
    \A r \in Request : web[r].at = "done" /\ web[r].code = "mismatch" => web[r].by \in Program

\* Every action ends, and whoever waits for it is told something, though the
\* session may expire again between the two calls of apiFetch, and instances
\* stop.
SubmissionEnds == \A r \in Request : web[r] # NoAction ~> web[r] = NoAction
=============================================================================
