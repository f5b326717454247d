# Mini-Bank: a TLA+ verification

Mini-Bank is a set of NestJS services: Auth, Accounts, Transfers,
Notifications, a Gateway and a Next.js front end, with one PostgreSQL database
per service, Redis and RabbitMQ. This directory holds TLA+ specifications of
what moves money in it, of the sessions of its users and of the pages they see
it through, the TLC configurations that check them on small instances, and
theorems checked by TLAPS for all instances.

Every definition is translated from the code; `PROJECT.json` (`map`) names the
lines each one stands for.

## 1. Inventory

| Component | State it keeps | Operations | What makes it correct |
|---|---|---|---|
| **Accounts** (`apps/accounts`) | `accounts` (owner, currency, status), `ledger_entries` (append-only; a balance is a sum over rows) | create, close, deposit, withdraw; for Transfers: debit, credit, reversal; reads | no overdraft; a transfer's step entered once; a closed account takes nothing; every request answered, truthfully |
| **Transfer saga** (`apps/transfers/src/saga-runner`, `transfers`, `accounts-client`) | `transfers.saga_state`, `outbox_events` | create a transfer; a timer's tick advances every non-terminal transfer by one step | a terminal state tells the truth about the ledger and is announced; nothing is paid out that was not taken; every transfer ends |
| **Outbox publisher** (`apps/transfers/src/outbox`, `rabbitmq`) | `outbox_events.published_at` | a timer's tick publishes the unpublished events | each event reaches the broker |
| **Notifications consumer** (`apps/notifications`) | Redis: processed events, attempts; the queue and its dead-letter queue | handle a delivery: dedup, count attempts, look up the user, e-mail, ack / requeue / dead-letter | each event notified or dead-lettered; duplicates bounded |
| **Idempotency keys** (`IdempotencyKeyInterceptor`, `redis`) | Redis: key -> `PENDING` or the stored result | claim, replay, conflict, store | one transfer per key; an answer is the decision it claims to be |
| **Auth sessions** (`apps/auth`) | `users`, `refresh_tokens` (family, revoked, expiry) | register, login (at most `MAX_SESSIONS`), refresh with rotation and the detection of reuse, logout | an exchanged token is dead for good; one live token per session; an ended session stays ended; the limit |
| **Web session** (`apps/web/lib/api`, `middleware.ts`, `app/api/auth`) | the two cookies of a browser | requests of tabs, refresh on a 401 and one retry, sign-in and logout routes | the session of the last login or refresh is the one it has, and a good one; no owner taken for a thief |
| **Web pages and forms** (`apps/web/components`, `app/(dashboard)`, `lib/actions`) | a form's last attempt and key; what a page shows, has cached and has yet to fetch | submit a transfer or an amount, open, close; show an account, the list, a transfer; poll, refresh | no second transfer by pressing again; no true-looking answer that is false; what is final is shown as final, what was entered comes to be seen |
| **Gateway** (`apps/gateway`) | the counters of its rate limit | guards and forwards; 503 when a call throws | an answer it lost is never told as a refusal |
| Guards, filters, interceptors, metrics, health, shared packages | none that survives a request | - | - |

How they interact: the web client calls the Gateway, which forwards to the
services over HTTP. Transfers calls Accounts over HTTP, with no time-out, no
retry and no circuit breaker of its own (`AccountsClient.request` is a bare
`fetch`): the retry is the next tick. The web client's server actions refresh
the session through the gateway when it answers 401, and send the call again. Transfers hands events to Notifications
through the outbox table and RabbitMQ. Services share no table.

What is hard here:

* **Interleaving.** A Node.js process runs one callback at a time but yields at
  every `await`, so requests interleave statement by statement; the row lock
  (`SELECT ... FOR UPDATE`) is all that orders them. The check that an account
  is active reads the row *outside* the transaction that locks it, on a second
  connection of the same pool.
* **Overlap.** `@Interval` starts a tick whether or not the previous one has
  ended, and each tick acts on the snapshot it read when it began.
* **Failure.** A call to Accounts can be refused, answer 500, lose its answer
  after having been served, or be served after the caller gave up. The database
  of Transfers can fail between the call and the write that records it. The
  process can stop between any two steps. One `catch` handles all of it.
* **Ordering.** The retry of a step is recognised by its row, but is refused
  before that if the account has been closed in between. The stored result of
  an idempotent request is not awaited, and may follow its answer.
* **Two sides of one session.** A browser's tabs send the same cookies; each
  response replaces them when it arrives, and Auth's handlers read, revoke and
  insert in separate statements that nothing holds together.
* **Staleness on screen.** A page is put together from several reads, kept by
  two caches, and stops asking when it thinks nothing can change.

The `hazards` of `PROJECT.json` list each one at its line, with the property
that would catch it going wrong, or the reason why there is none.

## 2. Modules

```
LedgerRows              the tables of Accounts and the queries over them
  Ledger                what Accounts promises: one atomic step per operation
    LedgerProofs          theorems about it
  Accounts              the service as it runs          -- implements Ledger
    MCAccounts            small instances
    AccountPage           the pages of accounts over it
      AccountsProofs        theorems about both, the refinement among them
      MCAccountPage         a small instance
  TransferSaga          the orchestrator over a Ledger  -- implements TransferProtocol
    SagaProofs            theorems, for any number of workers and faults
    MCTransferSaga        small instances
    TransferStatus        the list and the page of transfers over it
      SettlementProofs      theorems, for one dependable chain of ticks
      MCTransferStatus      a small instance
TransferProtocol        what Transfers promises of each transfer
EventDelivery           outbox publisher, broker and notifications consumer
  EventProofs           theorems, for any number of faults
  MCEventDelivery       small instances
OnceOnly                what Transfers promises of an idempotency key
IdempotencyKeys         the interceptor around POST /transfers -- implements OnceOnly
  TransferRequests      forms, actions, gateway and guards over it
    IdempotencyProofs     theorems about both, the refinement among them
    MCTransferRequests    a small instance
AuthSessions            the Auth service
  AuthProofs            theorems
  MCAuthSessions        a small instance
  WebSession            the browser's cookies and tabs over it -- implements AuthSessions
    WebProofs             theorems
    MCWebSession          a small instance
```

**LedgerRows** holds the constants of the ledger, its row and entry types and
the repository's queries: `ComputeBalance` (`SUM(amount)`), `Existing` (the
look-up behind idempotency) and `NewRow`. A row keeps type, signed amount and
related transfer; identifiers, descriptions and time stamps decide nothing. The
sum is a recursive *function*, so that modules with theorems may use it.

**Ledger** is the abstract specification of Accounts: an account is created and
closed, and an entry appended, each in one step whose guard is the conjunction
of all checks. A refusal or a recognised retry is a stutter.

**Accounts** is the service. A request is an element of `Request`, served once
(a retry is another request with the same call), and `pc[r]` is the statement it
runs next:

| `pc` | action | code |
|---|---|---|
| `idle` | `Receive` | controller, amount check |
| `own` | `GetOwnedAccount` | `getOwnedAccount` |
| `begin` | `BeginTransaction` | `$transaction` takes a connection |
| `lock` | `LockAccount` | `SELECT ... FOR UPDATE`; waits for the lock; locks nothing if there is no row |
| `active` | `GetActiveAccount` | `getActiveAccount` on a second connection, currency check |
| `existing` | `FindExisting` | `findLedgerEntryByRelatedTransaction` |
| `funds` | `CheckFunds` | `computeBalance`, `InsufficientFundsException` |
| `commit` | `Commit` | `createLedgerEntry` and `COMMIT`, which makes the row visible and frees the lock |
| `close` | `BeginUpdate` | the `UPDATE` takes a connection |
| `update` | `CloseAccount` | the `UPDATE` waits for the row lock, then commits |
| any in progress | `Abort` | a failed statement, a time-out, a stopped process: rollback |

`createLedgerEntry` and `COMMIT` are one action because at READ COMMITTED no
other transaction sees the row in between; a failure in between is an `Abort` at
`commit`. `FreeConnection` counts the transactions against `PoolSize`. A commit,
the closing's included, may be acknowledged or, when `DbFaults`, not. A crash of the service is an
`Abort` of every request in progress, in some order.

**TransferSaga** is the Transfers service over a `Ledger`. `saga` and `outbox`
are its tables, `checked` the requests between the two awaits of
`initiateTransfer`. A worker is a chain of ticks: `todo` is the rest of its
snapshot, `job` the transfer whose answer it has and `pc` where it is in
`advance()`: `ready` for the next transfer, `settle` after a good answer,
`catch` after an exception.

| action | code |
|---|---|
| `CheckSource`, `CreateTransfer` | `initiateTransfer`, either side of its second `await` |
| `Tick` | `findNonTerminalTransfers` |
| `Claim`, `ClaimFails` | cases `INITIATED` and `DEBIT_COMPLETE` |
| `CallAccounts` | the call of `DEBIT_PENDING`, `CREDIT_PENDING`, `COMPENSATING` and what comes back: `ServedOk`, `Refused`, an error, or nothing (`lost`) |
| `ServeLate` | Accounts serves a call whose caller gave up |
| `Settle`, `SettleFails` | the write after a good answer; its error lands in the same `catch` |
| `Catch`, `CatchFails` | the catch blocks; `tick()` logs an error thrown there |
| `Crash` | the process stops; the next tick reads a fresh snapshot |
| `Owners` | deposits, withdrawals, creation and closing by users |

The transfers of a snapshot are taken in any order (the query has no ORDER BY).
A self-transfer is an instance of the constants like any other.

**TransferProtocol** is what one is told of a transfer: the money is at the
source, in transit, at the destination or returned; the outcome is open,
`COMPLETED`, `COMPENSATED` or `FAILED`; the outcome is final, agrees with where
the money is, and is announced by exactly one event. `TransferSaga` maps
`outcome` to the saga state and `place` to what the ledger says (`Place`).

**EventDelivery** follows an event from its outbox row to the e-mail. `TransferSaga`
decides which rows there are; here `WriteEvent` adds one at any time. Copies of an
event are counted (`socket`, `queue`, `dead`), since they are equal and no decision
depends on the order of different events.

| action | code |
|---|---|
| `Poll`, `Publish`, `Mark`, `MarkFails` | `publishOutbox`: the snapshot, the unconfirmed `publish()`, the write of `publishedAt` |
| `Restart`, `Break` | the process restarts; its connection ends and is never made again |
| `Store`, `Lose` | the broker (external) |
| `Start`, `Disconnect` | an instance of Notifications starts, declares the queue and consumes; it stops, or its connection ends and is never made again |
| `Deliver` | the broker hands a copy to an instance that consumes |
| `IsProcessed`, `IncrementAttempts`, `GetUser`, `Send`, `MarkProcessed` | the awaits of `handle`; `GetUser` asks Auth, whose guard may refuse the key (`InternalAuthGuard`) and which may not know the user |
| `Respond`, `RespondOnClosed` | `ack`, `nack`, and what becomes of them on a closed channel |
| `RedisFails`, `Expire` | a command throws; a key's day is over |

A handler is a delivery in progress, of one instance (`InstanceOf`). `connected` are
the instances that consume: the connection, its channel and its consumer are made
once, in `onModuleInit`, so one that has lost them gets nothing more until it is
started again. Its handlers may go on (`Held` is false of them) while the broker
delivers their messages to another instance; the first that responds brings its
process down, with all the others in it (`StopHandlers`). `Failing` are events for
which `publish()` throws each time.

**OnceOnly** is what a key promises: until it is forgotten, the requests that carry
it are decided once, by one transfer or by a refusal, and an answer is that
decision, about the body it was made for, or says that there is none to give.

**IdempotencyKeys** is `intercept` with `initiateTransfer` behind it, in several
instances. `redis` holds a key's value, `pending` the results on their way there
(`storeResult` is not awaited; the commands of one instance are served in order,
hence `Flushed`), `rows` the table.

| `pc` | action | code |
|---|---|---|
| `idle` | `Receive` | guards; a request without a key ends there |
| `claim` | `Claim` | `SET key PENDING NX` |
| `get` | `Replay` | `GET`: conflict, mismatch, replay, or the key expired in between |
| `source`, `destination` | `CheckAccounts` | the two look-ups (`getAccount`, `getAccountInternal`) and the checks of each: an AppException is stored, any other error is not |
| `create` | `CreateTransfer` | the insert, which may fail, or be committed and seem to fail |
| - | `storeResult`, `Crash`, `Expire` | a result reaches Redis; an instance stops with all it had; a day is over |

**TransferRequests** puts the clients on top. A submission is an action of the
Next.js server (`web[r]`), which calls the gateway (`CallTransfers`, `PostAmount`),
may be answered 401 by either guard (`Unauthorized`), refreshes once and sends the
call again (`Retry`), and may be told 503 for a call that is still being served
(`Unavailable`, `Disconnect`). `last` is `lastAttemptRef`: the transfer form takes
its key again for as long as the values are those of the last attempt (`Forgets`
once it succeeded). Amounts have no key. Programs choose their own.

**AuthSessions** is the Auth service, one database statement at a time. A token is
named by its place in `refresh_tokens`, a family by its first token; all tokens
live equally long, so `expired` is a number.

| `pc` | action | code |
|---|---|---|
| `findUser` | `FindUserByEmail` | register: taken or not; login: known or not |
| `createUser` | `CreateUser` | the insert, which a unique index may refuse |
| `count` | `CountActiveSessions` | unexpired, unrevoked families against `MAX_SESSIONS` |
| `oldest`, `revokeOldest` | `FindOldest`, `RevokeOldest` | `revokeOldestSession` |
| `findToken` | `FindRefreshToken` | unknown, revoked (reuse), expired, or good |
| `family` | `RevokeTokenFamily` | reuse: the family is revoked |
| `revokeExpired`, `revoke` | `RevokeRefreshToken` | the rotation, and logout |
| `issue` | `IssueTokens` | the insert of the successor |
| any in progress | `Abort` | a failed statement or a stopped process |

`crowded`, `ended` and `excess` are auxiliary: users of whom two requests ran at once,
families that were revoked for reuse or logged out, and tokens of sessions above the
limit. `revokeOldestSession` may take an expired token for the oldest session; it is
`excess` then, as is the token of the session let in for it, and what takes the place
of a token in `excess`, by rotation or by a later login.

**WebSession** is one browser. A tab's request carries the cookies there were when it
was sent, as far as the server reads them (`Send`, `CookiesOf`; `SubmitLogin` and
`SubmitRegister` for the forms), and its response sets, clears or keeps those there are
when it arrives (`Respond`), or is lost (`Lose`). In between the Next.js server calls the
gateway or, for a refresh, a sign-in or a logout, Auth (`TryRefresh`, `RefreshRoute`,
`LoginRoute`, `RegisterRoute`, `logoutAction`, `AuthStep`). Cookies cannot be set
while a page is rendered (`CanSetCookies`).

Two variables are auxiliary. `session` is the token the browser should have: that of
the last response which set cookies, and none once it has asked to sign out, or Auth or
the way there has failed a refresh in an action, for which `apiFetch` clears the
cookies (`AfterFailure`). `excused` records what the client cannot help, and after which
nothing is claimed of it: two of its requests changing the session at once, an answer
of Auth or a response lost on its way, a refresh while a page is rendered, a login
elsewhere that revokes the oldest session, its own login that fails when it has
revoked that already, and a failure of the refresh route, which no page calls and
which keeps the cookies.

**TransferStatus** adds to TransferSaga what its owner sees of a transfer, in a tab
that shows the list of transfers or the transfer's page. `shown` is what the query
client holds for the page, which a visit to the list does not drop, `read` the
answer under way.

| action | code |
|---|---|
| `VisitList` | `TransfersPage`, `listTransfers`: all rows in one statement |
| `OpenPage`, `Refocus` | the page is mounted, or regains the focus: it asks, and shows what is cached meanwhile |
| `Poll` | `refetchInterval`, while it holds no terminal state |
| `Show`, `Miss`, `Forget` | the answer, the lack of one, the end of the cache's data |

**AccountPage** adds to Accounts the tabs that show an account or the list of them.
A tab has a `header` (status and the rows whose sum is the balance), `cards` (the
list), and a `table` (the ledger, which the query client caches across
navigations); `todo` is what it has yet to fetch, `reading` what it is fetching.

| action | code |
|---|---|
| `Visit`, `VisitList`, `OpenAccount`, `Reload` | navigation; `NewAccountForm`; the error page's button |
| `RenderAccount`, `getBalance`, `ShowAccount` | `getAccount`: the row, then the sum, in two statements; the page |
| `RenderList`, `listAccounts`, `ShowList` | the same for all accounts of a user, the sums in any order |
| `RenderFails`, `LedgerFails`, `Unavailable` | a call that throws; the gateway's 503 |
| `Unauthorized` | `JwtAuthGuard` of Accounts refuses what was to be fetched |
| `GetLedger`, `ShowLedger`, `Refocus` | the query of `LedgerTable` |
| `Submit`, `Hear` | `AmountSchema` of the forms; deposit, withdraw and close from the page, and what follows: `router.refresh`, `invalidateQueries` |

Operators whose comment begins with "Mutant" are not part of a specification.
Each is a plausible mistake in the definition that follows it; `PROJECT.json`
(`mutants`) says which property notices.

## 3. Runs

| Run | Instance | Question |
|---|---|---|
| `accounts` | 4 requests over 2 accounts, accepted and refused; any statement may fail | no overdraft, no double entry, truthful answers, closed accounts frozen; is the service the atomic ledger |
| `account_page` | 2 requests, 2 connections, 1 tab; no statement fails | is every request answered though they wait for one another; is a closed account's balance shown as it ends; does a tab come to show what it was told was done |
| `saga_crash` | 1 worker crashing twice, 2 transfers that compete for one deposit; one of them watched, in the list and on its page | terminal states true; the protocol; every transfer ends; does its owner see it go forward only, and come to see how it ended |
| `saga_refusal` | 1 worker that does not crash, 3 transfers (one of nothing), both accounts closable, one 500 answer | the same along the compensation path |
| `saga_overlap` | 2 workers on 1 transfer, one fault of each kind, both accounts closable | what survives everything: nothing paid out that was not taken, terminal states announced |
| `events` | 2 events, one of which cannot be published; 2 overlapping ticks, 2 instances with a handler each, 3 attempts, any one fault (or two e-mails that count as failed), the queue not yet declared | is the other event published; is no published event dropped; are duplicates bounded; is every message dealt with |
| `web_session` | 2 tabs and a device of 1 user, a limit of 1 session, 3 tokens | do the rotation and the limit hold wherever they are cut short; does the browser keep its session |
| `transfer_requests` | a transfer form and a program with 2 bodies each, a form for an amount; 2 submissions in all, each sent twice if it is answered 401, 1 instance | one transfer per key, whatever is pressed again; true answers; does every action end |
| `saga_lost_answer` | 1 worker, one lost answer | *violated* |
| `saga_two_workers` | 2 workers, no faults | *violated* |
| `events_lost` | 1 tick at a time, 1 handler, one lost message | *violated* |
| `reuse_race` | 1 user, 2 requests that refresh | *violated* |

**Bounds and why they suffice.** Two requests are enough to race; four let two
withdrawals, a debit and its retry meet on one account, and pairs of operations
meet while a third holds the lock. One amount that a single deposit covers once
makes every second withdrawal an overdraft if the lock fails. `PoolSize` equals
the number of requests in `accounts`, where the pool is not the question; in
`account_page` two requests hold both connections and wait for a third, so that
`Answered` is about that case. `UserRows` bounds the deposits and withdrawals of
owners by the length of the ledger: one row lets a deposit arrive before or after a
refusal, and what one transfer takes is not there for a retry of the other's debit;
two let the owner withdraw it as well. `MaxFaults` bounds each kind of fault; a run whose kinds are at
zero states what holds without them. Two transfers suffice for competition (the
saga treats transfers independently but for the source's funds); three add a
refused one. Events meet in a tick, where one may hold up another, and behind the
broker only by occupying handlers: `events` has one that fails each time beside one that
does not, whose copies show every race with two handlers. Two ticks and
one fault make three copies; three attempts against two handlers keep the two bounds on
e-mails apart, and two e-mails that count as failed let two handlers use up the attempts.
`MaxKinds` 1 keeps faults of different kinds apart, which the theorems put together. The handlers are of two instances, so that one may take over what the
other had; that several of one process stop together is covered by the theorems only.

A page reads what others write and writes nothing, so one tab shows every order
of its reads; two requests let one change the account while the other's effects
are being read, and an entry of the tab itself with one of the saga. Of sessions,
`MAX_SESSIONS` 1 makes every second login push the first out; `MaxTokens` 3 is one
login, its successor and a rival of either; two tabs of one browser are two
refreshes at once. With three tokens one may also expire, be revoked as the oldest and
so let a login in above the limit; what a longer history adds, `AuthSessionLimit`
covers. Two
submissions are one and the pressing again while it runs or after it, or a form
and a program side by side; that a third finds nothing new is what
`RequestsInvariance` says for any number of submissions and requests (section 4). Bounds that stop
the system (`MaxSubmissions`, `MaxTokens`) have no meaning in the code; where the
last submission leaves nothing to do (`transfer_requests`) deadlock is not
checked. Symmetry is used only in runs without liveness properties. `web_session` has a
`VIEW` as well: two auxiliary variables, which no action reads, are ignored once every
user is `crowded`, since all that is said of them is said of the others.

**What the passing runs show.** Between them every action and disjunct fires.

*Money.* Settled, the protocol and termination hold for one worker that may crash
(no account closing), or for one that does not crash while accounts close and
Accounts errs once. With overlapping workers and all faults only `DebitFirst` and
`TerminalAnnounced` survive: the saga never pays out what it did not take, and the
last event always matches the terminal state. The two cannot be put together: a
credit that was entered before a crash is refused on its retry when the
destination was closed in between, since the account's status is looked at before
its earlier entry, and the source is paid back as well. That is why
`saga_crash` closes no account, and `saga_refusal` does not crash.

*The pool.* Requests that each hold a connection and wait for a second one, for
`getActiveAccount`, do not hang: the time-outs of the pool end them (`Abort`), with
an error. `Answered` depends on that action alone.

*Events.* Every copy that the broker stored ends in an e-mail or in the
dead-letter queue, as long as some instance of Notifications consumes; the number of
e-mails is bounded by the handlers that overlap and, failures and all, by the
attempts. An event that cannot be published holds up no other.

*Keys.* Until a key is forgotten, after a day, its requests make one transfer
at most, and no answer contradicts it. A key that was claimed by a process that
stopped stays `PENDING` for that day: whoever presses again is told of a conflict,
never of a refusal. Amounts carry no key, and need none for the retry of
`apiFetch`: a 401 comes from a guard, before the handler (`OneRowPerSubmission`
counts one submission; pressing again after an error is another one, and may
deposit again).

*Sessions.* `RotatedIsDead` holds always. `OneLivePerFamily`, `EndedStaysEnded` and
`SessionLimit` hold of users who wait for their answers; nothing makes two of
their requests exclude each other (`crowded`): two refreshes at once may both find
their token unrevoked and both be given a successor, two logins at once pass the limit,
and `reuse_race` shows the worst of it. `SessionLimit` leaves out the sessions in `excess`
too, of which there is one whenever the oldest unrevoked token, which a login revokes,
had expired already. `SessionKept` says that a
browser at rest has the refresh cookie of its last login or refresh, until that token
expires, and that the cookie it has is not revoked. It does not say that nothing costs
the browser its session. A failure of Auth, or of the way there, during a refresh in an
action does: the token may be revoked already and `apiFetch` clears the cookies
(`session` is then none). So do, for a browser that is `excused`, a page of two parallel
calls, a refresh while a page is rendered, a lost answer, and a login that takes the
place of its session, even one that fails half way.

*Pages.* `ClosedBalanceIsFinal` holds because `getAccount` reads the row before the
sum: a status of `CLOSED` is older than the rows next to it. In the other order a
deposit could come between. `OwnEntriesShown` relies on `router.refresh` and
`invalidateQueries` both following `Done!`: either alone leaves one of the two
caches as it was. `OutcomeShown` needs the page to stop polling at the terminal
states and at no other; it is about the data the page holds, since a failed call
hides them behind an error until the next good one. `NeverBackwards` is about the
list by itself and the page by itself: a page opened from the list may begin with
what was cached before, and so behind the list, until its own call is answered.

**Fairness.** A request in progress is weakly fair: the event loop resumes it
when its statement returns, and every wait for a connection, a lock or a
transaction ends by a time-out at the latest. A worker is weakly fair because
the timer fires again and again and each call returns or throws; a transfer
cannot be starved since a snapshot is finite and each element is taken out of
it. Faults, owners and late calls are not fair. Of event delivery, the ticks (taken
together: some tick goes on), the broker's storing and each handler are weakly fair; failures of Auth and of the mail
server are free to happen for ever, the counter ends them. Transfers and Notifications
each open their channel once, and nothing in the repository restarts a process that has
lost it; the health check of Transfers asks the database only. So neither `Restart` nor `Start` is
fair: `EventuallyPublished` says nothing of a channel that stays closed, and
`EventuallyHandled` nothing of a time from which no instance consumes. Both have the form
`[]<>`: what is still unpublished when the channel is opened again, or in the broker when
an instance is started, is to be dealt with then. `EventuallyHandled` only says that no
copy of an event stays on its way or in the broker; that it was notified, dead-lettered
or lost by then is `PublishedIsUnderway`. `EventuallyPublished` also excepts the
events that cannot be published. `EventuallyTerminal` excepts transfers whose
source is closed, whose reversal ADR-004 accepts to be retried for ever.

Of the clients, an action that was begun is weakly fair (`Progress`), and so is
Redis's serving of results; submitting, crashes and expiry are not. The page of a
transfer polls (weakly fair) for as long as it is open, and its calls do not
fail for ever (`Show` is strongly fair, as `Miss` may come before it any number of
times): without either, the page rightly shows what it last heard. The browser
goes on with what a tab waits for (`PageStep`); navigation is not fair, and a tab
that is waiting for a page does not leave it.

**What the violated runs show.** Each states what a document of the repository
says, and TLC finds a behaviour of the code that disagrees:

* `saga_lost_answer` / `FailedMeansRefused` (architecture.md: `FAILED` means
  "debit rejected"): the debit is entered, its answer lost, and the catch block
  records `FAILED`; nothing reverses it.
* `saga_two_workers` / `Settled` (ADR-004, architecture.md: scaling is "safe by
  construction"): two ticks hold the same `DEBIT_PENDING` transfer; the first is
  refused for want of funds, a deposit arrives, the second debits, and the
  first's unconditional write of `FAILED` lands last.
* `events_lost` / `AtLeastOnce` (ADR-005: "Delivery is at-least-once"): `publish()`
  is not confirmed, the row is marked at once, and a message that the broker never
  stored is not sent again. A message published before Notifications has ever run
  is lost in the same way, no queue being bound to the exchange.
* `reuse_race` / `ReuseEndsFamily` (architecture.md: on reuse "the entire device's
  token family is invalidated"): the family is revoked between the two statements
  of another refresh with the same token, which then inserts a live successor.

## 4. Proofs

Everything is proved for any values of the constants: sets of accounts, users,
transfers, requests, tabs, keys, events and handlers, pool size, limits, and any
number of faults; only SettlementProofs, about what does not hold of every deployment,
has hypotheses (`Dependable`). The assumptions are those the modules name
(`LedgerAssumption`, `AccountsAssumption`, `SagaAssumption`, `DeliveryAssumption`,
`AuthAssumption`, `WebAssumption`, `IdempotencyAssumption`, `RequestsAssumption`,
`PageAssumption`, `StatusAssumption`): the types of the
constants, that the `No...` values are not of the sets they are added to, that
internal calls name a transfer, and that requests of Auth and handlers of
Notifications are finitely many. TLC evaluates them in the runs.

*LedgerProofs.* `LedgerTypeCorrect`, `LedgerAppliedOnce`, `LedgerClosedIsFrozen`
follow from the guards with the type invariant. `LedgerNonNegative` needs to
know that appending a row adds its amount to a sum defined by recursion. That is
usually shown by induction over the length of the ledger; here the existence and
uniqueness of the running sums is itself part of the inductive invariant
(`Summable`): it holds of the empty ledger, and each step appends one row
(`SumOfAppend`). The induction is over behaviours, the only kind a safety proof
needs.

*AccountsProofs.* The inductive invariant is `IInv == TypeOK /\ \A r :
RequestInv(r)`. `RequestInv` says what a request in progress has established by
the statement it is at: from `existing` on it holds the row lock of its account,
which is active and in the right currency; from `funds` on no earlier entry of
its transfer exists; at `commit` a withdrawal or a debit is covered. `TypeOK`
alone is not inductive towards any safety property: the commit's guard is only
`pc[r] = "commit"`. The heart of the argument is `Spares`: a step of another
request leaves all of this alone, because what could change it (a commit, a
closing) needs the lock. Three cases deserve a look. A request for an account
that does not exist locks nothing, so it must leave at `active`: `CreateAccount`
takes an identifier no request has named. `getActiveAccount` runs outside the
transaction, but inside the lock's lifetime, which is why what it read stays
true. A closing waits for the lock, like a transaction.

Only three statements write the rows or the status of an account
(`LedgerWriters`), and with `IInv` each is a step of `Ledger`
(`CommitIsLedgerStep`, `CloseIsLedgerStep`; all others stutter). That
gives `Refinement`, and through it the theorems of LedgerProofs hold of the
service: `AccountsNonNegative`, `AccountsAppliedOnce`, `AccountsClosedIsFrozen`.

`AccountsOkMeansEntered` counts. Neither the rows nor the answers can be counted
request by request, since a refused or aborted request leaves a row or none
(`DbFaults`). `AnswersInv` says of each account that, for deposits and for
withdrawals, the rows are at least the OK answers and at most the OK and the error
answers together, and of each step of a transfer that an OK stands for a row. It is
inductive because a request is answered once, at its end: a commit adds one row and
one answer (`FS_AddElement` on both sides), or a row and an error; a recognised retry
adds an OK to a row that is there. Requests may be infinitely many; that only
finitely many were answered so far is part of the invariant.

A step of the pages is a step of Accounts or leaves it alone, so `IInv` holds there
too, and `PageKeepsLedger` carries the refinement over to the composition.
`PageClosedBalanceIsFinal` follows from one more fact: once an account is closed its
rows stay (`StaysClosed`), so a page that has read the status `CLOSED` reads final
rows, and keeps them while it waits to show them.

*SagaProofs.* For any number of overlapping workers and faults of every kind:
`SagaTypeCorrect`, `SagaDebitFirst` and `SagaTerminalAnnounced`. `DebitFirst` is
about the ledger only and not inductive: what pays money out is a worker that
believes, rightly or from an old snapshot, that the debit was made. Rows are never
removed, so it suffices that each such belief came about after the debit.
`IInv` says it of a state in the table (`TransferInv`), of a row of a snapshot, an
answer or an exception being handled (`WorkerInv`), and of an abandoned call
(`LateInv`). A step either enters one row (`EnterStepAddsOne`) or leaves transfers'
rows alone, so that `Debited` only ever becomes true (`Grows`). `SagaUsesLedger`
shows that every step of the saga is a step of `Ledger` or a stutter on its tables,
so the theorems of LedgerProofs hold of both services together.

*SettlementProofs.* `SagaSettled` and `SagaImplementsProtocol` are about `Dependable`
deployments: one chain of ticks, no answer lost, no failing write to the database of
Transfers, and either a process that does not stop within a tick or accounts that stay
open and answer no 500. These are hypotheses about the constants, not about the
behaviours, and every one of them is needed: with a second worker, one lost answer, one
failing write, a crash and one 500, or a crash and one closing, TLC finds `Settled`
violated within some thousand states (the first is the run `saga_two_workers`; the
second is what `saga_lost_answer` shows of `FAILED`). `Settled` is not
inductive. `SInv` adds to the invariant of SagaProofs

* `Steps`: which of debit, credit and reversal are entered in every state, not only the
  terminal ones; in the three states of a call its own step may or may not be;
* `Current`: what a worker read is still so, which is what the unconditional writes of
  `advance()` rely on. It is preserved because there is one worker and a transfer leaves
  its snapshot before it is advanced;
* `Truthful`: a worker goes on to `settle` if and only if the step was entered. A
  refusal after an entry would break it, so one needs to know when a step that was
  entered can be refused:
* `Fresh`, for a process that does not crash: never, since nobody but the worker who
  holds the answer knows of the entry, and it does not ask again; and `Lasting`, for
  accounts that stay open: never, since `Eligible` accounts stay so and the earlier entry
  is found before the funds are looked at.

With `Quiet` (no event before the end) every step is a step of `TransferProtocol` or a
stutter. `OwnerNeverSeesBackwards` puts the pages on top: what a list or a page shows,
and what is on its way there, is never ahead of the table nor behind what the page
showed before (`PageInv`), and the state of a transfer goes forward only, which is a
consequence of `Current`.

*EventProofs.* `PublishedIsUnderway` is made inductive by what a row is marked for
(its copy was sent) and what a message is acknowledged for (its e-mail was sent):
`UnderwayInv`. The two bounds on e-mails count. For `AttemptsBound`, the e-mails sent
and the handlers the counter has let through never exceed the counter's value plus
what expired with it (`CountInv`). For `OnePerHandler` one needs a quantity that
only a fault of the consumer increases: the e-mails, the handlers that may yet send
one without another fault, and those that lost their message and can be replaced
(`AllowanceInv`); a handler that marks the event done rules out the others, one
that sends exchanges itself for an e-mail.

*IdempotencyProofs.* `KeyInv` says that a key is in one of four stages: free;
claimed by the one handler that works on it, undecided; decided, with the one
result on its way to Redis, or lost; decided with the result in Redis. So no second
handler finds it free, every decision is the first one since the key was free, and
every answer repeats it: `KeysImplementOnceOnly`. A stop, at any point, leads to the
third stage or leaves the key claimed by nobody.

The clients come on top in `RInv`. What has to be related are four things: a
submission (`series` names the key it carries, `entered` the row it made, both
auxiliary), the action of the web server that works on it, the request it has sent to
the service, and what Redis and the interceptor know of the key. `Series` and `Answer`
tie an action to its submission and to what it was told, `Passed` a request in the
service to the action that waits for it or has given up, `RowsOf` the rows of a key to
the decision on it, and `Made` and `Kept` the rows to the submissions. No two actions
work on one submission. From that follow, for any number of forms, programs, keys and
instances: `SubmissionEntersOneRow` (a retry follows a 401 only, and a 401 means that
no handler was reached), `FormPressedAgainOnce` (an attempt that was entered, and whose
key has not expired, is found by every later press), `RefusedEntersNothing`,
`AnsweredWithTheirOwn` and `FormsNeverBlamed` (a key has one body as long as its form
uses it), and `RequestsImplementOnceOnly`.

*AuthProofs.* Rows are added and revoked, never changed otherwise (`Grows`), so
that what a request has learned of its token's user and family stays true, and
that the token is revoked too. `TablesInv` rests on that and holds of all users; it
includes `AuthRotatedIsDead`. That a token is *not* revoked may change as soon as
another request of its user runs: `AuthOneLivePerFamily` and
`AuthEndedStaysEnded` hold of users who are not crowded, by `SessionInv`, which says
what their one request in progress still knows.

`AuthSessionLimit` counts. A login counts the sessions, revokes one and adds its own in
statements of their own; `LimitInv` says of a user who is not crowded that the sessions
counted, which are those not in `excess`, are within the limit, and what the one request
in progress knows (`RoomMade`): at `issue` they are one below it, or the token to be
inserted takes the place of one in `excess`; a refresh about to revoke its token will
leave it so; and the row a login is about to revoke is not revoked yet. Where one of the
sessions counted ends another fits (`EndedMakesRoom`), and an `Expire` can only help
(`FewerFit`).

*WebProofs.* A browser and its devices ask of Auth only what clients ask
(`WebImplementsAuth`), so the theorems about Auth hold of them (`WebKeepsAuth`).
What holds of a browser that was not excused comes in two layers. `LoneInv`: one tab at
most is changing the session, by a call of Auth or by a response that sets cookies; while
none does, the refresh cookie is not revoked; a tab that begins to presents a
good token; and its response carries a good one, or clears the cookies. Since nothing
but that tab's request, or a login elsewhere, which excuses, revokes the token, it is
still good when the tab is through. `NotTakenForThief` is a part of it. `HeldInv` says
that the good cookie is also there: it is the session's (`Held`) while no tab is changing
anything, and while Auth is asked; a refresh presents the session's token; and cookies are
cleared only when the session has expired or was given up. The one other way to lose it
would be a request sent with an older cookie, which sees the new one as somebody else's
(`Overlaps`): hence no request carries the token that a response is about to set
(`HeldTab`). `WebSessionKept` follows from both.

*Only model-checked* is liveness: `Answered`, `OwnEntriesShown`, `OutcomeShown`,
`EventuallyTerminal`, `EventuallyPublished`, `EventuallyHandled` and
`SubmissionEnds`. Each needs the fairness of actions, and with it ENABLED of formulas
with primed variables, which the provers do not handle. All invariants and action
properties that the passing runs check are theorems, and so are the three refinements
(`LedgerSpec`, `ProtocolSpec`, `OnceOnlySpec`; the last without the fairness of
`RequestsSpec`, which it does not need).

## 5. Not modelled

* The paging of tables, and the caches of the router for pages that are not shown:
  they decide nothing.
* The counters of the rate limit, health checks, metrics, logs, correlation
  identifiers and the shared packages: no state that a modelled decision reads.
* The route `/api/auth/logout`, which nothing in the repository calls: it does what
  `logoutAction` does.
* What pages look like; `failureReason`, names, e-mail texts, time stamps.
* Decimals: amounts are naturals; `Decimal(19, 4)` overflow is out of scope.
  The formats of requests, tokens and messages, malformed ones and unknown event
  types, which no producer sends.
* A call still being served when its caller has the connection broken under it is
  modelled by the `lost` fault (`late`) in the saga and by `Disconnect` in the
  gateway, not as a general delay of every call.
* Eight hazards have no property, see their notes in `PROJECT.json`. In six the code
  does go wrong, or gives a session up, and the properties around them are stated so as to
  leave the case out: a credit that was entered and whose answer, or whose `COMPLETED`, is
  lost; a crash and a closing between a step and its retry; logins that overlap; an
  expired token taken for the oldest session; a session spent while a page is rendered,
  and one lost to two parallel refreshes of one page. In the other two nothing says what
  should happen: a logout that races a refresh, and a 503 that is stored under a key and
  replayed for a day, which is true each time but not helpful.

## 6. Plan

*Done:* all modules of section 2, and the proofs of section 4.

*Left*, in order:

1. An abstract specification of event delivery (an event is pending, notified or
   given up), its refinement by EventDelivery without lost messages, and a theorem.
2. An abstract specification of the sessions of Auth (a session is open, or ended for
   good), with the tokens of a family hidden, as what WebSession relies on.
3. The saga over `Accounts` itself instead of `Ledger`, as a theorem from `Refinement`
   and `SagaUsesLedger`.
4. Of the gateway, the counters of its rate limit; of the shell, nothing.
