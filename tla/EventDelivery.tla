---------------------------- MODULE EventDelivery ----------------------------
(***************************************************************************)
(* From the outbox of Transfers to the e-mail of Notifications: the outbox *)
(* publisher, the broker and the consumer of transfer events.              *)
(*                                                                         *)
(* A publisher is a chain of ticks of publishOutbox; several run in one    *)
(* process because @Interval does not wait for the previous tick.  They    *)
(* share the channel opened when the process started.  A handler is one of *)
(* the deliveries an instance of Notifications handles at a time (PREFETCH *)
(* of them); the handler of a broken connection goes on while the broker   *)
(* delivers its message to another one.  Each process opens its channel    *)
(* once, when it starts, and nothing restarts it but an operator.          *)
(*                                                                         *)
(* The copies of an event in the broker are counted: they are equal, and   *)
(* nothing depends on the order in which different events arrive.          *)
(***************************************************************************)
EXTENDS Integers, FiniteSets, Functions

CONSTANTS Event, NoEvent,
          Failing,        \* events publish() throws for, each time
          Publisher,      \* chains of ticks of the outbox publisher
          Instance,       \* processes of Notifications
          Handler,        \* deliveries handled at a time
          InstanceOf,     \* the process each handler is of
          MaxAttempts,    \* MAX_ATTEMPTS
          QueueDeclared,  \* Notifications was started before, so its queue exists
          MaxFaults,      \* bound: how often each kind of fault happens
          MaxKinds        \* bound: how many kinds of fault happen

\* crash: Transfers stops and starts again.  broken: its connection to the
\* broker ends while the process goes on.  db: a write to transfers_db
\* throws, not having been done, or having been.  lost: a message is lost
\* before the broker has stored it.  redis, smtp: a command or an e-mail
\* counts as failed although it may have been done.  disconnect: an instance
\* of Notifications stops or loses its connection.  expiry: a key of Redis
\* expires.
FaultKind == {"crash", "broken", "db", "lost", "redis", "smtp", "disconnect", "expiry"}

ASSUME DeliveryAssumption ==
    /\ NoEvent \notin Event
    /\ Failing \subseteq Event
    /\ IsFiniteSet(Handler)
    /\ InstanceOf \in [Handler -> Instance]
    /\ MaxAttempts \in Nat
    /\ QueueDeclared \in BOOLEAN
    /\ MaxFaults \in [FaultKind -> Nat]
    /\ MaxKinds \in Nat

VARIABLES outbox,     \* publishedAt of each event's row, NONE before the row
          todo,       \* rest of the rows each publisher read
          marking,    \* the event each publisher is about to mark
          open,       \* the channel of Transfers is open
          socket,     \* copies sent that the broker has not stored
          lost,       \* events a copy of which no queue received
          declared,   \* the queue of Notifications exists
          connected,  \* instances of Notifications that consume from it
          queue,      \* copies ready for delivery
          dead,       \* copies in the dead-letter queue
          handler,    \* what each handler does
          processed,  \* Redis: events marked as processed
          attempts,   \* Redis: attempts counted for each event
          emails,     \* e-mails sent about each event
          faults      \* how many of each kind there were

publisherVars == <<outbox, todo, marking, open>>
networkVars == <<socket, lost, declared, connected>>
redisVars == <<processed, attempts>>
vars == <<publisherVars, networkVars, queue, dead, handler, redisVars, emails, faults>>

Step == {"check", "count", "lookup", "send", "mark", "ack", "requeue", "reject"}

Idle == [at |-> "idle", event |-> NoEvent]

TypeOK ==
    /\ outbox \in [Event -> {"NONE", "UNPUBLISHED", "PUBLISHED"}]
    /\ todo \in [Publisher -> SUBSET Event]
    /\ marking \in [Publisher -> Event \cup {NoEvent}]
    /\ open \in BOOLEAN /\ declared \in BOOLEAN
    /\ connected \subseteq Instance
    /\ lost \subseteq Event /\ processed \subseteq Event
    /\ socket \in [Event -> Nat] /\ queue \in [Event -> Nat] /\ dead \in [Event -> Nat]
    /\ handler \in [Handler -> [at : Step, event : Event] \cup {Idle}]
    /\ attempts \in [Event -> Nat] /\ emails \in [Event -> Nat]
    /\ faults \in [FaultKind -> Nat]

None == [e \in Event |-> 0]

Init ==
    /\ outbox = [e \in Event |-> "NONE"]
    /\ todo = [p \in Publisher |-> {}]
    /\ marking = [p \in Publisher |-> NoEvent]
    /\ open = TRUE
    /\ declared = QueueDeclared
    /\ connected = {}
    /\ lost = {} /\ processed = {}
    /\ socket = None /\ queue = None /\ dead = None
    /\ handler = [h \in Handler |-> Idle]
    /\ attempts = None /\ emails = None
    /\ faults = [k \in FaultKind |-> 0]

At(h, step) == handler[h].at = step

GoTo(h, step) == handler' = [handler EXCEPT ![h].at = step]

\* The broker waits for the answer of handler h: its channel is still open.
Held(h) == ~At(h, "idle") /\ InstanceOf[h] \in connected

StopHandlers(i) ==
    handler' = [h \in Handler |-> IF InstanceOf[h] = i THEN Idle ELSE handler[h]]

Fault(kind) ==
    /\ faults[kind] < MaxFaults[kind]
    /\ Cardinality({kind} \cup {k \in FaultKind : faults[k] > 0}) <= MaxKinds
    /\ faults' = [faults EXCEPT ![kind] = @ + 1]
-----------------------------------------------------------------------------
(* Transfers.                                                              *)

\* The saga ends a transfer and inserts the row of its event.
WriteEvent(e) ==
    /\ outbox[e] = "NONE"
    /\ outbox' = [outbox EXCEPT ![e] = "UNPUBLISHED"]
    /\ UNCHANGED <<todo, marking, open, networkVars, queue, dead, handler, redisVars,
                   emails, faults>>

\* A tick begins: findUnpublishedOutboxEvents.
Poll(p) ==
    LET rows == {e \in Event : outbox[e] = "UNPUBLISHED"} IN
    /\ todo[p] = {} /\ marking[p] = NoEvent
    /\ rows # {}
    /\ todo' = [todo EXCEPT ![p] = rows]
    /\ UNCHANGED <<outbox, marking, open, networkVars, queue, dead, handler, redisVars,
                   emails, faults>>

\* Mutant: the tick ends at the first row that fails.
EndTick(p, e) == todo' = [todo EXCEPT ![p] = {}]

\* What publish() throws is logged, and the next row taken.
Caught(p, e) == todo' = [todo EXCEPT ![p] = @ \ {e}]

\* publish() writes to the channel's socket, without confirmation; it throws
\* if the channel is closed.
Publish(p, e) ==
    /\ marking[p] = NoEvent /\ e \in todo[p]
    /\ \/ /\ open /\ e \notin Failing
          /\ todo' = [todo EXCEPT ![p] = @ \ {e}]
          /\ marking' = [marking EXCEPT ![p] = e]
          /\ socket' = [socket EXCEPT ![e] = @ + 1]
       \/ /\ ~open \/ e \in Failing
          /\ Caught(p, e)
          /\ UNCHANGED <<marking, socket>>
    /\ UNCHANGED <<outbox, open, lost, declared, connected, queue, dead, handler,
                   redisVars, emails, faults>>

\* A write that throws may not have been done.
MarkNothing(p) == marking' = [marking EXCEPT ![p] = NoEvent] /\ UNCHANGED outbox

SetPublished(p) ==
    /\ outbox' = [outbox EXCEPT ![marking[p]] = "PUBLISHED"]
    /\ marking' = [marking EXCEPT ![p] = NoEvent]

Mark(p) ==
    /\ marking[p] # NoEvent
    /\ SetPublished(p)
    /\ UNCHANGED <<todo, open, networkVars, queue, dead, handler, redisVars, emails,
                   faults>>

MarkFails(p) ==
    /\ marking[p] # NoEvent
    /\ Fault("db")
    /\ SetPublished(p) \/ MarkNothing(p)
    /\ UNCHANGED <<todo, open, networkVars, queue, dead, handler, redisVars, emails>>

\* The process stops and starts again, with a new connection.
Restart ==
    /\ Fault("crash")
    /\ todo' = [p \in Publisher |-> {}]
    /\ marking' = [p \in Publisher |-> NoEvent]
    /\ open' = TRUE
    /\ UNCHANGED <<outbox, networkVars, queue, dead, handler, redisVars, emails>>

\* The connection made in onModuleInit ends, and nothing makes another.
Break ==
    /\ open
    /\ Fault("broken")
    /\ open' = FALSE
    /\ UNCHANGED <<outbox, todo, marking, networkVars, queue, dead, handler, redisVars,
                   emails>>
-----------------------------------------------------------------------------
(* The broker.                                                             *)

\* A message reaches the exchange, which drops it if no queue is bound.
Store(e) ==
    /\ socket[e] > 0
    /\ socket' = [socket EXCEPT ![e] = @ - 1]
    /\ \/ /\ declared
          /\ queue' = [queue EXCEPT ![e] = @ + 1]
          /\ UNCHANGED lost
       \/ /\ ~declared
          /\ lost' = lost \cup {e}
          /\ UNCHANGED queue
    /\ UNCHANGED <<publisherVars, declared, connected, dead, handler, redisVars, emails,
                   faults>>

\* A process, a connection or the broker ends before the message is stored.
Lose(e) ==
    /\ socket[e] > 0
    /\ Fault("lost")
    /\ socket' = [socket EXCEPT ![e] = @ - 1]
    /\ lost' = lost \cup {e}
    /\ UNCHANGED <<publisherVars, declared, connected, queue, dead, handler, redisVars,
                   emails>>

\* An instance of Notifications starts, or is started again: it declares the
\* durable queue, opens its channel and consumes.
Start(i) ==
    /\ i \notin connected
    /\ connected' = connected \cup {i}
    /\ declared' = TRUE
    /\ StopHandlers(i)
    /\ UNCHANGED <<publisherVars, socket, lost, queue, dead, redisVars, emails, faults>>

\* An instance stops, or its connection ends while its handlers go on with
\* what they do.  The broker takes back what they hold, and delivers nothing
\* more to this instance until it is started again.
Disconnect(i) ==
    /\ i \in connected
    /\ Fault("disconnect")
    /\ connected' = connected \ {i}
    /\ queue' = [e \in Event |->
          queue[e] + Cardinality({h \in Handler : InstanceOf[h] = i /\ handler[h].event = e})]
    /\ StopHandlers(i) \/ UNCHANGED handler
    /\ UNCHANGED <<publisherVars, socket, lost, declared, dead, redisVars, emails>>
-----------------------------------------------------------------------------
(* Notifications: one action for each await of handle().                   *)

Deliver(h, e) ==
    /\ At(h, "idle") /\ InstanceOf[h] \in connected
    /\ queue[e] > 0
    /\ queue' = [queue EXCEPT ![e] = @ - 1]
    /\ handler' = [handler EXCEPT ![h] = [at |-> "check", event |-> e]]
    /\ UNCHANGED <<publisherVars, networkVars, dead, redisVars, emails, faults>>

\* Mutant: no deduplication.
NeverProcessed(h) ==
    /\ At(h, "check")
    /\ GoTo(h, "count")
    /\ UNCHANGED <<publisherVars, networkVars, queue, dead, redisVars, emails, faults>>

IsProcessed(h) ==
    /\ At(h, "check")
    /\ \/ handler[h].event \in processed /\ GoTo(h, "ack")
       \/ handler[h].event \notin processed /\ GoTo(h, "count")
    /\ UNCHANGED <<publisherVars, networkVars, queue, dead, redisVars, emails, faults>>

\* Mutant: the attempts left are counted down.
CountedDown(e) == attempts' = [attempts EXCEPT ![e] = @ - 1]

Incremented(e) == attempts' = [attempts EXCEPT ![e] = @ + 1]

\* Mutant: there is always another attempt.
NeverGiveUp(h) ==
    /\ At(h, "count")
    /\ GoTo(h, "lookup")
    /\ UNCHANGED <<publisherVars, networkVars, queue, dead, redisVars, emails, faults>>

\* Mutant: the count before this attempt is compared.
CompareOldCount(h) ==
    LET e == handler[h].event IN
    /\ At(h, "count")
    /\ Incremented(e)
    /\ \/ attempts[e] > MaxAttempts /\ GoTo(h, "reject")
       \/ attempts[e] <= MaxAttempts /\ GoTo(h, "lookup")
    /\ UNCHANGED <<publisherVars, networkVars, queue, dead, processed, emails, faults>>

\* INCR answers with the new count.
IncrementAttempts(h) ==
    LET e == handler[h].event IN
    /\ At(h, "count")
    /\ Incremented(e)
    /\ \/ attempts[e] + 1 > MaxAttempts /\ GoTo(h, "reject")
       \/ attempts[e] + 1 <= MaxAttempts /\ GoTo(h, "lookup")
    /\ UNCHANGED <<publisherVars, networkVars, queue, dead, processed, emails, faults>>

\* Auth's guard does not know the key of the call.
InternalAuthGuard(h) == GoTo(h, "requeue")

\* The user is found, or not.
internalGetUserById(h) == GoTo(h, "send") \/ GoTo(h, "requeue")

\* Whatever is answered but a user is thrown, as is a call that fails.
GetUser(h) ==
    /\ At(h, "lookup")
    /\ InternalAuthGuard(h) \/ internalGetUserById(h)
    /\ UNCHANGED <<publisherVars, networkVars, queue, dead, redisVars, emails, faults>>

Emailed(e) == emails' = [emails EXCEPT ![e] = @ + 1]

Send(h) ==
    /\ At(h, "send")
    /\ \/ Emailed(handler[h].event) /\ GoTo(h, "mark") /\ UNCHANGED faults
       \/ UNCHANGED <<emails, faults>> /\ GoTo(h, "requeue")
       \/ Emailed(handler[h].event) /\ GoTo(h, "requeue") /\ Fault("smtp")
    /\ UNCHANGED <<publisherVars, networkVars, queue, dead, redisVars>>

MarkProcessed(h) ==
    /\ At(h, "mark")
    /\ processed' = processed \cup {handler[h].event}
    /\ GoTo(h, "ack")
    /\ UNCHANGED <<publisherVars, networkVars, queue, dead, attempts, emails, faults>>

\* A command to Redis throws, and may have been executed.
RedisFails(h) ==
    LET e == handler[h].event IN
    /\ Fault("redis")
    /\ \/ At(h, "check") /\ UNCHANGED redisVars
       \/ At(h, "count") /\ UNCHANGED processed /\ (Incremented(e) \/ UNCHANGED attempts)
       \/ At(h, "mark") /\ UNCHANGED attempts /\ processed' \in {processed, processed \cup {e}}
    /\ GoTo(h, "requeue")
    /\ UNCHANGED <<publisherVars, networkVars, queue, dead, emails>>

\* Mutant: whatever was thrown, the message is acknowledged.
AcknowledgeAlways(h) ==
    /\ Held(h)
    /\ handler[h].at \in {"ack", "requeue", "reject"}
    /\ handler' = [handler EXCEPT ![h] = Idle]
    /\ UNCHANGED <<publisherVars, networkVars, queue, dead, redisVars, emails, faults>>

\* ack, or nack with or without requeueing.
Respond(h) ==
    LET e == handler[h].event IN
    /\ Held(h)
    /\ \/ At(h, "ack") /\ UNCHANGED <<queue, dead>>
       \/ At(h, "requeue") /\ queue' = [queue EXCEPT ![e] = @ + 1] /\ UNCHANGED dead
       \/ At(h, "reject") /\ dead' = [dead EXCEPT ![e] = @ + 1] /\ UNCHANGED queue
    /\ handler' = [handler EXCEPT ![h] = Idle]
    /\ UNCHANGED <<publisherVars, networkVars, redisVars, emails, faults>>

\* On a closed channel ack throws, and nack in the catch throws again: the
\* rejection is handled nowhere and the process stops, with all its handlers.
RespondOnClosed(h) ==
    /\ ~Held(h)
    /\ handler[h].at \in {"ack", "requeue", "reject"}
    /\ StopHandlers(InstanceOf[h])
    /\ UNCHANGED <<publisherVars, networkVars, queue, dead, redisVars, emails, faults>>

\* A key's time to live ends; a requeued message may be older than a day.
Expire(e) ==
    /\ Fault("expiry")
    /\ \/ e \in processed /\ processed' = processed \ {e} /\ UNCHANGED attempts
       \/ attempts[e] > 0 /\ attempts' = [attempts EXCEPT ![e] = 0] /\ UNCHANGED processed
    /\ UNCHANGED <<publisherVars, networkVars, queue, dead, handler, emails>>
-----------------------------------------------------------------------------
PublisherStep(p) == Poll(p) \/ Mark(p) \/ \E e \in Event : Publish(p, e)

HandlerStep(h) ==
    \/ \E e \in Event : Deliver(h, e)
    \/ IsProcessed(h) \/ IncrementAttempts(h) \/ GetUser(h) \/ Send(h)
    \/ MarkProcessed(h) \/ Respond(h) \/ RespondOnClosed(h)

\* All rows that can be are published, all messages dealt with and all
\* instances running.
Quiet ==
    /\ \A e \in Event \ Failing : outbox[e] = "PUBLISHED" /\ queue[e] = 0
    /\ \A h \in Handler : handler[h] = Idle
    /\ connected = Instance
    /\ UNCHANGED vars

Next ==
    \/ \E e \in Event : WriteEvent(e) \/ Store(e) \/ Lose(e) \/ Expire(e)
    \/ \E p \in Publisher : PublisherStep(p) \/ MarkFails(p)
    \/ \E h \in Handler : HandlerStep(h) \/ RedisFails(h)
    \/ \E i \in Instance : Start(i) \/ Disconnect(i)
    \/ Restart \/ Break
    \/ Quiet

Spec == Init /\ [][Next]_vars

\* The interval timer, the broker and the event loop go on, though not each
\* tick need do so; faults and the starts of Notifications are not fair.
FairSpec ==
    /\ Spec
    /\ WF_vars(\E p \in Publisher : PublisherStep(p))
    /\ WF_vars(\E e \in Event : Store(e))
    /\ \A h \in Handler : WF_vars(HandlerStep(h))
-----------------------------------------------------------------------------
InBroker(e) ==
    \/ queue[e] > 0
    \/ \E h \in Handler : Held(h) /\ handler[h].event = e

Settled(e) == emails[e] > 0 \/ dead[e] > 0

\* A published event is on its way, notified or dead-lettered, whatever
\* fails, unless a copy was lost before the broker had it: no handler drops
\* a message, and no row is marked that was not sent.
PublishedIsUnderway ==
    \A e \in Event : outbox[e] = "PUBLISHED" =>
        socket[e] > 0 \/ InBroker(e) \/ Settled(e) \/ e \in lost

\* Deduplication: without faults of the consumer, an event is notified twice
\* only by handlers that overlap; each such fault lets each handler notify it
\* once more, however often it is published.
OnePerHandler ==
    \A e \in Event : emails[e] <= Cardinality(Handler) *
        (1 + faults["redis"] + faults["smtp"] + faults["disconnect"] + faults["expiry"])

\* The shared counter bounds the e-mails of all copies of an event, failed
\* handlings and all, until it expires.
AttemptsBound ==
    \A e \in Event : emails[e] <= MaxAttempts * (1 + faults["expiry"])

\* An event that cannot be published holds up no other, in whatever order the
\* ticks take them: while the channel is open, no other row stays unpublished.
EventuallyPublished ==
    \A e \in Event \ Failing : []<>(outbox[e] # "UNPUBLISHED" \/ ~open)

\* While some instance consumes, no message goes round for ever, nor stays
\* behind with an instance that stopped or lost its connection: again and
\* again no copy of an event is on its way or in the broker, and then, as
\* PublishedIsUnderway says, it is notified or dead-lettered, or was lost.
\* It does not say so while none consumes.
EventuallyHandled ==
    \A e \in Event : []<>((socket[e] = 0 /\ ~InBroker(e)) \/ connected = {})

\* Delivery is at least once.
AtLeastOnce ==
    \A e \in Event : outbox[e] = "PUBLISHED" => socket[e] > 0 \/ InBroker(e) \/ Settled(e)
=============================================================================
