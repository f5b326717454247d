----------------------------- MODULE EventProofs -----------------------------
(***************************************************************************)
(* Proofs about EventDelivery, for any events, publishers and handlers and *)
(* any number of faults.                                                   *)
(*                                                                         *)
(* PublishedIsUnderway needs what a row is marked for (its copy is on its  *)
(* way) and what is acknowledged for (its e-mail was sent): UnderwayInv.   *)
(* The two bounds on e-mails count, besides the e-mails sent, the handlers *)
(* that may still send one: CountInv and AllowanceInv.                     *)
(***************************************************************************)
EXTENDS EventDelivery, FiniteSetTheorems, TLAPS

Sent(e) == socket[e] > 0 \/ InBroker(e) \/ Settled(e) \/ e \in lost

UnderwayInv ==
    /\ PublishedIsUnderway
    /\ \A p \in Publisher : marking[p] # NoEvent => Sent(marking[p])
    /\ \A e \in processed : emails[e] > 0
    /\ \A h \in Handler : handler[h].at \in {"mark", "ack"} => emails[handler[h].event] > 0

\* The handlers that were let through by the counter and have not sent yet.
Counted(e) == {h \in Handler : handler[h].at \in {"lookup", "send"} /\ handler[h].event = e}

Lesser(m, n) == IF m <= n THEN m ELSE n

CountInv ==
    \A e \in Event :
        emails[e] + Cardinality(Counted(e))
            <= MaxAttempts * faults["expiry"] + Lesser(attempts[e], MaxAttempts)

\* The handlers that may send an e-mail about e without another fault: once e
\* is marked only those past the check; before that all but the one that
\* has sent it and is about to mark it.
MayNotify(e) ==
    IF e \in processed
    THEN {h \in Handler : handler[h].at \in {"count", "lookup", "send"} /\ handler[h].event = e}
    ELSE {h \in Handler : ~(handler[h].at = "mark" /\ handler[h].event = e)}

\* The handlers whose message went to another one; they may stop, and their
\* place be taken, without another fault.
Unheld == {h \in Handler : ~At(h, "idle") /\ ~Held(h)}

ConsumerFault == {"redis", "smtp", "disconnect", "expiry"}

Allowance == Cardinality(Handler) *
    (1 + faults["redis"] + faults["smtp"] + faults["disconnect"] + faults["expiry"])

AllowanceInv ==
    \A e \in Event :
        emails[e] + Cardinality(MayNotify(e)) + Cardinality(Unheld) <= Allowance

IInv == TypeOK /\ UnderwayInv /\ CountInv /\ AllowanceInv
-----------------------------------------------------------------------------
(* Types, and sets of handlers.                                            *)

LEMMA FaultCounts ==
    ASSUME TypeOK, NEW k \in FaultKind, Fault(k)
    PROVE  /\ faults' \in [FaultKind -> Nat]
           /\ faults'[k] = faults[k] + 1
           /\ \A j \in FaultKind \ {k} : faults'[j] = faults[j]
BY DEF Fault, TypeOK

LEMMA Counting ==
    ASSUME NEW S \in SUBSET Handler, NEW T \in SUBSET Handler
    PROVE  /\ IsFiniteSet(S)
           /\ Cardinality(S) \in Nat
           /\ Cardinality(S) <= Cardinality(Handler)
           /\ S \subseteq T => Cardinality(S) <= Cardinality(T)
<1>1. IsFiniteSet(Handler)
  BY DeliveryAssumption
<1>2. IsFiniteSet(S) /\ IsFiniteSet(T) /\ Cardinality(S) <= Cardinality(Handler)
  BY <1>1, FS_Subset
<1>3. Cardinality(S) \in Nat
  BY <1>2, FS_CardinalityType
<1>4. S \subseteq T => Cardinality(S) <= Cardinality(T)
  BY <1>2, FS_Subset
<1> QED
  BY <1>2, <1>3, <1>4

LEMMA CountingOne ==
    ASSUME NEW S \in SUBSET Handler, NEW h \in Handler
    PROVE  /\ h \notin S => Cardinality(S \cup {h}) = Cardinality(S) + 1
           /\ h \in S => Cardinality(S \ {h}) = Cardinality(S) - 1
BY Counting, FS_AddElement, FS_RemoveElement

LEMMA CountingUnion ==
    ASSUME NEW S \in SUBSET Handler, NEW T \in SUBSET Handler, NEW U \in SUBSET Handler,
           NEW V \in SUBSET Handler, NEW W \in SUBSET Handler,
           S \subseteq T \cup W, U \subseteq V \ W, W \subseteq V
    PROVE  Cardinality(S) + Cardinality(U) <= Cardinality(T) + Cardinality(V)
<1>1. /\ IsFiniteSet(S) /\ IsFiniteSet(T) /\ IsFiniteSet(U) /\ IsFiniteSet(V) /\ IsFiniteSet(W)
      /\ IsFiniteSet(T \cap W) /\ IsFiniteSet(U \cap W)
      /\ Cardinality(S) \in Nat /\ Cardinality(T) \in Nat /\ Cardinality(U) \in Nat
      /\ Cardinality(V) \in Nat /\ Cardinality(W) \in Nat /\ Cardinality(T \cap W) \in Nat
  BY Counting
<1>2. Cardinality(S) <= Cardinality(T \cup W)
  BY Counting
<1>3. Cardinality(T \cup W) = Cardinality(T) + Cardinality(W) - Cardinality(T \cap W)
  BY <1>1, FS_Union
<1>4. Cardinality(U \cup W) = Cardinality(U) + Cardinality(W)
  <2>1. Cardinality(U \cap W) = 0
    BY FS_EmptySet
  <2>2. Cardinality(U \cup W) = Cardinality(U) + Cardinality(W) - Cardinality(U \cap W)
    BY <1>1, FS_Union
  <2> QED
    BY <1>1, <2>1, <2>2
<1>5. Cardinality(U \cup W) <= Cardinality(V)
  BY Counting
<1>6. Cardinality(T \cup W) \in Nat /\ Cardinality(U \cup W) \in Nat
  BY Counting
<1> QED
  BY <1>1, <1>2, <1>3, <1>4, <1>5, <1>6

LEMMA TypeStep ==
    ASSUME TypeOK, [Next]_vars
    PROVE  TypeOK'
<1> USE DEF TypeOK, networkVars, redisVars, publisherVars
<1>1. ASSUME NEW e \in Event, WriteEvent(e) PROVE TypeOK'
  BY <1>1 DEF WriteEvent
<1>2. ASSUME NEW e \in Event, Store(e) PROVE TypeOK'
  BY <1>2 DEF Store
<1>3. ASSUME NEW e \in Event, Lose(e) PROVE TypeOK'
  BY <1>3, FaultCounts DEF Lose, FaultKind
<1>4. ASSUME NEW e \in Event, Expire(e) PROVE TypeOK'
  BY <1>4, FaultCounts DEF Expire, FaultKind
<1>5. ASSUME NEW p \in Publisher, Poll(p) PROVE TypeOK'
  BY <1>5 DEF Poll
<1>6. ASSUME NEW p \in Publisher, Mark(p) PROVE TypeOK'
  BY <1>6 DEF Mark, SetPublished
<1>7. ASSUME NEW p \in Publisher, NEW e \in Event, Publish(p, e) PROVE TypeOK'
  BY <1>7 DEF Publish, Caught
<1>8. ASSUME NEW p \in Publisher, MarkFails(p) PROVE TypeOK'
  BY <1>8, FaultCounts DEF MarkFails, MarkNothing, SetPublished, FaultKind
<1>9. ASSUME NEW h \in Handler, HandlerStep(h) \/ RedisFails(h) PROVE TypeOK'
  <2> USE DEF Step, At, GoTo, Incremented
  <2>1. ASSUME NEW e \in Event, Deliver(h, e) PROVE TypeOK'
    BY <2>1 DEF Deliver
  <2>2. CASE IsProcessed(h)
    BY <2>2 DEF IsProcessed, Idle
  <2>3. CASE IncrementAttempts(h)
    BY <2>3 DEF IncrementAttempts, Idle
  <2>4. CASE GetUser(h)
    BY <2>4 DEF GetUser, InternalAuthGuard, internalGetUserById, Idle
  <2>5. CASE Send(h)
    <3>1. faults' \in [FaultKind -> Nat]
      BY <2>5, FaultCounts DEF Send, FaultKind
    <3>2. emails' \in [Event -> Nat]
      BY <2>5 DEF Send, Emailed, Idle
    <3>3. handler' \in [Handler -> [at : Step, event : Event] \cup {Idle}]
      BY <2>5 DEF Send, Idle
    <3> QED
      BY <2>5, <3>1, <3>2, <3>3 DEF Send
  <2>6. CASE MarkProcessed(h)
    BY <2>6 DEF MarkProcessed, Idle
  <2>7. CASE Respond(h)
    BY <2>7 DEF Respond, Idle
  <2>8. CASE RespondOnClosed(h)
    BY <2>8 DEF RespondOnClosed, StopHandlers
  <2>9. CASE RedisFails(h)
    <3>1. faults' \in [FaultKind -> Nat]
      BY <2>9, FaultCounts DEF RedisFails, FaultKind
    <3>2. handler' \in [Handler -> [at : Step, event : Event] \cup {Idle}]
      BY <2>9 DEF RedisFails, Idle
    <3> QED
      BY <2>9, <3>1, <3>2 DEF RedisFails, Idle
  <2> QED
    BY <1>9, <2>1, <2>2, <2>3, <2>4, <2>5, <2>6, <2>7, <2>8, <2>9 DEF HandlerStep
<1>10. CASE Restart \/ Break
  BY <1>10, FaultCounts DEF Restart, Break, FaultKind
<1>11. CASE Quiet \/ UNCHANGED vars
  BY <1>11 DEF Quiet, vars
<1>12. ASSUME NEW i \in Instance, Start(i) PROVE TypeOK'
  BY <1>12 DEF Start, StopHandlers
<1>13. ASSUME NEW i \in Instance, Disconnect(i) PROVE TypeOK'
  <2>1. queue' \in [Event -> Nat]
    <3> DEFINE Holders(e) == {h \in Handler : InstanceOf[h] = i /\ handler[h].event = e}
    <3>1. \A e \in Event : Cardinality(Holders(e)) \in Nat
      BY Counting
    <3>2. queue' = [e \in Event |-> queue[e] + Cardinality(Holders(e))]
      BY <1>13 DEF Disconnect
    <3> HIDE DEF Holders
    <3> QED
      BY <3>1, <3>2
  <2>2. handler' \in [Handler -> [at : Step, event : Event] \cup {Idle}]
    BY <1>13 DEF Disconnect, StopHandlers
  <2>3. faults' \in [FaultKind -> Nat]
    BY <1>13, FaultCounts DEF Disconnect, FaultKind
  <2> QED
    BY <1>13, <2>1, <2>2, <2>3 DEF Disconnect
<1> QED
  BY <1>1, <1>2, <1>3, <1>4, <1>5, <1>6, <1>7, <1>8, <1>9, <1>10, <1>11, <1>12, <1>13
     DEF Next, PublisherStep
-----------------------------------------------------------------------------
(* Published events are underway.                                          *)

\* What is on its way stays so, or was lost, notified or dead-lettered.
LEMMA SentStays ==
    ASSUME TypeOK, UnderwayInv, [Next]_vars, NEW e \in Event, Sent(e)
    PROVE  Sent(e)'
<1> USE DEF networkVars, redisVars, publisherVars
<1>1. CASE /\ UNCHANGED <<connected, queue, dead, handler, emails>>
           /\ \/ UNCHANGED <<socket, lost>>
              \/ \E f \in Event : \/ socket' = [socket EXCEPT ![f] = @ + 1] /\ UNCHANGED lost
                                  \/ socket' = [socket EXCEPT ![f] = @ - 1] /\ lost' = lost \cup {f}
  BY <1>1 DEF Sent, InBroker, Held, At, Settled, TypeOK
<1>2. ASSUME NEW f \in Event, Store(f) PROVE Sent(e)'
  <2>1. CASE queue' = [queue EXCEPT ![f] = @ + 1]
    BY <1>2, <2>1 DEF Store, Sent, InBroker, Held, At, Settled, TypeOK
  <2>2. CASE lost' = lost \cup {f} /\ UNCHANGED queue
    BY <1>2, <2>2 DEF Store, Sent, InBroker, Held, At, Settled, TypeOK
  <2> QED
    BY <1>2, <2>1, <2>2 DEF Store
<1>3. ASSUME NEW i \in Instance, Disconnect(i) PROVE Sent(e)'
  <2> DEFINE Holders(f) == {h \in Handler : InstanceOf[h] = i /\ handler[h].event = f}
  <2>1. /\ queue' = [f \in Event |-> queue[f] + Cardinality(Holders(f))]
        /\ connected' = connected \ {i}
        /\ \A h \in Handler : InstanceOf[h] # i => handler'[h] = handler[h]
        /\ UNCHANGED <<socket, lost, dead, emails>>
    BY <1>3 DEF Disconnect, StopHandlers
  <2>2. Cardinality(Holders(e)) \in Nat
    BY Counting
  <2>3. ASSUME NEW h \in Handler, InstanceOf[h] = i, handler[h].event = e
        PROVE  Cardinality(Holders(e)) # 0
    <3>1. Holders(e) # {} /\ IsFiniteSet(Holders(e))
      BY <2>3, Counting
    <3> QED
      BY <3>1, FS_EmptySet
  <2>4. queue'[e] = queue[e] + Cardinality(Holders(e)) /\ queue[e] \in Nat
    BY <2>1 DEF TypeOK
  <2>5. CASE queue'[e] > 0
    BY <2>5 DEF Sent, InBroker
  <2>6. CASE \E h \in Handler : InstanceOf[h] # i /\ Held(h) /\ handler[h].event = e
    <3>1. InBroker(e)'
      BY <2>1, <2>6, DeliveryAssumption DEF InBroker, Held, At
    <3> QED
      BY <3>1 DEF Sent
  <2>7. InBroker(e) => queue'[e] > 0
                       \/ \E h \in Handler : InstanceOf[h] # i /\ Held(h) /\ handler[h].event = e
    <3> HIDE DEF Holders
    <3> QED
      BY <2>2, <2>3, <2>4 DEF InBroker
  <2> QED
    BY <2>1, <2>5, <2>6, <2>7 DEF Sent, Settled
<1>4. ASSUME NEW h \in Handler, HandlerStep(h) \/ RedisFails(h) PROVE Sent(e)'
  <2> USE DEF Step, At, GoTo
  <2>1. ASSUME NEW f \in Event, Deliver(h, f) PROVE Sent(e)'
    <3>1. /\ queue' = [queue EXCEPT ![f] = @ - 1]
          /\ handler' = [handler EXCEPT ![h] = [at |-> "check", event |-> f]]
          /\ UNCHANGED <<socket, lost, connected, dead, emails>>
          /\ InstanceOf[h] \in connected /\ ~Held(h)
      BY <2>1 DEF Deliver, Held
    <3>2. e = f => Held(h)' /\ handler'[h].event = e
      BY <3>1 DEF Held, TypeOK
    <3>3. e # f => queue'[e] = queue[e]
      BY <3>1 DEF TypeOK
    <3>4. \A g \in Handler : Held(g) => handler'[g] = handler[g] /\ Held(g)'
      BY <3>1 DEF Held, TypeOK
    <3>5. InBroker(e) => InBroker(e)'
      BY <3>2, <3>3, <3>4 DEF InBroker
    <3> QED
      BY <3>1, <3>5 DEF Sent, Settled
  <2>2. CASE /\ UNCHANGED <<socket, lost, connected, queue, dead>>
             /\ \A g \in Handler : /\ ~At(g, "idle") => (~At(g, "idle"))'
                                   /\ handler'[g].event = handler[g].event
             /\ emails[e] > 0 => emails'[e] > 0
    BY <2>2 DEF Sent, InBroker, Held, Settled
  <2>3. CASE IsProcessed(h)
    BY <2>2, <2>3 DEF IsProcessed, TypeOK, Idle
  <2>4. CASE IncrementAttempts(h)
    BY <2>2, <2>4 DEF IncrementAttempts, TypeOK, Idle
  <2>5. CASE GetUser(h)
    BY <2>2, <2>5 DEF GetUser, InternalAuthGuard, internalGetUserById, TypeOK, Idle
  <2>6. CASE Send(h)
    <3>1. emails[e] > 0 => emails'[e] > 0
      BY <2>6 DEF Send, Emailed, TypeOK
    <3>2. \A g \in Handler : /\ ~At(g, "idle") => (~At(g, "idle"))'
                             /\ handler'[g].event = handler[g].event
      BY <2>6 DEF Send, TypeOK, Idle
    <3> QED
      BY <2>2, <2>6, <3>1, <3>2 DEF Send
  <2>7. CASE MarkProcessed(h)
    BY <2>2, <2>7 DEF MarkProcessed, TypeOK, Idle
  <2>8. CASE RedisFails(h)
    <3>1. \A g \in Handler : /\ ~At(g, "idle") => (~At(g, "idle"))'
                             /\ handler'[g].event = handler[g].event
      BY <2>8 DEF RedisFails, TypeOK, Idle
    <3> QED
      BY <2>2, <2>8, <3>1 DEF RedisFails
  <2>9. CASE RespondOnClosed(h)
    <3>1. \A g \in Handler : Held(g) => handler'[g] = handler[g]
      BY <2>9 DEF RespondOnClosed, StopHandlers, Held
    <3>2. UNCHANGED <<socket, lost, connected, queue, dead, emails>>
      BY <2>9 DEF RespondOnClosed
    <3> QED
      BY <3>1, <3>2 DEF Sent, InBroker, Held, Settled
  <2>10. CASE Respond(h)
    <3>1. /\ UNCHANGED <<socket, lost, emails>>
          /\ \A g \in Handler \ {h} : handler'[g] = handler[g] /\ (Held(g) => Held(g)')
          /\ handler[h].event \in Event
      BY <2>10 DEF Respond, Held, TypeOK, Idle
    <3>2. CASE handler[h].event # e
      <4>1. queue'[e] = queue[e] /\ dead'[e] = dead[e]
        BY <2>10, <3>1, <3>2 DEF Respond, TypeOK
      <4> QED
        BY <3>1, <3>2, <4>1 DEF Sent, InBroker, Settled
    <3>3. CASE handler[h].event = e /\ (At(h, "requeue") \/ At(h, "reject"))
      <4>1. queue'[e] > 0 \/ dead'[e] > 0
        BY <2>10, <3>3 DEF Respond, TypeOK
      <4> QED
        BY <4>1 DEF Sent, InBroker, Settled
    <3>4. CASE handler[h].event = e /\ At(h, "ack")
      BY <3>1, <3>4 DEF UnderwayInv, Sent, Settled
    <3> QED
      BY <2>10, <3>2, <3>3, <3>4 DEF Respond
  <2> QED
    BY <1>4, <2>1, <2>3, <2>4, <2>5, <2>6, <2>7, <2>8, <2>9, <2>10 DEF HandlerStep
<1>5. ASSUME NEW p \in Publisher, PublisherStep(p) \/ MarkFails(p) PROVE Sent(e)'
  BY <1>1, <1>5 DEF PublisherStep, Poll, Mark, Publish, MarkFails
<1>8. ASSUME NEW i \in Instance, Start(i) PROVE Sent(e)'
  <2>1. \A g \in Handler : Held(g) => handler'[g] = handler[g] /\ Held(g)'
    BY <1>8 DEF Start, StopHandlers, Held, At
  <2>2. UNCHANGED <<socket, lost, queue, dead, emails>>
    BY <1>8 DEF Start
  <2> QED
    BY <2>1, <2>2 DEF Sent, InBroker, Settled
<1>6. ASSUME NEW f \in Event, WriteEvent(f) \/ Lose(f) \/ Expire(f) PROVE Sent(e)'
  BY <1>1, <1>6 DEF WriteEvent, Lose, Expire
<1>7. CASE Restart \/ Break \/ Quiet \/ UNCHANGED vars
  BY <1>1, <1>7 DEF Restart, Break, Quiet, vars
<1> QED
  BY <1>2, <1>3, <1>4, <1>5, <1>6, <1>7, <1>8 DEF Next

LEMMA EmailsGrow ==
    ASSUME TypeOK, [Next]_vars, NEW e \in Event
    PROVE  emails'[e] >= emails[e]
<1>1. CASE UNCHANGED emails
  BY <1>1 DEF TypeOK
<1>2. ASSUME NEW h \in Handler, Send(h) PROVE emails'[e] >= emails[e]
  BY <1>2 DEF Send, Emailed, TypeOK
<1> QED
  BY <1>1, <1>2
     DEF Next, WriteEvent, Store, Lose, Expire, PublisherStep, Poll, Mark, Publish, MarkFails,
         HandlerStep, Deliver, IsProcessed, IncrementAttempts,
              GetUser, InternalAuthGuard, internalGetUserById, MarkProcessed, Respond,
         RespondOnClosed, RedisFails, Restart, Break, Start, Disconnect, Quiet, vars

\* A row is marked published, and a message acknowledged, for a reason.
LEMMA UnderwayStep ==
    ASSUME TypeOK, UnderwayInv, [Next]_vars
    PROVE  UnderwayInv'
<1> USE DEF networkVars, redisVars, publisherVars
<1>1. \A e \in Event : Sent(e) => Sent(e)'
  BY SentStays
<1>2. \A e \in Event : emails[e] > 0 => emails'[e] > 0
  <2>1. \A e \in Event : emails[e] \in Nat /\ emails'[e] \in Nat
    BY TypeStep DEF TypeOK
  <2> QED
    BY <2>1, EmailsGrow
<1>3. CASE /\ \A e \in Event : outbox'[e] = "PUBLISHED" =>
                  outbox[e] = "PUBLISHED" \/ \E p \in Publisher : marking[p] = e
           /\ \A p \in Publisher : marking'[p] \in {marking[p], NoEvent}
           /\ processed' \subseteq processed
           /\ \A h \in Handler : handler'[h].at \in {"mark", "ack"} => handler'[h] = handler[h]
  <2>1. PublishedIsUnderway'
    <3>1. ASSUME NEW e \in Event, outbox'[e] = "PUBLISHED" PROVE Sent(e)
      BY <1>3, <3>1, DeliveryAssumption DEF UnderwayInv, PublishedIsUnderway, Sent
    <3> QED
      BY <1>1, <3>1 DEF PublishedIsUnderway, Sent
  <2>2. \A p \in Publisher : (marking[p] # NoEvent)' => Sent(marking[p])'
    <3>1. ASSUME NEW p \in Publisher, marking'[p] # NoEvent
          PROVE  marking'[p] = marking[p] /\ marking[p] \in Event /\ Sent(marking[p])'
      BY <1>1, <1>3, <3>1 DEF UnderwayInv, TypeOK
    <3> QED
      BY <3>1 DEF Sent, InBroker, Settled
  <2>3. \A e \in processed' : emails'[e] > 0
    BY <1>2, <1>3 DEF UnderwayInv, TypeOK
  <2>4. \A h \in Handler : handler'[h].at \in {"mark", "ack"} => emails'[handler'[h].event] > 0
    <3>1. \A h \in Handler : handler[h].at \in {"mark", "ack"} => handler[h].event \in Event
      BY DEF TypeOK, Idle
    <3> QED
      BY <1>2, <1>3, <3>1 DEF UnderwayInv
  <2> QED
    BY <2>1, <2>2, <2>3, <2>4 DEF UnderwayInv
<1>4. ASSUME NEW p \in Publisher, NEW e \in Event, Publish(p, e) PROVE UnderwayInv'
  <2>1. CASE open /\ e \notin Failing
    <3>1. /\ marking' = [marking EXCEPT ![p] = e]
          /\ socket'[e] > 0
          /\ UNCHANGED <<outbox, handler, processed, emails>>
      BY <1>4, <2>1 DEF Publish, TypeOK
    <3>2. Sent(e)'
      BY <3>1 DEF Sent
    <3>3. PublishedIsUnderway'
      <4>1. ASSUME NEW f \in Event, outbox'[f] = "PUBLISHED" PROVE Sent(f)
        BY <3>1, <4>1 DEF UnderwayInv, PublishedIsUnderway, Sent
      <4> QED
        BY <1>1, <4>1 DEF PublishedIsUnderway, Sent
    <3>4. ASSUME NEW q \in Publisher, marking'[q] # NoEvent PROVE Sent(marking[q])'
      <4>1. q = p => marking'[q] = e
        BY <3>1 DEF TypeOK
      <4>2. q # p => marking'[q] = marking[q] /\ marking[q] \in Event /\ Sent(marking[q])'
        BY <1>1, <3>1, <3>4 DEF UnderwayInv, TypeOK
      <4> QED
        BY <3>2, <4>1, <4>2 DEF Sent, InBroker, Settled
    <3> QED
      BY <3>1, <3>3, <3>4 DEF UnderwayInv
  <2>2. CASE ~(open /\ e \notin Failing)
    BY <1>3, <1>4, <2>2 DEF Publish
  <2> QED
    BY <2>1, <2>2 DEF TypeOK
<1>5. ASSUME NEW p \in Publisher, Poll(p) \/ Mark(p) \/ MarkFails(p) PROVE UnderwayInv'
  <2>1. /\ \A e \in Event : outbox'[e] = "PUBLISHED" => outbox[e] = "PUBLISHED" \/ marking[p] = e
        /\ \A q \in Publisher : marking'[q] \in {marking[q], NoEvent}
        /\ UNCHANGED <<processed, handler>>
    BY <1>5 DEF Poll, Mark, MarkFails, SetPublished, MarkNothing, TypeOK
  <2> QED
    BY <1>3, <2>1
<1>6. ASSUME NEW e \in Event, WriteEvent(e) \/ Store(e) \/ Lose(e) \/ Expire(e)
      PROVE  UnderwayInv'
  <2>1. /\ \A f \in Event : outbox'[f] = "PUBLISHED" => outbox[f] = "PUBLISHED"
        /\ processed' \subseteq processed
        /\ UNCHANGED <<marking, handler>>
    BY <1>6 DEF WriteEvent, Store, Lose, Expire, TypeOK
  <2> QED
    BY <1>3, <2>1
<1>7. ASSUME Restart \/ Break \/ Quiet \/ UNCHANGED vars
             \/ \E i \in Instance : Start(i) \/ Disconnect(i)
      PROVE  UnderwayInv'
  <2>1. /\ UNCHANGED <<outbox, processed>>
        /\ \A p \in Publisher : marking'[p] \in {marking[p], NoEvent}
        /\ \A h \in Handler : handler'[h] \in {handler[h], Idle}
    BY <1>7 DEF Restart, Break, Start, Disconnect, StopHandlers, Quiet, vars
  <2> QED
    BY <1>3, <2>1 DEF Idle
<1>8. ASSUME NEW h \in Handler, HandlerStep(h) \/ RedisFails(h) PROVE UnderwayInv'
  <2> USE DEF At, GoTo
  <2>1. UNCHANGED <<outbox, marking>>
    BY <1>8 DEF HandlerStep, Deliver, IsProcessed, IncrementAttempts,
         GetUser, InternalAuthGuard, internalGetUserById, Send, MarkProcessed,
                Respond, RespondOnClosed, RedisFails
  <2>2. PublishedIsUnderway' /\ \A p \in Publisher : (marking[p] # NoEvent)' => Sent(marking[p])'
    <3>1. ASSUME NEW e \in Event, outbox'[e] = "PUBLISHED" PROVE Sent(e)
      BY <2>1, <3>1 DEF UnderwayInv, PublishedIsUnderway, Sent
    <3>2. ASSUME NEW p \in Publisher, marking'[p] # NoEvent PROVE Sent(marking[p])'
      <4>1. marking'[p] = marking[p] /\ marking[p] \in Event /\ Sent(marking[p])'
        BY <1>1, <2>1, <3>2 DEF UnderwayInv, TypeOK
      <4> QED
        BY <4>1 DEF Sent, InBroker, Settled
    <3> QED
      BY <1>1, <3>1, <3>2 DEF PublishedIsUnderway, Sent
  <2>3. handler[h].at # "idle" => handler[h].event \in Event
    BY DEF TypeOK, Idle
  <2>4. ASSUME NEW e \in processed' PROVE emails'[e] > 0
    <3>1. e \in processed \/ (e = handler[h].event /\ At(h, "mark"))
      BY <1>8, <2>4 DEF HandlerStep, Deliver, IsProcessed, IncrementAttempts,
           GetUser, InternalAuthGuard, internalGetUserById, Send,
                MarkProcessed, Respond, RespondOnClosed, RedisFails
    <3> QED
      BY <1>2, <2>3, <3>1 DEF UnderwayInv, TypeOK
  <2>5. ASSUME NEW g \in Handler, handler'[g].at \in {"mark", "ack"}
        PROVE  emails'[handler'[g].event] > 0
    <3>1. handler[g].at # "idle" => handler[g].event \in Event
      BY DEF TypeOK, Idle
    <3>2. CASE handler'[g] = handler[g]
      BY <1>2, <2>5, <3>1, <3>2 DEF UnderwayInv
    <3>3. CASE g = h /\ IsProcessed(h)
      <4>1. handler'[h].event = handler[h].event /\ handler[h].event \in processed
        BY <2>5, <3>3 DEF IsProcessed, TypeOK, Idle
      <4> QED
        BY <1>2, <2>5, <3>3, <4>1 DEF UnderwayInv, TypeOK
    <3>4. CASE g = h /\ Send(h)
      BY <2>5, <3>4 DEF Send, Emailed, TypeOK, Idle
    <3>5. CASE g = h /\ MarkProcessed(h)
      <4>1. handler'[h].event = handler[h].event /\ handler[h].at = "mark"
        BY <3>5 DEF MarkProcessed, TypeOK, Idle
      <4> QED
        BY <1>2, <2>3, <3>5, <4>1 DEF UnderwayInv
    <3>6. CASE g # h /\ ~RespondOnClosed(h)
      BY <1>8, <3>2, <3>6 DEF HandlerStep, Deliver, IsProcessed, IncrementAttempts,
           GetUser, InternalAuthGuard, internalGetUserById, Send,
                MarkProcessed, Respond, RedisFails, TypeOK
    <3>7. CASE RespondOnClosed(h)
      BY <2>5, <3>2, <3>7 DEF RespondOnClosed, StopHandlers, Idle
    <3>8. CASE g = h /\ (GetUser(h) \/ IncrementAttempts(h) \/ RedisFails(h) \/ Respond(h)
                          \/ \E e \in Event : Deliver(h, e))
      <4>1. handler'[h].at \notin {"mark", "ack"}
        BY <3>8 DEF
             GetUser, InternalAuthGuard, internalGetUserById, IncrementAttempts, RedisFails, Respond, Deliver, TypeOK, Idle
      <4> QED
        BY <2>5, <3>8, <4>1
    <3> QED
      BY <1>8, <3>3, <3>4, <3>5, <3>6, <3>7, <3>8 DEF HandlerStep
  <2> QED
    BY <2>2, <2>4, <2>5 DEF UnderwayInv
<1> QED
  BY <1>4, <1>5, <1>6, <1>7, <1>8 DEF Next, PublisherStep
-----------------------------------------------------------------------------
(* The counter of attempts.                                                *)

LEMMA CountStep ==
    ASSUME TypeOK, CountInv, [Next]_vars
    PROVE  CountInv'
<1> USE DEF networkVars, redisVars, publisherVars
<1> SUFFICES ASSUME NEW e \in Event
             PROVE  emails'[e] + Cardinality(Counted(e)')
                      <= MaxAttempts * faults'["expiry"] + Lesser(attempts'[e], MaxAttempts)
  BY DEF CountInv
<1>1. emails[e] + Cardinality(Counted(e))
        <= MaxAttempts * faults["expiry"] + Lesser(attempts[e], MaxAttempts)
  BY DEF CountInv
<1>2. Counted(e) \in SUBSET Handler /\ Counted(e)' \in SUBSET Handler
  BY DEF Counted
<1>3. /\ TypeOK'
      /\ Cardinality(Counted(e)) \in Nat /\ Cardinality(Counted(e)') \in Nat
      /\ Counted(e)' \subseteq Counted(e) => Cardinality(Counted(e)') <= Cardinality(Counted(e))
  BY <1>2, Counting, TypeStep
<1>4. /\ emails[e] \in Nat /\ emails'[e] \in Nat /\ attempts[e] \in Nat /\ attempts'[e] \in Nat
      /\ "expiry" \in FaultKind
      /\ faults["expiry"] \in Nat /\ faults'["expiry"] \in Nat /\ MaxAttempts \in Nat
  BY <1>3, DeliveryAssumption DEF TypeOK, FaultKind
<1>5. \A m \in Nat : MaxAttempts * (m + 1) = MaxAttempts * m + MaxAttempts
  BY <1>4
<1>6. MaxAttempts * faults["expiry"] \in Nat /\ MaxAttempts * faults'["expiry"] \in Nat
  BY <1>4
<1>7. CASE /\ emails'[e] = emails[e]
           /\ attempts'[e] >= attempts[e]
           /\ faults'["expiry"] = faults["expiry"]
           /\ Counted(e)' \subseteq Counted(e)
  <2>1. Lesser(attempts[e], MaxAttempts) <= Lesser(attempts'[e], MaxAttempts)
    BY <1>4, <1>7 DEF Lesser
  <2> QED
    BY <1>1, <1>3, <1>4, <1>6, <1>7, <2>1 DEF Lesser
<1>8. ASSUME NEW f \in Event, WriteEvent(f) \/ Store(f) \/ Lose(f) PROVE CountInv'
  <2>1. UNCHANGED <<handler, emails, attempts>> /\ faults'["expiry"] = faults["expiry"]
    BY <1>8, FaultCounts DEF WriteEvent, Store, Lose, FaultKind
  <2> QED
    BY <2>1 DEF CountInv, Counted
<1>9. ASSUME NEW p \in Publisher, PublisherStep(p) \/ MarkFails(p) PROVE CountInv'
  <2>1. UNCHANGED <<handler, emails, attempts>> /\ faults'["expiry"] = faults["expiry"]
    BY <1>9, FaultCounts DEF PublisherStep, Poll, Mark, Publish, MarkFails, FaultKind
  <2> QED
    BY <2>1 DEF CountInv, Counted
<1>10. CASE Restart \/ Break \/ Quiet \/ UNCHANGED vars
  <2>1. UNCHANGED <<handler, emails, attempts>> /\ faults'["expiry"] = faults["expiry"]
    BY <1>10, FaultCounts DEF Restart, Break, Quiet, vars, FaultKind
  <2> QED
    BY <1>1, <2>1 DEF Counted
<1>11. ASSUME NEW i \in Instance, Start(i) \/ Disconnect(i)
       PROVE  emails'[e] + Cardinality(Counted(e)')
                <= MaxAttempts * faults'["expiry"] + Lesser(attempts'[e], MaxAttempts)
  <2>1. UNCHANGED <<emails, attempts>> /\ faults'["expiry"] = faults["expiry"]
    BY <1>11, FaultCounts DEF Start, Disconnect, FaultKind
  <2>2. \A h \in Handler : handler'[h] \in {handler[h], Idle}
    BY <1>11 DEF Start, Disconnect, StopHandlers
  <2> QED
    BY <1>4, <1>7, <2>1, <2>2 DEF Counted, Idle
<1>12. ASSUME NEW f \in Event, Expire(f)
       PROVE  emails'[e] + Cardinality(Counted(e)')
                <= MaxAttempts * faults'["expiry"] + Lesser(attempts'[e], MaxAttempts)
  <2>1. faults'["expiry"] = faults["expiry"] + 1
    BY <1>12, FaultCounts DEF Expire, FaultKind
  <2>2. UNCHANGED <<handler, emails>>
    BY <1>12 DEF Expire
  <2>3. Counted(e)' = Counted(e)
    BY <2>2 DEF Counted
  <2>4. /\ Lesser(attempts[e], MaxAttempts) <= MaxAttempts
        /\ Lesser(attempts[e], MaxAttempts) \in Nat
        /\ Lesser(attempts'[e], MaxAttempts) \in Nat
    BY <1>4 DEF Lesser
  <2> QED
    BY <1>1, <1>3, <1>4, <1>5, <1>6, <2>1, <2>2, <2>3, <2>4
<1>13. ASSUME NEW h \in Handler, HandlerStep(h) \/ RedisFails(h)
       PROVE  emails'[e] + Cardinality(Counted(e)')
                <= MaxAttempts * faults'["expiry"] + Lesser(attempts'[e], MaxAttempts)
  <2> USE DEF At, GoTo
  <2>1. faults'["expiry"] = faults["expiry"]
    BY <1>13, FaultCounts
       DEF HandlerStep, Deliver, IsProcessed, IncrementAttempts,
            GetUser, InternalAuthGuard, internalGetUserById, Send, MarkProcessed,
           Respond, RespondOnClosed, RedisFails, FaultKind
  <2>2. CASE IncrementAttempts(h) /\ handler'[h].at = "lookup" /\ handler[h].event = e
    <3>1. /\ Counted(e)' = Counted(e) \cup {h}
          /\ h \notin Counted(e)
      BY <2>2 DEF IncrementAttempts, Counted, TypeOK, Idle
    <3>2. Cardinality(Counted(e)') = Cardinality(Counted(e)) + 1
      BY <1>2, <3>1, CountingOne
    <3>3. attempts'[e] = attempts[e] + 1 /\ attempts[e] + 1 <= MaxAttempts /\ emails'[e] = emails[e]
      BY <2>2 DEF IncrementAttempts, Incremented, TypeOK, Idle
    <3> QED
      BY <1>1, <1>3, <1>4, <1>6, <2>1, <3>2, <3>3 DEF Lesser
  <2>3. CASE IncrementAttempts(h) /\ ~(handler'[h].at = "lookup" /\ handler[h].event = e)
    <3>1. Counted(e)' \subseteq Counted(e)
      BY <2>3 DEF IncrementAttempts, Counted, TypeOK, Idle
    <3>2. attempts'[e] >= attempts[e] /\ emails'[e] = emails[e]
      BY <1>4, <2>3 DEF IncrementAttempts, Incremented, TypeOK, Idle
    <3> QED
      BY <1>7, <2>1, <3>1, <3>2
  <2>4. CASE Send(h) /\ emails'[e] # emails[e]
    <3>1. /\ handler[h].event = e /\ emails'[e] = emails[e] + 1
          /\ UNCHANGED attempts
          /\ handler' = [handler EXCEPT ![h].at = "mark"] \/ handler' = [handler EXCEPT ![h].at = "requeue"]
          /\ handler[h].at = "send"
      BY <2>4 DEF Send, Emailed, TypeOK, Idle
    <3>2. /\ Counted(e)' = Counted(e) \ {h}
          /\ h \in Counted(e)
      BY <3>1 DEF Counted, TypeOK, Idle
    <3>3. Cardinality(Counted(e)') = Cardinality(Counted(e)) - 1
      BY <1>2, <3>2, CountingOne
    <3> QED
      BY <1>1, <1>3, <1>4, <1>6, <2>1, <3>1, <3>3 DEF Lesser
  <2>5. CASE Send(h) /\ emails'[e] = emails[e]
    <3>1. /\ UNCHANGED attempts
          /\ handler' = [handler EXCEPT ![h].at = "mark"] \/ handler' = [handler EXCEPT ![h].at = "requeue"]
      BY <2>5 DEF Send
    <3>2. Counted(e)' \subseteq Counted(e)
      BY <3>1 DEF Counted, TypeOK, Idle
    <3> QED
      BY <1>4, <1>7, <2>1, <2>5, <3>1, <3>2
  <2>6. ASSUME NEW f \in Event, Deliver(h, f) PROVE Counted(e)' \subseteq Counted(e)
    BY <2>6 DEF Deliver, Counted, TypeOK
  <2>7. CASE IsProcessed(h)
    BY <1>4, <1>7, <2>1, <2>7 DEF IsProcessed, Counted, TypeOK, Idle
  <2>8. CASE GetUser(h)
    BY <1>4, <1>7, <2>1, <2>8 DEF
         GetUser, InternalAuthGuard, internalGetUserById, Counted, TypeOK, Idle
  <2>9. CASE MarkProcessed(h)
    BY <1>4, <1>7, <2>1, <2>9 DEF MarkProcessed, Counted, TypeOK, Idle
  <2>10. CASE Respond(h) \/ RespondOnClosed(h)
    <3>1. \A g \in Handler : handler'[g] \in {handler[g], Idle}
      BY <2>10 DEF Respond, RespondOnClosed, StopHandlers, TypeOK
    <3>2. UNCHANGED <<emails, attempts>>
      BY <2>10 DEF Respond, RespondOnClosed
    <3>3. Counted(e)' \subseteq Counted(e)
      BY <3>1 DEF Counted, Idle
    <3> QED
      BY <1>4, <1>7, <2>1, <3>2, <3>3
  <2>11. CASE RedisFails(h)
    <3>1. attempts'[e] >= attempts[e] /\ emails'[e] = emails[e]
      BY <1>4, <2>11 DEF RedisFails, Incremented, TypeOK, Idle
    <3>2. Counted(e)' \subseteq Counted(e)
      BY <2>11 DEF RedisFails, Counted, TypeOK, Idle
    <3> QED
      BY <1>7, <2>1, <3>1, <3>2
  <2>12. ASSUME NEW f \in Event, Deliver(h, f)
         PROVE  emails'[e] = emails[e] /\ attempts'[e] = attempts[e]
    BY <2>12 DEF Deliver
  <2> QED
    BY <1>4, <1>7, <1>13, <2>1, <2>2, <2>3, <2>4, <2>5, <2>6, <2>7, <2>8, <2>9, <2>10, <2>11, <2>12
       DEF HandlerStep
<1> QED
  BY <1>8, <1>9, <1>10, <1>11, <1>12, <1>13 DEF Next, CountInv
-----------------------------------------------------------------------------
(* Deduplication.                                                          *)

LEMMA AllowanceCounts ==
    ASSUME TypeOK, NEW k \in FaultKind, Fault(k)
    PROVE  Allowance' = Allowance + IF k \in ConsumerFault THEN Cardinality(Handler) ELSE 0
<1> DEFINE F == faults["redis"] + faults["smtp"] + faults["disconnect"] + faults["expiry"]
<1>1. /\ Cardinality(Handler) \in Nat
      /\ F \in Nat
  BY Counting DEF TypeOK, FaultKind
<1>2. F' = F + IF k \in ConsumerFault THEN 1 ELSE 0
  BY FaultCounts DEF TypeOK, FaultKind, ConsumerFault
<1>3. Allowance = Cardinality(Handler) * (1 + F) /\ Allowance' = Cardinality(Handler) * (1 + F')
  <2>1. \A j \in FaultKind : faults[j] \in Nat /\ faults'[j] \in Nat
    BY FaultCounts DEF TypeOK
  <2>2. /\ 1 + F = 1 + faults["redis"] + faults["smtp"] + faults["disconnect"] + faults["expiry"]
        /\ 1 + F' = 1 + faults'["redis"] + faults'["smtp"] + faults'["disconnect"] + faults'["expiry"]
    BY <2>1 DEF FaultKind
  <2> HIDE DEF F
  <2> QED
    BY <2>2 DEF Allowance
<1> HIDE DEF F
<1>4. \A n \in Nat : n * (1 + (F + 1)) = n * (1 + F) + n
  BY <1>1
<1> QED
  BY <1>1, <1>2, <1>3, <1>4

LEMMA AllowanceStep ==
    ASSUME TypeOK, AllowanceInv, [Next]_vars
    PROVE  AllowanceInv'
<1> USE DEF networkVars, redisVars, publisherVars
<1> DEFINE N == Cardinality(Handler)
<1> SUFFICES ASSUME NEW e \in Event
             PROVE  emails'[e] + Cardinality(MayNotify(e)') + Cardinality(Unheld') <= Allowance'
  BY DEF AllowanceInv
<1>1. emails[e] + Cardinality(MayNotify(e)) + Cardinality(Unheld) <= Allowance
  BY DEF AllowanceInv
<1>2. /\ MayNotify(e) \in SUBSET Handler /\ MayNotify(e)' \in SUBSET Handler
      /\ Unheld \in SUBSET Handler /\ Unheld' \in SUBSET Handler
  BY DEF MayNotify, Unheld
<1>3. /\ Cardinality(MayNotify(e)) \in Nat /\ Cardinality(MayNotify(e)') \in Nat
      /\ Cardinality(Unheld) \in Nat /\ Cardinality(Unheld') \in Nat
      /\ N \in Nat
      /\ Cardinality(MayNotify(e)') <= N /\ Cardinality(Unheld') <= N
      /\ MayNotify(e)' \subseteq MayNotify(e) =>
            Cardinality(MayNotify(e)') <= Cardinality(MayNotify(e))
      /\ Unheld' \subseteq Unheld => Cardinality(Unheld') <= Cardinality(Unheld)
  BY <1>2, Counting
<1>4. TypeOK' /\ emails[e] \in Nat /\ emails'[e] \in Nat
  BY TypeStep DEF TypeOK
<1>5. Allowance \in Nat /\ Allowance' \in Nat
  <2>1. ASSUME NEW f \in Nat PROVE N * (1 + f) \in Nat
    BY <1>3
  <2>2. /\ faults["redis"] + faults["smtp"] + faults["disconnect"] + faults["expiry"] \in Nat
        /\ faults'["redis"] + faults'["smtp"] + faults'["disconnect"] + faults'["expiry"] \in Nat
        /\ 1 + faults["redis"] + faults["smtp"] + faults["disconnect"] + faults["expiry"]
             = 1 + (faults["redis"] + faults["smtp"] + faults["disconnect"] + faults["expiry"])
        /\ 1 + faults'["redis"] + faults'["smtp"] + faults'["disconnect"] + faults'["expiry"]
             = 1 + (faults'["redis"] + faults'["smtp"] + faults'["disconnect"] + faults'["expiry"])
    BY <1>4 DEF TypeOK, FaultKind
  <2> QED
    BY <2>1, <2>2 DEF Allowance
<1> HIDE DEF N
<1>6. CASE emails'[e] = emails[e] /\ Allowance' = Allowance
           /\ MayNotify(e)' \subseteq MayNotify(e) /\ Unheld' \subseteq Unheld
  BY <1>1, <1>3, <1>4, <1>5, <1>6
<1>7. CASE /\ emails'[e] = emails[e]
           /\ Allowance' = Allowance + N
           /\ Unheld' \subseteq Unheld \/ MayNotify(e)' \subseteq MayNotify(e)
  BY <1>1, <1>3, <1>4, <1>5, <1>7
<1>8. ASSUME NEW f \in Event, WriteEvent(f) \/ Store(f) \/ Lose(f)
      PROVE  UNCHANGED <<handler, connected, processed, emails>> /\ Allowance' = Allowance
  <2>1. UNCHANGED <<handler, connected, processed, emails>>
    BY <1>8 DEF WriteEvent, Store, Lose
  <2>2. Allowance' = Allowance
    <3>1. CASE UNCHANGED faults
      BY <3>1 DEF Allowance
    <3>2. CASE Fault("lost")
      BY <1>5, <3>2, AllowanceCounts DEF FaultKind, ConsumerFault
    <3> QED
      BY <1>8, <3>1, <3>2 DEF WriteEvent, Store, Lose
  <2> QED
    BY <2>1, <2>2
<1>9. ASSUME NEW p \in Publisher, PublisherStep(p) \/ MarkFails(p)
      PROVE  UNCHANGED <<handler, connected, processed, emails>> /\ Allowance' = Allowance
  <2>1. UNCHANGED <<handler, connected, processed, emails>>
    BY <1>9 DEF PublisherStep, Poll, Mark, Publish, MarkFails
  <2>2. Allowance' = Allowance
    <3>1. CASE UNCHANGED faults
      BY <3>1 DEF Allowance
    <3>2. CASE Fault("db")
      BY <1>5, <3>2, AllowanceCounts DEF FaultKind, ConsumerFault
    <3> QED
      BY <1>9, <3>1, <3>2 DEF PublisherStep, Poll, Mark, Publish, MarkFails
  <2> QED
    BY <2>1, <2>2
<1>10. ASSUME Restart \/ Break \/ Quiet \/ UNCHANGED vars
       PROVE  UNCHANGED <<handler, connected, processed, emails>> /\ Allowance' = Allowance
  <2>1. UNCHANGED <<handler, connected, processed, emails>>
    BY <1>10 DEF Restart, Break, Quiet, vars
  <2>2. Allowance' = Allowance
    <3>1. CASE UNCHANGED faults
      BY <3>1 DEF Allowance
    <3>2. CASE Fault("crash") \/ Fault("broken")
      BY <1>5, <3>2, AllowanceCounts DEF FaultKind, ConsumerFault
    <3> QED
      BY <1>10, <3>1, <3>2 DEF Restart, Break, Quiet, vars
  <2> QED
    BY <2>1, <2>2
<1>11. CASE UNCHANGED <<handler, connected, processed, emails>> /\ Allowance' = Allowance
  BY <1>6, <1>11 DEF MayNotify, Unheld, Held, At
<1>12. ASSUME NEW i \in Instance, Disconnect(i)
       PROVE  emails'[e] + Cardinality(MayNotify(e)') + Cardinality(Unheld') <= Allowance'
  <2>1. /\ UNCHANGED <<processed, emails>> /\ Allowance' = Allowance + N
        /\ connected' = connected \ {i}
    BY <1>12, AllowanceCounts DEF Disconnect, FaultKind, ConsumerFault, N
  <2>2. CASE StopHandlers(i)
    <3>1. Unheld' \subseteq Unheld
      BY <2>1, <2>2, DeliveryAssumption DEF StopHandlers, Unheld, Held, At, Idle
    <3> QED
      BY <1>7, <2>1, <3>1
  <2>3. CASE UNCHANGED handler
    <3>1. MayNotify(e)' \subseteq MayNotify(e)
      BY <2>1, <2>3 DEF MayNotify
    <3> QED
      BY <1>7, <2>1, <3>1
  <2> QED
    BY <1>12, <2>2, <2>3 DEF Disconnect
<1>13. ASSUME NEW f \in Event, Expire(f)
       PROVE  emails'[e] + Cardinality(MayNotify(e)') + Cardinality(Unheld') <= Allowance'
  <2>1. UNCHANGED <<handler, connected, emails>> /\ Allowance' = Allowance + N
    BY <1>13, AllowanceCounts DEF Expire, FaultKind, ConsumerFault, N
  <2>2. Unheld' \subseteq Unheld
    BY <2>1 DEF Unheld, Held, At
  <2> QED
    BY <1>7, <2>1, <2>2
<1>14. ASSUME NEW i \in Instance, i \notin connected, StopHandlers(i),
              connected \subseteq connected', UNCHANGED <<processed, emails, faults>>
       PROVE  emails'[e] + Cardinality(MayNotify(e)') + Cardinality(Unheld') <= Allowance'
  <2> DEFINE Stopped == {h \in Unheld : InstanceOf[h] = i}
  <2>1. MayNotify(e)' \subseteq MayNotify(e) \cup Stopped
    BY <1>14 DEF StopHandlers, MayNotify, Unheld, Held, At, Idle
  <2>2. Unheld' \subseteq Unheld \ Stopped
    BY <1>14 DEF StopHandlers, Unheld, Held, At, Idle
  <2>3. Cardinality(MayNotify(e)') + Cardinality(Unheld')
          <= Cardinality(MayNotify(e)) + Cardinality(Unheld)
    <3>1. Stopped \in SUBSET Handler /\ Stopped \subseteq Unheld
      BY <1>2
    <3> QED
      BY <1>2, <2>1, <2>2, <3>1, CountingUnion
  <2>4. Allowance' = Allowance
    BY <1>14 DEF Allowance
  <2> QED
    BY <1>1, <1>3, <1>4, <1>5, <1>14, <2>3, <2>4
<1>15. ASSUME NEW i \in Instance, Start(i)
       PROVE  emails'[e] + Cardinality(MayNotify(e)') + Cardinality(Unheld') <= Allowance'
  BY <1>14, <1>15 DEF Start
<1>16. ASSUME NEW h \in Handler, HandlerStep(h) \/ RedisFails(h)
       PROVE  emails'[e] + Cardinality(MayNotify(e)') + Cardinality(Unheld') <= Allowance'
  <2> USE DEF At, GoTo
  <2>1. ASSUME UNCHANGED faults PROVE Allowance' = Allowance
    BY <2>1 DEF Allowance
  <2>2. ASSUME NEW step \in Step, handler' = [handler EXCEPT ![h].at = step], handler[h] # Idle,
               UNCHANGED connected
        PROVE  Unheld' \subseteq Unheld
    BY <2>2 DEF Unheld, Held, TypeOK, Idle, Step
  <2>3. ASSUME NEW f \in Event, Deliver(h, f)
        PROVE  emails'[e] + Cardinality(MayNotify(e)') + Cardinality(Unheld') <= Allowance'
    <3>1. MayNotify(e)' \subseteq MayNotify(e) /\ Unheld' \subseteq Unheld
      BY <2>3 DEF Deliver, MayNotify, Unheld, Held, TypeOK, Idle
    <3> QED
      BY <1>6, <2>1, <2>3, <3>1 DEF Deliver
  <2>4. CASE IsProcessed(h)
    <3>1. MayNotify(e)' \subseteq MayNotify(e)
      BY <2>4 DEF IsProcessed, MayNotify, TypeOK, Idle
    <3> QED
      BY <1>6, <2>1, <2>2, <2>4, <3>1 DEF IsProcessed, Idle, Step
  <2>5. CASE IncrementAttempts(h)
    <3>1. MayNotify(e)' \subseteq MayNotify(e)
      BY <2>5 DEF IncrementAttempts, MayNotify, TypeOK, Idle
    <3> QED
      BY <1>6, <2>1, <2>2, <2>5, <3>1 DEF IncrementAttempts, Idle, Step
  <2>6. CASE GetUser(h)
    <3>1. MayNotify(e)' \subseteq MayNotify(e)
      BY <2>6 DEF GetUser, InternalAuthGuard, internalGetUserById, MayNotify, TypeOK, Idle
    <3> QED
      BY <1>6, <2>1, <2>2, <2>6, <3>1 DEF
           GetUser, InternalAuthGuard, internalGetUserById, Idle, Step
  <2>7. CASE MarkProcessed(h)
    <3>1. MayNotify(e)' \subseteq MayNotify(e)
      BY <2>7 DEF MarkProcessed, MayNotify, TypeOK, Idle
    <3> QED
      BY <1>6, <2>1, <2>2, <2>7, <3>1 DEF MarkProcessed, Idle, Step
  <2>8. CASE RedisFails(h)
    <3>1. UNCHANGED emails /\ Allowance' = Allowance + N
      BY <2>8, AllowanceCounts DEF RedisFails, FaultKind, ConsumerFault, N
    <3>2. Unheld' \subseteq Unheld
      BY <2>2, <2>8 DEF RedisFails, Idle, Step
    <3> QED
      BY <1>7, <3>1, <3>2
  <2>9. CASE Send(h)
    <3>1. /\ handler[h].at = "send" /\ handler[h] # Idle /\ h \in Handler
          /\ handler[h].event \in Event
          /\ UNCHANGED processed
      BY <2>9 DEF Send, TypeOK, Idle
    <3>2. Unheld' \subseteq Unheld
      BY <2>2, <2>9, <3>1 DEF Send, Step
    <3>3. MayNotify(e)' \subseteq MayNotify(e)
      BY <2>9 DEF Send, MayNotify, TypeOK, Idle
    <3>4. emails'[e] <= emails[e] + 1
      BY <1>4, <2>9, <3>1 DEF Send, Emailed, TypeOK
    <3>5. CASE Emailed(handler[h].event) /\ handler' = [handler EXCEPT ![h].at = "mark"]
               /\ UNCHANGED faults
      <4>1. CASE handler[h].event = e
        <5>1. h \in MayNotify(e) /\ MayNotify(e)' = MayNotify(e) \ {h}
          BY <3>1, <3>5, <4>1 DEF MayNotify, TypeOK, Idle
        <5>2. Cardinality(MayNotify(e)') = Cardinality(MayNotify(e)) - 1
          BY <1>2, <5>1, CountingOne
        <5> QED
          BY <1>1, <1>3, <1>4, <1>5, <2>1, <3>2, <3>4, <3>5, <5>2
      <4>2. CASE handler[h].event # e
        <5>1. emails'[e] = emails[e]
          BY <3>1, <3>5, <4>2 DEF Emailed, TypeOK
        <5> QED
          BY <1>6, <2>1, <3>2, <3>3, <3>5, <5>1
      <4> QED
        BY <4>1, <4>2
    <3>6. CASE UNCHANGED <<emails, faults>>
      BY <1>6, <2>1, <3>2, <3>3, <3>6
    <3>7. CASE Fault("smtp")
      <4>1. Allowance' = Allowance + N
        BY <3>7, AllowanceCounts DEF FaultKind, ConsumerFault, N
      <4>2. N >= 1
        <5>1. Handler # {} /\ IsFiniteSet(Handler)
          BY DeliveryAssumption
        <5>2. N # 0
          BY <5>1, FS_EmptySet DEF N
        <5> QED
          BY <1>3, <5>2
      <4> QED
        BY <1>1, <1>3, <1>4, <1>5, <3>2, <3>3, <3>4, <4>1, <4>2
    <3> QED
      BY <2>9, <3>5, <3>6, <3>7 DEF Send
  <2>10. CASE Respond(h)
    <3>1. /\ UNCHANGED <<processed, emails, faults>>
          /\ handler' = [handler EXCEPT ![h] = Idle]
          /\ handler[h].at \in {"ack", "requeue", "reject"}
      BY <2>10 DEF Respond
    <3>2. MayNotify(e)' \subseteq MayNotify(e) /\ Unheld' \subseteq Unheld
      BY <2>10, <3>1 DEF Respond, MayNotify, Unheld, Held, TypeOK, Idle
    <3> QED
      BY <1>6, <2>1, <3>1, <3>2
  <2>11. CASE RespondOnClosed(h)
    <3>1. InstanceOf[h] \in Instance /\ InstanceOf[h] \notin connected
      BY <2>11, DeliveryAssumption DEF RespondOnClosed, Held
    <3> QED
      BY <1>14, <2>11, <3>1 DEF RespondOnClosed
  <2> QED
    BY <1>16, <2>3, <2>4, <2>5, <2>6, <2>7, <2>8, <2>9, <2>10, <2>11 DEF HandlerStep
<1> QED
  BY <1>8, <1>9, <1>10, <1>11, <1>12, <1>13, <1>15, <1>16 DEF Next
-----------------------------------------------------------------------------
(* The theorems.                                                           *)

LEMMA InitInv == Init => IInv
<1> SUFFICES ASSUME Init PROVE IInv
  OBVIOUS
<1> USE DEF Init, None
<1>1. TypeOK
  BY DeliveryAssumption DEF TypeOK
<1>2. UnderwayInv
  BY DEF UnderwayInv, PublishedIsUnderway, Idle
<1>3. CountInv
  <2>1. \A e \in Event : Counted(e) = {}
    BY DEF Counted, Idle
  <2>2. MaxAttempts * 0 = 0 /\ MaxAttempts \in Nat
    BY DeliveryAssumption
  <2> QED
    BY <2>1, <2>2, FS_EmptySet DEF CountInv, Lesser, FaultKind
<1>4. AllowanceInv
  <2>1. Unheld = {}
    BY DEF Unheld, At, Idle
  <2>2. Cardinality(Unheld) = 0
    BY <2>1, FS_EmptySet
  <2>3. \A e \in Event : MayNotify(e) \subseteq Handler
    BY DEF MayNotify
  <2>4. /\ Cardinality(Handler) \in Nat
        /\ \A e \in Event : /\ Cardinality(MayNotify(e)) \in Nat
                            /\ Cardinality(MayNotify(e)) <= Cardinality(Handler)
    BY <2>3, Counting
  <2>5. Allowance = Cardinality(Handler)
    BY <2>4 DEF Allowance, FaultKind
  <2> QED
    BY <2>2, <2>4, <2>5 DEF AllowanceInv
<1> QED
  BY <1>1, <1>2, <1>3, <1>4 DEF IInv

\* What the outbox, the broker, the handlers and Redis hold of one event
\* agrees: nothing is marked or acknowledged that was not sent, and the
\* counter and the deduplication leave room for the handlers under way.
THEOREM DeliveryInvariance == Spec => []IInv
<1>1. IInv /\ [Next]_vars => IInv'
  BY TypeStep, UnderwayStep, CountStep, AllowanceStep DEF IInv
<1> QED
  BY InitInv, <1>1, PTL DEF Spec

\* EventDelivery keeps its types; above all, no counter of copies becomes
\* negative.
THEOREM DeliveryTypeCorrect == Spec => []TypeOK
BY DeliveryInvariance, PTL DEF IInv

\* A row that publishOutbox marked published stands for a message on its
\* way, notified or dead-lettered, unless a copy was lost before the broker
\* had stored it.
THEOREM DeliveryUnderway == Spec => []PublishedIsUnderway
<1>1. IInv => PublishedIsUnderway
  BY DEF IInv, UnderwayInv
<1> QED
  BY DeliveryInvariance, <1>1, PTL

\* isEventProcessed and markEventProcessed: as many e-mails of one event as
\* there are handlers, and as many again for each fault of the consumer.
THEOREM DeliveryOnePerHandler == Spec => []OnePerHandler
<1>1. ASSUME IInv PROVE OnePerHandler
  <2>1. ASSUME NEW e \in Event PROVE emails[e] <= Allowance
    <3>1. /\ Cardinality(MayNotify(e)) \in Nat /\ Cardinality(Unheld) \in Nat
          /\ Cardinality(Handler) \in Nat
      <4>1. MayNotify(e) \in SUBSET Handler /\ Unheld \in SUBSET Handler /\ Handler \in SUBSET Handler
        BY DEF MayNotify, Unheld
      <4> QED
        BY <4>1, Counting
    <3>2. Allowance \in Int /\ emails[e] \in Nat
      <4>1. 1 + faults["redis"] + faults["smtp"] + faults["disconnect"] + faults["expiry"] \in Nat
        BY <1>1 DEF IInv, TypeOK, FaultKind
      <4> QED
        BY <1>1, <3>1, <4>1 DEF Allowance, IInv, TypeOK
    <3> QED
      BY <1>1, <3>1, <3>2 DEF IInv, AllowanceInv
  <2> QED
    BY <2>1 DEF OnePerHandler, Allowance
<1> QED
  BY DeliveryInvariance, <1>1, PTL

\* incrementAttempts: whatever fails and however often an event is published,
\* it is e-mailed MAX_ATTEMPTS times at most until its counter expires.
THEOREM DeliveryAttemptsBound == Spec => []AttemptsBound
<1>1. ASSUME IInv, NEW e \in Event PROVE emails[e] <= MaxAttempts * (1 + faults["expiry"])
  <2>1. emails[e] \in Nat /\ attempts[e] \in Nat /\ MaxAttempts \in Nat /\ faults["expiry"] \in Nat
    BY <1>1, DeliveryAssumption DEF IInv, TypeOK, FaultKind
  <2>2. Cardinality(Counted(e)) \in Nat
    BY Counting DEF Counted
  <2>3. MaxAttempts * (1 + faults["expiry"]) = MaxAttempts * faults["expiry"] + MaxAttempts
    BY <2>1
  <2>4. MaxAttempts * faults["expiry"] \in Nat
    BY <2>1
  <2> QED
    BY <1>1, <2>1, <2>2, <2>3, <2>4 DEF IInv, CountInv, Lesser
<1>2. IInv => AttemptsBound
  BY <1>1 DEF AttemptsBound
<1> QED
  BY DeliveryInvariance, <1>2, PTL
=============================================================================
