-------------------------- MODULE TransferProtocol --------------------------
(***************************************************************************)
(* What the Transfers service promises of each transfer: its money leaves  *)
(* the source once, then reaches the destination or comes back, and the    *)
(* transfer ends with the one event that says which.  TransferSaga         *)
(* implements this with a polling orchestrator, under the conditions its   *)
(* runs state.                                                             *)
(***************************************************************************)
EXTENDS Sequences

CONSTANT Transfer

VARIABLES outcome,  \* what the service says of each transfer
          place,    \* where its money is
          events    \* the events announced for it

vars == <<outcome, place, events>>

Init ==
    /\ outcome = [t \in Transfer |-> "NONE"]
    /\ place = [t \in Transfer |-> "source"]
    /\ events = [t \in Transfer |-> <<>>]

Open(t) ==
    /\ outcome[t] = "NONE"
    /\ outcome' = [outcome EXCEPT ![t] = "OPEN"]
    /\ UNCHANGED <<place, events>>

Move(t, from, to) ==
    /\ outcome[t] = "OPEN"
    /\ place[t] = from
    /\ place' = [place EXCEPT ![t] = to]
    /\ UNCHANGED <<outcome, events>>

Finish(t, where, result, event) ==
    /\ outcome[t] = "OPEN"
    /\ place[t] = where
    /\ outcome' = [outcome EXCEPT ![t] = result]
    /\ events' = [events EXCEPT ![t] = <<event>>]
    /\ UNCHANGED place

Next ==
    \E t \in Transfer :
        \/ Open(t)
        \/ Move(t, "source", "transit")
        \/ Move(t, "transit", "destination")
        \/ Move(t, "transit", "returned")
        \/ Finish(t, "source", "FAILED", "transfer.failed")
        \/ Finish(t, "destination", "COMPLETED", "transfer.completed")
        \/ Finish(t, "returned", "COMPENSATED", "transfer.failed")

Spec == Init /\ [][Next]_vars
=============================================================================
