--------------------------- MODULE MCTransferSaga ---------------------------
(* Small instances of TransferSaga: transfers from a1 to a2, of two each.  *)
EXTENDS TransferSaga, TLC

CONSTANTS a1, a2, USD,
          tz   \* a transfer of nothing, which no check of its creation stops

MCCurrencyOf == [a \in Account |-> USD]
MCFrom == [t \in Transfer |-> a1]
MCTo == [t \in Transfer |-> a2]
MCAmountOf == [t \in Transfer |-> IF t = tz THEN 0 ELSE 2]
MCTransferCurrency == [t \in Transfer |-> USD]

NoFaults == [k \in FaultKind |-> 0]
Only(kind, n) == [NoFaults EXCEPT ![kind] = n]
Crash2 == Only("crash", 2)
Error1 == Only("error", 1)
Lost1 == Only("lost", 1)
AllFaults == [k \in FaultKind |-> 1]

Symmetry == Permutations(Transfer) \cup Permutations(Worker)
=============================================================================
