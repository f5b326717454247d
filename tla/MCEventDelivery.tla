--------------------------- MODULE MCEventDelivery ---------------------------
(* Small instances of EventDelivery.                                       *)
EXTENDS EventDelivery

\* Each handler in a process of its own.
Apart == CHOOSE f \in [Handler -> Instance] : IsInjective(f)

\* Of each kind one, but two e-mails that count as failed.
TwoEmails == [k \in FaultKind |-> IF k = "smtp" THEN 2 ELSE 1]
Lost1 == [k \in FaultKind |-> IF k = "lost" THEN 1 ELSE 0]
=============================================================================
