------------------------- MODULE MCTransferRequests -------------------------
(* Small instances of TransferRequests: a transfer form and a program that  *)
(* each have two transfers to make, and a form for an amount.              *)
EXTENDS TransferRequests

CONSTANTS f1, a1, c1, b1, b2

MCOffers == ({f1, c1} \X {b1, b2}) \cup {<<a1, b1>>}
=============================================================================
