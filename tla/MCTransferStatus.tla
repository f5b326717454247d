--------------------------- MODULE MCTransferStatus ---------------------------
(* Small instances of TransferStatus, over those of TransferSaga.          *)
EXTENDS TransferStatus, MCTransferSaga
=============================================================================
