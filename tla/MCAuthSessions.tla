--------------------------- MODULE MCAuthSessions ---------------------------
(* A small instance of AuthSessions.                                       *)
EXTENDS AuthSessions

CONSTANTS u1, r1, r2
=============================================================================
