---------------------------- MODULE MCAccountPage ----------------------------
(* Small instances of AccountPage, over those of Accounts.                 *)
EXTENDS AccountPage, MCAccounts

MCAccountOf == [p \in Page |-> a1]
MCViewer == [p \in Page |-> u1]
=============================================================================
