---------------------------- MODULE MCWebSession ----------------------------
(* A small instance of WebSession.                                         *)
EXTENDS WebSession, TLC

CONSTANTS u1, u2, p1, p2, d1

Symmetry == Permutations(Tab)

\* ended and excess only take note, and what is said of them is said of users
\* who are not crowded: once all are, states that differ in them are alike.
View ==
    <<users, tokens, expired, pc, call, crowded,
      IF User \subseteq crowded THEN {} ELSE {<<ended, excess>>}, webVars>>
=============================================================================
