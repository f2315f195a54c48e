------------------------------- MODULE MCPortals -------------------------------
(* A small instance: two Google accounts, one of them with the e-mail address *)
(* a customer may register with or change to.                                 *)
EXTENDS Portals, TLC

CONSTANTS u1, u2, mailA, mailB, g1, g2, b1, b2, w1, w2

MCMailOf == [g \in {g1, g2} |-> IF g = g1 THEN mailA ELSE mailB]

\* Which browser asks, who serves it and how accounts are numbered is all the same.
MCSymmetry == Permutations({b1, b2}) \cup Permutations({w1, w2}) \cup Permutations({u1, u2})
=============================================================================
