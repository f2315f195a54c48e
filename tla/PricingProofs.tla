---------------------------- MODULE PricingProofs ----------------------------
(***************************************************************************)
(* What the price calculation guarantees for every amount.                 *)
(***************************************************************************)
EXTENDS Pricing, TLAPS

\* A rounded amount is the nearest one: never half a paisa too low, at most
\* half a paisa too high (quantize_money).
THEOREM RoundsToNearest ==
    ASSUME NEW n \in Nat, NEW d \in Nat, d > 0
    PROVE  LET r == RoundHalfUp(n, d)
           IN  /\ r \in Nat
               /\ 2 * n < 2 * (r * d) + d
               /\ 2 * (r * d) <= 2 * n + d
<1> DEFINE m == 2 * n + d
           e == 2 * d
           r == m \div e
<1>1. m \in Nat /\ e \in Nat /\ e > 0
  OBVIOUS
<1>2. r \in Nat /\ m = e * r + (m % e) /\ m % e \in 0..(e - 1)
  <2> HIDE DEF m, e
  <2> QED BY <1>1, Z3
<1>3. e * r = 2 * (r * d)
  BY <1>2, SMT
<1> QED
  BY <1>2, <1>3, SMT DEF RoundHalfUp
=============================================================================
