------------------------------ MODULE MCCheckout ------------------------------
(***************************************************************************)
(* Instances of Checkout for TLC.                                          *)
(***************************************************************************)
EXTENDS Checkout, TLC

CONSTANTS c1, c2, p1, p2, s1, s2, r1, r2

TwoStores == p1 :> s1 @@ p2 :> s2
StockTwo == p1 :> 2 @@ p2 :> 1
OneStore == p1 :> s1
StockOne == p1 :> 2

RequestSymmetry == Permutations({r1, r2})
RivalSymmetry == RequestSymmetry \cup Permutations({c1, c2})

\* What the rest of a behaviour, and the properties, can still depend on: the
\* prices and quantities of orders that are placed are never read again, nor
\* the way in which a request ended.  Each invariant's value is a part of the
\* view, so that no state in which one is violated is taken for another, and
\* the action properties are evaluated on every step.
Relevant ==
    <<catalogVars, cartVars, sessionVars,
      {[token |-> o.token, customer |-> o.customer, lines |-> {i.line : i \in o.items}] : o \in orders},
      [r \in Requests |-> IF request[r].step \in Ended THEN "ended" ELSE request[r]],
      TypeOK, OneOrderPerToken, OrderedOnce>>
=============================================================================
