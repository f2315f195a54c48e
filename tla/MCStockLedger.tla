---------------------------- MODULE MCStockLedger ----------------------------
(***************************************************************************)
(* Instances of StockLedger for TLC.                                       *)
(***************************************************************************)
EXTENDS StockLedger, TLC

CONSTANTS p1, p2, e1, e2, i1, i2, c1, c2, j1, j2

PartBalance == p1 :> 1 @@ p2 :> 0
SomeBalance == p1 :> 2 @@ p2 :> 1

\* Two purchases that take the same products in opposite orders.
OppositeLines ==
    e1 :> << [product |-> p1, quantity |-> 1], [product |-> p2, quantity |-> 1] >> @@
    e2 :> << [product |-> p2, quantity |-> 1], [product |-> p1, quantity |-> 1] >>

NoLines == <<>>

ItemProduct == i1 :> p1 @@ i2 :> p1
OneUnit == i1 :> 1 @@ i2 :> 1
ItemQuantity == i1 :> 2 @@ i2 :> 1

CallerSymmetry == Permutations({c1, c2})
=============================================================================
