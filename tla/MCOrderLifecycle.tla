-------------------------- MODULE MCOrderLifecycle --------------------------
(***************************************************************************)
(* Instances of OrderLifecycle for TLC.                                    *)
(***************************************************************************)
EXTENDS OrderLifecycle, TLC

CONSTANTS o1, o2, x1, x2, x3, i1, i2, i3, i4, p1, p2, p3, s1, s2, s3

\* One order over three stores: every mix of three StoreOrder statuses.
WideOrderOf == x1 :> o1 @@ x2 :> o1 @@ x3 :> o1
WideStoreOf == x1 :> s1 @@ x2 :> s2 @@ x3 :> s3
WideStoreOrderOf == i1 :> x1 @@ i2 :> x2 @@ i3 :> x3
WideProductOf == i1 :> p1 @@ i2 :> p2 @@ i3 :> p3
WideQuantity == i1 :> 1 @@ i2 :> 1 @@ i3 :> 2
WideStock == p1 :> 1 @@ p2 :> 1 @@ p3 :> 3

\* Two orders that compete for the stock of one store: the second order fits
\* only after a part of the first one has given its units back.
SharedOrderOf == x1 :> o1 @@ x2 :> o1 @@ x3 :> o2
SharedStoreOf == x1 :> s1 @@ x2 :> s2 @@ x3 :> s1
SharedStoreOrderOf == i1 :> x1 @@ i2 :> x1 @@ i3 :> x2 @@ i4 :> x3
SharedProductOf == i1 :> p1 @@ i2 :> p2 @@ i3 :> p3 @@ i4 :> p1
SharedQuantity == i1 :> 2 @@ i2 :> 1 @@ i3 :> 1 @@ i4 :> 2
SharedStock == p1 :> 3 @@ p2 :> 1 @@ p3 :> 1
=============================================================================
