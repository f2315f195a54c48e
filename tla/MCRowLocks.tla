------------------------------ MODULE MCRowLocks ------------------------------
(***************************************************************************)
(* Instances of RowLocks for TLC.                                          *)
(*                                                                         *)
(* Products 1, 3 and 5 are of store 1, products 2 and 4 of store 2, all in *)
(* one category.  Order 1 of customer 1 has the items 1 and 2 of store 1   *)
(* and item 3 of store 2; order 2 of customer 2 has one item of each.      *)
(***************************************************************************)
EXTENDS RowLocks

OrderStoreOrders == << <<11, 12>>, <<21, 22>> >>
OrderItems == << <<1, 2, 3>>, <<4, 5>> >>
ItemStoreOrder == <<11, 11, 12, 21, 22>>
StoreOrderOrder == [so \in {11, 12, 21, 22} |-> IF so \in {21, 22} THEN 2 ELSE 1]
ItemProduct == <<1, 3, 2, 5, 4>>
ProductStore == <<1, 2, 1, 2, 1>>
ProductCategory == <<1, 1, 1, 1, 1>>
StoreOrderStore == [so \in {11, 12, 21, 22} |-> IF so \in {12, 22} THEN 2 ELSE 1]
OrderCustomer == <<1, 2>>

\* Each cart has one product of each store.
Carts == << <<1, 2>>, <<4, 5>> >>

\* The addresses of the customers.
Default == <<1, 3>>
Newest == <<2, 4>>

\* The second store rejects its part of an order, next to the cancellation of
\* another order from the same two stores.
RejectionAndCancellation ==
    <<[kind |-> "cancel", order |-> 1],
     [kind |-> "reject", storeOrder |-> 22]>>

\* The shop at work: a cancellation next to what a store and a manager do to
\* the same order, a rejection in another order; a checkout, an addition to
\* its cart sent twice and a change of the same line; a purchase; and the
\* address book in two tabs.
Shop ==
    <<[kind |-> "cancel", order |-> 1],
     [kind |-> "transition", storeOrder |-> 11],
     [kind |-> "management", order |-> 1],
     [kind |-> "reject", storeOrder |-> 22],
     [kind |-> "checkout", customer |-> 1],
     [kind |-> "add", customer |-> 1, product |-> 1],
     [kind |-> "add", customer |-> 1, product |-> 1],
     [kind |-> "quantity", customer |-> 1, product |-> 1],
     [kind |-> "purchase", entry |-> 1, products |-> <<5, 1>>],
     [kind |-> "set default", customer |-> 1],
     [kind |-> "deactivate", customer |-> 1]>>
=============================================================================
