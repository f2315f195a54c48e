------------------------------- MODULE RowLocks -------------------------------
(***************************************************************************)
(* The order in which the services take row locks, and who waits for whom. *)
(*                                                                         *)
(* A service is the sequence of the locks its statements take.  It keeps   *)
(* each of them until it commits, and waits where another one holds a row  *)
(* in a mode that conflicts.  SELECT ... FOR UPDATE locks the row of every *)
(* table it joins, select_related included, table by table and row by row; *)
(* inserting a row locks the rows its foreign keys point to, in share mode *)
(* (FOR KEY SHARE).  PostgreSQL ends one of those that wait in a circle.   *)
(*                                                                         *)
(* Left out: the rows of users, the Cart row, which every service writes   *)
(* last, and locks on rows that the request holds already.                 *)
(***************************************************************************)
EXTENDS Integers, SequencesExt

CONSTANTS
    Services,       \* the services at work: a sequence of records with a kind
    StoreOrdersOf,  \* the StoreOrders of an Order, by id
    ItemsOf,        \* the OrderItems of an Order, by id
    StoreOrderOf,   \* the StoreOrder of an OrderItem
    OrderOf,        \* the Order of a StoreOrder
    ProductOf,      \* the Product of an OrderItem
    StoreOf,        \* the Store of a Product
    CategoryOf,     \* the Category of a Product
    SellerOf,       \* the Store of a StoreOrder
    CustomerOf,     \* the Customer of an Order
    CartOf,         \* the Products in a Customer's cart, by id
    DefaultOf,      \* the default CustomerAddress of a Customer
    NewestOf        \* the newest other one

\* The order a service of orders is about.
OrderOfService(s) == IF s.kind \in {"management", "cancel"} THEN s.order ELSE OrderOf[s.storeOrder]

Kinds == {"transition", "reject", "cancel", "management", "checkout", "add",
          "quantity", "set default", "deactivate", "purchase"}

\* A StoreOrder of an order is of that order, an item of an order in a
\* StoreOrder of it; a cart and a purchase hold products.
ASSUME ServicesAssumption ==
    \A q \in DOMAIN Services :
        LET s == Services[q]
            o == OrderOfService(s)
        IN  /\ s.kind \in Kinds
            /\ s.kind \in {"management", "cancel", "reject"} =>
                  /\ StoreOrdersOf[o] \in Seq({so \in DOMAIN OrderOf : OrderOf[so] = o})
                  /\ ItemsOf[o] \in Seq({i \in DOMAIN StoreOrderOf : OrderOf[StoreOrderOf[i]] = o})
            /\ s.kind = "checkout" => CartOf[s.customer] \in Seq(DOMAIN StoreOf)
            /\ s.kind = "purchase" => s.products \in Seq(DOMAIN StoreOf)

VARIABLES
    held,           \* the locks a request has
    ahead           \* the locks it has still to take, in order

vars == <<held, ahead>>

Requests == DOMAIN Services

Update(table, id) == [row |-> <<table, id>>, mode |-> "update"]
Share(table, id) == [row |-> <<table, id>>, mode |-> "share"]

\* The locks taken for each member of a sequence, one member after the other.
ForEach(seq, Locks(_)) == FlattenSeq([k \in DOMAIN seq |-> Locks(seq[k])])

-----------------------------------------------------------------------------
(* Locks of the services *)

\* _lock_order_graph: Order with Customer, the StoreOrders, and the OrderItems
\* joined in the order of the fields: StoreOrder, its Store, Product.
OrderGraphLocks(o) ==
    << Update("Order", o), Update("Customer", CustomerOf[o]) >>
    \o ForEach(StoreOrdersOf[o], LAMBDA so : << Update("StoreOrder", so) >>)
    \o ForEach(ItemsOf[o], LAMBDA i :
         << Update("OrderItem", i), Update("StoreOrder", StoreOrderOf[i]),
            Update("Store", SellerOf[StoreOrderOf[i]]), Update("Product", ProductOf[i]) >>)

\* Mutant: the StoreOrder first, and the Order with it.
StoreOrderFirstLocks(so) ==
    << Update("StoreOrder", so), Update("Order", OrderOf[so]), Update("Store", SellerOf[so]) >>

\* transition_store_order: the Order, then the StoreOrder with its Store.
TransitionLocks(so) ==
    << Update("Order", OrderOf[so]), Update("StoreOrder", so), Update("Store", SellerOf[so]) >>

\* The same with the action "reject".
RejectLocks(so) == TransitionLocks(so) \o OrderGraphLocks(OrderOf[so])

\* update_order_status_by_management: the Order, and its StoreOrders where
\* the new status reaches them.
ManagementLocks(o) ==
    << Update("Order", o) >>
    \o ForEach(StoreOrdersOf[o], LAMBDA so : << Update("StoreOrder", so) >>)

ProductWithStore(p) ==
    << Update("Product", p), Update("Store", StoreOf[p]), Update("Category", CategoryOf[p]) >>

\* place_customer_order: cart lines with Products, the Products with Stores
\* and Categories, and the Customer the new Order points to.
CheckoutLocks(c) ==
    ForEach(CartOf[c], LAMBDA p : << Update("CartItem", <<c, p>>), Update("Product", p) >>)
    \o ForEach(CartOf[c], LAMBDA p : ProductWithStore(p))
    \o << Share("Customer", c) >>

\* add_product_to_cart: the Product, then the line it is in.
AddLocks(c, p) == ProductWithStore(p) \o << Update("CartItem", <<c, p>>) >>

\* update_cart_item_quantity: the line, then the Product.
QuantityLocks(c, p) == << Update("CartItem", <<c, p>>) >> \o ProductWithStore(p)

\* confirm_purchase_entry: the entry; per line the Product, and the Store its
\* ledger row points to.
PurchaseLocks(e, products) ==
    << Update("PurchaseEntry", e) >>
    \o ForEach(products, LAMBDA p : << Update("Product", p), Share("Store", StoreOf[p]) >>)

\* set_customer_address_as_default: the address with its Customer, and the one
\* that save() clears.
SetDefaultLocks(c) ==
    << Update("CustomerAddress", NewestOf[c]), Update("Customer", c),
       Update("CustomerAddress", DefaultOf[c]) >>

\* deactivate_customer_address of the default, and the newest that replaces it.
DeactivateLocks(c) ==
    << Update("CustomerAddress", DefaultOf[c]), Update("Customer", c),
       Update("CustomerAddress", NewestOf[c]) >>

Locks(s) ==
    CASE s.kind = "transition" -> TransitionLocks(s.storeOrder)
      [] s.kind = "reject" -> RejectLocks(s.storeOrder)
      [] s.kind = "cancel" -> OrderGraphLocks(s.order)
      [] s.kind = "management" -> ManagementLocks(s.order)
      [] s.kind = "checkout" -> CheckoutLocks(s.customer)
      [] s.kind = "add" -> AddLocks(s.customer, s.product)
      [] s.kind = "quantity" -> QuantityLocks(s.customer, s.product)
      [] s.kind = "set default" -> SetDefaultLocks(s.customer)
      [] s.kind = "deactivate" -> DeactivateLocks(s.customer)
      [] s.kind = "purchase" -> PurchaseLocks(s.entry, s.products)

Statements == [q \in Requests |-> Locks(Services[q])]

-----------------------------------------------------------------------------
(* Waiting *)

Conflict(l, m) == l.row = m.row /\ "update" \in {l.mode, m.mode}

\* Request q needs a row for its next lock that request r holds.
WaitsFor(q, r) ==
    /\ q # r
    /\ ahead[q] # <<>>
    /\ \E l \in held[r] : Conflict(Head(ahead[q]), l)

Waits(q) == \E r \in Requests : WaitsFor(q, r)

\* These requests and those that they wait for, through others as well.
InFront[waiting \in SUBSET Requests] ==
    LET more == {r \in Requests \ waiting : \E q \in waiting : WaitsFor(q, r)}
    IN  IF more = {} THEN waiting ELSE InFront[waiting \cup more]

\* Request q waits for itself, through others.
InCircle(q) == q \in InFront[{r \in Requests : WaitsFor(q, r)}]

\* None of these requests waits for itself: of any that wait, one waits for
\* none of the others.
NoCircle(requests) ==
    \A some \in (SUBSET {q \in requests : Waits(q)}) \ {{}} :
        \E q \in some : \A r \in some : ~WaitsFor(q, r)

Lock(q) ==
    /\ ahead[q] # <<>>
    /\ ~Waits(q)
    /\ held' = [held EXCEPT ![q] = @ \cup {Head(ahead[q])}]
    /\ ahead' = [ahead EXCEPT ![q] = Tail(@)]

\* All locks are released, and the next request of this kind may follow.
End(q) ==
    /\ held' = [held EXCEPT ![q] = {}]
    /\ ahead' = [ahead EXCEPT ![q] = Statements[q]]

\* The service is done.
Commit(q) == ahead[q] = <<>> /\ End(q)

\* The database ends a request in a circle; it is rolled back as a whole.
AbortDeadlocked(q) ==
    /\ InCircle(q)
    /\ End(q)

-----------------------------------------------------------------------------
(* Specification *)

Init ==
    /\ held = [q \in Requests |-> {}]
    /\ ahead = Statements

Advance(q) == Lock(q) \/ Commit(q) \/ AbortDeadlocked(q)

Next == \E q \in Requests : Advance(q)

Spec == Init /\ [][Next]_vars

-----------------------------------------------------------------------------
(* Properties *)

\* Requests never wait for each other in a circle.  reject_store_order is
\* called with the Order and the StoreOrder locked "to keep lock order
\* consistent with cancel paths and avoid deadlocks".
NoDeadlock == NoCircle(Requests)

Of(kinds) == {q \in Requests : Services[q].kind \in kinds}

\* Request r and, if it cancels or rejects, what cancels or rejects in the
\* same order.
Alongside(r) ==
    {r} \cup {q \in Of({"cancel", "reject"}) :
                /\ Services[r].kind \in {"cancel", "reject"}
                /\ OrderOfService(Services[q]) = OrderOfService(Services[r])}

\* What holds of that.  Accepting, processing and managing orders never wait
\* in a circle: not with changes of quantities in carts, not with additions
\* to carts, not with all cancellations and rejections of one order, and not
\* with one service of any other kind.  A circle takes an addition and a
\* change of quantity, two orders that are cancelled or rejected, such an
\* order and a shopper, or two of the other services.
OrderServicesNeverDeadlock ==
    /\ NoCircle(Of({"transition", "management", "quantity"}))
    /\ NoCircle(Of({"transition", "management", "add"}))
    /\ \A r \in Requests : NoCircle(Of({"transition", "management"}) \cup Alongside(r))
=============================================================================
