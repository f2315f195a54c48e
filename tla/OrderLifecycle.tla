--------------------------- MODULE OrderLifecycle ---------------------------
(***************************************************************************)
(* The life of multi-store orders after checkout: the parent Order, its    *)
(* StoreOrders (one per store), their OrderItems, the cash-on-delivery     *)
(* payment status, the payable total and the stock the items hold.         *)
(*                                                                         *)
(* Every service of orders/ runs in one database transaction that starts   *)
(* by locking the Order row, so the services that touch one order are      *)
(* serialised and each of them is one action here.  What they read before  *)
(* taking that lock is a step of its own: see CheckStoreActive.  The lock  *)
(* waits themselves are the subject of module RowLocks.                    *)
(*                                                                         *)
(* Data that the properties do not tell apart is abstracted: a payable     *)
(* total is the set of StoreOrders it is the sum of, the ledger of stock   *)
(* movements is the set of its unique references, a timestamp is the set   *)
(* of the rows that carry one, and reasons, notes and history rows are     *)
(* left out (a reason is required: requests without one change nothing).   *)
(***************************************************************************)
EXTENDS Integers, FiniteSets, FiniteSetsExt

CONSTANTS
    Orders,         \* orders that may be placed
    StoreOrders,    \* their per-store parts
    Items,          \* the lines of the StoreOrders
    Products,       \* the products the lines sell
    Stores,         \* the stores
    OrderOf,        \* the Order of a StoreOrder
    StoreOf,        \* the Store of a StoreOrder
    StoreOrderOf,   \* the StoreOrder of an OrderItem
    ProductOf,      \* the Product of an OrderItem
    Quantity,       \* the ordered quantity of an OrderItem
    InitialStock    \* stock_quantity of a Product before any order

\* Structure of the rows: foreign keys point somewhere, and quantities are
\* positive (the check constraint of OrderItem).
ASSUME RowsAssumption ==
    /\ OrderOf \in [StoreOrders -> Orders]
    /\ StoreOf \in [StoreOrders -> Stores]
    /\ StoreOrderOf \in [Items -> StoreOrders]
    /\ ProductOf \in [Items -> Products]
    /\ Quantity \in [Items -> Nat \ {0}]
    /\ InitialStock \in [Products -> Nat]

\* Checkout refuses an empty cart and creates a StoreOrder only for a store
\* that has a line in it.
ASSUME NonEmptyAssumption ==
    /\ \A o \in Orders : \E so \in StoreOrders : OrderOf[so] = o
    /\ \A so \in StoreOrders : \E i \in Items : StoreOrderOf[i] = so

\* A cart holds one line per product (unique_cart_item_per_cart_product), so an order does.
ASSUME OneLinePerProductAssumption ==
    \A i, j \in Items :
        /\ OrderOf[StoreOrderOf[i]] = OrderOf[StoreOrderOf[j]]
        /\ ProductOf[i] = ProductOf[j]
        => i = j

\* A table holds finitely many rows: the stock the items hold is a sum.
ASSUME FiniteItemsAssumption == IsFiniteSet(Items)

VARIABLES
    status,         \* Order.status, "NONE" before checkout creates the row
    payment,        \* Order.payment_status
    delivered,      \* orders with delivered_at set
    collectedAt,    \* orders with payment_collected_at set
    charged,        \* the StoreOrders an order's payable total is the sum of
    soStatus,       \* StoreOrder.status
    cancelledItems, \* OrderItems with is_cancelled
    rejectedItems,  \* OrderItems with is_rejected
    restoredItems,  \* OrderItems with stock_restored
    references,     \* order-item references in the inventory ledger
    stock,          \* Product.stock_quantity
    openStores,     \* stores that are ACTIVE and is_active
    checkedRequests \* StoreOrders with a portal request past its store check

orderVars == <<status, payment, delivered, collectedAt, charged>>
itemVars  == <<cancelledItems, rejectedItems>>
stockVars == <<restoredItems, references, stock>>
storeVars == <<openStores, checkedRequests>>
vars == <<orderVars, soStatus, itemVars, stockVars, storeVars>>

-----------------------------------------------------------------------------
(* Statuses *)

OrderStatus == {"PLACED", "CONFIRMED", "IN_PROGRESS", "COMPLETED",
                "PARTIALLY_CANCELLED", "CANCELLED"}

StoreOrderStatus == {"PENDING", "ACCEPTED", "PREPARING", "READY",
                     "OUT_FOR_DELIVERY", "READY_FOR_PICKUP", "COMPLETED",
                     "CANCELLED", "REJECTED"}

PaymentStatus == {"PENDING", "COLLECTED", "CANCELLED"}

CustomerCancellable == {"PLACED", "CONFIRMED"}
\* Mutant: a delivered order can still be cancelled.
AdminCancellableDelivered == {"PLACED", "CONFIRMED", "IN_PROGRESS",
                              "PARTIALLY_CANCELLED", "COMPLETED"}
AdminCancellable == {"PLACED", "CONFIRMED", "IN_PROGRESS", "PARTIALLY_CANCELLED"}
NonChargeable == {"REJECTED", "CANCELLED"}
\* Mutant: the stores' later statuses forgotten.
ActiveStoreStatusesEarly == {"PENDING", "ACCEPTED", "PREPARING"}

ActiveStoreStatuses == {"PENDING", "ACCEPTED", "PREPARING", "READY",
                        "OUT_FOR_DELIVERY", "READY_FOR_PICKUP"}
CustomerCancelBlocking == {"PREPARING", "READY", "OUT_FOR_DELIVERY",
                           "READY_FOR_PICKUP", "COMPLETED"}
CustomerCancelableStore == {"PENDING", "ACCEPTED"}
ReadyTier == {"READY", "OUT_FOR_DELIVERY", "READY_FOR_PICKUP"}
Completable == ReadyTier \cup {"COMPLETED"}

\* Mutant: a cancelled order can be reopened.
AdminTransitionsReopen ==
    {<<"PLACED", "CONFIRMED">>, <<"PLACED", "IN_PROGRESS">>,
     <<"CONFIRMED", "IN_PROGRESS">>, <<"IN_PROGRESS", "COMPLETED">>,
     <<"CANCELLED", "IN_PROGRESS">>}

\* The forward moves management may make on an overall order status.
AdminTransitions ==
    {<<"PLACED", "CONFIRMED">>, <<"PLACED", "IN_PROGRESS">>,
     <<"CONFIRMED", "IN_PROGRESS">>, <<"CONFIRMED", "COMPLETED">>,
     <<"IN_PROGRESS", "COMPLETED">>,
     <<"PARTIALLY_CANCELLED", "IN_PROGRESS">>,
     <<"PARTIALLY_CANCELLED", "COMPLETED">>}

\* The portal's forward moves of a StoreOrder: accept, processing, ready.
StoreTransitions ==
    {<<"PENDING", "ACCEPTED">>, <<"ACCEPTED", "PREPARING">>,
     <<"PREPARING", "READY">>}

-----------------------------------------------------------------------------
(* Rows *)

StoreOrdersOf(o) == {so \in StoreOrders : OrderOf[so] = o}
ItemsOf(S) == {i \in Items : StoreOrderOf[i] \in S}
OrderItemsOf(o) == ItemsOf(StoreOrdersOf(o))
Placed(o) == status[o] # "NONE"

\* The chargeable StoreOrders of o under the StoreOrder statuses f.
ChargeableIn(f, o) == {so \in StoreOrdersOf(o) : f[so] \notin NonChargeable}

\* calculate_order_status: the overall status from the set of StoreOrder
\* statuses; the first rule that matches wins.
CalculateOrderStatus(statuses) ==
    LET active == statuses \ NonChargeable
    IN  IF statuses = {} THEN "PLACED"
        ELSE IF active = {} THEN "CANCELLED"
        ELSE IF active = {"COMPLETED"} THEN "COMPLETED"
        ELSE IF active # statuses THEN "PARTIALLY_CANCELLED"
        ELSE IF active \subseteq ReadyTier THEN "IN_PROGRESS"
        ELSE IF "PREPARING" \in active /\ active \cap ReadyTier = {} THEN "IN_PROGRESS"
        ELSE IF active = {"PENDING"} THEN "PLACED"
        ELSE IF active \subseteq {"PENDING", "ACCEPTED"} THEN "CONFIRMED"
        ELSE "IN_PROGRESS"

StatusFromStoreOrders(f, o) ==
    CalculateOrderStatus({f[so] : so \in StoreOrdersOf(o)})

-----------------------------------------------------------------------------
(* Parts of the services *)

\* Mutant: the sync leaves the pending payment of a cancelled order alone.
SyncOrderStatusOnly(f, o) ==
    LET new == StatusFromStoreOrders(f, o)
    IN  /\ status' = [status EXCEPT ![o] = new]
        /\ delivered' = IF new # status[o] /\ new = "COMPLETED"
                        THEN delivered \cup {o} ELSE delivered
        /\ UNCHANGED payment

\* sync_order_status_from_store_orders: apply the status that the StoreOrder
\* statuses f give order o, when it is a new one.
SyncOrderStatus(f, o) ==
    LET new == StatusFromStoreOrders(f, o)
        changed == new # status[o]
    IN  /\ status' = [status EXCEPT ![o] = new]
        /\ payment' = IF changed /\ new = "CANCELLED" /\ payment[o] = "PENDING"
                      THEN [payment EXCEPT ![o] = "CANCELLED"]
                      ELSE payment
        /\ delivered' = IF changed /\ new = "COMPLETED"
                        THEN delivered \cup {o} ELSE delivered

\* Mutant: the StoreOrders read before the transaction changed them.
RecalculateTotalsStale(f, o) == charged' = [charged EXCEPT ![o] = ChargeableIn(soStatus, o)]

\* _recalculate_order_payable_totals over the StoreOrder statuses f.
RecalculateTotals(f, o) == charged' = [charged EXCEPT ![o] = ChargeableIn(f, o)]

\* apply_stock_movement for one movement per item of S, all of one order:
\* sign is -1 for a deduction and 1 for a restoration.
MoveStock(S, sign) ==
    stock' = [p \in Products |->
                IF \E i \in S : ProductOf[i] = p
                THEN stock[p] + sign * Quantity[CHOOSE i \in S : ProductOf[i] = p]
                ELSE stock[p]]

\* Mutant: neither the flag nor the reference is consulted.
RestoreStockAgain(S) ==
    /\ restoredItems' = restoredItems \cup S
    /\ references' = references \cup (S \X {"restore"})
    /\ MoveStock(S, 1)

\* restore_order_items_stock: items already flagged are skipped, and an item
\* whose restore reference is in the ledger is flagged without a movement.
RestoreStock(S) ==
    LET moved == {i \in S \ restoredItems : <<i, "restore">> \notin references}
    IN  /\ restoredItems' = restoredItems \cup S
        /\ references' = references \cup (moved \X {"restore"})
        /\ MoveStock(moved, 1)

\* What cancel_customer_order and cancel_order_by_admin share once their
\* checks passed: cancel the StoreOrders of o whose status is in cancelable,
\* the order and its pending payment, and give back the stock still held.
\* A retry on a cancelled order skips the status changes only.
CancelOrder(o, cancelable) ==
    LET first == status[o] # "CANCELLED"
        cancelled == IF first
                     THEN {so \in StoreOrdersOf(o) : soStatus[so] \in cancelable}
                     ELSE {}
        newSo == [so \in StoreOrders |->
                    IF so \in cancelled THEN "CANCELLED" ELSE soStatus[so]]
    IN  /\ soStatus' = newSo
        /\ status' = [status EXCEPT ![o] = "CANCELLED"]
        /\ payment' = IF first /\ payment[o] = "PENDING"
                      THEN [payment EXCEPT ![o] = "CANCELLED"] ELSE payment
        /\ cancelledItems' = cancelledItems \cup OrderItemsOf(o)
        /\ RestoreStock(OrderItemsOf(o))
        /\ RecalculateTotals(newSo, o)
        /\ UNCHANGED <<delivered, collectedAt, rejectedItems, storeVars>>

-----------------------------------------------------------------------------
(* Checkout *)

\* Mutant: the locked stock is not compared with the ordered quantities.
StockCoversAnything(o) == TRUE

\* The stock part of _validate_sellable_product, for every line of o.
StockCovers(o) == \A i \in OrderItemsOf(o) : Quantity[i] <= stock[ProductOf[i]]

\* place_customer_order for the cart that becomes order o: every line must be
\* covered by the locked stock; otherwise nothing is created.  The products
\* are sellable only while their store is open.
PlaceOrder(o) ==
    /\ ~Placed(o)
    /\ \A so \in StoreOrdersOf(o) : StoreOf[so] \in openStores
    /\ StockCovers(o)
    /\ status' = [status EXCEPT ![o] = "PLACED"]
    /\ payment' = [payment EXCEPT ![o] = "PENDING"]
    /\ charged' = [charged EXCEPT ![o] = StoreOrdersOf(o)]
    /\ soStatus' = [so \in StoreOrders |->
                       IF OrderOf[so] = o THEN "PENDING" ELSE soStatus[so]]
    /\ references' = references \cup (OrderItemsOf(o) \X {"deduct"})
    /\ MoveStock(OrderItemsOf(o), -1)
    /\ UNCHANGED <<delivered, collectedAt, itemVars, restoredItems, storeVars>>

-----------------------------------------------------------------------------
(* Store portal *)

\* A portal request on so finds its store active.  The service makes this
\* check on the store the view resolved, before it locks the order; it does
\* not repeat it under the lock.
CheckStoreActive(so) ==
    /\ Placed(OrderOf[so])
    /\ so \notin checkedRequests
    /\ StoreOf[so] \in openStores
    /\ checkedRequests' = checkedRequests \cup {so}
    /\ UNCHANGED <<orderVars, soStatus, itemVars, stockVars, openStores>>

\* transition_store_order, actions accept, processing and ready, followed by
\* the sync of the overall order status.  A refused request changes nothing.
TransitionStoreOrder(so, new) ==
    LET newSo == [soStatus EXCEPT ![so] = new]
    IN  /\ so \in checkedRequests
        /\ <<soStatus[so], new>> \in StoreTransitions
        /\ soStatus' = newSo
        /\ SyncOrderStatus(newSo, OrderOf[so])
        /\ checkedRequests' = checkedRequests \ {so}
        /\ UNCHANGED <<collectedAt, charged, itemVars, stockVars, openStores>>

\* transition_store_order with action reject, that is reject_store_order: a
\* pending StoreOrder is rejected, its items give their stock back, and the
\* order's status and totals follow.  On a StoreOrder already rejected the
\* service goes through the same steps, the status change excepted.
RejectStoreOrder(so) ==
    LET o == OrderOf[so]
        newSo == [soStatus EXCEPT ![so] = "REJECTED"]
    IN  /\ so \in checkedRequests
        /\ soStatus[so] \in {"PENDING", "REJECTED"}
        /\ soStatus' = newSo
        /\ rejectedItems' = rejectedItems \cup ItemsOf({so})
        /\ RestoreStock(ItemsOf({so}))
        /\ SyncOrderStatus(newSo, o)
        /\ RecalculateTotals(newSo, o)
        /\ checkedRequests' = checkedRequests \ {so}
        /\ UNCHANGED <<collectedAt, cancelledItems, openStores>>

-----------------------------------------------------------------------------
(* Customer *)

\* cancel_customer_order: only while the order is placed or confirmed and no
\* StoreOrder has been prepared; a retry on a cancelled order is accepted.
CancelCustomerOrder(o) ==
    /\ Placed(o)
    /\ \/ status[o] = "CANCELLED"
       \/ /\ status[o] \in CustomerCancellable
          /\ \A so \in StoreOrdersOf(o) : soStatus[so] \notin CustomerCancelBlocking
    /\ CancelOrder(o, CustomerCancelableStore)

-----------------------------------------------------------------------------
(* Management portal *)

\* cancel_order_by_admin (admin_cancel_order).
CancelOrderByAdmin(o) ==
    /\ Placed(o)
    /\ status[o] \in AdminCancellable \cup {"CANCELLED"}
    /\ CancelOrder(o, ActiveStoreStatuses)

\* update_order_status, forward move to a status other than COMPLETED.
MoveOrderForward(o, new) ==
    /\ <<status[o], new>> \in AdminTransitions
    /\ new # "COMPLETED"
    /\ status' = [status EXCEPT ![o] = new]
    /\ UNCHANGED <<payment, delivered, collectedAt, charged, soStatus,
                   itemVars, stockVars, storeVars>>

\* update_order_status to COMPLETED: every chargeable StoreOrder must be ready
\* and is completed with the order, which gets its delivered_at.
CompleteOrder(o) ==
    /\ <<status[o], "COMPLETED">> \in AdminTransitions
    /\ \A so \in ChargeableIn(soStatus, o) : soStatus[so] \in Completable
    /\ soStatus' = [so \in StoreOrders |->
                       IF so \in ChargeableIn(soStatus, o)
                       THEN "COMPLETED" ELSE soStatus[so]]
    /\ status' = [status EXCEPT ![o] = "COMPLETED"]
    /\ delivered' = delivered \cup {o}
    /\ UNCHANGED <<payment, collectedAt, charged, itemVars, stockVars, storeVars>>

\* Mutant: a collected payment does not block the reversal.
ReversalAllowedAlways(o) == status[o] = "COMPLETED"

\* _order_reversals_allowed: no delivery is undone while cash is collected.
ReversalAllowed(o) == status[o] = "COMPLETED" /\ payment[o] # "COLLECTED"

\* Mutant: the completed StoreOrders are not reopened with the order.
ReopenedStoreOrdersNone(o) == soStatus

\* Mutant: every StoreOrder of the order is reopened, rejected ones too.
ReopenedStoreOrdersAll(o) ==
    [so \in StoreOrders |-> IF OrderOf[so] = o THEN "READY" ELSE soStatus[so]]

\* _reopen_completed_store_orders: the StoreOrders return to the ready-tier
\* status their history shows, which is READY: no service sets the two other
\* ready-tier statuses.
ReopenedStoreOrders(o) ==
    [so \in StoreOrders |-> IF OrderOf[so] = o /\ soStatus[so] = "COMPLETED"
                            THEN "READY" ELSE soStatus[so]]

\* update_order_status from COMPLETED back to IN_PROGRESS, with a correction
\* note.
ReverseDelivery(o) ==
    /\ ReversalAllowed(o)
    /\ soStatus' = ReopenedStoreOrders(o)
    /\ status' = [status EXCEPT ![o] = "IN_PROGRESS"]
    /\ delivered' = delivered \ {o}
    /\ UNCHANGED <<payment, collectedAt, charged, itemVars, stockVars, storeVars>>

\* update_order_payment_status: collect after delivery, cancel a pending
\* payment, or reverse a collection with a correction note.
UpdatePaymentStatus(o, new) ==
    /\ Placed(o)
    /\ <<payment[o], new>> \in {<<"PENDING", "COLLECTED">>, <<"PENDING", "CANCELLED">>,
                                <<"COLLECTED", "PENDING">>}
    /\ new = "COLLECTED" => status[o] = "COMPLETED"
    /\ payment' = [payment EXCEPT ![o] = new]
    /\ collectedAt' = IF new = "COLLECTED" THEN collectedAt \cup {o}
                      ELSE IF payment[o] = "COLLECTED" THEN collectedAt \ {o}
                      ELSE collectedAt
    /\ UNCHANGED <<status, delivered, charged, soStatus, itemVars, stockVars, storeVars>>

\* Store administration suspends an active store or reactivates it.
SetStoreOpen(s, open) ==
    /\ open # (s \in openStores)
    /\ openStores' = IF open THEN openStores \cup {s} ELSE openStores \ {s}
    /\ UNCHANGED <<orderVars, soStatus, itemVars, stockVars, checkedRequests>>

-----------------------------------------------------------------------------
(* Specification *)

Init ==
    /\ status = [o \in Orders |-> "NONE"]
    /\ payment = [o \in Orders |-> "NONE"]
    /\ delivered = {}
    /\ collectedAt = {}
    /\ charged = [o \in Orders |-> {}]
    /\ soStatus = [so \in StoreOrders |-> "NONE"]
    /\ cancelledItems = {}
    /\ rejectedItems = {}
    /\ restoredItems = {}
    /\ references = {}
    /\ stock = InitialStock
    /\ openStores = Stores
    /\ checkedRequests = {}

\* What a customer's requests do to an order.
CustomerStep(o) == PlaceOrder(o) \/ CancelCustomerOrder(o)

\* What the management portal does to it: its form changes the order's status
\* or its payment.
ManagementStep(o) ==
    \/ CancelOrderByAdmin(o)
    \/ \E new \in OrderStatus : MoveOrderForward(o, new)
    \/ CompleteOrder(o)
    \/ ReverseDelivery(o)
    \/ \E new \in PaymentStatus : UpdatePaymentStatus(o, new)

\* What the portal of a store does to its part: accept, reject, process, ready.
StoreStep(so) ==
    \/ CheckStoreActive(so)
    \/ \E new \in StoreOrderStatus : TransitionStoreOrder(so, new)
    \/ RejectStoreOrder(so)

Next ==
    \/ \E o \in Orders : CustomerStep(o) \/ ManagementStep(o)
    \/ \E so \in StoreOrders : StoreStep(so)
    \/ \E s \in Stores, open \in BOOLEAN : SetStoreOpen(s, open)

Spec == Init /\ [][Next]_vars

-----------------------------------------------------------------------------
(* Properties *)

\* Every row field holds a value of its type, and stock never goes negative.
TypeOK ==
    /\ status \in [Orders -> OrderStatus \cup {"NONE"}]
    /\ payment \in [Orders -> PaymentStatus \cup {"NONE"}]
    /\ delivered \subseteq Orders
    /\ collectedAt \subseteq Orders
    /\ charged \in [Orders -> SUBSET StoreOrders]
    /\ soStatus \in [StoreOrders -> StoreOrderStatus \cup {"NONE"}]
    /\ cancelledItems \subseteq Items
    /\ rejectedItems \subseteq Items
    /\ restoredItems \subseteq Items
    /\ references \subseteq Items \X {"deduct", "restore"}
    /\ stock \in [Products -> Nat]
    /\ openStores \subseteq Stores
    /\ checkedRequests \subseteq StoreOrders

\* An order is cancelled exactly when none of its StoreOrders is chargeable,
\* and then its payment is cancelled: however cancellation by the customer,
\* cancellation by management and rejection by the stores follow each other,
\* nobody is asked for cash for an order nobody fulfils, and no order whose
\* parts are all gone stays open.
CancelledTogether ==
    \A o \in Orders :
        Placed(o) =>
            /\ status[o] = "CANCELLED" <=> ChargeableIn(soStatus, o) = {}
            /\ status[o] = "CANCELLED" => payment[o] = "CANCELLED"

\* An order is completed exactly when all its chargeable StoreOrders are, and
\* exactly then it carries a delivery time.  The completion cascade, the
\* reversal of a delivery and the status sync that follows every portal
\* action all write these fields.
DeliveredTogether ==
    \A o \in Orders :
        /\ o \in delivered <=> status[o] = "COMPLETED"
        /\ status[o] = "COMPLETED" =>
              \A so \in ChargeableIn(soStatus, o) : soStatus[so] = "COMPLETED"
        /\ \A so \in StoreOrdersOf(o) :
              soStatus[so] = "COMPLETED" => status[o] = "COMPLETED"

\* Cash is collected only for a delivered order, and the collection time is
\* set exactly while the payment is collected ("so payment is never COLLECTED
\* on an undelivered order", orders/management_status.py).
CollectedOnlyWhenDelivered ==
    \A o \in Orders :
        /\ payment[o] = "COLLECTED" => status[o] = "COMPLETED"
        /\ o \in collectedAt <=> payment[o] = "COLLECTED"

\* The payable total of an order counts exactly its chargeable StoreOrders.
PayableMatchesChargeable ==
    \A o \in Orders : Placed(o) => charged[o] = ChargeableIn(soStatus, o)

\* An item's stock has been given back exactly when its StoreOrder was
\* rejected or cancelled: stock is held for every part still being
\* fulfilled, and for no other, and an item carries its marker.
StockHeldByChargeable ==
    \A i \in Items :
        LET so == StoreOrderOf[i] IN
        /\ i \in restoredItems <=> soStatus[so] \in NonChargeable
        /\ <<i, "restore">> \in references <=> i \in restoredItems
        /\ <<i, "deduct">> \in references <=> Placed(OrderOf[so])
        /\ i \in rejectedItems <=> soStatus[so] = "REJECTED"
        /\ soStatus[so] = "CANCELLED" => i \in cancelledItems

\* No unit is lost or invented: what is on the shelf and what the chargeable
\* parts of placed orders hold add up to the stock there was at the start,
\* whichever way orders over the same product end.
StockConserved ==
    \A p \in Products :
        LET holding == {i \in Items :
                          /\ ProductOf[i] = p
                          /\ soStatus[StoreOrderOf[i]] \notin NonChargeable \cup {"NONE"}}
        IN  stock[p] + MapThenSumSet(LAMBDA i : Quantity[i], holding) = InitialStock[p]

\* What a StoreOrder, an order or a payment can never leave: rejection and
\* cancellation are final, also across the reversal of a delivery.
FinalStatesStay ==
    [][/\ \A so \in StoreOrders :
            soStatus[so] \in NonChargeable => soStatus'[so] = soStatus[so]
       /\ \A o \in Orders :
            /\ status[o] = "CANCELLED" => status'[o] = "CANCELLED"
            /\ payment[o] = "CANCELLED" => payment'[o] = "CANCELLED"]_vars

\* While cash is recorded as collected the amount it was collected for is
\* fixed: nothing is cancelled or rejected, no total changes, and delivery is
\* not undone.
CollectedAmountIsFixed ==
    [][\A o \in Orders :
        payment[o] = "COLLECTED" =>
            /\ charged'[o] = charged[o]
            /\ status'[o] = "COMPLETED"
            /\ \A so \in StoreOrdersOf(o) : soStatus'[so] = soStatus[so]]_vars

\* A portal action on a StoreOrder is applied only while its store is open:
\* "Suspended or inactive stores cannot process orders."
SuspendedStoreCannotProcess ==
    [][\A so \in StoreOrders :
        /\ soStatus[so] # soStatus'[so]
        /\ \/ <<soStatus[so], soStatus'[so]>> \in StoreTransitions
           \/ soStatus'[so] = "REJECTED"
        => StoreOf[so] \in openStores]_vars

-----------------------------------------------------------------------------
(* Refinement *)

\* The phase of the contract an order is in.
ContractPhase ==
    [o \in Orders |->
        CASE status[o] = "NONE" -> "none"
          [] status[o] = "CANCELLED" -> "void"
          [] status[o] = "COMPLETED" ->
                IF payment[o] = "COLLECTED" THEN "paid" ELSE "delivered"
          [] OTHER -> "open"]

Contract == INSTANCE OrderContract WITH
                Parts <- StoreOrders, PartsOf <- StoreOrdersOf,
                phase <- ContractPhase, parts <- charged

\* The services together keep the contract: whatever the customer, the stores
\* and management do in whichever order, parts are only dropped from an open
\* order, a void order stays void, and cash is taken after delivery for
\* exactly the parts delivered.
KeepsContract == Contract!Spec
=============================================================================
