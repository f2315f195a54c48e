------------------------------- MODULE Checkout -------------------------------
(***************************************************************************)
(* Customers' carts and place_customer_order, statement by statement, next *)
(* to whatever else changes carts, products and stores meanwhile: a second *)
(* tab of the same customer, other customers, the catalogue and inventory  *)
(* portals.                                                                *)
(*                                                                         *)
(* A checkout is one READ COMMITTED transaction.  Each of its statements   *)
(* sees what is committed when it starts, and row locks hold until the     *)
(* end, so each statement is an action, and what a request has locked      *)
(* follows from how far it has come.  The one-time token lives in the      *)
(* session, outside the transaction; other pages store the whole session   *)
(* they have loaded, an old token with it.  The other services lock what   *)
(* they decide on and are one action each; one that needs a locked row     *)
(* waits.                                                                  *)
(*                                                                         *)
(* The store graph of an order, its histories and its numbers are left to  *)
(* OrderLifecycle and the ledger to StockLedger.  Products of one store    *)
(* stand for products that share a store or a category, the other rows a   *)
(* checkout locks.  Two branches cannot be taken and are left out: the     *)
(* token of another customer, since the session's token is the             *)
(* customer's, and the unique-token race at the insert, since              *)
(* OneOrderPerToken holds without it.                                      *)
(***************************************************************************)
EXTENDS Integers, FiniteSets

CONSTANTS
    Customers,
    Products,
    StoreOf,        \* the store of a product
    InitialStock,   \* the stock of each product at the start
    Prices,         \* final prices
    Quantities,     \* quantities customers ask for
    MaxStock,       \* bound: stock a product is filled up to
    Requests,       \* requests at /checkout/place/ served at a time
    MaxTokens,      \* bound: checkout tokens issued
    MaxLines        \* bound: cart lines created

Stores == {StoreOf[p] : p \in Products}
NoToken == 0
NoCustomer == <<"no customer">>

ASSUME CheckoutAssumption ==
    /\ Prices # {} /\ Prices \subseteq Nat \ {0}
    /\ Quantities \subseteq Nat \ {0}
    /\ MaxStock \in Nat /\ MaxTokens \in Nat /\ MaxLines \in Nat
    /\ InitialStock \in [Products -> 0 .. MaxStock]
    /\ NoCustomer \notin Customers

VARIABLES
    product,    \* Product: stock, price, and whether it is approved and active
    open,       \* Store: active
    cart,       \* per customer the CartItems: id, product and quantity
    lastLine,   \* the CartItem id given out last
    session,    \* the checkout token in the customer's session
    lastToken,  \* the token issued last
    issued,     \* the tokens that have been in the customer's session
    request,    \* a request at work: its step and what it has read
    orders      \* placed Orders with their items

catalogVars == <<product, open>>
cartVars == <<cart, lastLine>>
sessionVars == <<session, lastToken, issued>>
vars == <<catalogVars, cartVars, sessionVars, request, orders>>

-----------------------------------------------------------------------------
(* Rows and locks *)

\* public_products_q, and the same conditions of _validate_sellable_product.
Public(p) == product[p].onSale /\ open[StoreOf[p]]

\* Mutant: the stock of the locked product is not compared.
SellableAnyStock(line) == Public(line.product)

\* _validate_sellable_product
Sellable(line) ==
    Public(line.product) /\ line.quantity <= product[line.product].stock

Ended == {"idle", "answered", "refused"}

\* _lock_cart_items locks the lines it reads, until the request ends.
LineLocked(line) ==
    \E r \in Requests :
        /\ request[r].step \in {"recheck", "validate", "place"}
        /\ \E l \in request[r].lines : l.id = line.id

\* Mutant: products are read without a lock.
ProductLockedNever(p) == FALSE

\* It locks their products with them.
ProductLocked(p) ==
    \E r \in Requests :
        /\ request[r].step \in {"recheck", "validate", "place"}
        /\ \E l \in request[r].lines : l.product = p

\* _lock_products_for_items locks their stores too.
StoreLocked(s) ==
    \E r \in Requests :
        /\ request[r].step = "place"
        /\ \E l \in request[r].lines : StoreOf[l.product] = s

\* _get_existing_order_for_token
TokenUsed(t) == \E o \in orders : o.token = t

-----------------------------------------------------------------------------
(* Cart *)

\* add_product_to_cart: a new line, or more of the line that is there.
AddToCart(c, p, q) ==
    LET old == {l \in cart[c] : l.product = p}
    IN  /\ ~ProductLocked(p) /\ ~StoreLocked(StoreOf[p])
        /\ Public(p) /\ product[p].stock > 0
        /\ \/ /\ old = {}
              /\ q <= product[p].stock
              /\ lastLine < MaxLines
              /\ lastLine' = lastLine + 1
              /\ cart' = [cart EXCEPT ![c] =
                            @ \cup {[id |-> lastLine + 1, product |-> p, quantity |-> q]}]
           \/ \E l \in old :
              /\ l.quantity + q <= product[p].stock
              /\ cart' = [cart EXCEPT ![c] =
                            (@ \ {l}) \cup {[l EXCEPT !.quantity = l.quantity + q]}]
              /\ UNCHANGED lastLine
        /\ UNCHANGED <<catalogVars, sessionVars, request, orders>>

\* update_cart_item_quantity
SetQuantity(c, l, q) ==
    /\ ~LineLocked(l) /\ ~ProductLocked(l.product) /\ ~StoreLocked(StoreOf[l.product])
    /\ Public(l.product) /\ q <= product[l.product].stock
    /\ cart' = [cart EXCEPT ![c] = (@ \ {l}) \cup {[l EXCEPT !.quantity = q]}]
    /\ UNCHANGED <<catalogVars, lastLine, sessionVars, request, orders>>

\* remove_cart_item
RemoveLine(c, l) ==
    /\ ~LineLocked(l)
    /\ cart' = [cart EXCEPT ![c] = @ \ {l}]
    /\ UNCHANGED <<catalogVars, lastLine, sessionVars, request, orders>>

\* clear_cart waits for the lines that are locked.
ClearCart(c) ==
    /\ \A l \in cart[c] : ~LineLocked(l)
    /\ cart' = [cart EXCEPT ![c] = {}]
    /\ UNCHANGED <<catalogVars, lastLine, sessionVars, request, orders>>

-----------------------------------------------------------------------------
(* Checkout *)

Goto(r, step) == request' = [request EXCEPT ![r].step = step]

Done(step) ==
    [step |-> step, customer |-> NoCustomer, token |-> NoToken, lines |-> {}, items |-> {}]

\* The request ends, and with it its transaction and locks.
Finish(r, step) == request' = [request EXCEPT ![r] = Done(step)]

\* checkout_preview_view: a fresh token replaces the one in the session.
Preview(c) ==
    /\ lastToken < MaxTokens
    /\ lastToken' = lastToken + 1
    /\ session' = [session EXCEPT ![c] = lastToken + 1]
    /\ issued' = [issued EXCEPT ![c] = @ \cup {lastToken + 1}]
    /\ UNCHANGED <<catalogVars, cartVars, request, orders>>

\* set_delivery_location_view, clear_delivery_location_view,
\* select_saved_address_view, google_start: the response stores the whole
\* session, as it was when the request began.
StoreSession(c) ==
    /\ \E token \in issued[c] \cup {NoToken} : session' = [session EXCEPT ![c] = token]
    /\ UNCHANGED <<catalogVars, cartVars, lastToken, issued, request, orders>>

\* checkout_place_view: the submitted token is the one in the session.
Begin(r, c) ==
    /\ request[r].step \in Ended
    /\ session[c] # NoToken
    /\ request' = [request EXCEPT ![r] =
         [step |-> "lookup", customer |-> c, token |-> session[c], lines |-> {}, items |-> {}]]
    /\ UNCHANGED <<catalogVars, cartVars, sessionVars, orders>>

\* The order of an earlier request with this token is the answer.
LookUpToken(r) ==
    /\ request[r].step = "lookup"
    /\ Goto(r, IF TokenUsed(request[r].token) THEN "clear" ELSE "lock")
    /\ UNCHANGED <<catalogVars, cartVars, sessionVars, orders>>

\* Mutant: the lines are read without waiting for their locks.
LockCartPlain(r) ==
    /\ request[r].step = "lock"
    /\ request' = [request EXCEPT ![r].step = "recheck",
                                 ![r].lines = cart[request[r].customer]]
    /\ UNCHANGED <<catalogVars, cartVars, sessionVars, orders>>

\* _lock_cart_items
LockCart(r) ==
    LET lines == cart[request[r].customer]
    IN  /\ request[r].step = "lock"
        /\ \A l \in lines : ~LineLocked(l) /\ ~ProductLocked(l.product)
        /\ request' = [request EXCEPT ![r].step = "recheck", ![r].lines = lines]
        /\ UNCHANGED <<catalogVars, cartVars, sessionVars, orders>>

\* Mutant: the token is not looked up again.
RecheckCart(r) ==
    /\ request[r].step = "recheck"
    /\ \/ request[r].lines = {} /\ Finish(r, "refused")
       \/ request[r].lines # {} /\ Goto(r, "validate")
    /\ UNCHANGED <<catalogVars, cartVars, sessionVars, orders>>

\* The token once more, now that a concurrent winner has committed, and only
\* then the empty cart.
Recheck(r) ==
    /\ request[r].step = "recheck"
    /\ \/ /\ TokenUsed(request[r].token)
          /\ Goto(r, "clear")
       \/ /\ ~TokenUsed(request[r].token) /\ request[r].lines = {}
          /\ Finish(r, "refused")
       \/ /\ ~TokenUsed(request[r].token) /\ request[r].lines # {}
          /\ Goto(r, "validate")
    /\ UNCHANGED <<catalogVars, cartVars, sessionVars, orders>>

\* _lock_products_for_items and _build_validated_lines: a price for each line,
\* or a refusal.
Validate(r) ==
    /\ request[r].step = "validate"
    /\ \A l \in request[r].lines : ~StoreLocked(StoreOf[l.product])
    /\ \/ /\ \A l \in request[r].lines : Sellable(l)
          /\ request' = [request EXCEPT
               ![r].step = "place",
               ![r].items = {[line |-> l.id, product |-> l.product, quantity |-> l.quantity,
                              price |-> product[l.product].price] : l \in request[r].lines}]
       \/ /\ \E l \in request[r].lines : ~Sellable(l)
          /\ Finish(r, "refused")
    /\ UNCHANGED <<catalogVars, cartVars, sessionVars, orders>>

\* _resolve_fulfillment: no such address, pickup location or payment method.
RefuseFulfillment(r) ==
    /\ request[r].step = "place"
    /\ Finish(r, "refused")
    /\ UNCHANGED <<catalogVars, cartVars, sessionVars, orders>>

\* The order with its items, the deduction of each item's stock, the deletion
\* of the cart's lines, and the commit.
Place(r) ==
    LET q == request[r]
        sold(p) == {i \in q.items : i.product = p}
    IN  /\ q.step = "place"
        /\ orders' = orders \cup
             {[token |-> q.token, customer |-> q.customer, items |-> q.items]}
        /\ product' = [p \in Products |->
             IF sold(p) = {} THEN product[p]
             ELSE [product[p] EXCEPT !.stock = @ - (CHOOSE i \in sold(p) : TRUE).quantity]]
        /\ cart' = [cart EXCEPT ![q.customer] = {}]
        /\ Goto(r, "clear")
        /\ UNCHANGED <<open, lastLine, sessionVars>>

\* clear_checkout_token: the response saves the session without a token.
ClearToken(r) ==
    /\ request[r].step = "clear"
    /\ session' = [session EXCEPT ![request[r].customer] = NoToken]
    /\ Finish(r, "answered")
    /\ UNCHANGED <<catalogVars, cartVars, lastToken, issued, orders>>

\* The worker is killed: an open transaction is rolled back, the session stays.
LoseWorker(r) ==
    /\ request[r].step \notin Ended
    /\ Finish(r, "idle")
    /\ UNCHANGED <<catalogVars, cartVars, sessionVars, orders>>

-----------------------------------------------------------------------------
(* The other portals *)

\* Edits, approvals and deactivations of a product update its row.
EditProduct(p, price, onSale) ==
    /\ ~ProductLocked(p)
    /\ product' = [product EXCEPT ![p].price = price, ![p].onSale = onSale]
    /\ UNCHANGED <<open, cartVars, sessionVars, request, orders>>

\* apply_stock_movement
MoveStock(p, stock) ==
    /\ ~ProductLocked(p)
    /\ product' = [product EXCEPT ![p].stock = stock]
    /\ UNCHANGED <<open, cartVars, sessionVars, request, orders>>

\* record_status_change updates the store's row.
SetStoreActive(s, active) ==
    /\ ~StoreLocked(s)
    /\ open' = [open EXCEPT ![s] = active]
    /\ UNCHANGED <<product, cartVars, sessionVars, request, orders>>

-----------------------------------------------------------------------------
(* Specification *)

Init ==
    /\ \E price \in Prices :
         product = [p \in Products |->
                      [stock |-> InitialStock[p], price |-> price, onSale |-> TRUE]]
    /\ open = [s \in Stores |-> TRUE]
    /\ cart = [c \in Customers |-> {}]
    /\ lastLine = 0
    /\ session = [c \in Customers |-> NoToken]
    /\ lastToken = NoToken
    /\ issued = [c \in Customers |-> {}]
    /\ request = [r \in Requests |-> Done("idle")]
    /\ orders = {}

CartStep ==
    \E c \in Customers :
        \/ \E p \in Products, q \in Quantities : AddToCart(c, p, q)
        \/ \E l \in cart[c], q \in Quantities : SetQuantity(c, l, q)
        \/ \E l \in cart[c] : RemoveLine(c, l)
        \/ ClearCart(c)
        \/ Preview(c) \/ StoreSession(c)

CheckoutStep ==
    \E r \in Requests :
        \/ \E c \in Customers : Begin(r, c)
        \/ LookUpToken(r)
        \/ LockCart(r)
        \/ Recheck(r)
        \/ Validate(r)
        \/ RefuseFulfillment(r)
        \/ Place(r)
        \/ ClearToken(r)
        \/ LoseWorker(r)

PortalStep ==
    \/ \E p \in Products, price \in Prices, onSale \in BOOLEAN : EditProduct(p, price, onSale)
    \/ \E p \in Products, stock \in 0 .. MaxStock : MoveStock(p, stock)
    \/ \E s \in Stores, active \in BOOLEAN : SetStoreActive(s, active)

Next == CartStep \/ CheckoutStep \/ PortalStep

Spec == Init /\ [][Next]_vars

-----------------------------------------------------------------------------
(* Properties *)

Lines == [id : 1 .. MaxLines, product : Products, quantity : 1 .. MaxStock]

Items == [line : 1 .. MaxLines, product : Products, quantity : 1 .. MaxStock, price : Prices]

Steps == Ended \cup {"lookup", "lock", "recheck", "validate", "place", "clear"}

\* Every variable holds values of its type; in particular no stock is negative.
TypeOK ==
    /\ product \in [Products -> [stock : 0 .. MaxStock, price : Prices, onSale : BOOLEAN]]
    /\ open \in [Stores -> BOOLEAN]
    /\ cart \in [Customers -> SUBSET Lines]
    /\ lastLine \in 0 .. MaxLines
    /\ session \in [Customers -> 0 .. MaxTokens]
    /\ lastToken \in 0 .. MaxTokens
    /\ issued \in [Customers -> SUBSET (1 .. MaxTokens)]
    /\ request \in [Requests -> [step : Steps, customer : Customers \cup {NoCustomer},
                                 token : 0 .. MaxTokens, lines : SUBSET Lines,
                                 items : SUBSET Items]]
    /\ orders \subseteq [token : 1 .. MaxTokens, customer : Customers, items : SUBSET Items]

\* A checkout token places at most one order however its form is repeated, in
\* parallel, after a crash or after another page has put the spent token back
\* into the session, and although the lookups of the token and the order's
\* insertion are separate statements.
OneOrderPerToken == \A o, n \in orders : o.token = n.token => o = n

\* No cart line is ordered twice, whatever tokens two tabs hold, and an
\* ordered line is in no cart any more.
OrderedOnce ==
    /\ \A o, n \in orders : \A i \in o.items, j \in n.items : i.line = j.line => o = n /\ i = j
    /\ \A o \in orders, c \in Customers : \A i \in o.items, l \in cart[c] : i.line # l.id

\* An order is placed only of products that are, when it commits, on sale in
\* an active store, at their price of that moment, and in stock.
OrderedAsOffered ==
    [][\A o \in orders' \ orders : \A i \in o.items :
         /\ Public(i.product)
         /\ i.price = product[i.product].price
         /\ product[i.product].stock' = product[i.product].stock - i.quantity]_vars

\* A repeated request finds the order of its token: whatever an earlier or a
\* concurrent request with it has done to the cart, the stock and the session,
\* no check refuses it once that order exists, and the answer is an order of
\* this token and of this customer (_get_existing_order_for_token).
RetryAnswered ==
    [][\A r \in Requests :
         request[r].step \notin Ended =>
            /\ request'[r].step = "refused" => ~TokenUsed(request[r].token)
            /\ request'[r].step = "answered" =>
                  \E o \in orders : o.token = request[r].token /\ o.customer = request[r].customer]_vars

\* "Revalidate every cart line", "Clear CartItems only after every prior step
\* succeeds": the lines a checkout deletes are the lines of its order.
ClearsOnlyOrderedLines ==
    [][\A o \in orders' \ orders : \A l \in cart[o.customer] :
         \E i \in o.items : i.line = l.id]_vars
=============================================================================
