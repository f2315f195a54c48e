---------------------------- MODULE CheckoutProofs ----------------------------
(***************************************************************************)
(* Proofs about Checkout, for any number of customers, requests at work,   *)
(* products and tokens.                                                    *)
(***************************************************************************)
EXTENDS Checkout, TLAPS

\* A request that holds the locks of its cart lines.
Locking(r) == request[r].step \in {"recheck", "validate", "place"}

\* Cart lines have their ids to themselves, and a cart has one line per product.
CartsApart ==
    /\ \A c, d \in Customers : \A l \in cart[c], m \in cart[d] :
          l.id = m.id => c = d /\ l = m
    /\ \A c \in Customers : \A l, m \in cart[c] : l.product = m.product => l = m
    /\ \A c \in Customers : \A l \in cart[c] : l.id <= lastLine

\* What a request has locked is in its customer's cart as it was read.
LocksHold ==
    \A r \in Requests :
        Locking(r) =>
            /\ request[r].customer \in Customers
            /\ request[r].lines \subseteq cart[request[r].customer]

\* No two requests have locked a product, or lines of a customer, together.
LocksApart ==
    \A r, q \in Requests :
        r # q /\ Locking(r) /\ Locking(q) =>
            \A l \in request[r].lines, m \in request[q].lines :
                /\ l.product # m.product
                /\ request[r].customer # request[q].customer

\* A token is in the hands of one customer, whoever was issued it, though a
\* session may hold any of them again.
TokensOwned ==
    /\ \A c \in Customers : session[c] \in issued[c] \cup {NoToken}
    /\ \A c \in Customers : \A token \in issued[c] : token <= lastToken
    /\ \A c, d \in Customers : issued[c] \cap issued[d] # {} => c = d
    /\ \A r \in Requests :
          request[r].step \notin Ended => request[r].token \in issued[request[r].customer]
    /\ \A o \in orders : o.token \in issued[o.customer]

\* A request at work has a token and a customer.
AtWork ==
    \A r \in Requests :
        request[r].step \notin Ended =>
            request[r].token # NoToken /\ request[r].customer \in Customers

\* A request past the second lookup has lines to order and a token that no
\* order has, which no other request can use while the lines are locked.
TokensFresh ==
    \A r \in Requests :
        request[r].step \in {"validate", "place"} =>
            request[r].lines # {} /\ ~TokenUsed(request[r].token)

\* A request that goes on to its answer has an order to answer with.
AnswersReady ==
    \A r \in Requests : request[r].step = "clear" => TokenUsed(request[r].token)

\* The items of a validated request are its lines at the current prices, on
\* sale and in stock.
ItemsChecked ==
    \A r \in Requests :
        request[r].step = "place" =>
            /\ request[r].items =
                 {[line |-> l.id, product |-> l.product, quantity |-> l.quantity,
                   price |-> product[l.product].price] : l \in request[r].lines}
            /\ \A l \in request[r].lines : Sellable(l)

\* An ordered line was a cart line once.
OrderedLinesOld == \A o \in orders : \A i \in o.items : i.line <= lastLine

\* The inductive invariant.
IInv ==
    /\ TypeOK
    /\ CartsApart
    /\ LocksHold
    /\ LocksApart
    /\ TokensOwned
    /\ AtWork
    /\ TokensFresh
    /\ AnswersReady
    /\ ItemsChecked
    /\ OrderedLinesOld
    /\ OneOrderPerToken
    /\ OrderedOnce

-----------------------------------------------------------------------------
(* Requests that end *)

\* A request may end at any time: it gives up its locks and its token, and a
\* session may lose its own.
LEMMA EndingKeeps ==
    ASSUME IInv, NEW r \in Requests, NEW step \in Ended, Finish(r, step),
           UNCHANGED <<catalogVars, cartVars, lastToken, issued, orders>>,
           session' \in [Customers -> 0 .. MaxTokens],
           \A c \in Customers : session'[c] \in {session[c], NoToken}
    PROVE  IInv'
<1> DEFINE done == [step |-> step, customer |-> NoCustomer, token |-> NoToken,
                    lines |-> {}, items |-> {}]
<1> USE DEF catalogVars, cartVars
<1>1. /\ request' = [request EXCEPT ![r] = done]
      /\ request'[r] = done
      /\ \A q \in Requests \ {r} : request'[q] = request[q]
  BY DEF Finish, Done, IInv, TypeOK
<1>2. step \notin {"recheck", "validate", "place", "clear"}
  BY DEF Ended
<1>3. TypeOK'
  <2>1. done \in [step : Steps, customer : Customers \cup {NoCustomer},
                  token : 0 .. MaxTokens, lines : SUBSET Lines, items : SUBSET Items]
    BY CheckoutAssumption DEF Steps, NoToken
  <2>2. QED
    BY <1>1, <2>1 DEF IInv, TypeOK, Lines, Items
<1>4. CartsApart'
  BY DEF IInv, CartsApart
<1>5. LocksHold' /\ LocksApart'
  BY <1>1, <1>2 DEF IInv, LocksHold, LocksApart, Locking
<1>6. TokensOwned'
  BY <1>1 DEF IInv, TokensOwned
<1>7. AtWork'
  BY <1>1 DEF IInv, AtWork
<1>8. TokensFresh' /\ AnswersReady'
  BY <1>1, <1>2 DEF IInv, TokensFresh, AnswersReady, TokenUsed
<1>9. ItemsChecked'
  BY <1>1, <1>2 DEF IInv, ItemsChecked, Sellable, Public
<1>10. OrderedLinesOld' /\ OneOrderPerToken' /\ OrderedOnce'
  BY DEF IInv, OrderedLinesOld, OneOrderPerToken, OrderedOnce
<1>11. QED
  BY <1>3, <1>4, <1>5, <1>6, <1>7, <1>8, <1>9, <1>10 DEF IInv

-----------------------------------------------------------------------------
(* The other portals *)

\* What a portal may change of products and stores while checkouts are at
\* work: nothing that a validated request has read and locked.
LEMMA PortalKeeps ==
    ASSUME IInv, PortalStep
    PROVE  IInv'
<1>1. UNCHANGED <<cart, lastLine, session, lastToken, issued, request, orders>>
  BY DEF PortalStep, EditProduct, MoveStock, SetStoreActive, cartVars, sessionVars
<1>2. ASSUME NEW r \in Requests, request[r].step = "place", NEW l \in request[r].lines
      PROVE  /\ product'[l.product] = product[l.product]
             /\ open'[StoreOf[l.product]] = open[StoreOf[l.product]]
  <2>1. ProductLocked(l.product) /\ StoreLocked(StoreOf[l.product])
    BY <1>2 DEF ProductLocked, StoreLocked
  <2>2. product \in [Products -> [stock : 0 .. MaxStock, price : Prices, onSale : BOOLEAN]]
        /\ open \in [Stores -> BOOLEAN] /\ request[r].lines \subseteq Lines
    BY DEF IInv, TypeOK
  <2>3. l.product \in Products
    BY <1>2, <2>2 DEF Lines
  <2>4. CASE \E p \in Products, price \in Prices, onSale \in BOOLEAN : EditProduct(p, price, onSale)
    BY <2>1, <2>2, <2>3, <2>4 DEF EditProduct
  <2>5. CASE \E p \in Products, stock \in 0 .. MaxStock : MoveStock(p, stock)
    BY <2>1, <2>2, <2>3, <2>5 DEF MoveStock
  <2>6. CASE \E s \in Stores, active \in BOOLEAN : SetStoreActive(s, active)
    BY <2>1, <2>2, <2>3, <2>6 DEF SetStoreActive
  <2>7. QED
    BY <2>4, <2>5, <2>6 DEF PortalStep
<1>3. TypeOK'
  <2>1. /\ product' \in [Products -> [stock : 0 .. MaxStock, price : Prices, onSale : BOOLEAN]]
        /\ open' \in [Stores -> BOOLEAN]
    <3> DEFINE Row == [stock : 0 .. MaxStock, price : Prices, onSale : BOOLEAN]
    <3>1. product \in [Products -> Row] /\ open \in [Stores -> BOOLEAN]
      BY DEF IInv, TypeOK
    <3>2. ASSUME NEW p \in Products, NEW price \in Prices, NEW onSale \in BOOLEAN,
                 EditProduct(p, price, onSale)
          PROVE  product' \in [Products -> Row] /\ open' = open
      BY <3>1, <3>2 DEF EditProduct
    <3>3. ASSUME NEW p \in Products, NEW stock \in 0 .. MaxStock, MoveStock(p, stock)
          PROVE  product' \in [Products -> Row] /\ open' = open
      BY <3>1, <3>3 DEF MoveStock
    <3>4. ASSUME NEW s \in Stores, NEW active \in BOOLEAN, SetStoreActive(s, active)
          PROVE  product' = product /\ open' \in [Stores -> BOOLEAN]
      BY <3>1, <3>4 DEF SetStoreActive
    <3>5. QED
      BY <3>1, <3>2, <3>3, <3>4 DEF PortalStep
  <2>2. QED
    BY <1>1, <2>1 DEF IInv, TypeOK
<1>4. CartsApart' /\ LocksHold' /\ LocksApart'
  BY <1>1 DEF IInv, CartsApart, LocksHold, LocksApart, Locking
<1>5. TokensOwned' /\ AtWork' /\ TokensFresh' /\ AnswersReady'
  BY <1>1 DEF IInv, TokensOwned, AtWork, TokensFresh, AnswersReady, TokenUsed
<1>6. ItemsChecked'
  <2>1. ASSUME NEW r \in Requests, request[r].step = "place"
        PROVE  /\ request[r].items =
                    {[line |-> l.id, product |-> l.product, quantity |-> l.quantity,
                      price |-> product'[l.product].price] : l \in request[r].lines}
               /\ \A l \in request[r].lines : Sellable(l)'
    <3>1. /\ request[r].items =
               {[line |-> l.id, product |-> l.product, quantity |-> l.quantity,
                 price |-> product[l.product].price] : l \in request[r].lines}
          /\ \A l \in request[r].lines : Sellable(l)
      BY <2>1 DEF IInv, ItemsChecked
    <3>2. \A l \in request[r].lines : product'[l.product] = product[l.product]
      BY <1>2, <2>1
    <3>3. QED
      BY <1>2, <2>1, <3>1, <3>2 DEF Sellable, Public
  <2>2. QED
    BY <1>1, <2>1 DEF ItemsChecked
<1>7. OrderedLinesOld' /\ OneOrderPerToken' /\ OrderedOnce'
  BY <1>1 DEF IInv, OrderedLinesOld, OneOrderPerToken, OrderedOnce
<1>8. QED
  BY <1>3, <1>4, <1>5, <1>6, <1>7 DEF IInv

-----------------------------------------------------------------------------
(* Carts *)

\* A cart may change to lines it had, perhaps in another quantity, and one
\* new line of another product, as long as the lines that are locked stay.
LEMMA CartKeeps ==
    ASSUME IInv, NEW c \in Customers, NEW new \in SUBSET Lines,
           cart' = [cart EXCEPT ![c] = new],
           lastLine' \in lastLine .. MaxLines,
           UNCHANGED <<catalogVars, sessionVars, request, orders>>,
           \A l \in new :
              \/ \E m \in cart[c] : m.id = l.id
              \/ l.id = lastLine + 1 /\ lastLine' = lastLine + 1,
           \A l, m \in new : l.id = m.id \/ l.product = m.product => l = m,
           \A l \in cart[c] : LineLocked(l) => l \in new
    PROVE  IInv'
<1> USE DEF catalogVars, sessionVars
<1>1. /\ cart \in [Customers -> SUBSET Lines]
      /\ lastLine \in 0 .. MaxLines /\ lastLine' \in 0 .. MaxLines
      /\ lastLine <= lastLine'
  BY CheckoutAssumption DEF IInv, TypeOK
<1>2. cart'[c] = new /\ \A d \in Customers \ {c} : cart'[d] = cart[d]
  BY <1>1
<1>3. TypeOK'
  BY <1>1 DEF IInv, TypeOK
<1>4. \A d \in Customers : \A l \in cart[d] : l.id \in Nat /\ l.id <= lastLine
  BY <1>1 DEF IInv, CartsApart, Lines
<1>5. \A l \in new : \A d \in Customers \ {c} : \A m \in cart[d] : l.id # m.id
  BY <1>1, <1>4 DEF IInv, CartsApart
<1>6. CartsApart'
  <2>1. \A d, e \in Customers : \A l \in cart'[d], m \in cart'[e] :
          l.id = m.id => d = e /\ l = m
    BY <1>2, <1>5 DEF IInv, CartsApart
  <2>2. \A d \in Customers : \A l, m \in cart'[d] : l.product = m.product => l = m
    BY <1>2 DEF IInv, CartsApart
  <2>3. \A d \in Customers : \A l \in cart'[d] : l.id <= lastLine'
    BY <1>1, <1>2, <1>4
  <2>4. QED
    BY <2>1, <2>2, <2>3 DEF CartsApart
<1>7. LocksHold'
  <2>1. ASSUME NEW r \in Requests, Locking(r), NEW l \in request[r].lines
        PROVE  l \in cart'[request[r].customer]
    <3>1. request[r].customer \in Customers /\ l \in cart[request[r].customer]
      BY <2>1 DEF IInv, LocksHold
    <3>2. LineLocked(l)
      BY <2>1 DEF LineLocked, Locking
    <3>3. QED
      BY <1>2, <3>1, <3>2
  <2>2. QED
    BY <2>1 DEF IInv, LocksHold, Locking
<1>8. LocksApart' /\ TokensOwned' /\ AtWork' /\ TokensFresh' /\ AnswersReady'
  BY DEF IInv, LocksApart, Locking, TokensOwned, AtWork, TokensFresh, AnswersReady, TokenUsed
<1>9. ItemsChecked'
  BY DEF IInv, ItemsChecked, Sellable, Public
<1>10. OrderedLinesOld'
  <2>1. \A o \in orders : \A i \in o.items : i.line \in Nat
    BY DEF IInv, TypeOK, Items
  <2>2. QED
    BY <1>1, <2>1 DEF IInv, OrderedLinesOld
<1>11. OneOrderPerToken'
  BY DEF IInv, OneOrderPerToken
<1>12. OrderedOnce'
  <2>1. ASSUME NEW o \in orders, NEW i \in o.items, NEW l \in new
        PROVE  i.line # l.id
    <3>1. i.line \in Nat /\ i.line <= lastLine
      BY <2>1 DEF IInv, TypeOK, Items, OrderedLinesOld
    <3>2. CASE \E m \in cart[c] : m.id = l.id
      BY <2>1, <3>2 DEF IInv, OrderedOnce
    <3>3. CASE l.id = lastLine + 1
      BY <1>1, <3>1, <3>3
    <3>4. QED
      BY <2>1, <3>2, <3>3
  <2>2. QED
    BY <1>2, <2>1 DEF IInv, OrderedOnce
<1>13. QED
  BY <1>3, <1>6, <1>7, <1>8, <1>9, <1>10, <1>11, <1>12 DEF IInv

\* A locked line of a cart is one a request has read, with its product.
LEMMA LockedWithProduct ==
    ASSUME IInv, NEW c \in Customers, NEW l \in cart[c], LineLocked(l)
    PROVE  ProductLocked(l.product)
<1>1. PICK r \in Requests : Locking(r) /\ \E m \in request[r].lines : m.id = l.id
  BY DEF LineLocked, Locking
<1>2. PICK m \in request[r].lines : m.id = l.id
  BY <1>1
<1>3. m = l
  BY <1>1, <1>2 DEF IInv, LocksHold, CartsApart
<1>4. QED
  BY <1>1, <1>2, <1>3 DEF ProductLocked, Locking

LEMMA AddToCartKeeps ==
    ASSUME IInv, NEW c \in Customers, NEW p \in Products, NEW q \in Quantities,
           AddToCart(c, p, q)
    PROVE  IInv'
<1> DEFINE old == {l \in cart[c] : l.product = p}
<1>1. /\ product[p].stock \in 0 .. MaxStock
      /\ cart \in [Customers -> SUBSET Lines] /\ lastLine \in 0 .. MaxLines
      /\ q \in Nat \ {0} /\ MaxStock \in Nat /\ MaxLines \in Nat
  BY CheckoutAssumption DEF IInv, TypeOK
<1>2. UNCHANGED <<catalogVars, sessionVars, request, orders>>
  BY DEF AddToCart
<1>3. CASE /\ old = {}
           /\ q <= product[p].stock
           /\ lastLine < MaxLines
           /\ lastLine' = lastLine + 1
           /\ cart' = [cart EXCEPT ![c] =
                         @ \cup {[id |-> lastLine + 1, product |-> p, quantity |-> q]}]
  <2> DEFINE line == [id |-> lastLine + 1, product |-> p, quantity |-> q]
             new == cart[c] \cup {line}
  <2>1. line \in Lines /\ line.id = lastLine + 1 /\ line.product = p
    BY <1>1, <1>3 DEF Lines
  <2>2. cart' = [cart EXCEPT ![c] = new] /\ new \in SUBSET Lines
    BY <1>1, <1>3, <2>1
  <2>3. lastLine' \in lastLine .. MaxLines
    BY <1>1, <1>3
  <2>4. \A l \in cart[c] : l.id # lastLine + 1 /\ l.product # p
    <3>1. \A l \in cart[c] : l.id \in Nat /\ l.id <= lastLine
      BY <1>1 DEF IInv, CartsApart, Lines
    <3>2. QED
      BY <1>1, <1>3, <3>1
  <2>5. \A l, m \in new : l.id = m.id \/ l.product = m.product => l = m
    BY <2>1, <2>4 DEF IInv, CartsApart
  <2>6. \A l \in new : \/ \E m \in cart[c] : m.id = l.id
                       \/ l.id = lastLine + 1 /\ lastLine' = lastLine + 1
    BY <1>3, <2>1
  <2>7. \A l \in cart[c] : LineLocked(l) => l \in new
    OBVIOUS
  <2> HIDE DEF new, line
  <2>8. QED
    BY <1>2, <2>2, <2>3, <2>5, <2>6, <2>7, CartKeeps
<1>4. ASSUME NEW l \in old,
             l.quantity + q <= product[p].stock,
             cart' = [cart EXCEPT ![c] =
                        (@ \ {l}) \cup {[l EXCEPT !.quantity = l.quantity + q]}],
             UNCHANGED lastLine
      PROVE  IInv'
  <2> DEFINE line == [l EXCEPT !.quantity = l.quantity + q]
             new == (cart[c] \ {l}) \cup {line}
  <2>1. /\ l \in cart[c] /\ l \in Lines /\ l.product = p
        /\ line \in Lines /\ line.id = l.id /\ line.product = l.product
    BY <1>1, <1>4 DEF Lines
  <2>2. cart' = [cart EXCEPT ![c] = new] /\ new \in SUBSET Lines
    BY <1>1, <1>4, <2>1
  <2>3. lastLine' \in lastLine .. MaxLines
    BY <1>1, <1>4
  <2>4. \A k, m \in new : k.id = m.id \/ k.product = m.product => k = m
    <3>1. \A k, m \in cart[c] : k.id = m.id \/ k.product = m.product => k = m
      BY DEF IInv, CartsApart
    <3>2. \A k \in cart[c] \ {l} : k.id # line.id /\ k.product # line.product
      BY <2>1, <3>1
    <3> HIDE DEF line
    <3>3. QED
      BY <3>1, <3>2
  <2>5. \A k \in new : \/ \E m \in cart[c] : m.id = k.id
                       \/ k.id = lastLine + 1 /\ lastLine' = lastLine + 1
    BY <2>1
  <2>6. ~LineLocked(l)
    BY <2>1, LockedWithProduct DEF AddToCart
  <2>7. \A m \in cart[c] : LineLocked(m) => m \in new
    BY <2>6
  <2> HIDE DEF new, line
  <2>8. QED
    BY <1>2, <2>2, <2>3, <2>4, <2>5, <2>7, CartKeeps
<1>5. QED
  BY <1>3, <1>4 DEF AddToCart

LEMMA SetQuantityKeeps ==
    ASSUME IInv, NEW c \in Customers, NEW l \in cart[c], NEW q \in Quantities,
           SetQuantity(c, l, q)
    PROVE  IInv'
<1> DEFINE line == [l EXCEPT !.quantity = q]
           new == (cart[c] \ {l}) \cup {line}
<1>1. /\ cart \in [Customers -> SUBSET Lines] /\ lastLine \in 0 .. MaxLines
      /\ product \in [Products -> [stock : 0 .. MaxStock, price : Prices, onSale : BOOLEAN]]
      /\ q \in Nat \ {0} /\ MaxStock \in Nat /\ MaxLines \in Nat
  BY CheckoutAssumption DEF IInv, TypeOK
<1>2. l \in Lines /\ l.product \in Products
  BY <1>1 DEF Lines
<1>3. q \in 1 .. MaxStock
  BY <1>1, <1>2 DEF SetQuantity
<1>4. line \in Lines /\ line.id = l.id /\ line.product = l.product
  BY <1>2, <1>3 DEF Lines
<1>5. cart' = [cart EXCEPT ![c] = new] /\ new \in SUBSET Lines
  BY <1>1, <1>4 DEF SetQuantity
<1>6. lastLine' \in lastLine .. MaxLines
  BY <1>1 DEF SetQuantity
<1>7. \A k, m \in new : k.id = m.id \/ k.product = m.product => k = m
  <2>1. \A k, m \in cart[c] : k.id = m.id \/ k.product = m.product => k = m
    BY DEF IInv, CartsApart
  <2>2. \A k \in cart[c] \ {l} : k.id # line.id /\ k.product # line.product
    BY <1>4, <2>1
  <2> HIDE DEF line
  <2>3. QED
    BY <2>1, <2>2
<1>8. \A k \in new : \/ \E m \in cart[c] : m.id = k.id
                     \/ k.id = lastLine + 1 /\ lastLine' = lastLine + 1
  BY <1>4
<1>9. \A m \in cart[c] : LineLocked(m) => m \in new
  BY DEF SetQuantity
<1>10. UNCHANGED <<catalogVars, sessionVars, request, orders>>
  BY DEF SetQuantity
<1> HIDE DEF new, line
<1>11. QED
  BY <1>5, <1>6, <1>7, <1>8, <1>9, <1>10, CartKeeps

LEMMA RemovingKeeps ==
    ASSUME IInv, NEW c \in Customers, NEW new \in SUBSET cart[c],
           cart' = [cart EXCEPT ![c] = new],
           \A l \in cart[c] : LineLocked(l) => l \in new,
           UNCHANGED <<catalogVars, lastLine, sessionVars, request, orders>>
    PROVE  IInv'
<1>1. cart[c] \subseteq Lines /\ lastLine \in 0 .. MaxLines /\ MaxLines \in Nat
  BY CheckoutAssumption DEF IInv, TypeOK
<1>2. new \in SUBSET Lines /\ lastLine' \in lastLine .. MaxLines
  BY <1>1
<1>3. \A k, m \in new : k.id = m.id \/ k.product = m.product => k = m
  BY DEF IInv, CartsApart
<1>4. \A k \in new : \/ \E m \in cart[c] : m.id = k.id
                     \/ k.id = lastLine + 1 /\ lastLine' = lastLine + 1
  OBVIOUS
<1>5. QED
  BY <1>2, <1>3, <1>4, CartKeeps

\* A new token is in nobody's hands.
LEMMA PreviewKeeps ==
    ASSUME IInv, NEW c \in Customers, Preview(c)
    PROVE  IInv'
<1> USE DEF catalogVars, cartVars
<1>1. /\ session \in [Customers -> 0 .. MaxTokens] /\ lastToken \in 0 .. MaxTokens
      /\ lastToken' = lastToken + 1 /\ lastToken' \in 0 .. MaxTokens
      /\ session'[c] = lastToken + 1
      /\ \A d \in Customers \ {c} : session'[d] = session[d]
      /\ session' \in [Customers -> 0 .. MaxTokens]
      /\ issued'[c] = issued[c] \cup {lastToken + 1}
      /\ \A d \in Customers \ {c} : issued'[d] = issued[d]
      /\ issued' \in [Customers -> SUBSET (1 .. MaxTokens)]
      /\ MaxTokens \in Nat
  BY CheckoutAssumption DEF IInv, TypeOK, Preview
<1>2. UNCHANGED <<product, open, cart, lastLine, request, orders>>
  BY DEF Preview
<1>3. TypeOK'
  BY <1>1, <1>2 DEF IInv, TypeOK
<1>4. TokensOwned'
  <2>1. \A d \in Customers : issued[d] \subseteq issued'[d] /\ lastToken + 1 \notin issued[d]
    BY <1>1 DEF IInv, TypeOK, TokensOwned
  <2>2. \A d, e \in Customers : issued'[d] \cap issued'[e] # {} => d = e
    BY <1>1, <2>1 DEF IInv, TokensOwned
  <2>3. \A d \in Customers : session'[d] \in issued'[d] \cup {NoToken}
    BY <1>1 DEF IInv, TokensOwned
  <2>4. \A d \in Customers : \A token \in issued'[d] : token <= lastToken'
    <3>1. \A d \in Customers : \A token \in issued[d] : token \in Nat /\ token <= lastToken
      BY <1>1 DEF IInv, TypeOK, TokensOwned
    <3>2. QED
      BY <1>1, <3>1
  <2>5. \A r \in Requests :
          request[r].step \notin Ended => request[r].token \in issued'[request[r].customer]
    BY <2>1 DEF IInv, TokensOwned, AtWork
  <2>6. \A o \in orders : o.token \in issued'[o.customer]
    BY <2>1 DEF IInv, TypeOK, TokensOwned
  <2>7. QED
    BY <1>2, <2>2, <2>3, <2>4, <2>5, <2>6 DEF TokensOwned
<1>5. CartsApart' /\ LocksHold' /\ LocksApart'
  BY <1>2 DEF IInv, CartsApart, LocksHold, LocksApart, Locking
<1>6. AtWork' /\ TokensFresh' /\ AnswersReady' /\ ItemsChecked'
  BY <1>2 DEF IInv, AtWork, TokensFresh, AnswersReady, TokenUsed, ItemsChecked, Sellable, Public
<1>7. OrderedLinesOld' /\ OneOrderPerToken' /\ OrderedOnce'
  BY <1>2 DEF IInv, OrderedLinesOld, OneOrderPerToken, OrderedOnce
<1>8. QED
  BY <1>3, <1>4, <1>5, <1>6, <1>7 DEF IInv

\* A token that is put back is one the customer was issued.
LEMMA StoreSessionKeeps ==
    ASSUME IInv, NEW c \in Customers, StoreSession(c)
    PROVE  IInv'
<1> USE DEF catalogVars, cartVars
<1>1. PICK token \in issued[c] \cup {NoToken} : session' = [session EXCEPT ![c] = token]
  BY DEF StoreSession
<1>2. UNCHANGED <<product, open, cart, lastLine, lastToken, issued, request, orders>>
  BY DEF StoreSession
<1>3. /\ session \in [Customers -> 0 .. MaxTokens] /\ issued[c] \subseteq 1 .. MaxTokens
      /\ MaxTokens \in Nat
  BY CheckoutAssumption DEF IInv, TypeOK
<1>4. /\ session' \in [Customers -> 0 .. MaxTokens]
      /\ session'[c] = token
      /\ \A d \in Customers \ {c} : session'[d] = session[d]
  BY <1>1, <1>3 DEF NoToken
<1>5. TypeOK'
  BY <1>2, <1>4 DEF IInv, TypeOK
<1>6. TokensOwned'
  BY <1>1, <1>2, <1>4 DEF IInv, TokensOwned
<1>7. CartsApart' /\ LocksHold' /\ LocksApart'
  BY <1>2 DEF IInv, CartsApart, LocksHold, LocksApart, Locking
<1>8. AtWork' /\ TokensFresh' /\ AnswersReady' /\ ItemsChecked'
  BY <1>2 DEF IInv, AtWork, TokensFresh, AnswersReady, TokenUsed, ItemsChecked, Sellable, Public
<1>9. OrderedLinesOld' /\ OneOrderPerToken' /\ OrderedOnce'
  BY <1>2 DEF IInv, OrderedLinesOld, OneOrderPerToken, OrderedOnce
<1>10. QED
  BY <1>5, <1>6, <1>7, <1>8, <1>9 DEF IInv

LEMMA CartStepKeeps ==
    ASSUME IInv, CartStep
    PROVE  IInv'
<1>1. ASSUME NEW c \in Customers, NEW l \in cart[c], RemoveLine(c, l)
      PROVE  IInv'
  <2> DEFINE new == cart[c] \ {l}
  <2>1. cart' = [cart EXCEPT ![c] = new] /\ (\A m \in cart[c] : LineLocked(m) => m \in new)
    BY <1>1 DEF RemoveLine
  <2>2. UNCHANGED <<catalogVars, lastLine, sessionVars, request, orders>>
    BY <1>1 DEF RemoveLine
  <2>3. new \in SUBSET cart[c]
    OBVIOUS
  <2> HIDE DEF new
  <2>4. QED
    BY <2>1, <2>2, <2>3, RemovingKeeps
<1>2. ASSUME NEW c \in Customers, ClearCart(c)
      PROVE  IInv'
  BY <1>2, RemovingKeeps DEF ClearCart
<1>3. QED
  BY <1>1, <1>2, AddToCartKeeps, SetQuantityKeeps, PreviewKeeps,
     StoreSessionKeeps DEF CartStep

-----------------------------------------------------------------------------
(* Checkout *)

RequestRecord ==
    [step : Steps, customer : Customers \cup {NoCustomer}, token : 0 .. MaxTokens,
     lines : SUBSET Lines, items : SUBSET Items]

\* A request that goes on keeps its customer and its token.  It keeps the
\* invariant if what it holds and has read afterwards is what it says.
LEMMA GoingOnKeeps ==
    ASSUME IInv, NEW r \in Requests, NEW next \in RequestRecord,
           request' = [request EXCEPT ![r] = next],
           UNCHANGED <<catalogVars, cartVars, sessionVars, orders>>,
           request[r].step \notin Ended,
           next.customer = request[r].customer, next.token = request[r].token,
           next.step \in {"recheck", "validate", "place"} =>
              /\ next.lines \subseteq cart[next.customer]
              /\ \A q \in Requests \ {r} : Locking(q) =>
                    \A l \in next.lines, m \in request[q].lines :
                        l.product # m.product /\ next.customer # request[q].customer,
           next.step \in {"validate", "place"} => next.lines # {} /\ ~TokenUsed(next.token),
           next.step = "clear" => TokenUsed(next.token),
           next.step = "place" =>
              /\ next.items =
                   {[line |-> l.id, product |-> l.product, quantity |-> l.quantity,
                     price |-> product[l.product].price] : l \in next.lines}
              /\ \A l \in next.lines : Sellable(l)
    PROVE  IInv'
<1> USE DEF catalogVars, cartVars, sessionVars
<1>1. /\ request \in [Requests -> RequestRecord]
      /\ request'[r] = next
      /\ \A q \in Requests \ {r} : request'[q] = request[q]
  BY DEF IInv, TypeOK, RequestRecord
<1>2. next.token # NoToken /\ next.customer \in Customers
  BY DEF IInv, AtWork
<1>3. TypeOK'
  BY <1>1 DEF IInv, TypeOK, RequestRecord
<1>4. CartsApart'
  BY DEF IInv, CartsApart
<1>5. LocksHold'
  BY <1>1, <1>2 DEF IInv, LocksHold, Locking
<1>6. LocksApart'
  BY <1>1 DEF IInv, LocksApart, Locking
<1>7. TokensOwned'
  BY <1>1 DEF IInv, TokensOwned
<1>8. AtWork'
  BY <1>1, <1>2 DEF IInv, AtWork
<1>9. TokensFresh' /\ AnswersReady'
  BY <1>1 DEF IInv, TokensFresh, AnswersReady, TokenUsed
<1>10. ItemsChecked'
  <2>1. \A l : Sellable(l)' <=> Sellable(l)
    BY DEF Sellable, Public
  <2>2. ASSUME NEW q \in Requests, request'[q].step = "place"
        PROVE  /\ request'[q].items =
                    {[line |-> l.id, product |-> l.product, quantity |-> l.quantity,
                      price |-> product[l.product].price] : l \in request'[q].lines}
               /\ \A l \in request'[q].lines : Sellable(l)
    <3>1. CASE q = r
      BY <1>1, <2>2, <3>1
    <3>2. CASE q # r
      BY <1>1, <2>2, <3>2 DEF IInv, ItemsChecked
    <3>3. QED
      BY <3>1, <3>2
  <2>3. QED
    BY <2>1, <2>2 DEF ItemsChecked
<1>11. OrderedLinesOld' /\ OneOrderPerToken' /\ OrderedOnce'
  BY DEF IInv, OrderedLinesOld, OneOrderPerToken, OrderedOnce
<1>12. QED
  BY <1>3, <1>4, <1>5, <1>6, <1>7, <1>8, <1>9, <1>10, <1>11 DEF IInv

\* The token in a session is that customer's, so the request that takes it
\* along is in line with all the others that have it.
LEMMA BeginKeeps ==
    ASSUME IInv, NEW r \in Requests, NEW c \in Customers, Begin(r, c)
    PROVE  IInv'
<1> USE DEF catalogVars, cartVars, sessionVars
<1> DEFINE new == [step |-> "lookup", customer |-> c, token |-> session[c],
                   lines |-> {}, items |-> {}]
<1>1. /\ request \in [Requests -> RequestRecord]
      /\ session \in [Customers -> 0 .. MaxTokens] /\ MaxTokens \in Nat
  BY CheckoutAssumption DEF IInv, TypeOK, RequestRecord
<1>2. new \in RequestRecord
  BY <1>1 DEF RequestRecord, Steps
<1>3. /\ request' = [request EXCEPT ![r] = new]
      /\ request'[r] = new
      /\ \A q \in Requests \ {r} : request'[q] = request[q]
      /\ session[c] # NoToken
      /\ UNCHANGED <<product, open, cart, lastLine, session, lastToken, issued, orders>>
  BY <1>1 DEF Begin
<1>4. TypeOK'
  BY <1>1, <1>2, <1>3 DEF IInv, TypeOK, RequestRecord
<1>5. CartsApart'
  BY <1>3 DEF IInv, CartsApart
<1>6. LocksHold' /\ LocksApart'
  BY <1>3 DEF IInv, LocksHold, LocksApart, Locking
<1>7. TokensOwned'
  BY <1>1, <1>3 DEF IInv, TokensOwned
<1>8. AtWork'
  BY <1>3 DEF IInv, AtWork
<1>9. TokensFresh' /\ AnswersReady'
  BY <1>3 DEF IInv, TokensFresh, AnswersReady, TokenUsed
<1>10. ItemsChecked'
  BY <1>3 DEF IInv, ItemsChecked, Sellable, Public
<1>11. OrderedLinesOld' /\ OneOrderPerToken' /\ OrderedOnce'
  BY <1>3 DEF IInv, OrderedLinesOld, OneOrderPerToken, OrderedOnce
<1>12. QED
  BY <1>4, <1>5, <1>6, <1>7, <1>8, <1>9, <1>10, <1>11 DEF IInv

\* Going to a step at which nothing is locked or promised.
LEMMA GotoKeeps ==
    ASSUME IInv, NEW r \in Requests, NEW step \in {"lock", "clear"},
           request[r].step \notin Ended, Goto(r, step),
           step = "clear" => TokenUsed(request[r].token),
           UNCHANGED <<catalogVars, cartVars, sessionVars, orders>>
    PROVE  IInv'
<1> DEFINE next == [request[r] EXCEPT !.step = step]
<1>1. request \in [Requests -> RequestRecord]
  BY DEF IInv, TypeOK, RequestRecord
<1>2. /\ next \in RequestRecord
      /\ next.step = step
      /\ next.customer = request[r].customer /\ next.token = request[r].token
  BY <1>1 DEF RequestRecord, Steps
<1>3. request' = [request EXCEPT ![r] = next]
  BY <1>1 DEF Goto
<1> HIDE DEF next
<1>4. QED
  BY <1>2, <1>3, GoingOnKeeps

LEMMA LookUpTokenKeeps ==
    ASSUME IInv, NEW r \in Requests, LookUpToken(r)
    PROVE  IInv'
<1>1. request[r].step \notin Ended
  BY DEF LookUpToken, Ended
<1>2. \E step \in {"lock", "clear"} :
        Goto(r, step) /\ (step = "clear" => TokenUsed(request[r].token))
  BY DEF LookUpToken
<1>3. QED
  BY <1>1, <1>2, GotoKeeps DEF LookUpToken

\* A request that waits until no line of the cart and no product of them is
\* locked shares nothing with those that hold locks.
LEMMA LockCartKeeps ==
    ASSUME IInv, NEW r \in Requests, LockCart(r)
    PROVE  IInv'
<1> DEFINE c == request[r].customer
           next == [request[r] EXCEPT !.step = "recheck", !.lines = cart[c]]
<1>1. request \in [Requests -> RequestRecord] /\ cart \in [Customers -> SUBSET Lines]
  BY DEF IInv, TypeOK, RequestRecord
<1>2. request[r].step = "lock" /\ request[r].step \notin Ended
  BY DEF LockCart, Ended
<1>3. c \in Customers
  BY <1>2 DEF IInv, AtWork
<1>4. /\ next \in RequestRecord
      /\ next.step = "recheck" /\ next.lines = cart[c]
      /\ next.customer = c /\ next.token = request[r].token
  BY <1>1, <1>3 DEF RequestRecord, Steps
<1>5. request' = [request EXCEPT ![r] = next]
  BY <1>1 DEF LockCart
<1>6. ASSUME NEW q \in Requests \ {r}, Locking(q),
             NEW l \in cart[c], NEW m \in request[q].lines
      PROVE  l.product # m.product /\ c # request[q].customer
  <2>1. ~ProductLocked(l.product) /\ (\A k \in cart[c] : ~LineLocked(k))
    BY DEF LockCart
  <2>2. l.product # m.product
    BY <1>6, <2>1 DEF ProductLocked, Locking
  <2>3. CASE c = request[q].customer
    <3>1. m \in cart[c]
      BY <1>6, <2>3 DEF IInv, LocksHold
    <3>2. LineLocked(m)
      BY <1>6 DEF LineLocked, Locking
    <3>3. QED
      BY <2>1, <3>1, <3>2
  <2>4. QED
    BY <2>2, <2>3
<1>7. UNCHANGED <<catalogVars, cartVars, sessionVars, orders>>
  BY DEF LockCart
<1> HIDE DEF next
<1>8. /\ next.lines \subseteq cart[next.customer]
      /\ \A q \in Requests \ {r} : Locking(q) =>
            \A l \in next.lines, m \in request[q].lines :
                l.product # m.product /\ next.customer # request[q].customer
  BY <1>4, <1>6
<1>9. next.step \notin {"validate", "place", "clear"}
  BY <1>4
<1>10. QED
  BY <1>2, <1>4, <1>5, <1>7, <1>8, <1>9, GoingOnKeeps

LEMMA RecheckKeeps ==
    ASSUME IInv, NEW r \in Requests, Recheck(r)
    PROVE  IInv'
<1>1. /\ request[r].step = "recheck" /\ request[r].step \notin Ended
      /\ UNCHANGED <<catalogVars, cartVars, sessionVars, orders>>
  BY DEF Recheck, Ended
<1>2. CASE TokenUsed(request[r].token) /\ Goto(r, "clear")
  BY <1>1, <1>2, GotoKeeps
<1>3. CASE Finish(r, "refused")
  <2>1. /\ session' \in [Customers -> 0 .. MaxTokens] /\ session' = session
        /\ UNCHANGED <<lastToken, issued>>
    BY <1>1 DEF IInv, TypeOK, sessionVars
  <2>2. QED
    BY <1>1, <1>3, <2>1, EndingKeeps DEF Ended
<1>4. CASE ~TokenUsed(request[r].token) /\ request[r].lines # {} /\ Goto(r, "validate")
  <2> DEFINE next == [request[r] EXCEPT !.step = "validate"]
  <2>1. request \in [Requests -> RequestRecord]
    BY DEF IInv, TypeOK, RequestRecord
  <2>2. /\ next \in RequestRecord
        /\ next.step = "validate" /\ next.lines = request[r].lines
        /\ next.customer = request[r].customer /\ next.token = request[r].token
    BY <2>1 DEF RequestRecord, Steps
  <2>3. request' = [request EXCEPT ![r] = next]
    BY <1>4, <2>1 DEF Goto
  <2>4. /\ next.lines \subseteq cart[next.customer]
        /\ \A q \in Requests \ {r} : Locking(q) =>
              \A l \in next.lines, m \in request[q].lines :
                  l.product # m.product /\ next.customer # request[q].customer
    BY <1>1, <2>2 DEF IInv, LocksHold, LocksApart, Locking
  <2>5. next.lines # {} /\ ~TokenUsed(next.token) /\ next.step # "clear"
    BY <1>4, <2>2
  <2> HIDE DEF next
  <2>6. QED
    BY <1>1, <2>2, <2>3, <2>4, <2>5, GoingOnKeeps
<1>5. QED
  BY <1>2, <1>3, <1>4 DEF Recheck

LEMMA ValidateKeeps ==
    ASSUME IInv, NEW r \in Requests, Validate(r)
    PROVE  IInv'
<1>1. /\ request[r].step = "validate" /\ request[r].step \notin Ended
      /\ UNCHANGED <<catalogVars, cartVars, sessionVars, orders>>
  BY DEF Validate, Ended
<1>2. CASE Finish(r, "refused")
  <2>1. /\ session' \in [Customers -> 0 .. MaxTokens] /\ session' = session
        /\ UNCHANGED <<lastToken, issued>>
    BY <1>1 DEF IInv, TypeOK, sessionVars
  <2>2. QED
    BY <1>1, <1>2, <2>1, EndingKeeps DEF Ended
<1> DEFINE items == {[line |-> l.id, product |-> l.product, quantity |-> l.quantity,
                      price |-> product[l.product].price] : l \in request[r].lines}
           next == [request[r] EXCEPT !.step = "place", !.items = items]
<1>3. CASE /\ \A l \in request[r].lines : Sellable(l)
           /\ request' = [request EXCEPT ![r].step = "place", ![r].items = items]
  <2>1. /\ request \in [Requests -> RequestRecord]
        /\ product \in [Products -> [stock : 0 .. MaxStock, price : Prices, onSale : BOOLEAN]]
    BY DEF IInv, TypeOK, RequestRecord
  <2>2. items \in SUBSET Items
    <3>1. \A l \in request[r].lines : l \in Lines
      BY <2>1 DEF RequestRecord
    <3>2. QED
      BY <2>1, <3>1 DEF Items, Lines
  <2>3. /\ next \in RequestRecord
        /\ next.step = "place" /\ next.lines = request[r].lines /\ next.items = items
        /\ next.customer = request[r].customer /\ next.token = request[r].token
    <3> HIDE DEF items
    <3>1. QED
      BY <2>1, <2>2 DEF RequestRecord, Steps
  <2>4. request' = [request EXCEPT ![r] = next]
    <3> HIDE DEF items
    <3>1. QED
      BY <1>3, <2>1
  <2>5. /\ next.lines \subseteq cart[next.customer]
        /\ \A q \in Requests \ {r} : Locking(q) =>
              \A l \in next.lines, m \in request[q].lines :
                  l.product # m.product /\ next.customer # request[q].customer
    BY <1>1, <2>3 DEF IInv, LocksHold, LocksApart, Locking
  <2>6. next.lines # {} /\ ~TokenUsed(next.token) /\ next.step # "clear"
    BY <1>1, <2>3 DEF IInv, TokensFresh
  <2>7. next.items = {[line |-> l.id, product |-> l.product, quantity |-> l.quantity,
                       price |-> product[l.product].price] : l \in next.lines}
    BY <2>3
  <2>8. \A l \in next.lines : Sellable(l)
    BY <1>3, <2>3
  <2> HIDE DEF next, items
  <2>9. QED
    BY <1>1, <2>3, <2>4, <2>5, <2>6, <2>7, <2>8, GoingOnKeeps
<1>4. \/ Finish(r, "refused")
      \/ /\ \A l \in request[r].lines : Sellable(l)
         /\ request' = [request EXCEPT ![r].step = "place", ![r].items = items]
  BY DEF Validate
<1> HIDE DEF items
<1>5. QED
  BY <1>2, <1>3, <1>4

\* What a request about to place its order has, and that nobody else has it.
LEMMA ReadyToPlace ==
    ASSUME IInv, NEW r \in Requests, request[r].step = "place"
    PROVE  /\ request[r].customer \in Customers
           /\ request[r].token \in 1 .. MaxTokens
           /\ request[r].lines \subseteq cart[request[r].customer]
           /\ request[r].lines # {}
           /\ ~TokenUsed(request[r].token)
           /\ request[r].items \in SUBSET Items
           /\ \A i \in request[r].items :
                 \E l \in request[r].lines :
                    /\ i.line = l.id /\ i.product = l.product /\ i.quantity = l.quantity
                    /\ i.price = product[l.product].price
                    /\ Sellable(l)
           /\ \A i, j \in request[r].items :
                 i.line = j.line \/ i.product = j.product => i = j
           /\ \A q \in Requests \ {r} : Locking(q) =>
                 \A m \in request[q].lines :
                    /\ request[q].customer # request[r].customer
                    /\ \A i \in request[r].items : i.product # m.product
<1>1. request[r].step \notin Ended /\ Locking(r)
  BY DEF Ended, Locking
<1>2. /\ request \in [Requests -> RequestRecord] /\ MaxTokens \in Nat
  BY CheckoutAssumption DEF IInv, TypeOK, RequestRecord
<1>3. request[r].customer \in Customers /\ request[r].token \in 1 .. MaxTokens
  BY <1>1, <1>2 DEF IInv, AtWork, NoToken, RequestRecord
<1>4. request[r].items \in SUBSET Items
  BY <1>2 DEF RequestRecord
<1>5. request[r].lines \subseteq cart[request[r].customer]
  BY <1>1 DEF IInv, LocksHold
<1>6. request[r].lines # {} /\ ~TokenUsed(request[r].token)
  BY DEF IInv, TokensFresh
<1>7. /\ request[r].items =
           {[line |-> l.id, product |-> l.product, quantity |-> l.quantity,
             price |-> product[l.product].price] : l \in request[r].lines}
      /\ \A l \in request[r].lines : Sellable(l)
  BY DEF IInv, ItemsChecked
<1>8. \A i \in request[r].items :
        \E l \in request[r].lines :
           i = [line |-> l.id, product |-> l.product, quantity |-> l.quantity,
                price |-> product[l.product].price]
  BY <1>7
<1>9. \A l, m \in request[r].lines : l.id = m.id \/ l.product = m.product => l = m
  BY <1>3, <1>5 DEF IInv, CartsApart
<1>10. \A i, j \in request[r].items : i.line = j.line \/ i.product = j.product => i = j
  <2>1. ASSUME NEW i \in request[r].items, NEW j \in request[r].items,
               i.line = j.line \/ i.product = j.product
        PROVE  i = j
    <3>1. PICK l \in request[r].lines :
            i = [line |-> l.id, product |-> l.product, quantity |-> l.quantity,
                 price |-> product[l.product].price]
      BY <1>8
    <3>2. PICK m \in request[r].lines :
            j = [line |-> m.id, product |-> m.product, quantity |-> m.quantity,
                 price |-> product[m.product].price]
      BY <1>8
    <3>3. l = m
      BY <1>9, <2>1, <3>1, <3>2
    <3>4. QED
      BY <3>1, <3>2, <3>3
  <2>2. QED
    BY <2>1
<1>11. \A i \in request[r].items :
         \E l \in request[r].lines :
            /\ i.line = l.id /\ i.product = l.product /\ i.quantity = l.quantity
            /\ i.price = product[l.product].price
            /\ Sellable(l)
  BY <1>7, <1>8
<1>12. ASSUME NEW q \in Requests \ {r}, Locking(q), NEW m \in request[q].lines
       PROVE  /\ request[q].customer # request[r].customer
              /\ \A i \in request[r].items : i.product # m.product
  <2>1. \A l \in request[r].lines :
           l.product # m.product /\ request[r].customer # request[q].customer
    BY <1>1, <1>12 DEF IInv, LocksApart
  <2>2. QED
    BY <1>6, <1>11, <2>1
<1>13. QED
  BY <1>3, <1>4, <1>5, <1>6, <1>10, <1>11, <1>12

\* The stock an order takes is there.
LEMMA PlacedStock ==
    ASSUME IInv, NEW r \in Requests, Place(r)
    PROVE  /\ product' \in [Products -> [stock : 0 .. MaxStock, price : Prices, onSale : BOOLEAN]]
           /\ \A p \in Products :
                (\A i \in request[r].items : i.product # p) => product'[p] = product[p]
           /\ \A i \in request[r].items :
                product'[i.product].stock = product[i.product].stock - i.quantity
<1> DEFINE sold(p) == {i \in request[r].items : i.product = p}
           Row == [stock : 0 .. MaxStock, price : Prices, onSale : BOOLEAN]
<1>1. /\ request[r].step = "place"
      /\ product' = [p \in Products |->
           IF sold(p) = {} THEN product[p]
           ELSE [product[p] EXCEPT !.stock = @ - (CHOOSE i \in sold(p) : TRUE).quantity]]
  BY DEF Place
<1>2. product \in [Products -> Row] /\ MaxStock \in Nat
  BY CheckoutAssumption DEF IInv, TypeOK
<1>3. ASSUME NEW i \in request[r].items
      PROVE  /\ i.product \in Products
             /\ i.quantity \in 1 .. product[i.product].stock
             /\ (CHOOSE j \in sold(i.product) : TRUE) = i
  <2>1. i \in Items
    BY <1>1, <1>3, ReadyToPlace
  <2>2. i.product \in Products /\ i.quantity \in Nat \ {0}
    BY <1>2, <2>1 DEF Items
  <2>3. i.quantity <= product[i.product].stock
    BY <1>1, <1>3, ReadyToPlace DEF Sellable
  <2>4. \A j \in sold(i.product) : j = i
    BY <1>1, <1>3, ReadyToPlace
  <2>5. i \in sold(i.product)
    BY <1>3
  <2>6. QED
    BY <1>2, <2>2, <2>3, <2>4, <2>5
<1>4. ASSUME NEW p \in Products, NEW i \in request[r].items, i.product = p
      PROVE  /\ product'[p] = [product[p] EXCEPT !.stock = product[p].stock - i.quantity]
             /\ product'[p] \in Row
             /\ product'[p].stock = product[p].stock - i.quantity
  <2>1. sold(p) # {} /\ (CHOOSE j \in sold(p) : TRUE) = i
    BY <1>3, <1>4
  <2>2. product'[p] = [product[p] EXCEPT !.stock = product[p].stock - i.quantity]
    BY <1>1, <2>1
  <2>3. product[p] \in Row /\ product[p].stock - i.quantity \in 0 .. MaxStock
    BY <1>2, <1>3, <1>4
  <2>4. QED
    BY <2>2, <2>3
<1>5. ASSUME NEW p \in Products, sold(p) = {}
      PROVE  product'[p] = product[p]
  BY <1>1, <1>5
<1>6. ASSUME NEW p \in Products
      PROVE  product'[p] \in Row
  <2>1. CASE sold(p) = {}
    <3>1. product'[p] = product[p]
      BY <1>5, <2>1
    <3>2. QED
      BY <1>2, <3>1
  <2>2. CASE sold(p) # {}
    <3>1. PICK i \in request[r].items : i.product = p
      BY <2>2
    <3>2. QED
      BY <1>4, <3>1
  <2>3. QED
    BY <2>1, <2>2
<1>7. product' \in [Products -> Row]
  BY <1>1, <1>6
<1>8. ASSUME NEW p \in Products, \A i \in request[r].items : i.product # p
      PROVE  product'[p] = product[p]
  <2>1. sold(p) = {}
    BY <1>8
  <2>2. QED
    BY <1>5, <2>1
<1>9. ASSUME NEW i \in request[r].items
      PROVE  product'[i.product].stock = product[i.product].stock - i.quantity
  BY <1>3, <1>4, <1>9
<1>10. QED
  BY <1>7, <1>8, <1>9

LEMMA PlaceKeeps ==
    ASSUME IInv, NEW r \in Requests, Place(r)
    PROVE  IInv'
<1> DEFINE c == request[r].customer
           order == [token |-> request[r].token, customer |-> c, items |-> request[r].items]
<1>1. /\ request[r].step = "place"
      /\ orders' = orders \cup {order}
      /\ cart' = [cart EXCEPT ![c] = {}]
      /\ request' = [request EXCEPT ![r].step = "clear"]
      /\ UNCHANGED <<open, lastLine, session, lastToken, issued>>
  BY DEF Place, Goto, sessionVars
<1>2. /\ request \in [Requests -> RequestRecord] /\ cart \in [Customers -> SUBSET Lines]
      /\ c \in Customers
  BY <1>1, ReadyToPlace DEF IInv, TypeOK, RequestRecord
<1>3. /\ cart'[c] = {} /\ \A d \in Customers \ {c} : cart'[d] = cart[d]
      /\ request'[r] = [request[r] EXCEPT !.step = "clear"]
      /\ request'[r].step = "clear" /\ request'[r].token = request[r].token
      /\ request'[r].customer = c
      /\ \A q \in Requests \ {r} : request'[q] = request[q]
  BY <1>1, <1>2 DEF RequestRecord
<1>4. TypeOK'
  <2>1. request' \in [Requests -> RequestRecord]
    BY <1>1, <1>2 DEF RequestRecord, Steps
  <2>2. cart' \in [Customers -> SUBSET Lines]
    BY <1>1, <1>2
  <2>3. order \in [token : 1 .. MaxTokens, customer : Customers, items : SUBSET Items]
    BY <1>1, ReadyToPlace
  <2>4. orders' \subseteq [token : 1 .. MaxTokens, customer : Customers, items : SUBSET Items]
    BY <1>1, <2>3 DEF IInv, TypeOK
  <2>5. QED
    BY <1>1, <2>1, <2>2, <2>4, PlacedStock DEF IInv, TypeOK, RequestRecord
<1>5. CartsApart'
  BY <1>1, <1>3 DEF IInv, CartsApart
<1>6. ASSUME NEW q \in Requests, request'[q].step \in {"recheck", "validate", "place"}
      PROVE  /\ q # r /\ request'[q] = request[q] /\ Locking(q)
             /\ \A m \in request[q].lines : request[q].customer # c
  <2>1. q # r /\ request'[q] = request[q] /\ Locking(q)
    BY <1>3, <1>6 DEF Locking
  <2>2. QED
    BY <1>1, <2>1, ReadyToPlace
<1>7. LocksHold'
  <2>1. ASSUME NEW q \in Requests, request'[q].step \in {"recheck", "validate", "place"}
        PROVE  /\ request'[q].customer \in Customers
               /\ request'[q].lines \subseteq cart'[request'[q].customer]
    <3>1. /\ request[q].customer \in Customers
          /\ request[q].lines \subseteq cart[request[q].customer]
      BY <1>6, <2>1 DEF IInv, LocksHold
    <3>2. QED
      BY <1>3, <1>6, <2>1, <3>1
  <2>2. QED
    BY <2>1 DEF LocksHold, Locking
<1>8. LocksApart'
  BY <1>6 DEF IInv, LocksApart, Locking
<1>9. TokensOwned'
  <2>1. request[r].step \notin Ended
    BY <1>1 DEF Ended
  <2>2. \A q \in Requests :
          request'[q].step \notin Ended => request'[q].token \in issued[request'[q].customer]
    BY <1>3, <2>1 DEF IInv, TokensOwned
  <2>3. order.token \in issued[order.customer]
    BY <2>1 DEF IInv, TokensOwned
  <2> HIDE DEF order
  <2>4. QED
    BY <1>1, <2>2, <2>3 DEF IInv, TokensOwned
<1>10. AtWork'
  <2>1. request[r].step \notin Ended
    BY <1>1 DEF Ended
  <2>2. QED
    BY <1>3, <2>1 DEF IInv, AtWork
<1>11. TokensFresh'
  <2>1. ASSUME NEW q \in Requests, request'[q].step \in {"validate", "place"}
        PROVE  /\ request'[q].lines # {}
               /\ \A o \in orders' : o.token # request'[q].token
    <3>1. request'[q] = request[q] /\ request[q].lines # {} /\ request[q].customer # c
      BY <1>6, <2>1 DEF IInv, TokensFresh
    <3>2. \A o \in orders : o.token # request[q].token
      BY <2>1, <3>1 DEF IInv, TokensFresh, TokenUsed
    <3>3. /\ request[r].token \in issued[c] /\ request[q].token \in issued[request[q].customer]
          /\ request[q].customer \in Customers
      BY <1>1, <2>1, <3>1 DEF IInv, TokensOwned, AtWork, Ended
    <3>4. request[r].token # request[q].token
      BY <1>2, <3>1, <3>3 DEF IInv, TokensOwned
    <3>5. QED
      BY <1>1, <3>1, <3>2, <3>4
  <2>2. QED
    BY <2>1 DEF TokensFresh, TokenUsed
<1>12. AnswersReady'
  <2>1. ASSUME NEW q \in Requests, request'[q].step = "clear"
        PROVE  \E o \in orders' : o.token = request'[q].token
    <3>1. CASE q = r
      <4>1. order \in orders' /\ order.token = request'[q].token
        BY <1>1, <1>3, <3>1
      <4>2. QED
        BY <4>1
    <3>2. CASE q # r
      BY <1>1, <1>3, <2>1, <3>2 DEF IInv, AnswersReady, TokenUsed
    <3>3. QED
      BY <3>1, <3>2
  <2>2. QED
    BY <2>1 DEF AnswersReady, TokenUsed
<1>13. ItemsChecked'
  <2>1. ASSUME NEW q \in Requests, request'[q].step = "place"
        PROVE  /\ request'[q].items =
                    {[line |-> l.id, product |-> l.product, quantity |-> l.quantity,
                      price |-> product'[l.product].price] : l \in request'[q].lines}
               /\ \A l \in request'[q].lines : Sellable(l)'
    <3>1. q # r /\ request'[q] = request[q] /\ Locking(q) /\ request[q].step = "place"
      BY <1>6, <2>1
    <3>2. /\ request[q].items =
               {[line |-> l.id, product |-> l.product, quantity |-> l.quantity,
                 price |-> product[l.product].price] : l \in request[q].lines}
          /\ \A l \in request[q].lines : Sellable(l)
      BY <3>1 DEF IInv, ItemsChecked
    <3>3. \A l \in request[q].lines : product'[l.product] = product[l.product]
      <4>1. ASSUME NEW l \in request[q].lines
            PROVE  l.product \in Products /\ \A i \in request[r].items : i.product # l.product
        <5>1. l \in Lines
          BY <1>2 DEF RequestRecord
        <5>2. QED
          BY <1>1, <3>1, <5>1, ReadyToPlace DEF Lines
      <4>2. QED
        BY <4>1, PlacedStock
    <3>4. \A l \in request[q].lines : Sellable(l)'
      BY <1>1, <3>2, <3>3 DEF Sellable, Public
    <3>5. QED
      BY <3>1, <3>2, <3>3, <3>4
  <2>2. QED
    BY <2>1 DEF ItemsChecked
<1>14. ASSUME NEW i \in order.items
       PROVE  \E l \in cart[c] : i.line = l.id
  BY <1>1, <1>14, ReadyToPlace
<1>15. OrderedLinesOld'
  <2>1. \A l \in cart[c] : l.id <= lastLine
    BY <1>2 DEF IInv, CartsApart
  <2>2. QED
    BY <1>1, <1>14, <2>1 DEF IInv, OrderedLinesOld
<1>16. OneOrderPerToken'
  <2>1. \A o \in orders : o.token # order.token
    BY <1>1, ReadyToPlace DEF TokenUsed
  <2>2. QED
    BY <1>1, <2>1 DEF IInv, OneOrderPerToken
<1>17. OrderedOnce'
  <2>1. \A o \in orders : \A i \in o.items, j \in order.items : i.line # j.line
    BY <1>2, <1>14 DEF IInv, OrderedOnce
  <2>2. \A i, j \in order.items : i.line = j.line => i = j
    BY <1>1, ReadyToPlace
  <2>3. \A d \in Customers : \A i \in order.items, l \in cart'[d] : i.line # l.id
    BY <1>2, <1>3, <1>14 DEF IInv, CartsApart
  <2>4. \A o \in orders, d \in Customers : \A i \in o.items, l \in cart'[d] : i.line # l.id
    BY <1>3 DEF IInv, OrderedOnce
  <2>5. \A o, n \in orders : \A i \in o.items, j \in n.items : i.line = j.line => o = n /\ i = j
    BY DEF IInv, OrderedOnce
  <2> HIDE DEF order
  <2>6. QED
    BY <1>1, <2>1, <2>2, <2>3, <2>4, <2>5 DEF OrderedOnce
<1>18. QED
  BY <1>4, <1>5, <1>7, <1>8, <1>9, <1>10, <1>11, <1>12, <1>13, <1>15, <1>16, <1>17 DEF IInv

LEMMA CheckoutStepKeeps ==
    ASSUME IInv, CheckoutStep
    PROVE  IInv'
<1>1. session \in [Customers -> 0 .. MaxTokens] /\ MaxTokens \in Nat
  BY CheckoutAssumption DEF IInv, TypeOK
<1>2. ASSUME NEW r \in Requests, RefuseFulfillment(r) \/ LoseWorker(r)
      PROVE  IInv'
  <2>1. /\ \E step \in Ended : Finish(r, step)
        /\ UNCHANGED <<catalogVars, cartVars, lastToken, issued, orders, session>>
    BY <1>2 DEF RefuseFulfillment, LoseWorker, Ended, sessionVars
  <2>2. QED
    BY <1>1, <2>1, EndingKeeps
<1>3. ASSUME NEW r \in Requests, ClearToken(r)
      PROVE  IInv'
  <2>1. /\ Finish(r, "answered")
        /\ UNCHANGED <<catalogVars, cartVars, lastToken, issued, orders>>
        /\ session' = [session EXCEPT ![request[r].customer] = NoToken]
    BY <1>3 DEF ClearToken
  <2>2. /\ session' \in [Customers -> 0 .. MaxTokens]
        /\ \A c \in Customers : session'[c] \in {session[c], NoToken}
    <3>1. NoToken \in 0 .. MaxTokens
      BY <1>1 DEF NoToken
    <3>2. \A c \in Customers :
            session'[c] = IF c = request[r].customer THEN NoToken ELSE session[c]
      BY <1>1, <2>1
    <3>3. session' \in [Customers -> 0 .. MaxTokens]
      BY <1>1, <2>1, <3>1
    <3>4. QED
      BY <3>2, <3>3
  <2>3. QED
    BY <2>1, <2>2, EndingKeeps DEF Ended
<1>4. QED
  BY <1>2, <1>3, BeginKeeps, LookUpTokenKeeps, LockCartKeeps, RecheckKeeps, ValidateKeeps,
     PlaceKeeps DEF CheckoutStep

-----------------------------------------------------------------------------
(* Theorems *)

LEMMA Initially == Init => IInv
<1> SUFFICES ASSUME Init PROVE IInv
  OBVIOUS
<1>1. /\ MaxTokens \in Nat /\ MaxLines \in Nat
      /\ InitialStock \in [Products -> 0 .. MaxStock]
  BY CheckoutAssumption
<1>2. \A r \in Requests : request[r] = Done("idle")
  BY DEF Init
<1>3. TypeOK
  <2>1. product \in [Products -> [stock : 0 .. MaxStock, price : Prices, onSale : BOOLEAN]]
    BY <1>1 DEF Init
  <2>2. Done("idle") \in RequestRecord
    BY <1>1 DEF Done, RequestRecord, Steps, Ended, NoToken
  <2>3. request \in [Requests -> RequestRecord]
    BY <2>2 DEF Init
  <2>4. cart \in [Customers -> SUBSET Lines]
    BY DEF Init
  <2>5. QED
    BY <1>1, <2>1, <2>3, <2>4 DEF Init, TypeOK, RequestRecord, NoToken
<1>4. CartsApart /\ OrderedLinesOld /\ OneOrderPerToken /\ OrderedOnce
  BY DEF Init, CartsApart, OrderedLinesOld, OneOrderPerToken, OrderedOnce
<1>5. LocksHold /\ LocksApart /\ AtWork /\ TokensFresh /\ AnswersReady /\ ItemsChecked
  BY <1>2 DEF Done, LocksHold, LocksApart, Locking, AtWork, Ended, TokensFresh, AnswersReady,
     ItemsChecked
<1>6. TokensOwned
  BY <1>2 DEF Init, Done, TokensOwned, Ended
<1>7. QED
  BY <1>3, <1>4, <1>5, <1>6 DEF IInv

LEMMA Inductive == IInv /\ [Next]_vars => IInv'
<1> SUFFICES ASSUME IInv, [Next]_vars PROVE IInv'
  OBVIOUS
<1>1. CASE UNCHANGED vars
  BY <1>1 DEF vars, catalogVars, cartVars, sessionVars, IInv, TypeOK, CartsApart, LocksHold,
     LocksApart, Locking, TokensOwned, AtWork, TokensFresh, AnswersReady, TokenUsed, ItemsChecked,
     Sellable, Public, OrderedLinesOld, OneOrderPerToken, OrderedOnce
<1>2. QED
  BY <1>1, CartStepKeeps, CheckoutStepKeeps, PortalKeeps DEF Next

\* The inductive invariant holds in every reachable state: it says which locks
\* a request holds, whose token it has, and that what it read is still so.
THEOREM Invariance == Spec => []IInv
BY Initially, Inductive, PTL DEF Spec

\* Every variable keeps its type, in particular no stock is ever negative,
\* whatever checkouts compete for it.
THEOREM TypeCorrect == Spec => []TypeOK
<1>1. IInv => TypeOK
  BY DEF IInv
<1>2. QED
  BY <1>1, Invariance, PTL

\* place_customer_order is idempotent: a token places at most one order,
\* with any number of parallel, repeated and lost requests.
THEOREM TokenOrdersOnce == Spec => []OneOrderPerToken
<1>1. IInv => OneOrderPerToken
  BY DEF IInv
<1>2. QED
  BY <1>1, Invariance, PTL

\* A cart line is ordered at most once, and is in no cart after that.
THEOREM LinesOrderedOnce == Spec => []OrderedOnce
<1>1. IInv => OrderedOnce
  BY DEF IInv
<1>2. QED
  BY <1>1, Invariance, PTL

\* What a step may add to the orders.
PlacedAsOffered ==
    \A o \in orders' \ orders : \A i \in o.items :
        /\ Public(i.product)
        /\ i.price = product[i.product].price
        /\ product[i.product].stock' = product[i.product].stock - i.quantity

LEMMA NextOffers == IInv /\ [Next]_vars => PlacedAsOffered
<1> SUFFICES ASSUME IInv, [Next]_vars PROVE PlacedAsOffered
  OBVIOUS
<1>1. CASE UNCHANGED orders
  BY <1>1 DEF PlacedAsOffered
<1>2. ASSUME NEW r \in Requests, Place(r)
      PROVE  PlacedAsOffered
  <2>1. /\ request[r].step = "place"
        /\ \A o \in orders' \ orders : o.items = request[r].items
    BY <1>2 DEF Place
  <2>2. \A i \in request[r].items : i.price = product[i.product].price /\ Public(i.product)
    BY <2>1, ReadyToPlace DEF Sellable
  <2>3. \A i \in request[r].items :
           product[i.product].stock' = product[i.product].stock - i.quantity
    BY <1>2, PlacedStock
  <2>4. QED
    BY <2>1, <2>2, <2>3 DEF PlacedAsOffered
<1>3. CASE CartStep
  BY <1>1, <1>3 DEF CartStep, AddToCart, SetQuantity, RemoveLine, ClearCart, Preview,
     StoreSession
<1>4. CASE PortalStep
  BY <1>1, <1>4 DEF PortalStep, EditProduct, MoveStock, SetStoreActive
<1>5. CASE CheckoutStep
  BY <1>1, <1>2, <1>5 DEF CheckoutStep, Begin, LookUpToken, LockCart, Recheck, Validate,
     RefuseFulfillment, ClearToken, LoseWorker
<1>6. QED
  BY <1>1, <1>3, <1>4, <1>5 DEF Next, vars

\* Between validation and commit nothing that was validated can change: an
\* order is placed at the price, in the shop and from the stock of that moment.
THEOREM OrdersMatchOffers == Spec => OrderedAsOffered
<1>1. IInv /\ [Next]_vars => [PlacedAsOffered]_vars
  BY NextOffers
<1>2. Spec => [][PlacedAsOffered]_vars
  BY <1>1, Invariance, PTL DEF Spec
<1>3. QED
  BY <1>2 DEF OrderedAsOffered, PlacedAsOffered

\* What a step may answer.
Answered ==
    \A r \in Requests :
        request[r].step \notin Ended =>
            /\ request'[r].step = "refused" => ~TokenUsed(request[r].token)
            /\ request'[r].step = "answered" =>
                  \E o \in orders : o.token = request[r].token /\ o.customer = request[r].customer

\* The order of a request's token is its customer's.
LEMMA AnswerOwned ==
    ASSUME IInv, NEW r \in Requests, request[r].step = "clear"
    PROVE  \E o \in orders : o.token = request[r].token /\ o.customer = request[r].customer
<1>1. PICK o \in orders : o.token = request[r].token
  BY DEF IInv, AnswersReady, TokenUsed
<1>2. /\ request[r].token \in issued[request[r].customer] /\ request[r].customer \in Customers
      /\ o.token \in issued[o.customer] /\ o.customer \in Customers
  BY DEF IInv, TypeOK, TokensOwned, AtWork, Ended
<1>3. o.customer = request[r].customer
  BY <1>1, <1>2 DEF IInv, TokensOwned
<1>4. QED
  BY <1>1, <1>3

LEMMA NextAnswers == IInv /\ [Next]_vars => Answered
<1> SUFFICES ASSUME IInv, [Next]_vars PROVE Answered
  OBVIOUS
<1>1. request \in [Requests -> RequestRecord]
  BY DEF IInv, TypeOK, RequestRecord
<1>2. CASE UNCHANGED request
  BY <1>2 DEF Answered, Ended
<1>3. ASSUME NEW r \in Requests, \A q \in Requests \ {r} : request'[q] = request[q],
             \/ request'[r].step \notin {"refused", "answered"}
             \/ request[r].step \in Ended
      PROVE  Answered
  BY <1>3 DEF Answered, Ended
<1>4. ASSUME NEW r \in Requests, \A q \in Requests \ {r} : request'[q] = request[q],
             request'[r].step = "refused", ~TokenUsed(request[r].token)
      PROVE  Answered
  BY <1>4 DEF Answered, Ended
<1>5. ASSUME NEW r \in Requests, NEW c \in Customers, Begin(r, c)
      PROVE  Answered
  BY <1>1, <1>3, <1>5 DEF Begin
<1>6. ASSUME NEW r \in Requests, LookUpToken(r) \/ LockCart(r) \/ Place(r) \/ LoseWorker(r)
      PROVE  Answered
  <2>1. /\ \A q \in Requests \ {r} : request'[q] = request[q]
        /\ request'[r].step \notin {"refused", "answered"}
    BY <1>1, <1>6 DEF LookUpToken, LockCart, Place, LoseWorker, Goto, Finish, Done, RequestRecord
  <2>2. QED
    BY <1>3, <2>1
<1>7. ASSUME NEW r \in Requests, Recheck(r) \/ Validate(r) \/ RefuseFulfillment(r)
      PROVE  Answered
  <2>1. \A q \in Requests \ {r} : request'[q] = request[q]
    BY <1>1, <1>7 DEF Recheck, Validate, RefuseFulfillment, Goto, Finish
  <2>2. \/ request'[r].step \notin {"refused", "answered"}
        \/ request'[r].step = "refused" /\ ~TokenUsed(request[r].token)
    <3>1. CASE Recheck(r)
      BY <1>1, <3>1 DEF Recheck, Goto, Finish, Done, RequestRecord
    <3>2. CASE Validate(r)
      <4>1. ~TokenUsed(request[r].token)
        BY <3>2 DEF Validate, IInv, TokensFresh
      <4>2. request'[r].step \in {"place", "refused"}
        BY <1>1, <3>2 DEF Validate, Finish, Done, RequestRecord
      <4>3. QED
        BY <4>1, <4>2
    <3>3. CASE RefuseFulfillment(r)
      BY <1>1, <3>3 DEF RefuseFulfillment, Finish, Done, IInv, TokensFresh
    <3>4. QED
      BY <1>7, <3>1, <3>2, <3>3
  <2>3. QED
    BY <1>3, <1>4, <2>1, <2>2
<1>8. ASSUME NEW r \in Requests, ClearToken(r)
      PROVE  Answered
  <2>1. /\ \A q \in Requests \ {r} : request'[q] = request[q]
        /\ request'[r].step = "answered" /\ request[r].step = "clear"
    BY <1>1, <1>8 DEF ClearToken, Finish, Done
  <2>2. QED
    BY <2>1, AnswerOwned DEF Answered, Ended
<1>9. CASE CartStep
  BY <1>2, <1>9 DEF CartStep, AddToCart, SetQuantity, RemoveLine, ClearCart, Preview, StoreSession
<1>10. CASE PortalStep
  BY <1>2, <1>10 DEF PortalStep, EditProduct, MoveStock, SetStoreActive
<1>11. CASE CheckoutStep
  BY <1>5, <1>6, <1>7, <1>8, <1>11 DEF CheckoutStep
<1>12. QED
  BY <1>2, <1>9, <1>10, <1>11 DEF Next, vars

\* A retry is never turned away by what its token's order has changed, the
\* cart it emptied, the stock it took, nor answered with somebody else's order:
\* the locks it waits for and the lookup after them put it behind that order.
THEOREM RetriesAreAnswered == Spec => RetryAnswered
<1>1. IInv /\ [Next]_vars => [Answered]_vars
  BY NextAnswers
<1>2. Spec => [][Answered]_vars
  BY <1>1, Invariance, PTL DEF Spec
<1>3. QED
  BY <1>2 DEF RetryAnswered, Answered
=============================================================================
