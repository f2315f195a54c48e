------------------------ MODULE OrderLifecycleProofs ------------------------
(***************************************************************************)
(* Proofs about OrderLifecycle, for any orders, stores, items and stock.   *)
(***************************************************************************)
EXTENDS OrderLifecycle, TLAPS, FiniteSetTheorems, WellFoundedInduction

\* An order's rows come into being together: before checkout none of its
\* StoreOrders has a status and there is no payment, afterwards all have.
RowsTogether ==
    /\ \A so \in StoreOrders : soStatus[so] = "NONE" <=> ~Placed(OrderOf[so])
    /\ \A o \in Orders : payment[o] = "NONE" <=> ~Placed(o)

\* The inductive invariant: no property of the list is inductive alone, since
\* each service decides on the strength of what the others left behind.
IInv ==
    /\ TypeOK
    /\ RowsTogether
    /\ CancelledTogether
    /\ DeliveredTogether
    /\ CollectedOnlyWhenDelivered
    /\ PayableMatchesChargeable
    /\ StockHeldByChargeable

-----------------------------------------------------------------------------
(* Lemmas about the operators *)

\* calculate_order_status returns an order status; it is CANCELLED when no
\* status is chargeable, and COMPLETED when all the chargeable ones are.
LEMMA CalculatedStatus ==
    ASSUME NEW S, S # {}
    PROVE  /\ CalculateOrderStatus(S) \in OrderStatus
           /\ CalculateOrderStatus(S) = "CANCELLED" <=> S \ NonChargeable = {}
           /\ CalculateOrderStatus(S) = "COMPLETED" <=> S \ NonChargeable = {"COMPLETED"}
BY DEF CalculateOrderStatus, OrderStatus, NonChargeable

\* The same, read off the StoreOrder statuses f of an order.
LEMMA StatusOfOrder ==
    ASSUME NEW o \in Orders, NEW f
    PROVE  /\ StatusFromStoreOrders(f, o) \in OrderStatus
           /\ StatusFromStoreOrders(f, o) = "CANCELLED" <=> ChargeableIn(f, o) = {}
           /\ StatusFromStoreOrders(f, o) = "COMPLETED" <=>
                 /\ ChargeableIn(f, o) # {}
                 /\ \A so \in ChargeableIn(f, o) : f[so] = "COMPLETED"
<1> DEFINE S == {f[so] : so \in StoreOrdersOf(o)}
<1>1. S # {}
  BY NonEmptyAssumption DEF StoreOrdersOf
<1>2. S \ NonChargeable = {f[so] : so \in ChargeableIn(f, o)}
  BY DEF ChargeableIn
<1>3. S \ NonChargeable = {} <=> ChargeableIn(f, o) = {}
  BY <1>2
<1>4. S \ NonChargeable = {"COMPLETED"} <=>
         /\ ChargeableIn(f, o) # {}
         /\ \A so \in ChargeableIn(f, o) : f[so] = "COMPLETED"
  BY <1>2
<1>5. QED
  BY <1>1, <1>3, <1>4, CalculatedStatus DEF StatusFromStoreOrders

\* Giving stock back keeps stock_quantity a natural number.
LEMMA RestoredStock ==
    ASSUME stock \in [Products -> Nat], NEW S \in SUBSET Items, MoveStock(S, 1)
    PROVE  stock' \in [Products -> Nat]
<1>1. ASSUME NEW p \in Products, \E i \in S : ProductOf[i] = p
      PROVE  stock[p] + 1 * Quantity[CHOOSE i \in S : ProductOf[i] = p] \in Nat
  <2>1. (CHOOSE i \in S : ProductOf[i] = p) \in Items
    BY <1>1
  <2>2. QED
    BY <2>1, RowsAssumption
<1>2. QED
  BY <1>1 DEF MoveStock

\* What restore_order_items_stock leaves behind, given that flags and
\* references agree.
LEMMA RestoredItems ==
    ASSUME TypeOK, NEW S \in SUBSET Items, RestoreStock(S),
           \A i \in Items : <<i, "restore">> \in references <=> i \in restoredItems
    PROVE  /\ restoredItems' = restoredItems \cup S
           /\ references' \subseteq Items \X {"deduct", "restore"}
           /\ stock' \in [Products -> Nat]
           /\ \A i \in Items :
                /\ <<i, "restore">> \in references' <=> i \in restoredItems'
                /\ <<i, "deduct">> \in references' <=> <<i, "deduct">> \in references
<1> DEFINE moved == {i \in S \ restoredItems : <<i, "restore">> \notin references}
<1>1. /\ restoredItems' = restoredItems \cup S
      /\ references' = references \cup (moved \X {"restore"})
      /\ MoveStock(moved, 1)
  BY DEF RestoreStock
<1>2. moved \in SUBSET Items
  OBVIOUS
<1>3. stock' \in [Products -> Nat]
  BY <1>1, <1>2, RestoredStock DEF TypeOK
<1>4. moved = S \ restoredItems
  OBVIOUS
<1>5. QED
  BY <1>1, <1>2, <1>3, <1>4 DEF TypeOK

\* What the status sync leaves behind.
LEMMA SyncedOrder ==
    ASSUME TypeOK, NEW o \in Orders, NEW f, SyncOrderStatus(f, o)
    PROVE  /\ status' = [status EXCEPT ![o] = StatusFromStoreOrders(f, o)]
           /\ payment' \in [Orders -> PaymentStatus \cup {"NONE"}]
           /\ \A q \in Orders \ {o} : payment'[q] = payment[q]
           /\ \/ payment'[o] = payment[o]
              \/ /\ payment[o] = "PENDING"
                 /\ payment'[o] = "CANCELLED"
           /\ status'[o] = "CANCELLED" /\ status[o] # "CANCELLED"
                 => payment'[o] # "PENDING"
           /\ status'[o] # "CANCELLED" => payment'[o] = payment[o]
           /\ delivered' = IF status'[o] = "COMPLETED" /\ status[o] # "COMPLETED"
                           THEN delivered \cup {o} ELSE delivered
<1>1. StatusFromStoreOrders(f, o) \in OrderStatus
  BY StatusOfOrder
<1>2. QED
  BY <1>1 DEF SyncOrderStatus, TypeOK, PaymentStatus

\* What happens to the StoreOrders of one order does not touch the others.
LEMMA OtherOrdersKeepTheirParts ==
    ASSUME NEW o \in Orders, NEW q \in Orders, q # o, NEW f, NEW g,
           \A so \in StoreOrders : OrderOf[so] # o => g[so] = f[so]
    PROVE  ChargeableIn(g, q) = ChargeableIn(f, q)
BY DEF ChargeableIn, StoreOrdersOf

-----------------------------------------------------------------------------
(* Sums over finite sets *)

\* The sum of q[i] over the members i of a finite set S, and the recursion the
\* fold of the library computes it by: some member is taken out at a time.
Sum(q, S) == MapThenSumSet(LAMBDA i : q[i], S)

Pick(s) == CHOOSE x \in s : TRUE
Adds(q, f, s) == IF s = {} THEN 0 ELSE q[Pick(s)] + f[s \ {Pick(s)}]
IsSum(q, f, S) == f = [s \in SUBSET S |-> Adds(q, f, s)]

\* A set of subsets of a finite set has a member none of whose proper subsets
\* is in it: the form in which induction over finite sets is used below.
LEMMA Smallest ==
    ASSUME NEW U, IsFiniteSet(U), NEW B \in SUBSET SUBSET U, B # {}
    PROVE  \E T \in B : \A s \in SUBSET T : s # T => s \notin B
<1>1. FiniteSubsetsOf(U) = SUBSET U
  BY FS_FiniteSubsetsOfFinite
<1>2. IsWellFoundedOn(StrictSubsetOrdering(U), SUBSET U)
  BY <1>1, FS_StrictSubsetOrderingWellFounded
<1>3. \E T \in B : \A s \in B : ~ (<<s, T>> \in StrictSubsetOrdering(U))
  BY <1>2, WFMin
<1>4. \A s, T : s \in SUBSET U /\ T \in SUBSET U /\ s \in SUBSET T /\ s # T => <<s, T>> \in StrictSubsetOrdering(U)
  BY DEF StrictSubsetOrdering
<1>5. QED
  BY <1>3, <1>4

\* The member taken out is one.
LEMMA PickIsMember == \A s : s # {} => Pick(s) \in s
BY DEF Pick

\* The library's sum is the value at S of a function chosen by the recursion.
LEMMA SumOfFold ==
    ASSUME NEW q, NEW S
    PROVE  Sum(q, S) = (CHOOSE f : IsSum(q, f, S))[S]
BY DEF Sum, MapThenSumSet, MapThenFoldSet, IsSum, Adds, Pick

\* Such a function obeys the recursion at every subset.
LEMMA IsSumRule ==
    ASSUME NEW q, NEW S, NEW f, IsSum(q, f, S), NEW s \in SUBSET S
    PROVE  f[s] = Adds(q, f, s)
<1> DEFINE g == [r \in SUBSET S |-> Adds(q, f, r)]
<1>1. g[s] = Adds(q, f, s)
  OBVIOUS
<1>2. f = g
  BY DEF IsSum
<1> HIDE DEF g
<1>3. f[s] = g[s]
  BY <1>2
<1>4. QED
  BY <1>1, <1>3

\* At most one function obeys it, whichever set it is defined over.
LEMMA SumUnique ==
    ASSUME NEW q, NEW S, IsFiniteSet(S), NEW T \in SUBSET S,
           NEW f, IsSum(q, f, S), NEW g, IsSum(q, g, T)
    PROVE  \A s \in SUBSET T : f[s] = g[s]
<1> DEFINE B == {s \in SUBSET T : f[s] # g[s]}
<1>1. SUFFICES ASSUME B # {} PROVE FALSE
  OBVIOUS
<1>2. IsFiniteSet(T)
  BY FS_Subset
<1>3. PICK s \in B : \A r \in SUBSET s : r # s => r \notin B
  <2>1. B \in SUBSET SUBSET T
    OBVIOUS
  <2> HIDE DEF B
  <2>2. QED
    BY <1>1, <1>2, <2>1, Smallest
<1>4. f[s] = Adds(q, f, s) /\ g[s] = Adds(q, g, s)
  BY <1>3, IsSumRule
<1>5. CASE s = {}
  BY <1>4, <1>5 DEF Adds
<1>6. CASE s # {}
  <2>1. s \ {Pick(s)} \in SUBSET s /\ s \ {Pick(s)} # s /\ s \ {Pick(s)} \in SUBSET T
    BY <1>6, PickIsMember
  <2>2. f[s \ {Pick(s)}] = g[s \ {Pick(s)}]
    BY <1>3, <2>1
  <2>3. QED
    BY <1>4, <1>6, <2>2 DEF Adds
<1>7. QED
  BY <1>5, <1>6

\* One does: it is built up to subsets of a given cardinality.
LEMMA SumExists ==
    ASSUME NEW q, NEW S, IsFiniteSet(S)
    PROVE  \E f : IsSum(q, f, S)
<1> DEFINE Upto(f, n) == \A s \in SUBSET S : Cardinality(s) <= n => f[s] = Adds(q, f, s)
           B == {n \in Nat : ~ \E f : Upto(f, n)}
<1>1. \A s \in SUBSET S : IsFiniteSet(s) /\ Cardinality(s) \in Nat /\ Cardinality(s) <= Cardinality(S)
  BY FS_Subset, FS_CardinalityType
<1>2. ASSUME NEW f, NEW n \in Nat, n = 0 \/ Upto(f, n - 1)
      PROVE  Upto([s \in SUBSET S |-> Adds(q, f, s)], n)
  <2> DEFINE g == [s \in SUBSET S |-> Adds(q, f, s)]
  <2>1. ASSUME NEW s \in SUBSET S, Cardinality(s) <= n PROVE g[s] = Adds(q, g, s)
    <3>1. CASE s = {}
      BY <3>1 DEF Adds
    <3>2. CASE s # {}
      <4> DEFINE r == s \ {Pick(s)}
      <4>1. Pick(s) \in s /\ r \in SUBSET S
        BY <3>2, PickIsMember
      <4>2. Cardinality(r) = Cardinality(s) - 1 /\ Cardinality(s) \in Nat /\ Cardinality(r) \in Nat
        BY <1>1, <4>1, FS_RemoveElement
      <4>3. n # 0 /\ Cardinality(r) <= n - 1
        BY <2>1, <4>2
      <4>4. f[r] = Adds(q, f, r)
        BY <1>2, <4>1, <4>3
      <4>5. g[r] = Adds(q, f, r) /\ g[s] = Adds(q, f, s)
        BY <4>1
      <4> HIDE DEF g
      <4>6. QED
        BY <3>2, <4>4, <4>5 DEF Adds
    <3>3. QED
      BY <3>1, <3>2
  <2>2. QED
    BY <2>1
<1>3. B = {}
  <2>1. SUFFICES ASSUME B # {} PROVE FALSE
    OBVIOUS
  <2>2. PICK n \in B : \A m \in B : ~ (<<m, n>> \in OpToRel(<, Nat))
    BY <2>1, NatLessThanWellFounded, WFMin
  <2>3. n = 0 \/ n - 1 \notin B
    <3>1. B \subseteq Nat
      OBVIOUS
    <3> HIDE DEF B
    <3>2. \A m \in B : ~ (m < n)
      BY <2>2, <3>1 DEF OpToRel
    <3>3. QED
      BY <3>1, <3>2
  <2>4. CASE n = 0
    <3>1. Upto([s \in SUBSET S |-> Adds(q, q, s)], n)
      BY <1>2, <2>4
    <3>2. QED
      BY <3>1
  <2>5. CASE n # 0
    <3>1. PICK f : Upto(f, n - 1)
      BY <2>3, <2>5
    <3>2. Upto([s \in SUBSET S |-> Adds(q, f, s)], n)
      BY <1>2, <3>1
    <3>3. QED
      BY <3>2
  <2>6. QED
    BY <2>4, <2>5
<1>4. PICK f : Upto(f, Cardinality(S))
  BY <1>1, <1>3
<1>5. \A s \in SUBSET S : f[s] = Adds(q, f, s)
  BY <1>1, <1>4
<1> DEFINE g == [s \in SUBSET S |-> Adds(q, f, s)]
<1>6. \A s \in SUBSET S : Adds(q, g, s) = Adds(q, f, s)
  <2>1. \A s \in SUBSET S : g[s] = f[s]
    BY <1>5
  <2> HIDE DEF g
  <2>2. \A s \in SUBSET S : s \ {Pick(s)} \in SUBSET S
    OBVIOUS
  <2>3. QED
    BY <2>1, <2>2 DEF Adds
<1>7. IsSum(q, g, S)
  <2>1. g = [s \in SUBSET S |-> Adds(q, g, s)]
    BY <1>6
  <2>2. QED
    BY <2>1 DEF IsSum
<1>8. QED
  BY <1>7

\* Hence a sum over a finite set is what its recursion says.
LEMMA SumRule ==
    ASSUME NEW q, NEW S, IsFiniteSet(S)
    PROVE  Sum(q, S) = IF S = {} THEN 0 ELSE q[Pick(S)] + Sum(q, S \ {Pick(S)})
<1> DEFINE f == CHOOSE h : IsSum(q, h, S)
           R == S \ {Pick(S)}
           g == CHOOSE h : IsSum(q, h, R)
<1>1. IsSum(q, f, S)
  BY SumExists
<1>2. IsSum(q, g, R)
  <2>1. IsFiniteSet(R)
    BY FS_RemoveElement
  <2>2. QED
    BY <2>1, SumExists
<1>3. Sum(q, S) = f[S] /\ Sum(q, R) = g[R]
  BY SumOfFold
<1> HIDE DEF f, g
<1>4. f[R] = g[R]
  BY <1>1, <1>2, SumUnique
<1>5. f[S] = Adds(q, f, S)
  BY <1>1, IsSumRule
<1>6. QED
  BY <1>3, <1>4, <1>5 DEF Adds

\* A sum of integers is an integer.
LEMMA SumIsInt ==
    ASSUME NEW U, IsFiniteSet(U), NEW q \in [U -> Int]
    PROVE  \A S \in SUBSET U : Sum(q, S) \in Int
<1> DEFINE B == {S \in SUBSET U : Sum(q, S) \notin Int}
<1>1. SUFFICES ASSUME B # {} PROVE FALSE
  OBVIOUS
<1>2. PICK S \in B : \A r \in SUBSET S : r # S => r \notin B
  <2>1. B \in SUBSET SUBSET U
    OBVIOUS
  <2> HIDE DEF B
  <2>2. QED
    BY <1>1, <2>1, Smallest
<1>3. Sum(q, S) = IF S = {} THEN 0 ELSE q[Pick(S)] + Sum(q, S \ {Pick(S)})
  BY FS_Subset, SumRule
<1>4. CASE S = {}
  BY <1>3, <1>4
<1>5. CASE S # {}
  <2>1. /\ q[Pick(S)] \in Int
        /\ S \ {Pick(S)} \in SUBSET S /\ S \ {Pick(S)} # S /\ S \ {Pick(S)} \in SUBSET U
    BY <1>5, PickIsMember
  <2>2. Sum(q, S \ {Pick(S)}) \in Int
    BY <1>2, <2>1
  <2>3. QED
    BY <1>3, <1>5, <2>1, <2>2
<1>6. QED
  BY <1>4, <1>5

\* A sum does not depend on the order: any member may be taken out first.
LEMMA SumWithout ==
    ASSUME NEW U, IsFiniteSet(U), NEW q \in [U -> Int]
    PROVE  \A S \in SUBSET U : \A x \in S : Sum(q, S) = Sum(q, S \ {x}) + q[x]
<1> DEFINE B == {S \in SUBSET U : \E x \in S : Sum(q, S) # Sum(q, S \ {x}) + q[x]}
<1>1. SUFFICES ASSUME B # {} PROVE FALSE
  OBVIOUS
<1>2. PICK S \in B : \A r \in SUBSET S : r # S => r \notin B
  <2>1. B \in SUBSET SUBSET U
    OBVIOUS
  <2> HIDE DEF B
  <2>2. QED
    BY <1>1, <2>1, Smallest
<1>3. PICK x \in S : Sum(q, S) # Sum(q, S \ {x}) + q[x]
  OBVIOUS
<1> DEFINE y == Pick(S)
<1>4. y \in S /\ Sum(q, S) = q[y] + Sum(q, S \ {y})
  BY FS_Subset, SumRule, PickIsMember
<1>5. /\ \A T \in SUBSET S : Sum(q, T) \in Int
      /\ q[x] \in Int /\ q[y] \in Int
  BY <1>4, SumIsInt
<1>6. x # y
  <2> HIDE DEF y
  <2>1. S \ {y} \in SUBSET S
    OBVIOUS
  <2>2. Sum(q, S \ {y}) \in Int
    BY <1>5, <2>1
  <2>3. ASSUME x = y PROVE FALSE
    <3>1. Sum(q, S) # Sum(q, S \ {y}) + q[y]
      BY <1>3, <2>3
    <3> DEFINE a == Sum(q, S)
               b == Sum(q, S \ {y})
               c == q[y]
    <3>2. a # b + c /\ a = c + b /\ b \in Int /\ c \in Int
      BY <3>1, <1>4, <1>5, <2>2
    <3> HIDE DEF a, b, c
    <3>3. QED
      BY <3>2
  <2>4. QED
    BY <2>3
<1>7. Sum(q, S \ {y}) = Sum(q, (S \ {y}) \ {x}) + q[x]
  <2>1. S \ {y} \in SUBSET U /\ S \ {y} \in SUBSET S /\ S \ {y} # S /\ x \in S \ {y}
    BY <1>4, <1>6
  <2> HIDE DEF y
  <2>2. QED
    BY <1>2, <2>1
<1>8. Sum(q, S \ {x}) = Sum(q, (S \ {x}) \ {y}) + q[y]
  <2>1. S \ {x} \in SUBSET U /\ S \ {x} \in SUBSET S /\ S \ {x} # S /\ y \in S \ {x}
    BY <1>4, <1>6
  <2> HIDE DEF y
  <2>2. QED
    BY <1>2, <2>1
<1>9. (S \ {x}) \ {y} = (S \ {y}) \ {x}
  OBVIOUS
<1>10. /\ Sum(q, S \ {x}) \in Int /\ Sum(q, S \ {y}) \in Int
       /\ Sum(q, (S \ {x}) \ {y}) \in Int
  <2>1. S \ {x} \in SUBSET S /\ S \ {y} \in SUBSET S /\ (S \ {x}) \ {y} \in SUBSET S
    OBVIOUS
  <2>2. QED
    BY <1>5, <2>1
<1> HIDE DEF y
<1> DEFINE a == Sum(q, S)
           b == Sum(q, S \ {x})
           c == Sum(q, S \ {y})
           d == Sum(q, (S \ {x}) \ {y})
           v == q[x]
           w == q[y]
<1>11. /\ a # b + v /\ a = w + c /\ c = d + v /\ b = d + w
       /\ b \in Int /\ c \in Int /\ d \in Int /\ v \in Int /\ w \in Int
  BY <1>3, <1>4, <1>5, <1>7, <1>8, <1>9, <1>10
<1> HIDE DEF a, b, c, d, v, w
<1>12. QED
  BY <1>11
-----------------------------------------------------------------------------
(* Each service preserves the inductive invariant *)

\* Initially no order exists.
LEMMA InitIInv == Init => IInv
<1> SUFFICES ASSUME Init PROVE IInv
  OBVIOUS
<1> USE DEF Init
<1>1. TypeOK
  BY RowsAssumption DEF TypeOK
<1>2. RowsTogether
  BY RowsAssumption DEF RowsTogether, Placed
<1>3. CancelledTogether /\ PayableMatchesChargeable
  BY DEF CancelledTogether, PayableMatchesChargeable, Placed
<1>4. DeliveredTogether
  BY DEF DeliveredTogether, StoreOrdersOf
<1>5. CollectedOnlyWhenDelivered
  BY DEF CollectedOnlyWhenDelivered
<1>6. StockHeldByChargeable
  BY RowsAssumption DEF StockHeldByChargeable, Placed, NonChargeable
<1>7. QED
  BY <1>1, <1>2, <1>3, <1>4, <1>5, <1>6 DEF IInv

\* Checkout creates the rows of an order and deducts covered quantities.
LEMMA PlaceOrderKeepsIInv ==
    ASSUME IInv, NEW o \in Orders, PlaceOrder(o)
    PROVE  IInv'
<1>1. \A q \in Orders \ {o} : ChargeableIn(soStatus', q) = ChargeableIn(soStatus, q)
  BY OtherOrdersKeepTheirParts DEF PlaceOrder
<1>2. /\ ChargeableIn(soStatus', o) = StoreOrdersOf(o)
      /\ StoreOrdersOf(o) # {}
  BY NonEmptyAssumption DEF PlaceOrder, ChargeableIn, StoreOrdersOf, NonChargeable
<1>3. stock' \in [Products -> Nat]
  <2>1. ASSUME NEW p \in Products, \E i \in OrderItemsOf(o) : ProductOf[i] = p
        PROVE  stock[p] + (-1) * Quantity[CHOOSE i \in OrderItemsOf(o) : ProductOf[i] = p] \in Nat
    <3> DEFINE i == CHOOSE i \in OrderItemsOf(o) : ProductOf[i] = p
    <3>1. i \in OrderItemsOf(o) /\ ProductOf[i] = p
      BY <2>1
    <3>2. i \in Items
      BY <3>1 DEF OrderItemsOf, ItemsOf
    <3>3. Quantity[i] <= stock[p]
      BY <3>1 DEF PlaceOrder, StockCovers
    <3>4. stock[p] \in Nat /\ Quantity[i] \in Nat
      BY <3>2, RowsAssumption DEF IInv, TypeOK
    <3> HIDE DEF i
    <3>5. stock[p] + (-1) * Quantity[i] \in Nat
      BY <3>3, <3>4
    <3>6. QED
      BY <3>5 DEF i
  <2>2. QED
    BY <2>1 DEF PlaceOrder, MoveStock, IInv, TypeOK
<1>4. TypeOK'
  <2>1. references' \subseteq Items \X {"deduct", "restore"}
    BY DEF PlaceOrder, OrderItemsOf, ItemsOf, IInv, TypeOK
  <2>2. charged' \in [Orders -> SUBSET StoreOrders]
    BY DEF PlaceOrder, StoreOrdersOf, IInv, TypeOK
  <2>3. QED
    BY <1>3, <2>1, <2>2
    DEF PlaceOrder, IInv, TypeOK, itemVars, storeVars, OrderStatus, StoreOrderStatus, PaymentStatus
<1>5. RowsTogether'
  BY RowsAssumption DEF PlaceOrder, IInv, TypeOK, RowsTogether, Placed
<1>6. CancelledTogether' /\ PayableMatchesChargeable'
  BY <1>1, <1>2
  DEF PlaceOrder, IInv, TypeOK, CancelledTogether, PayableMatchesChargeable, Placed
<1>7. DeliveredTogether'
  <2> SUFFICES ASSUME NEW q \in Orders
               PROVE  DeliveredTogether!(q)'
    BY DEF DeliveredTogether
  <2>1. CASE q = o
    BY <2>1 DEF PlaceOrder, IInv, TypeOK, DeliveredTogether, Placed, StoreOrdersOf
  <2>2. CASE q # o
    BY <1>1, <2>2
    DEF PlaceOrder, IInv, TypeOK, DeliveredTogether, StoreOrdersOf, ChargeableIn
  <2>3. QED
    BY <2>1, <2>2
<1>8. CollectedOnlyWhenDelivered'
  BY DEF PlaceOrder, IInv, TypeOK, CollectedOnlyWhenDelivered, RowsTogether, Placed
<1>9. StockHeldByChargeable'
  <2> SUFFICES ASSUME NEW i \in Items
               PROVE  StockHeldByChargeable!(i)'
    BY DEF StockHeldByChargeable
  <2> QED
    BY RowsAssumption
    DEF PlaceOrder, IInv, TypeOK, StockHeldByChargeable, RowsTogether, Placed,
        OrderItemsOf, ItemsOf, StoreOrdersOf, NonChargeable, itemVars
<1>10. QED
  BY <1>4, <1>5, <1>6, <1>7, <1>8, <1>9 DEF IInv

\* A request passing its store check, and store administration, touch no row
\* the invariant relates.
LEMMA StoreStepKeepsIInv ==
    ASSUME IInv,
           \/ \E so \in StoreOrders : CheckStoreActive(so)
           \/ \E s \in Stores, open \in BOOLEAN : SetStoreOpen(s, open)
    PROVE  IInv'
<1>1. UNCHANGED <<orderVars, soStatus, itemVars, stockVars>>
  BY DEF CheckStoreActive, SetStoreOpen
<1>2. openStores' \subseteq Stores /\ checkedRequests' \subseteq StoreOrders
  BY DEF CheckStoreActive, SetStoreOpen, IInv, TypeOK
<1>3. TypeOK'
  BY <1>1, <1>2 DEF IInv, TypeOK, orderVars, itemVars, stockVars
<1>4. QED
  BY <1>1, <1>3
  DEF IInv, orderVars, itemVars, stockVars, RowsTogether, CancelledTogether,
      DeliveredTogether, CollectedOnlyWhenDelivered, PayableMatchesChargeable,
      StockHeldByChargeable, Placed, ChargeableIn, StoreOrdersOf

\* accept, processing and ready: the StoreOrder stays chargeable and is not
\* completed, so its order was neither cancelled nor completed and the sync
\* makes it neither.
LEMMA TransitionKeepsIInv ==
    ASSUME IInv, NEW so \in StoreOrders, NEW new, TransitionStoreOrder(so, new)
    PROVE  IInv'
<1> DEFINE o == OrderOf[so]
           newSo == [soStatus EXCEPT ![so] = new]
<1>1. /\ soStatus' = newSo
      /\ SyncOrderStatus(newSo, o)
      /\ soStatus[so] \in {"PENDING", "ACCEPTED", "PREPARING"}
      /\ new \in {"ACCEPTED", "PREPARING", "READY"}
      /\ o \in Orders
  BY RowsAssumption DEF TransitionStoreOrder, StoreTransitions
<1>2. \A q \in Orders : ChargeableIn(newSo, q) = ChargeableIn(soStatus, q)
  BY <1>1 DEF ChargeableIn, NonChargeable, StoreOrdersOf, IInv, TypeOK
<1>3. so \in ChargeableIn(soStatus, o)
  BY <1>1 DEF ChargeableIn, NonChargeable, StoreOrdersOf
<1>4. /\ status[o] \notin {"NONE", "CANCELLED", "COMPLETED"}
      /\ status'[o] \notin {"NONE", "CANCELLED", "COMPLETED"}
      /\ status' \in [Orders -> OrderStatus \cup {"NONE"}]
      /\ \A q \in Orders \ {o} : status'[q] = status[q]
  <2>1. status[o] \notin {"NONE", "CANCELLED", "COMPLETED"}
    BY <1>1, <1>3
    DEF IInv, RowsTogether, CancelledTogether, DeliveredTogether, Placed
  <2>2. status' = [status EXCEPT ![o] = StatusFromStoreOrders(newSo, o)]
    BY <1>1, SyncedOrder DEF IInv
  <2>3. /\ StatusFromStoreOrders(newSo, o) \in OrderStatus \ {"CANCELLED", "COMPLETED"}
    <3>1. so \in ChargeableIn(newSo, o) /\ newSo[so] = new
      BY <1>2, <1>1, <1>3 DEF IInv, TypeOK
    <3>2. QED
      BY <1>1, <3>1, StatusOfOrder
  <2>4. QED
    BY <1>1, <2>1, <2>2, <2>3 DEF OrderStatus, IInv, TypeOK
<1>5. payment' = payment /\ delivered' = delivered
  BY <1>1, <1>4, SyncedOrder DEF SyncOrderStatus, IInv, TypeOK
<1>6. TypeOK'
  BY <1>1, <1>4, <1>5
  DEF TransitionStoreOrder, IInv, TypeOK, StoreOrderStatus, itemVars, stockVars
<1>7. RowsTogether'
  BY <1>1, <1>4, <1>5, RowsAssumption DEF IInv, TypeOK, RowsTogether, Placed
<1>8. CancelledTogether' /\ PayableMatchesChargeable'
  <2>1. \A q \in Orders : ChargeableIn(soStatus', q) = ChargeableIn(soStatus, q)
    BY <1>1, <1>2
  <2>2. \A q \in Orders : /\ Placed(q)' <=> Placed(q)
                          /\ status'[q] = "CANCELLED" <=> status[q] = "CANCELLED"
    BY <1>1, <1>4 DEF Placed
  <2>3. CancelledTogether'
    BY <1>5, <2>1, <2>2 DEF IInv, CancelledTogether
  <2>4. PayableMatchesChargeable'
    BY <2>1, <2>2 DEF TransitionStoreOrder, IInv, PayableMatchesChargeable
  <2>5. QED
    BY <2>3, <2>4
<1>9. DeliveredTogether'
  <2> SUFFICES ASSUME NEW q \in Orders
               PROVE  DeliveredTogether!(q)'
    BY DEF DeliveredTogether
  <2>1. CASE q = o
    BY <1>1, <1>4, <1>5, <2>1 DEF IInv, TypeOK, DeliveredTogether, StoreOrdersOf
  <2>2. CASE q # o
    BY <1>1, <1>2, <1>4, <1>5, <2>2
    DEF IInv, TypeOK, DeliveredTogether, StoreOrdersOf, ChargeableIn
  <2>3. QED
    BY <2>1, <2>2
<1>10. CollectedOnlyWhenDelivered'
  BY <1>1, <1>4, <1>5 DEF TransitionStoreOrder, IInv, TypeOK, CollectedOnlyWhenDelivered
<1>11. StockHeldByChargeable'
  <2> SUFFICES ASSUME NEW i \in Items
               PROVE  StockHeldByChargeable!(i)'
    BY DEF StockHeldByChargeable
  <2>1. StoreOrderOf[i] \in StoreOrders /\ OrderOf[StoreOrderOf[i]] \in Orders
    BY RowsAssumption
  <2>2. /\ Placed(OrderOf[StoreOrderOf[i]])' <=> Placed(OrderOf[StoreOrderOf[i]])
        /\ \A s \in {"REJECTED", "CANCELLED"} :
              soStatus'[StoreOrderOf[i]] = s <=> soStatus[StoreOrderOf[i]] = s
    BY <1>1, <1>4, <2>1 DEF Placed, IInv, TypeOK
  <2>3. QED
    BY <2>2
    DEF TransitionStoreOrder, IInv, StockHeldByChargeable, NonChargeable,
        itemVars, stockVars
<1>12. QED
  BY <1>6, <1>7, <1>8, <1>9, <1>10, <1>11 DEF IInv

\* Rejection: no StoreOrder of the order can be completed next to one that is
\* pending, so the sync cancels the order exactly when nothing is left; a
\* retry on a rejected StoreOrder finds the status it would set.
LEMMA RejectKeepsIInv ==
    ASSUME IInv, NEW so \in StoreOrders, RejectStoreOrder(so)
    PROVE  IInv'
<1> DEFINE o == OrderOf[so]
           newSo == [soStatus EXCEPT ![so] = "REJECTED"]
<1>1. /\ soStatus' = newSo
      /\ SyncOrderStatus(newSo, o)
      /\ RestoreStock(ItemsOf({so}))
      /\ charged' = [charged EXCEPT ![o] = ChargeableIn(newSo, o)]
      /\ soStatus[so] \in {"PENDING", "REJECTED"}
      /\ o \in Orders
  BY RowsAssumption DEF RejectStoreOrder, RecalculateTotals
<1>2. /\ \A q \in Orders \ {o} : ChargeableIn(newSo, q) = ChargeableIn(soStatus, q)
      /\ ChargeableIn(newSo, o) = ChargeableIn(soStatus, o) \ {so}
      /\ \A y \in StoreOrders \ {so} : newSo[y] = soStatus[y]
      /\ newSo[so] = "REJECTED"
  BY <1>1, OtherOrdersKeepTheirParts DEF ChargeableIn, NonChargeable, StoreOrdersOf, IInv, TypeOK
<1>3. /\ status[o] # "NONE"
      /\ status'[o] \in OrderStatus
      /\ status'[o] = "CANCELLED" <=> ChargeableIn(newSo, o) = {}
      /\ status'[o] = "COMPLETED" <=> status[o] = "COMPLETED"
      /\ status' = [status EXCEPT ![o] = StatusFromStoreOrders(newSo, o)]
      /\ status' \in [Orders -> OrderStatus \cup {"NONE"}]
      /\ \A q \in Orders \ {o} : status'[q] = status[q]
  <2>1. status' = [status EXCEPT ![o] = StatusFromStoreOrders(newSo, o)]
    BY <1>1, SyncedOrder DEF IInv
  <2>2. status'[o] = StatusFromStoreOrders(newSo, o)
    BY <1>1, <2>1 DEF IInv, TypeOK
  <2>3. status[o] # "NONE"
    BY <1>1 DEF IInv, RowsTogether, Placed
  <2>4. /\ status'[o] \in OrderStatus
        /\ status'[o] = "CANCELLED" <=> ChargeableIn(newSo, o) = {}
        /\ status'[o] = "COMPLETED" <=>
              /\ ChargeableIn(newSo, o) # {}
              /\ \A y \in ChargeableIn(newSo, o) : newSo[y] = "COMPLETED"
    BY <1>1, <2>2, StatusOfOrder
  <2>5. status'[o] = "COMPLETED" => status[o] = "COMPLETED"
    <3> SUFFICES ASSUME status'[o] = "COMPLETED" PROVE status[o] = "COMPLETED"
      OBVIOUS
    <3>1. PICK y \in ChargeableIn(newSo, o) : newSo[y] = "COMPLETED"
      BY <2>4
    <3>2. y \in StoreOrdersOf(o) /\ soStatus[y] = "COMPLETED"
      BY <1>2, <3>1 DEF ChargeableIn, StoreOrdersOf
    <3>3. QED
      BY <1>1, <3>2 DEF IInv, DeliveredTogether
  <2>6. ASSUME status[o] = "COMPLETED" PROVE status'[o] = "COMPLETED"
    <3>1. so \notin ChargeableIn(soStatus, o)
      BY <1>1, <2>6 DEF IInv, DeliveredTogether, ChargeableIn, NonChargeable
    <3>2. ChargeableIn(soStatus, o) # {}
      BY <1>1, <2>6 DEF IInv, CancelledTogether, Placed
    <3>3. ChargeableIn(newSo, o) = ChargeableIn(soStatus, o)
      BY <1>2, <3>1
    <3>4. \A y \in ChargeableIn(newSo, o) : y # so /\ newSo[y] = "COMPLETED"
      BY <1>1, <1>2, <2>6, <3>1, <3>3 DEF IInv, DeliveredTogether, ChargeableIn
    <3>5. QED
      BY <2>4, <3>2, <3>3, <3>4
  <2>7. QED
    BY <1>1, <2>1, <2>2, <2>3, <2>4, <2>5, <2>6 DEF IInv, TypeOK
<1>4. /\ payment' \in [Orders -> PaymentStatus \cup {"NONE"}]
      /\ \A q \in Orders \ {o} : payment'[q] = payment[q]
      /\ payment'[o] # "NONE"
      /\ payment'[o] = "COLLECTED" <=> payment[o] = "COLLECTED"
      /\ status'[o] = "CANCELLED" => payment'[o] = "CANCELLED"
      /\ delivered' = delivered
  <2>1. payment[o] # "NONE"
    BY <1>1, <1>3 DEF IInv, RowsTogether, Placed
  <2>2. ASSUME status'[o] = "CANCELLED" PROVE payment'[o] = "CANCELLED"
    <3>1. CASE status[o] = "CANCELLED"
      BY <1>1, <3>1, SyncedOrder DEF IInv, CancelledTogether, Placed
    <3>2. CASE status[o] # "CANCELLED"
      <4>1. payment[o] # "COLLECTED"
        BY <1>1, <1>3, <2>2 DEF IInv, CollectedOnlyWhenDelivered
      <4>2. payment[o] \in {"PENDING", "CANCELLED"}
        BY <1>1, <2>1, <4>1 DEF IInv, TypeOK, PaymentStatus
      <4>3. QED
        BY <1>1, <2>2, <3>2, <4>2, SyncedOrder DEF IInv
    <3>3. QED
      BY <3>1, <3>2
  <2>3. delivered' = delivered
    BY <1>1, <1>3, SyncedOrder DEF IInv
  <2>4. QED
    BY <1>1, <2>1, <2>2, <2>3, SyncedOrder DEF IInv
<1>5. /\ restoredItems' = restoredItems \cup ItemsOf({so})
      /\ references' \subseteq Items \X {"deduct", "restore"}
      /\ stock' \in [Products -> Nat]
      /\ \A i \in Items :
           /\ <<i, "restore">> \in references' <=> i \in restoredItems'
           /\ <<i, "deduct">> \in references' <=> <<i, "deduct">> \in references
  <2>1. ItemsOf({so}) \in SUBSET Items
    BY DEF ItemsOf
  <2>2. \A i \in Items : <<i, "restore">> \in references <=> i \in restoredItems
    BY DEF IInv, StockHeldByChargeable
  <2>3. QED
    BY <1>1, <2>1, <2>2, RestoredItems DEF IInv
<1>6. TypeOK'
  <2>1. charged' \in [Orders -> SUBSET StoreOrders]
    BY <1>1 DEF IInv, TypeOK, ChargeableIn, StoreOrdersOf
  <2>2. QED
    BY <1>1, <1>3, <1>4, <1>5, <2>1
    DEF RejectStoreOrder, IInv, TypeOK, StoreOrderStatus, ItemsOf
<1>7. RowsTogether'
  <2>1. ASSUME NEW y \in StoreOrders
        PROVE  soStatus'[y] = "NONE" <=> status'[OrderOf[y]] = "NONE"
    <3>1. /\ soStatus'[y] = "NONE" <=> soStatus[y] = "NONE"
          /\ soStatus[y] = "NONE" <=> status[OrderOf[y]] = "NONE"
      BY <1>1, <1>2 DEF IInv, RowsTogether, Placed
    <3>2. status'[OrderOf[y]] = "NONE" <=> status[OrderOf[y]] = "NONE"
      BY <1>3, RowsAssumption DEF OrderStatus
    <3>3. QED
      BY <3>1, <3>2
  <2>2. ASSUME NEW q \in Orders
        PROVE  payment'[q] = "NONE" <=> status'[q] = "NONE"
    BY <1>3, <1>4 DEF IInv, RowsTogether, Placed, OrderStatus
  <2>3. QED
    BY <2>1, <2>2 DEF RowsTogether, Placed
<1>8. CancelledTogether'
  <2> SUFFICES ASSUME NEW q \in Orders
               PROVE  CancelledTogether!(q)'
    BY DEF CancelledTogether
  <2>1. CASE q = o
    BY <1>1, <1>3, <1>4, <2>1
  <2>2. CASE q # o
    <3>1. /\ ChargeableIn(soStatus', q) = ChargeableIn(soStatus, q)
          /\ status'[q] = status[q]
          /\ payment'[q] = payment[q]
      BY <1>1, <1>2, <1>3, <1>4, <2>2
    <3>2. QED
      BY <3>1 DEF IInv, CancelledTogether, Placed
  <2>3. QED
    BY <2>1, <2>2
<1>9. PayableMatchesChargeable'
  BY <1>1, <1>2, <1>3 DEF IInv, TypeOK, PayableMatchesChargeable, Placed
<1>10. DeliveredTogether'
  <2> SUFFICES ASSUME NEW q \in Orders
               PROVE  DeliveredTogether!(q)'
    BY DEF DeliveredTogether
  <2>1. /\ q \in delivered <=> status[q] = "COMPLETED"
        /\ status[q] = "COMPLETED" =>
              \A y \in ChargeableIn(soStatus, q) : soStatus[y] = "COMPLETED"
        /\ \A y \in StoreOrdersOf(q) :
              soStatus[y] = "COMPLETED" => status[q] = "COMPLETED"
    BY DEF IInv, DeliveredTogether
  <2>2. status'[q] = "COMPLETED" <=> status[q] = "COMPLETED"
    BY <1>3
  <2>3. \A y \in ChargeableIn(newSo, q) : y # so /\ y \in ChargeableIn(soStatus, q)
    BY <1>1, <1>2 DEF ChargeableIn, StoreOrdersOf
  <2>4. QED
    BY <1>1, <1>2, <1>4, <2>1, <2>2, <2>3 DEF StoreOrdersOf, ChargeableIn
<1>11. CollectedOnlyWhenDelivered'
  BY <1>1, <1>3, <1>4 DEF RejectStoreOrder, IInv, CollectedOnlyWhenDelivered
<1>12. StockHeldByChargeable'
  <2> SUFFICES ASSUME NEW i \in Items
               PROVE  StockHeldByChargeable!(i)'
    BY DEF StockHeldByChargeable
  <2>1. StoreOrderOf[i] \in StoreOrders /\ OrderOf[StoreOrderOf[i]] \in Orders
    BY RowsAssumption
  <2>2. Placed(OrderOf[StoreOrderOf[i]])' <=> Placed(OrderOf[StoreOrderOf[i]])
    BY <1>3, <2>1 DEF Placed, OrderStatus
  <2>3. CASE StoreOrderOf[i] = so
    BY <1>1, <1>2, <1>5, <2>1, <2>2, <2>3
    DEF RejectStoreOrder, IInv, StockHeldByChargeable, ItemsOf, NonChargeable
  <2>4. CASE StoreOrderOf[i] # so
    BY <1>1, <1>2, <1>5, <2>1, <2>2, <2>4
    DEF RejectStoreOrder, IInv, StockHeldByChargeable, ItemsOf, NonChargeable
  <2>5. QED
    BY <2>3, <2>4
<1>13. QED
  BY <1>6, <1>7, <1>8, <1>9, <1>10, <1>11, <1>12 DEF IInv

\* Cancellation, by whoever: once the checks of the service have passed,
\* every chargeable StoreOrder has a status the service cancels, so nothing
\* chargeable is left; on a cancelled order nothing was.
LEMMA CancelOrderKeepsIInv ==
    ASSUME IInv, NEW o \in Orders, NEW cancelable, Placed(o),
           cancelable \subseteq ActiveStoreStatuses,
           status[o] # "COMPLETED",
           status[o] # "CANCELLED" =>
              \A so \in ChargeableIn(soStatus, o) : soStatus[so] \in cancelable,
           CancelOrder(o, cancelable)
    PROVE  IInv'
<1> DEFINE first == status[o] # "CANCELLED"
           cancelled == IF first
                        THEN {so \in StoreOrdersOf(o) : soStatus[so] \in cancelable}
                        ELSE {}
           newSo == [so \in StoreOrders |->
                       IF so \in cancelled THEN "CANCELLED" ELSE soStatus[so]]
<1>1. /\ soStatus' = newSo
      /\ status' = [status EXCEPT ![o] = "CANCELLED"]
      /\ payment' = IF first /\ payment[o] = "PENDING"
                    THEN [payment EXCEPT ![o] = "CANCELLED"] ELSE payment
      /\ cancelledItems' = cancelledItems \cup OrderItemsOf(o)
      /\ RestoreStock(OrderItemsOf(o))
      /\ charged' = [charged EXCEPT ![o] = ChargeableIn(newSo, o)]
      /\ UNCHANGED <<delivered, collectedAt, rejectedItems, storeVars>>
  BY DEF CancelOrder, RecalculateTotals
<1>2. /\ cancelled \subseteq ChargeableIn(soStatus, o)
      /\ ChargeableIn(soStatus, o) \subseteq StoreOrdersOf(o)
      /\ StoreOrdersOf(o) \subseteq StoreOrders
      /\ \A so \in StoreOrdersOf(o) : OrderOf[so] = o
  BY DEF ActiveStoreStatuses, ChargeableIn, NonChargeable, StoreOrdersOf
<1>3. cancelled = ChargeableIn(soStatus, o)
  <2>1. CASE first
    BY <1>2, <2>1
  <2>2. CASE ~first
    BY <2>2 DEF IInv, CancelledTogether
  <2>3. QED
    BY <2>1, <2>2
<1> HIDE DEF cancelled
<1>4. /\ \A so \in ChargeableIn(soStatus, o) : newSo[so] = "CANCELLED"
      /\ \A so \in StoreOrders \ ChargeableIn(soStatus, o) : newSo[so] = soStatus[so]
  BY <1>2, <1>3
<1>5. \A so \in StoreOrdersOf(o) : newSo[so] \in NonChargeable
  BY <1>2, <1>4 DEF ChargeableIn, NonChargeable
<1>6. \A so \in StoreOrders : OrderOf[so] # o => newSo[so] = soStatus[so]
  BY <1>2, <1>4
<1>7. /\ ChargeableIn(newSo, o) = {}
      /\ \A q \in Orders \ {o} : ChargeableIn(newSo, q) = ChargeableIn(soStatus, q)
  BY <1>5, <1>6, OtherOrdersKeepTheirParts DEF ChargeableIn
<1>8. /\ restoredItems' = restoredItems \cup OrderItemsOf(o)
      /\ references' \subseteq Items \X {"deduct", "restore"}
      /\ stock' \in [Products -> Nat]
      /\ \A i \in Items :
           /\ <<i, "restore">> \in references' <=> i \in restoredItems'
           /\ <<i, "deduct">> \in references' <=> <<i, "deduct">> \in references
  <2>1. OrderItemsOf(o) \in SUBSET Items
    BY DEF OrderItemsOf, ItemsOf
  <2>2. \A i \in Items : <<i, "restore">> \in references <=> i \in restoredItems
    BY DEF IInv, StockHeldByChargeable
  <2>3. QED
    BY <1>1, <2>1, <2>2, RestoredItems DEF IInv
<1>9. /\ status'[o] = "CANCELLED"
      /\ payment'[o] = "CANCELLED"
      /\ \A q \in Orders \ {o} : status'[q] = status[q] /\ payment'[q] = payment[q]
  <2>1. payment[o] # "NONE"
    BY DEF IInv, RowsTogether
  <2>2. payment[o] # "COLLECTED"
    BY DEF IInv, CollectedOnlyWhenDelivered
  <2>3. ~first => payment[o] = "CANCELLED"
    BY DEF IInv, CancelledTogether
  <2>4. payment[o] \in {"PENDING", "CANCELLED"}
    BY <2>1, <2>2 DEF IInv, TypeOK, PaymentStatus
  <2>5. QED
    BY <1>1, <2>3, <2>4 DEF IInv, TypeOK
<1>10. TypeOK'
  <2>1. charged' \in [Orders -> SUBSET StoreOrders]
    BY <1>1, <1>7 DEF IInv, TypeOK
  <2>2. soStatus' \in [StoreOrders -> StoreOrderStatus \cup {"NONE"}]
    BY <1>1 DEF IInv, TypeOK, StoreOrderStatus
  <2>3. /\ status' \in [Orders -> OrderStatus \cup {"NONE"}]
        /\ payment' \in [Orders -> PaymentStatus \cup {"NONE"}]
    BY <1>1 DEF IInv, TypeOK, OrderStatus, PaymentStatus
  <2>4. cancelledItems' \subseteq Items /\ restoredItems' \subseteq Items
    BY <1>1, <1>8 DEF IInv, TypeOK, OrderItemsOf, ItemsOf
  <2>5. QED
    BY <1>1, <1>8, <2>1, <2>2, <2>3, <2>4 DEF IInv, TypeOK, storeVars
<1>11. RowsTogether'
  <2>1. ASSUME NEW so \in StoreOrders
        PROVE  soStatus'[so] = "NONE" <=> status'[OrderOf[so]] = "NONE"
    <3>1. CASE OrderOf[so] = o
      BY <1>1, <1>5, <1>9, <3>1 DEF StoreOrdersOf, NonChargeable
    <3>2. CASE OrderOf[so] # o
      BY <1>1, <1>6, <1>9, <3>2, RowsAssumption DEF IInv, RowsTogether, Placed
    <3>3. QED
      BY <3>1, <3>2
  <2>2. \A q \in Orders : payment'[q] = "NONE" <=> status'[q] = "NONE"
    BY <1>9 DEF IInv, RowsTogether, Placed
  <2>3. QED
    BY <2>1, <2>2 DEF RowsTogether, Placed
<1>12. CancelledTogether' /\ PayableMatchesChargeable'
  <2>1. ChargeableIn(soStatus', o) = {} /\ charged'[o] = {}
    BY <1>1, <1>7 DEF IInv, TypeOK
  <2>2. \A q \in Orders \ {o} : /\ ChargeableIn(soStatus', q) = ChargeableIn(soStatus, q)
                                /\ charged'[q] = charged[q]
    BY <1>1, <1>7 DEF IInv, TypeOK
  <2>3. QED
    BY <1>9, <2>1, <2>2
    DEF IInv, CancelledTogether, PayableMatchesChargeable, Placed
<1>13. DeliveredTogether'
  <2> SUFFICES ASSUME NEW q \in Orders
               PROVE  DeliveredTogether!(q)'
    BY DEF DeliveredTogether
  <2>1. CASE q = o
    <3>1. o \notin delivered'
      BY <1>1 DEF IInv, DeliveredTogether
    <3>2. QED
      BY <1>1, <1>5, <1>9, <2>1, <3>1 DEF NonChargeable
  <2>2. CASE q # o
    <3>1. /\ ChargeableIn(soStatus', q) = ChargeableIn(soStatus, q)
          /\ \A so \in StoreOrdersOf(q) : soStatus'[so] = soStatus[so]
          /\ ChargeableIn(soStatus, q) \subseteq StoreOrdersOf(q)
      BY <1>1, <1>6, <1>7, <2>2 DEF StoreOrdersOf, ChargeableIn
    <3>2. QED
      BY <1>1, <1>9, <2>2, <3>1 DEF IInv, DeliveredTogether
  <2>3. QED
    BY <2>1, <2>2
<1>14. CollectedOnlyWhenDelivered'
  BY <1>1, <1>9 DEF IInv, CollectedOnlyWhenDelivered
<1>15. StockHeldByChargeable'
  <2> SUFFICES ASSUME NEW i \in Items
               PROVE  StockHeldByChargeable!(i)'
    BY DEF StockHeldByChargeable
  <2> DEFINE so == StoreOrderOf[i]
  <2>1. so \in StoreOrders /\ OrderOf[so] \in Orders
    BY RowsAssumption
  <2>2. Placed(OrderOf[so])' <=> Placed(OrderOf[so])
    BY <1>9, <2>1 DEF Placed
  <2>3. i \in OrderItemsOf(o) <=> OrderOf[so] = o
    BY <2>1 DEF OrderItemsOf, ItemsOf, StoreOrdersOf
  <2>4. soStatus'[so] = "REJECTED" <=> soStatus[so] = "REJECTED"
    BY <1>1, <1>4, <2>1 DEF ChargeableIn, NonChargeable
  <2>5. soStatus'[so] \in NonChargeable <=> (OrderOf[so] = o \/ soStatus[so] \in NonChargeable)
    BY <1>1, <1>5, <1>6, <2>1 DEF StoreOrdersOf
  <2>6. soStatus'[so] = "CANCELLED" => (OrderOf[so] = o \/ soStatus[so] = "CANCELLED")
    BY <1>1, <1>6, <2>1
  <2>7. QED
    BY <1>1, <1>8, <2>2, <2>3, <2>4, <2>5, <2>6 DEF IInv, StockHeldByChargeable
<1>16. QED
  BY <1>10, <1>11, <1>12, <1>13, <1>14, <1>15 DEF IInv

\* The customer's checks: nothing has been prepared yet.
LEMMA CancelCustomerKeepsIInv ==
    ASSUME IInv, NEW o \in Orders, CancelCustomerOrder(o)
    PROVE  IInv'
<1>1. Placed(o) /\ CancelOrder(o, CustomerCancelableStore)
  BY DEF CancelCustomerOrder
<1>2. status[o] # "COMPLETED"
  BY DEF CancelCustomerOrder, CustomerCancellable
<1>3. CustomerCancelableStore \subseteq ActiveStoreStatuses
  BY DEF CustomerCancelableStore, ActiveStoreStatuses
<1>4. ASSUME status[o] # "CANCELLED", NEW so \in ChargeableIn(soStatus, o)
      PROVE  soStatus[so] \in CustomerCancelableStore
  <2>1. so \in StoreOrders /\ OrderOf[so] = o /\ soStatus[so] \notin NonChargeable
    BY <1>4 DEF ChargeableIn, StoreOrdersOf
  <2>2. soStatus[so] # "NONE"
    BY <1>1, <2>1 DEF IInv, RowsTogether
  <2>3. soStatus[so] \notin CustomerCancelBlocking
    BY <1>4, <2>1 DEF CancelCustomerOrder, StoreOrdersOf
  <2>4. QED
    BY <2>1, <2>2, <2>3
    DEF IInv, TypeOK, StoreOrderStatus, NonChargeable, CustomerCancelBlocking,
        CustomerCancelableStore
<1>5. QED
  BY <1>1, <1>2, <1>3, <1>4, CancelOrderKeepsIInv

\* Management's checks: the order is not completed, so no StoreOrder is.
LEMMA CancelByAdminKeepsIInv ==
    ASSUME IInv, NEW o \in Orders, CancelOrderByAdmin(o)
    PROVE  IInv'
<1>1. Placed(o) /\ CancelOrder(o, ActiveStoreStatuses)
  BY DEF CancelOrderByAdmin
<1>2. status[o] # "COMPLETED"
  BY DEF CancelOrderByAdmin, AdminCancellable
<1>3. ASSUME NEW so \in ChargeableIn(soStatus, o)
      PROVE  soStatus[so] \in ActiveStoreStatuses
  <2>1. /\ so \in StoreOrders /\ OrderOf[so] = o
        /\ so \in StoreOrdersOf(o)
        /\ soStatus[so] \notin NonChargeable
    BY <1>3 DEF ChargeableIn, StoreOrdersOf
  <2>2. soStatus[so] # "NONE"
    BY <1>1, <2>1 DEF IInv, RowsTogether
  <2>3. soStatus[so] # "COMPLETED"
    BY <1>2, <2>1 DEF IInv, DeliveredTogether
  <2>4. QED
    BY <2>1, <2>2, <2>3
    DEF IInv, TypeOK, StoreOrderStatus, NonChargeable, ActiveStoreStatuses
<1>4. QED
  BY <1>1, <1>2, <1>3, CancelOrderKeepsIInv

\* A forward move by management only changes the status of an order that is,
\* and stays, open.
LEMMA MoveOrderKeepsIInv ==
    ASSUME IInv, NEW o \in Orders, NEW new, MoveOrderForward(o, new)
    PROVE  IInv'
<1>1. /\ status' = [status EXCEPT ![o] = new]
      /\ UNCHANGED <<payment, delivered, collectedAt, charged, soStatus,
                     itemVars, stockVars, storeVars>>
      /\ status[o] \in OrderStatus \ {"CANCELLED", "COMPLETED"}
      /\ new \in OrderStatus \ {"CANCELLED", "COMPLETED"}
  BY DEF MoveOrderForward, AdminTransitions, OrderStatus
<1>2. /\ status' \in [Orders -> OrderStatus \cup {"NONE"}]
      /\ \A q \in Orders, s \in {"NONE", "CANCELLED", "COMPLETED"} :
            status'[q] = s <=> status[q] = s
  BY <1>1 DEF IInv, TypeOK, OrderStatus
<1>3. \A q \in Orders : ChargeableIn(soStatus', q) = ChargeableIn(soStatus, q)
  BY <1>1
<1>4. TypeOK'
  BY <1>1, <1>2 DEF IInv, TypeOK, itemVars, stockVars, storeVars
<1>5. RowsTogether'
  BY <1>1, <1>2, RowsAssumption DEF IInv, RowsTogether, Placed
<1>6. CancelledTogether' /\ PayableMatchesChargeable'
  BY <1>1, <1>2, <1>3 DEF IInv, CancelledTogether, PayableMatchesChargeable, Placed
<1>7. DeliveredTogether'
  BY <1>1, <1>2, <1>3 DEF IInv, DeliveredTogether
<1>8. CollectedOnlyWhenDelivered'
  BY <1>1, <1>2 DEF IInv, CollectedOnlyWhenDelivered
<1>9. StockHeldByChargeable'
  BY <1>1, <1>2, RowsAssumption
  DEF IInv, StockHeldByChargeable, Placed, itemVars, stockVars
<1>10. QED
  BY <1>4, <1>5, <1>6, <1>7, <1>8, <1>9 DEF IInv

\* Completion and its reversal move the chargeable StoreOrders of an order
\* among chargeable statuses and set its delivery time along.
LEMMA DeliveryKeepsIInv ==
    ASSUME IInv, NEW o \in Orders, CompleteOrder(o) \/ ReverseDelivery(o)
    PROVE  IInv'
<1>1. /\ status[o] \notin {"NONE", "CANCELLED"}
      /\ status' = [status EXCEPT ![o] = IF CompleteOrder(o) THEN "COMPLETED" ELSE "IN_PROGRESS"]
      /\ status'[o] \in {"COMPLETED", "IN_PROGRESS"}
      /\ UNCHANGED <<payment, collectedAt, charged, itemVars, stockVars, storeVars>>
      /\ payment[o] # "COLLECTED"
  <2>1. CASE CompleteOrder(o)
    <3>1. status[o] \in {"CONFIRMED", "IN_PROGRESS", "PARTIALLY_CANCELLED"}
      BY <2>1 DEF CompleteOrder, AdminTransitions
    <3>2. QED
      BY <2>1, <3>1 DEF CompleteOrder, IInv, TypeOK, CollectedOnlyWhenDelivered
  <2>2. CASE ReverseDelivery(o) /\ ~CompleteOrder(o)
    BY <2>2 DEF ReverseDelivery, ReversalAllowed, IInv, TypeOK
  <2>3. QED
    BY <2>1, <2>2
<1>2. /\ \A so \in StoreOrders :
            soStatus'[so] # soStatus[so] => /\ so \in ChargeableIn(soStatus, o)
                                            /\ soStatus'[so] \in {"COMPLETED", "READY"}
      /\ soStatus' \in [StoreOrders -> StoreOrderStatus \cup {"NONE"}]
      /\ delivered' = IF status'[o] = "COMPLETED" THEN delivered \cup {o} ELSE delivered \ {o}
      /\ \A so \in StoreOrdersOf(o) : soStatus'[so] = "COMPLETED" => status'[o] = "COMPLETED"
      /\ status'[o] = "COMPLETED" =>
            \A so \in ChargeableIn(soStatus, o) : soStatus'[so] = "COMPLETED"
  <2>1. CASE CompleteOrder(o)
    BY <1>1, <2>1
    DEF CompleteOrder, IInv, TypeOK, StoreOrderStatus, ChargeableIn, StoreOrdersOf
  <2>2. CASE ReverseDelivery(o) /\ ~CompleteOrder(o)
    <3>1. status'[o] = "IN_PROGRESS"
      BY <1>1, <2>2 DEF IInv, TypeOK
    <3>2. QED
      BY <1>1, <2>2, <3>1
      DEF ReverseDelivery, ReopenedStoreOrders, IInv, TypeOK, StoreOrderStatus,
          ChargeableIn, NonChargeable, StoreOrdersOf
  <2>3. QED
    BY <1>1, <2>1, <2>2
<1>3. \A so \in StoreOrders :
         /\ \A s \in {"NONE", "REJECTED", "CANCELLED"} : soStatus'[so] = s <=> soStatus[so] = s
         /\ OrderOf[so] # o => soStatus'[so] = soStatus[so]
  <2> SUFFICES ASSUME NEW so \in StoreOrders, soStatus'[so] # soStatus[so]
               PROVE  /\ soStatus[so] \notin {"NONE", "REJECTED", "CANCELLED"}
                      /\ OrderOf[so] = o
    BY <1>2
  <2>1. so \in ChargeableIn(soStatus, o)
    BY <1>2
  <2>2. QED
    BY <1>1, <2>1 DEF ChargeableIn, NonChargeable, StoreOrdersOf, IInv, RowsTogether, Placed
<1>4. \A q \in Orders : ChargeableIn(soStatus', q) = ChargeableIn(soStatus, q)
  BY <1>3 DEF ChargeableIn, NonChargeable, StoreOrdersOf
<1>5. /\ \A q \in Orders \ {o} : status'[q] = status[q]
      /\ status' \in [Orders -> OrderStatus \cup {"NONE"}]
      /\ \A q \in Orders, s \in {"NONE", "CANCELLED"} : status'[q] = s <=> status[q] = s
  BY <1>1 DEF IInv, TypeOK, OrderStatus
<1>6. TypeOK'
  BY <1>1, <1>2, <1>5 DEF IInv, TypeOK, itemVars, stockVars, storeVars
<1>7. RowsTogether'
  BY <1>1, <1>3, <1>5, RowsAssumption DEF IInv, RowsTogether, Placed
<1>8. CancelledTogether' /\ PayableMatchesChargeable'
  BY <1>1, <1>4, <1>5 DEF IInv, CancelledTogether, PayableMatchesChargeable, Placed
<1>9. DeliveredTogether'
  <2> SUFFICES ASSUME NEW q \in Orders
               PROVE  DeliveredTogether!(q)'
    BY DEF DeliveredTogether
  <2>1. CASE q = o
    BY <1>2, <1>4, <2>1
  <2>2. CASE q # o
    <3>1. /\ q \in delivered' <=> q \in delivered
          /\ status'[q] = status[q]
          /\ \A so \in StoreOrdersOf(q) : soStatus'[so] = soStatus[so]
          /\ ChargeableIn(soStatus, q) \subseteq StoreOrdersOf(q)
      BY <1>2, <1>3, <1>5, <2>2 DEF StoreOrdersOf, ChargeableIn
    <3>2. QED
      BY <1>4, <3>1 DEF IInv, DeliveredTogether
  <2>3. QED
    BY <2>1, <2>2
<1>10. CollectedOnlyWhenDelivered'
  BY <1>1, <1>5 DEF IInv, CollectedOnlyWhenDelivered
<1>11. StockHeldByChargeable'
  <2> SUFFICES ASSUME NEW i \in Items
               PROVE  StockHeldByChargeable!(i)'
    BY DEF StockHeldByChargeable
  <2>1. StoreOrderOf[i] \in StoreOrders /\ OrderOf[StoreOrderOf[i]] \in Orders
    BY RowsAssumption
  <2>2. /\ Placed(OrderOf[StoreOrderOf[i]])' <=> Placed(OrderOf[StoreOrderOf[i]])
        /\ \A s \in {"REJECTED", "CANCELLED"} :
              soStatus'[StoreOrderOf[i]] = s <=> soStatus[StoreOrderOf[i]] = s
    BY <1>3, <1>5, <2>1 DEF Placed
  <2>3. QED
    BY <1>1, <2>2
    DEF IInv, StockHeldByChargeable, NonChargeable, itemVars, stockVars
<1>12. QED
  BY <1>6, <1>7, <1>8, <1>9, <1>10, <1>11 DEF IInv

\* Payment: collected only on a completed order, cancelled for good.
LEMMA PaymentKeepsIInv ==
    ASSUME IInv, NEW o \in Orders, NEW new, UpdatePaymentStatus(o, new)
    PROVE  IInv'
<1>1. /\ payment' = [payment EXCEPT ![o] = new]
      /\ payment[o] # "CANCELLED" /\ new \in PaymentStatus
      /\ UNCHANGED <<status, delivered, charged, soStatus, itemVars, stockVars, storeVars>>
  BY DEF UpdatePaymentStatus, PaymentStatus
<1>2. TypeOK'
  BY <1>1
  DEF UpdatePaymentStatus, IInv, TypeOK, PaymentStatus, itemVars, stockVars, storeVars
<1>3. RowsTogether'
  BY <1>1 DEF UpdatePaymentStatus, IInv, TypeOK, RowsTogether, Placed, PaymentStatus
<1>4. CancelledTogether'
  BY <1>1 DEF IInv, TypeOK, CancelledTogether, Placed, ChargeableIn, StoreOrdersOf
<1>5. DeliveredTogether' /\ PayableMatchesChargeable'
  BY <1>1
  DEF IInv, DeliveredTogether, PayableMatchesChargeable, Placed, ChargeableIn, StoreOrdersOf
<1>6. CollectedOnlyWhenDelivered'
  BY <1>1 DEF UpdatePaymentStatus, IInv, TypeOK, CollectedOnlyWhenDelivered
<1>7. StockHeldByChargeable'
  BY <1>1 DEF IInv, StockHeldByChargeable, Placed, itemVars, stockVars
<1>8. QED
  BY <1>2, <1>3, <1>4, <1>5, <1>6, <1>7 DEF IInv

-----------------------------------------------------------------------------
(* The invariants *)

\* The steps taken together.
LEMMA NextKeepsIInv == IInv /\ [Next]_vars => IInv'
<1> SUFFICES ASSUME IInv, [Next]_vars
             PROVE  IInv'
  OBVIOUS
<1>1. CASE UNCHANGED vars
  BY <1>1
  DEF vars, orderVars, itemVars, stockVars, storeVars, IInv, TypeOK, RowsTogether,
      CancelledTogether, DeliveredTogether, CollectedOnlyWhenDelivered,
      PayableMatchesChargeable, StockHeldByChargeable, Placed, ChargeableIn, StoreOrdersOf
<1>2. ASSUME NEW o \in Orders, PlaceOrder(o) PROVE IInv'
  BY <1>2, PlaceOrderKeepsIInv
<1>3. ASSUME NEW o \in Orders, CancelCustomerOrder(o) PROVE IInv'
  BY <1>3, CancelCustomerKeepsIInv
<1>4. ASSUME NEW o \in Orders, CancelOrderByAdmin(o) PROVE IInv'
  BY <1>4, CancelByAdminKeepsIInv
<1>5. ASSUME NEW o \in Orders, NEW new \in OrderStatus, MoveOrderForward(o, new) PROVE IInv'
  BY <1>5, MoveOrderKeepsIInv
<1>6. ASSUME NEW o \in Orders, CompleteOrder(o) \/ ReverseDelivery(o) PROVE IInv'
  BY <1>6, DeliveryKeepsIInv
<1>7. ASSUME NEW o \in Orders, NEW new \in PaymentStatus, UpdatePaymentStatus(o, new) PROVE IInv'
  BY <1>7, PaymentKeepsIInv
<1>8. ASSUME NEW so \in StoreOrders, NEW new \in StoreOrderStatus,
             TransitionStoreOrder(so, new)
      PROVE  IInv'
  BY <1>8, TransitionKeepsIInv
<1>9. ASSUME NEW so \in StoreOrders, RejectStoreOrder(so) PROVE IInv'
  BY <1>9, RejectKeepsIInv
<1>10. CASE \/ \E so \in StoreOrders : CheckStoreActive(so)
            \/ \E s \in Stores, open \in BOOLEAN : SetStoreOpen(s, open)
  BY <1>10, StoreStepKeepsIInv
<1>11. QED
  BY <1>1, <1>2, <1>3, <1>4, <1>5, <1>6, <1>7, <1>8, <1>9, <1>10
  DEF Next, CustomerStep, ManagementStep, StoreStep

\* Every reachable state satisfies the inductive invariant.
THEOREM Invariance == Spec => []IInv
BY InitIInv, NextKeepsIInv, PTL DEF Spec

\* Every row field keeps its type, and no stock_quantity goes negative,
\* whichever orders compete for it.
THEOREM TypeCorrect == Spec => []TypeOK
<1>1. IInv => TypeOK
  BY DEF IInv
<1>2. QED
  BY <1>1, Invariance, PTL

\* Cancellation of an order, of its parts and of its payment agree.
THEOREM CancellationAgrees == Spec => []CancelledTogether
<1>1. IInv => CancelledTogether
  BY DEF IInv
<1>2. QED
  BY <1>1, Invariance, PTL

\* Completion of an order and of its parts agree with delivered_at.
THEOREM DeliveryAgrees == Spec => []DeliveredTogether
<1>1. IInv => DeliveredTogether
  BY DEF IInv
<1>2. QED
  BY <1>1, Invariance, PTL

\* Cash is never recorded as collected on an undelivered order.
THEOREM CollectionAgrees == Spec => []CollectedOnlyWhenDelivered
<1>1. IInv => CollectedOnlyWhenDelivered
  BY DEF IInv
<1>2. QED
  BY <1>1, Invariance, PTL

\* The payable total is the sum of the chargeable parts.
THEOREM PayableAgrees == Spec => []PayableMatchesChargeable
<1>1. IInv => PayableMatchesChargeable
  BY DEF IInv
<1>2. QED
  BY <1>1, Invariance, PTL

\* Stock is held for the parts still being fulfilled, and given back once for
\* every other.
THEOREM StockAgrees == Spec => []StockHeldByChargeable
<1>1. IInv => StockHeldByChargeable
  BY DEF IInv
<1>2. QED
  BY <1>1, Invariance, PTL

-----------------------------------------------------------------------------
(* What a step may do *)

\* A step of a service writes the rows of one order only.
OnlyOrder(o) ==
    /\ \A q \in Orders \ {o} : /\ status'[q] = status[q]
                               /\ payment'[q] = payment[q]
                               /\ charged'[q] = charged[q]
    /\ \A so \in StoreOrders : OrderOf[so] # o => soStatus'[so] = soStatus[so]

\* The steps that neither deliver nor take cash: chargeable parts may move
\* or be dropped, the others stay, and a delivered order keeps all of them.
Narrows(o) ==
    /\ Placed(o) /\ status'[o] # "NONE"
    /\ \A so \in StoreOrdersOf(o) :
          /\ soStatus[so] \in NonChargeable => soStatus'[so] = soStatus[so]
          /\ soStatus'[so] = "COMPLETED" => soStatus[so] = "COMPLETED"
          /\ status[o] = "COMPLETED" => soStatus'[so] = soStatus[so]
    /\ payment'[o] # payment[o] => payment[o] = "PENDING" /\ payment'[o] = "CANCELLED"

\* The portal's forward moves narrow an order.
LEMMA TransitionNarrows ==
    ASSUME IInv, IInv', NEW so \in StoreOrders, NEW new, TransitionStoreOrder(so, new)
    PROVE  OnlyOrder(OrderOf[so]) /\ Narrows(OrderOf[so])
<1> DEFINE o == OrderOf[so]
           newSo == [soStatus EXCEPT ![so] = new]
<1>1. /\ soStatus' = newSo
      /\ SyncOrderStatus(newSo, o)
      /\ soStatus[so] \in {"PENDING", "ACCEPTED", "PREPARING"}
      /\ new \in {"ACCEPTED", "PREPARING", "READY"}
      /\ charged' = charged
      /\ o \in Orders
  BY RowsAssumption DEF TransitionStoreOrder, StoreTransitions
<1>2. /\ status' = [status EXCEPT ![o] = StatusFromStoreOrders(newSo, o)]
      /\ \A q \in Orders \ {o} : payment'[q] = payment[q]
      /\ payment'[o] # payment[o] => payment[o] = "PENDING" /\ payment'[o] = "CANCELLED"
  BY <1>1, SyncedOrder DEF IInv
<1>3. Placed(o) /\ status'[o] # "NONE"
  BY <1>1 DEF IInv, RowsTogether, Placed, TypeOK
<1>4. status[o] # "COMPLETED"
  <2>1. so \in ChargeableIn(soStatus, o)
    BY <1>1 DEF ChargeableIn, StoreOrdersOf, NonChargeable
  <2>2. QED
    BY <1>1, <2>1 DEF IInv, DeliveredTogether
<1>5. OnlyOrder(o)
  BY <1>1, <1>2 DEF OnlyOrder, IInv, TypeOK
<1>6. QED
  BY <1>1, <1>2, <1>3, <1>4, <1>5
  DEF Narrows, IInv, TypeOK, StoreOrdersOf, NonChargeable

\* Rejection narrows an order; on a delivered order only a retry is left.
LEMMA RejectNarrows ==
    ASSUME IInv, IInv', NEW so \in StoreOrders, RejectStoreOrder(so)
    PROVE  OnlyOrder(OrderOf[so]) /\ Narrows(OrderOf[so])
<1> DEFINE o == OrderOf[so]
           newSo == [soStatus EXCEPT ![so] = "REJECTED"]
<1>1. /\ soStatus' = newSo
      /\ SyncOrderStatus(newSo, o)
      /\ soStatus[so] \in {"PENDING", "REJECTED"}
      /\ charged' = [charged EXCEPT ![o] = ChargeableIn(newSo, o)]
      /\ o \in Orders
  BY RowsAssumption DEF RejectStoreOrder, RecalculateTotals
<1>2. /\ status' = [status EXCEPT ![o] = StatusFromStoreOrders(newSo, o)]
      /\ \A q \in Orders \ {o} : payment'[q] = payment[q]
      /\ payment'[o] # payment[o] => payment[o] = "PENDING" /\ payment'[o] = "CANCELLED"
  BY <1>1, SyncedOrder DEF IInv
<1>3. Placed(o) /\ status'[o] # "NONE"
  BY <1>1 DEF IInv, RowsTogether, Placed, TypeOK
<1>4. status[o] = "COMPLETED" => soStatus[so] = "REJECTED"
  <2>1. so \in StoreOrdersOf(o)
    BY <1>1 DEF StoreOrdersOf
  <2>2. soStatus[so] = "PENDING" => so \in ChargeableIn(soStatus, o)
    BY <2>1 DEF ChargeableIn, NonChargeable
  <2>3. QED
    BY <1>1, <2>2 DEF IInv, DeliveredTogether
<1>5. OnlyOrder(o)
  BY <1>1, <1>2 DEF OnlyOrder, IInv, TypeOK
<1>6. QED
  BY <1>1, <1>2, <1>3, <1>4, <1>5
  DEF Narrows, IInv, TypeOK, StoreOrdersOf, NonChargeable

\* Cancellation and management's forward moves narrow an order that is not
\* delivered.
LEMMA CancelNarrows ==
    ASSUME IInv, IInv', NEW o \in Orders,
           \/ CancelCustomerOrder(o)
           \/ CancelOrderByAdmin(o)
           \/ \E new \in OrderStatus : MoveOrderForward(o, new)
    PROVE  OnlyOrder(o) /\ Narrows(o)
<1>1. ASSUME NEW cancelable, cancelable \subseteq ActiveStoreStatuses,
             Placed(o), status[o] # "COMPLETED", CancelOrder(o, cancelable)
      PROVE  OnlyOrder(o) /\ Narrows(o)
  <2>1. /\ status' = [status EXCEPT ![o] = "CANCELLED"]
        /\ payment' = [payment EXCEPT ![o] = payment'[o]]
        /\ payment'[o] # payment[o] => payment[o] = "PENDING" /\ payment'[o] = "CANCELLED"
        /\ charged' = [charged EXCEPT ![o] = charged'[o]]
    BY <1>1 DEF CancelOrder, RecalculateTotals, IInv, TypeOK
  <2>2. \A so \in StoreOrders :
           soStatus'[so] # soStatus[so] => /\ so \in StoreOrdersOf(o)
                                           /\ soStatus[so] \in cancelable
                                           /\ soStatus'[so] = "CANCELLED"
    BY <1>1 DEF CancelOrder
  <2>3. cancelable \cap NonChargeable = {}
    BY <1>1 DEF ActiveStoreStatuses, NonChargeable
  <2>4. status'[o] # "NONE"
    BY <2>1 DEF IInv, TypeOK
  <2>5. OnlyOrder(o)
    BY <2>1, <2>2 DEF OnlyOrder, StoreOrdersOf, IInv, TypeOK
  <2>6. \A so \in StoreOrdersOf(o) :
           /\ soStatus[so] \in NonChargeable => soStatus'[so] = soStatus[so]
           /\ soStatus'[so] = "COMPLETED" => soStatus[so] = "COMPLETED"
    BY <2>2, <2>3 DEF StoreOrdersOf
  <2>7. QED
    BY <1>1, <2>1, <2>4, <2>5, <2>6 DEF Narrows
<1>2. CASE CancelCustomerOrder(o)
  <2>1. CustomerCancelableStore \subseteq ActiveStoreStatuses
    BY DEF CustomerCancelableStore, ActiveStoreStatuses
  <2>2. QED
    BY <1>1, <1>2, <2>1 DEF CancelCustomerOrder, CustomerCancellable
<1>3. CASE CancelOrderByAdmin(o)
  BY <1>1, <1>3 DEF CancelOrderByAdmin, AdminCancellable
<1>4. CASE \E new \in OrderStatus : MoveOrderForward(o, new)
  <2>1. PICK new \in OrderStatus : MoveOrderForward(o, new)
    BY <1>4
  <2>2. status[o] \notin {"NONE", "COMPLETED"} /\ new # "NONE"
    BY <2>1 DEF MoveOrderForward, AdminTransitions
  <2>3. /\ status' = [status EXCEPT ![o] = new]
        /\ payment' = payment /\ charged' = charged /\ soStatus' = soStatus
    BY <2>1 DEF MoveOrderForward
  <2>4. OnlyOrder(o)
    BY <2>3 DEF OnlyOrder, IInv, TypeOK
  <2>5. status'[o] = new
    BY <2>3 DEF IInv, TypeOK
  <2>6. Narrows(o)
    BY <2>2, <2>3, <2>5 DEF Narrows, Placed
  <2>7. QED
    BY <2>4, <2>6
<1>5. QED
  BY <1>2, <1>3, <1>4

\* The kinds of steps there are.
LEMMA StepKinds ==
    ASSUME IInv, IInv', [Next]_vars
    PROVE  \/ UNCHANGED <<status, payment, charged, soStatus>>
           \/ \E o \in Orders :
                /\ OnlyOrder(o)
                /\ \/ Narrows(o)
                   \/ PlaceOrder(o)
                   \/ CompleteOrder(o)
                   \/ ReverseDelivery(o)
                   \/ \E new \in PaymentStatus : UpdatePaymentStatus(o, new)
<1>1. CASE \/ UNCHANGED vars
           \/ \E so \in StoreOrders : CheckStoreActive(so)
           \/ \E s \in Stores, open \in BOOLEAN : SetStoreOpen(s, open)
  BY <1>1 DEF vars, orderVars, CheckStoreActive, SetStoreOpen
<1>2. CASE \E so \in StoreOrders : \/ \E new \in StoreOrderStatus : TransitionStoreOrder(so, new)
                                   \/ RejectStoreOrder(so)
  BY <1>2, TransitionNarrows, RejectNarrows, RowsAssumption
<1>3. CASE \E o \in Orders : \/ CancelCustomerOrder(o)
                             \/ CancelOrderByAdmin(o)
                             \/ \E new \in OrderStatus : MoveOrderForward(o, new)
  BY <1>3, CancelNarrows
<1>4. ASSUME NEW o \in Orders,
             \/ PlaceOrder(o)
             \/ CompleteOrder(o)
             \/ ReverseDelivery(o)
             \/ \E new \in PaymentStatus : UpdatePaymentStatus(o, new)
      PROVE  OnlyOrder(o)
  <2>1. CASE PlaceOrder(o)
    BY <2>1 DEF PlaceOrder, OnlyOrder, IInv, TypeOK
  <2>2. CASE CompleteOrder(o)
    BY <2>2 DEF CompleteOrder, OnlyOrder, ChargeableIn, StoreOrdersOf, IInv, TypeOK
  <2>3. CASE ReverseDelivery(o)
    BY <2>3 DEF ReverseDelivery, ReopenedStoreOrders, OnlyOrder, IInv, TypeOK
  <2>4. CASE \E new \in PaymentStatus : UpdatePaymentStatus(o, new)
    BY <2>4 DEF UpdatePaymentStatus, OnlyOrder, IInv, TypeOK
  <2>5. QED
    BY <1>4, <2>1, <2>2, <2>3, <2>4
<1>5. QED
  BY <1>1, <1>2, <1>3, <1>4 DEF Next, CustomerStep, ManagementStep, StoreStep

\* No service brings a rejected or cancelled StoreOrder, a cancelled order or
\* a cancelled payment back.
THEOREM FinalStatesAreFinal == Spec => FinalStatesStay
<1>1. ASSUME IInv, IInv', [Next]_vars
      PROVE  /\ \A so \in StoreOrders :
                   soStatus[so] \in NonChargeable => soStatus'[so] = soStatus[so]
             /\ \A o \in Orders :
                   /\ status[o] = "CANCELLED" => status'[o] = "CANCELLED"
                   /\ payment[o] = "CANCELLED" => payment'[o] = "CANCELLED"
  <2> DEFINE Final == /\ \A so \in StoreOrders :
                            soStatus[so] \in NonChargeable => soStatus'[so] = soStatus[so]
                      /\ \A o \in Orders :
                            /\ status[o] = "CANCELLED" => status'[o] = "CANCELLED"
                            /\ payment[o] = "CANCELLED" => payment'[o] = "CANCELLED"
  <2>1. CASE UNCHANGED <<status, payment, charged, soStatus>>
    BY <2>1
  <2>2. ASSUME NEW o \in Orders, OnlyOrder(o),
               \A so \in StoreOrdersOf(o) :
                  soStatus[so] \in NonChargeable => soStatus'[so] = soStatus[so],
               status[o] = "CANCELLED" => status'[o] = "CANCELLED",
               payment[o] = "CANCELLED" => payment'[o] = "CANCELLED"
        PROVE  Final
    BY <2>2 DEF OnlyOrder, StoreOrdersOf
  <2>3. ASSUME NEW o \in Orders, OnlyOrder(o), Narrows(o)
        PROVE  Final
    <3>1. ASSUME status[o] = "CANCELLED" PROVE status'[o] = "CANCELLED"
      <4>1. ChargeableIn(soStatus, o) = {}
        BY <1>1, <2>3, <3>1 DEF Narrows, IInv, CancelledTogether
      <4>2. ChargeableIn(soStatus', o) = {}
        BY <2>3, <4>1 DEF Narrows, ChargeableIn
      <4>3. QED
        BY <1>1, <2>3, <4>2 DEF Narrows, IInv, CancelledTogether, Placed
    <3>2. QED
      BY <2>2, <2>3, <3>1 DEF Narrows
  <2>4. ASSUME NEW o \in Orders, OnlyOrder(o), PlaceOrder(o)
        PROVE  Final
    <3>1. /\ status[o] # "CANCELLED" /\ payment[o] # "CANCELLED"
          /\ \A so \in StoreOrdersOf(o) : soStatus[so] = "NONE"
      BY <1>1, <2>4 DEF PlaceOrder, StoreOrdersOf, IInv, RowsTogether, Placed
    <3>2. QED
      BY <2>2, <2>4, <3>1 DEF NonChargeable
  <2>5. ASSUME NEW o \in Orders, OnlyOrder(o), CompleteOrder(o)
        PROVE  Final
    <3>1. /\ status[o] # "CANCELLED" /\ payment' = payment
          /\ \A so \in StoreOrdersOf(o) :
                soStatus[so] \in NonChargeable => soStatus'[so] = soStatus[so]
      BY <2>5 DEF CompleteOrder, AdminTransitions, ChargeableIn, StoreOrdersOf
    <3>2. QED
      BY <2>2, <2>5, <3>1
  <2>6. ASSUME NEW o \in Orders, OnlyOrder(o), ReverseDelivery(o)
        PROVE  Final
    <3>1. /\ status[o] # "CANCELLED" /\ payment' = payment
          /\ \A so \in StoreOrdersOf(o) :
                soStatus[so] \in NonChargeable => soStatus'[so] = soStatus[so]
      BY <2>6
      DEF ReverseDelivery, ReversalAllowed, ReopenedStoreOrders, StoreOrdersOf, NonChargeable
    <3>2. QED
      BY <2>2, <2>6, <3>1
  <2>7. ASSUME NEW o \in Orders, OnlyOrder(o),
               NEW new \in PaymentStatus, UpdatePaymentStatus(o, new)
        PROVE  Final
    <3>1. status' = status /\ soStatus' = soStatus /\ payment[o] # "CANCELLED"
      BY <2>7 DEF UpdatePaymentStatus
    <3>2. QED
      BY <2>2, <2>7, <3>1
  <2>8. QED
    BY <1>1, <2>1, <2>3, <2>4, <2>5, <2>6, <2>7, StepKinds
<1>2. QED
  BY <1>1, Invariance, PTL DEF Spec, FinalStatesStay

\* A recorded collection stays backed by a delivered order of the same parts.
THEOREM CollectionsAreKept == Spec => CollectedAmountIsFixed
<1>1. ASSUME IInv, IInv', [Next]_vars
      PROVE  \A o \in Orders :
                payment[o] = "COLLECTED" =>
                    /\ charged'[o] = charged[o]
                    /\ status'[o] = "COMPLETED"
                    /\ \A so \in StoreOrdersOf(o) : soStatus'[so] = soStatus[so]
  <2> DEFINE Kept(q) == /\ charged'[q] = charged[q]
                        /\ status'[q] = "COMPLETED"
                        /\ \A so \in StoreOrdersOf(q) : soStatus'[so] = soStatus[so]
  <2> SUFFICES ASSUME NEW q \in Orders, payment[q] = "COLLECTED"
               PROVE  Kept(q)
    OBVIOUS
  <2>1. status[q] = "COMPLETED" /\ Placed(q)
    BY <1>1 DEF IInv, CollectedOnlyWhenDelivered, Placed
  <2>2. CASE UNCHANGED <<status, payment, charged, soStatus>>
    BY <2>1, <2>2
  <2>3. ASSUME NEW o \in Orders, OnlyOrder(o), o # q
        PROVE  Kept(q)
    BY <2>1, <2>3 DEF OnlyOrder, StoreOrdersOf
  <2>4. CASE Narrows(q)
    <3>1. /\ \A so \in StoreOrdersOf(q) : soStatus'[so] = soStatus[so]
          /\ payment'[q] = "COLLECTED"
      BY <2>1, <2>4 DEF Narrows
    <3>2. status'[q] = "COMPLETED" /\ Placed(q)'
      BY <1>1, <3>1 DEF IInv, CollectedOnlyWhenDelivered, Placed
    <3>3. ChargeableIn(soStatus', q) = ChargeableIn(soStatus, q)
      BY <3>1 DEF ChargeableIn
    <3>4. charged[q] = ChargeableIn(soStatus, q) /\ charged'[q] = ChargeableIn(soStatus', q)
      BY <1>1, <2>1, <3>2 DEF IInv, PayableMatchesChargeable
    <3>5. QED
      BY <3>1, <3>2, <3>3, <3>4
  <2>5. CASE PlaceOrder(q) \/ CompleteOrder(q) \/ ReverseDelivery(q)
    BY <2>1, <2>5
    DEF PlaceOrder, CompleteOrder, AdminTransitions, ReverseDelivery, ReversalAllowed
  <2>6. CASE \E new \in PaymentStatus : UpdatePaymentStatus(q, new)
    BY <2>1, <2>6 DEF UpdatePaymentStatus
  <2>7. QED
    BY <1>1, <2>2, <2>3, <2>4, <2>5, <2>6, StepKinds
<1>2. QED
  BY <1>1, Invariance, PTL DEF Spec, CollectedAmountIsFixed

-----------------------------------------------------------------------------
(* Conservation of stock *)

\* The items of product p whose quantity is off the shelf.
Holding(p) == {i \in Items :
                 /\ ProductOf[i] = p
                 /\ soStatus[StoreOrderOf[i]] \notin NonChargeable \cup {"NONE"}}

\* By the invariant these are the items of placed orders not given back yet.
LEMMA HoldingItems ==
    ASSUME IInv, NEW p \in Products
    PROVE  Holding(p) = {i \in Items : /\ ProductOf[i] = p
                                       /\ Placed(OrderOf[StoreOrderOf[i]])
                                       /\ i \notin restoredItems}
BY RowsAssumption DEF Holding, IInv, StockHeldByChargeable, RowsTogether

\* The property in terms of the sum the lemmas are about.
Balanced == \A p \in Products : stock[p] + Sum(Quantity, Holding(p)) = InitialStock[p]

LEMMA BalancedIsConserved == Balanced => StockConserved
BY DEF StockConserved, Balanced, Sum, Holding

\* What one item adds to what is held of its product.
LEMMA HoldingWithout ==
    ASSUME NEW H \in SUBSET Items, NEW i \in H
    PROVE  /\ Sum(Quantity, H) = Sum(Quantity, H \ {i}) + Quantity[i]
           /\ Sum(Quantity, H) \in Int /\ Sum(Quantity, H \ {i}) \in Int
           /\ Quantity[i] \in Int
<1>1. Quantity \in [Items -> Int]
  BY RowsAssumption
<1>2. H \ {i} \in SUBSET Items /\ i \in Items
  OBVIOUS
<1>3. QED
  BY <1>1, <1>2, FiniteItemsAssumption, SumIsInt, SumWithout

\* A movement over items of one order moves one item of a product at most.
LEMMA MovedItem ==
    ASSUME NEW o \in Orders, NEW S \in SUBSET OrderItemsOf(o), NEW sign, MoveStock(S, sign),
           NEW p \in Products
    PROVE  \/ /\ \A i \in S : ProductOf[i] # p
              /\ stock'[p] = stock[p]
           \/ \E i \in S : /\ ProductOf[i] = p
                           /\ \A j \in S : ProductOf[j] = p => j = i
                           /\ stock'[p] = stock[p] + sign * Quantity[i]
<1>1. CASE \A i \in S : ProductOf[i] # p
  BY <1>1 DEF MoveStock
<1>2. CASE \E i \in S : ProductOf[i] = p
  <2> DEFINE i == CHOOSE i \in S : ProductOf[i] = p
  <2>1. i \in S /\ ProductOf[i] = p
    BY <1>2
  <2>2. stock'[p] = stock[p] + sign * Quantity[i]
    BY <1>2 DEF MoveStock
  <2> HIDE DEF i
  <2>3. \A j \in S : ProductOf[j] = p => j = i
    BY <2>1, OneLinePerProductAssumption DEF OrderItemsOf, ItemsOf, StoreOrdersOf
  <2>4. QED
    BY <2>1, <2>2, <2>3
<1>3. QED
  BY <1>1, <1>2

\* Giving back items of a placed order takes as much from what is held as it
\* puts on the shelf.
LEMMA RestoringConserves ==
    ASSUME IInv, IInv', Balanced, NEW o \in Orders, Placed(o),
           \A q \in Orders : Placed(q)' <=> Placed(q),
           NEW S \in SUBSET OrderItemsOf(o), RestoreStock(S)
    PROVE  Balanced'
<1> DEFINE moved == {i \in S \ restoredItems : <<i, "restore">> \notin references}
<1>1. restoredItems' = restoredItems \cup S /\ MoveStock(moved, 1)
  BY DEF RestoreStock
<1>2. S \subseteq Items /\ \A i \in S : OrderOf[StoreOrderOf[i]] = o
  BY DEF OrderItemsOf, ItemsOf, StoreOrdersOf
<1>3. moved = S \ restoredItems /\ moved \in SUBSET OrderItemsOf(o)
  BY <1>2 DEF IInv, StockHeldByChargeable
<1> HIDE DEF moved
<1>4. SUFFICES ASSUME NEW p \in Products
               PROVE  stock'[p] + Sum(Quantity, Holding(p)') = InitialStock[p]
  BY DEF Balanced
<1>5. /\ stock[p] + Sum(Quantity, Holding(p)) = InitialStock[p]
      /\ stock[p] \in Int
  BY DEF Balanced, IInv, TypeOK
<1>6. Holding(p)' = Holding(p) \ moved
  <2>1. Holding(p)' = {i \in Items : /\ ProductOf[i] = p
                                     /\ Placed(OrderOf[StoreOrderOf[i]])'
                                     /\ i \notin restoredItems'}
    BY RowsAssumption DEF Holding, IInv, StockHeldByChargeable, RowsTogether
  <2>2. QED
    BY <1>1, <1>3, <2>1, HoldingItems, RowsAssumption
<1>7. Holding(p) \in SUBSET Items
  BY DEF Holding
<1>8. CASE (\A i \in moved : ProductOf[i] # p) /\ stock'[p] = stock[p]
  <2>1. Holding(p)' = Holding(p)
    BY <1>6, <1>8 DEF Holding
  <2>2. QED
    BY <1>5, <1>8, <2>1
<1>9. ASSUME NEW i \in moved, ProductOf[i] = p, \A j \in moved : ProductOf[j] = p => j = i,
             stock'[p] = stock[p] + 1 * Quantity[i]
      PROVE  stock'[p] + Sum(Quantity, Holding(p)') = InitialStock[p]
  <2>1. i \in Holding(p)
    BY <1>2, <1>3, <1>9, HoldingItems
  <2>2. Holding(p)' = Holding(p) \ {i}
    BY <1>6, <1>9 DEF Holding
  <2>3. QED
    BY <1>5, <1>7, <1>9, <2>1, <2>2, HoldingWithout
<1>10. QED
  BY <1>1, <1>3, <1>8, <1>9, MovedItem

\* Checkout takes from the shelf what the order's items hold from then on.
LEMMA PlacingConserves ==
    ASSUME IInv, IInv', Balanced, NEW o \in Orders, PlaceOrder(o)
    PROVE  Balanced'
<1> DEFINE S == OrderItemsOf(o)
<1>1. /\ MoveStock(S, -1) /\ restoredItems' = restoredItems
      /\ ~Placed(o) /\ Placed(o)' /\ \A q \in Orders \ {o} : Placed(q)' <=> Placed(q)
  BY DEF PlaceOrder, Placed, IInv, TypeOK
<1>2. S = {i \in Items : OrderOf[StoreOrderOf[i]] = o}
  BY RowsAssumption DEF OrderItemsOf, ItemsOf, StoreOrdersOf
<1>3. \A i \in S : i \notin restoredItems
  BY <1>1, <1>2, RowsAssumption
  DEF IInv, StockHeldByChargeable, RowsTogether, NonChargeable
<1>4. SUFFICES ASSUME NEW p \in Products
               PROVE  stock'[p] + Sum(Quantity, Holding(p)') = InitialStock[p]
  BY DEF Balanced
<1>5. /\ stock[p] + Sum(Quantity, Holding(p)) = InitialStock[p]
      /\ stock[p] \in Int
  BY DEF Balanced, IInv, TypeOK
<1>6. Holding(p)' = Holding(p) \cup {i \in S : ProductOf[i] = p}
  <2>1. Holding(p)' = {i \in Items : /\ ProductOf[i] = p
                                     /\ Placed(OrderOf[StoreOrderOf[i]])'
                                     /\ i \notin restoredItems'}
    BY RowsAssumption DEF Holding, IInv, StockHeldByChargeable, RowsTogether
  <2>2. QED
    BY <1>1, <1>2, <1>3, <2>1, HoldingItems, RowsAssumption
<1>7. Holding(p)' \in SUBSET Items
  BY <1>2, <1>6 DEF Holding
<1>8. CASE (\A i \in S : ProductOf[i] # p) /\ stock'[p] = stock[p]
  <2>1. Holding(p)' = Holding(p)
    BY <1>6, <1>8
  <2>2. QED
    BY <1>5, <1>8, <2>1
<1>9. ASSUME NEW i \in S, ProductOf[i] = p, \A j \in S : ProductOf[j] = p => j = i,
             stock'[p] = stock[p] + (-1) * Quantity[i]
      PROVE  stock'[p] + Sum(Quantity, Holding(p)') = InitialStock[p]
  <2>1. i \notin Holding(p)
    BY <1>1, <1>2, HoldingItems
  <2>2. i \in Holding(p)' /\ Holding(p) = Holding(p)' \ {i}
    BY <1>6, <1>9, <2>1
  <2>3. /\ Sum(Quantity, Holding(p)') = Sum(Quantity, Holding(p)' \ {i}) + Quantity[i]
        /\ Sum(Quantity, Holding(p)') \in Int /\ Sum(Quantity, Holding(p)' \ {i}) \in Int
        /\ Quantity[i] \in Int
    BY <1>7, <2>2, HoldingWithout
  <2>4. QED
    BY <1>5, <1>9, <2>2, <2>3
<1>10. QED
  BY <1>1, <1>8, <1>9, MovedItem

\* A step that moves no stock changes nothing that holds any.
LEMMA OthersConserve ==
    ASSUME IInv, IInv', Balanced, \A q \in Orders : Placed(q)' <=> Placed(q),
           stock' = stock, restoredItems' = restoredItems
    PROVE  Balanced'
<1>1. SUFFICES ASSUME NEW p \in Products
               PROVE  stock'[p] + Sum(Quantity, Holding(p)') = InitialStock[p]
  BY DEF Balanced
<1>2. Holding(p)' = {i \in Items : /\ ProductOf[i] = p
                                   /\ Placed(OrderOf[StoreOrderOf[i]])'
                                   /\ i \notin restoredItems'}
  BY RowsAssumption DEF Holding, IInv, StockHeldByChargeable, RowsTogether
<1>3. Holding(p)' = Holding(p)
  BY <1>2, HoldingItems, RowsAssumption
<1>4. QED
  BY <1>3 DEF Balanced

\* Before any order nothing is held.
LEMMA InitConserves == Init => Balanced
<1> SUFFICES ASSUME Init PROVE Balanced
  OBVIOUS
<1>1. SUFFICES ASSUME NEW p \in Products
               PROVE  stock[p] + Sum(Quantity, Holding(p)) = InitialStock[p]
  BY DEF Balanced
<1>2. Holding(p) = {}
  BY RowsAssumption DEF Init, Holding
<1>3. Sum(Quantity, {}) = 0
  BY FS_EmptySet, SumRule
<1>4. QED
  BY <1>2, <1>3, RowsAssumption DEF Init

\* Each service keeps the sum.
LEMMA NextConserves ==
    ASSUME IInv, IInv', Balanced, [Next]_vars
    PROVE  Balanced'
<1>1. ASSUME NEW o \in Orders, NEW cancelable, Placed(o), CancelOrder(o, cancelable)
      PROVE  Balanced'
  <2>1. \A q \in Orders : Placed(q)' <=> Placed(q)
    BY <1>1 DEF CancelOrder, Placed, IInv, TypeOK
  <2>2. QED
    BY <1>1, <2>1, RestoringConserves DEF CancelOrder
<1>2. ASSUME NEW o \in Orders, CancelCustomerOrder(o) \/ CancelOrderByAdmin(o)
      PROVE  Balanced'
  BY <1>1, <1>2 DEF CancelCustomerOrder, CancelOrderByAdmin
<1>3. ASSUME NEW so \in StoreOrders, RejectStoreOrder(so)
      PROVE  Balanced'
  <2> DEFINE o == OrderOf[so]
  <2>1. o \in Orders /\ ItemsOf({so}) \in SUBSET OrderItemsOf(o)
    BY RowsAssumption DEF OrderItemsOf, ItemsOf, StoreOrdersOf
  <2>2. Placed(o) /\ RestoreStock(ItemsOf({so}))
    BY <1>3 DEF RejectStoreOrder, IInv, RowsTogether
  <2>3. \A q \in Orders : Placed(q)' <=> Placed(q)
    BY <1>3, RejectNarrows DEF OnlyOrder, Narrows, Placed
  <2>4. QED
    BY <2>1, <2>2, <2>3, RestoringConserves
<1>4. ASSUME NEW o \in Orders, PlaceOrder(o)
      PROVE  Balanced'
  BY <1>4, PlacingConserves
<1>5. ASSUME NEW so \in StoreOrders, NEW new, TransitionStoreOrder(so, new)
      PROVE  Balanced'
  <2>1. \A q \in Orders : Placed(q)' <=> Placed(q)
    BY <1>5, TransitionNarrows DEF OnlyOrder, Narrows, Placed
  <2>2. QED
    BY <1>5, <2>1, OthersConserve DEF TransitionStoreOrder, stockVars
<1>6. ASSUME NEW o \in Orders,
             \/ \E new \in OrderStatus : MoveOrderForward(o, new)
             \/ CompleteOrder(o)
             \/ ReverseDelivery(o)
             \/ \E new \in PaymentStatus : UpdatePaymentStatus(o, new)
      PROVE  Balanced'
  <2>1. stock' = stock /\ restoredItems' = restoredItems
    BY <1>6
    DEF MoveOrderForward, CompleteOrder, ReverseDelivery, UpdatePaymentStatus, stockVars
  <2>2. \A q \in Orders : Placed(q)' <=> Placed(q)
    BY <1>6
    DEF MoveOrderForward, CompleteOrder, ReverseDelivery, UpdatePaymentStatus, Placed,
        AdminTransitions, ReversalAllowed, IInv, TypeOK
  <2>3. QED
    BY <2>1, <2>2, OthersConserve
<1>7. CASE \/ UNCHANGED vars
           \/ \E so \in StoreOrders : CheckStoreActive(so)
           \/ \E s \in Stores, open \in BOOLEAN : SetStoreOpen(s, open)
  <2>1. UNCHANGED <<status, stock, restoredItems>>
    BY <1>7 DEF vars, orderVars, stockVars, CheckStoreActive, SetStoreOpen
  <2>2. QED
    BY <2>1, OthersConserve DEF Placed
<1>8. QED
  BY <1>2, <1>3, <1>4, <1>5, <1>6, <1>7
  DEF Next, CustomerStep, ManagementStep, StoreStep

\* Whatever ends the orders over a product, in whichever order, no unit of it
\* is lost or invented.
THEOREM StockIsConserved == Spec => []StockConserved
<1>1. Init => Balanced
  BY InitConserves
<1>2. IInv /\ IInv' /\ Balanced /\ [Next]_vars => Balanced'
  BY NextConserves
<1>3. Balanced => StockConserved
  BY BalancedIsConserved
<1>4. QED
  BY <1>1, <1>2, <1>3, Invariance, PTL DEF Spec

-----------------------------------------------------------------------------
(* The contract *)

\* A step of one order maps to a change of its phase and its parts.
LEMMA PhaseOfOneOrder ==
    ASSUME IInv, NEW o \in Orders, OnlyOrder(o), charged' \in [Orders -> SUBSET StoreOrders]
    PROVE  /\ ContractPhase' = [ContractPhase EXCEPT ![o] = ContractPhase'[o]]
           /\ charged' = [charged EXCEPT ![o] = charged'[o]]
<1>1. \A q \in Orders : q # o => ContractPhase'[q] = ContractPhase[q]
  BY DEF ContractPhase, OnlyOrder
<1>2. /\ ContractPhase' = [q \in Orders |-> ContractPhase'[q]]
      /\ ContractPhase = [q \in Orders |-> ContractPhase[q]]
  BY DEF ContractPhase
<1>3. charged = [q \in Orders |-> charged[q]] /\ charged' = [q \in Orders |-> charged'[q]]
  BY DEF IInv, TypeOK
<1>4. QED
  BY <1>1, <1>2, <1>3 DEF OnlyOrder

\* The phase of one order, case by case.
LEMMA PhaseCases ==
    ASSUME NEW o \in Orders
    PROVE  /\ status[o] = "NONE" => ContractPhase[o] = "none"
           /\ status[o] = "CANCELLED" => ContractPhase[o] = "void"
           /\ status[o] = "COMPLETED" =>
                 ContractPhase[o] = IF payment[o] = "COLLECTED" THEN "paid" ELSE "delivered"
           /\ status[o] \notin {"NONE", "CANCELLED", "COMPLETED"} => ContractPhase[o] = "open"
           /\ status'[o] = "CANCELLED" => ContractPhase'[o] = "void"
           /\ status'[o] = "COMPLETED" =>
                 ContractPhase'[o] = IF payment'[o] = "COLLECTED" THEN "paid" ELSE "delivered"
           /\ status'[o] \notin {"NONE", "CANCELLED", "COMPLETED"} => ContractPhase'[o] = "open"
BY DEF ContractPhase

\* Before checkout no order exists for the contract either.
LEMMA ContractInit == Init => Contract!Init
BY DEF Init, Contract!Init, ContractPhase

\* Every step of the services is a step of the contract, or none for it.
LEMMA ContractStep ==
    ASSUME IInv, IInv', [Next]_vars
    PROVE  [Contract!Next]_(Contract!vars)
<1> DEFINE Step == [Contract!Next]_(Contract!vars)
<1>1. CASE UNCHANGED <<status, payment, charged, soStatus>>
  BY <1>1 DEF Contract!vars, ContractPhase
<1>2. ASSUME NEW o \in Orders, OnlyOrder(o)
      PROVE  /\ ContractPhase' = [ContractPhase EXCEPT ![o] = ContractPhase'[o]]
             /\ charged' = [charged EXCEPT ![o] = charged'[o]]
  BY <1>2, PhaseOfOneOrder DEF IInv, TypeOK
<1>3. ASSUME NEW o \in Orders, OnlyOrder(o),
             ContractPhase'[o] = ContractPhase[o], charged'[o] = charged[o]
      PROVE  Step
  <2>1. ContractPhase' = ContractPhase /\ charged' = charged
    <3>1. ContractPhase = [q \in Orders |-> ContractPhase[q]]
      BY DEF ContractPhase
    <3>2. charged = [q \in Orders |-> charged[q]]
      BY DEF IInv, TypeOK
    <3>3. /\ ContractPhase' = [ContractPhase EXCEPT ![o] = ContractPhase[o]]
          /\ charged' = [charged EXCEPT ![o] = charged[o]]
      BY <1>2, <1>3
    <3>4. QED
      BY <3>1, <3>2, <3>3
  <2>2. QED
    BY <2>1 DEF Contract!vars
<1>4. ASSUME NEW o \in Orders, OnlyOrder(o), charged'[o] = charged[o],
             NEW from \in {"open", "delivered", "paid"},
             NEW to \in {"open", "delivered", "paid"},
             <<from, to>> \in {<<"open", "delivered">>, <<"delivered", "open">>,
                               <<"delivered", "paid">>, <<"paid", "delivered">>},
             ContractPhase[o] = from, ContractPhase'[o] = to
      PROVE  Step
  <2>1. charged' = charged
    BY <1>2, <1>4 DEF IInv, TypeOK
  <2>2. Contract!Move(o, from, to)
    BY <1>2, <1>4, <2>1 DEF Contract!Move
  <2>3. QED
    BY <1>4, <2>2 DEF Contract!Next
<1>5. ASSUME NEW o \in Orders, OnlyOrder(o), Narrows(o)
      PROVE  Step
  <2>1. /\ Placed(o) /\ Placed(o)'
        /\ ChargeableIn(soStatus', o) \subseteq ChargeableIn(soStatus, o)
        /\ charged[o] = ChargeableIn(soStatus, o)
        /\ charged'[o] = ChargeableIn(soStatus', o)
        /\ status[o] = "CANCELLED" <=> charged[o] = {}
        /\ status'[o] = "CANCELLED" <=> charged'[o] = {}
    BY <1>5
    DEF Narrows, Placed, ChargeableIn, IInv, CancelledTogether, PayableMatchesChargeable
  <2>2. CASE status[o] = "CANCELLED"
    <3>1. status'[o] = "CANCELLED" /\ charged'[o] = charged[o]
      BY <2>1, <2>2
    <3>2. QED
      BY <1>3, <1>5, <2>2, <3>1, PhaseCases
  <2>3. CASE status[o] = "COMPLETED"
    <3>1. charged'[o] = charged[o]
      BY <1>5, <2>1, <2>3 DEF Narrows, ChargeableIn
    <3>2. PICK so \in ChargeableIn(soStatus, o) : soStatus[so] = "COMPLETED"
      BY <2>1, <2>3 DEF IInv, DeliveredTogether
    <3>3. so \in StoreOrdersOf(o) /\ soStatus'[so] = "COMPLETED"
      BY <1>5, <2>3, <3>2 DEF Narrows, ChargeableIn
    <3>4. status'[o] = "COMPLETED"
      BY <3>3 DEF IInv, DeliveredTogether, StoreOrdersOf
    <3>5. payment'[o] = "COLLECTED" <=> payment[o] = "COLLECTED"
      BY <1>5 DEF Narrows
    <3>6. QED
      BY <1>3, <1>5, <2>3, <3>1, <3>4, <3>5, PhaseCases
  <2>4. CASE status[o] \notin {"NONE", "CANCELLED", "COMPLETED"}
    <3>1. status'[o] # "COMPLETED"
      <4>1. ASSUME status'[o] = "COMPLETED", NEW so \in ChargeableIn(soStatus', o)
            PROVE  status[o] = "COMPLETED"
        <5>1. so \in StoreOrdersOf(o) /\ soStatus'[so] = "COMPLETED"
          BY <4>1 DEF IInv, DeliveredTogether, ChargeableIn, StoreOrdersOf
        <5>2. soStatus[so] = "COMPLETED"
          BY <1>5, <5>1 DEF Narrows
        <5>3. QED
          BY <5>1, <5>2 DEF IInv, DeliveredTogether
      <4>2. QED
        BY <2>1, <2>4, <4>1
    <3>2. /\ ContractPhase[o] = "open"
          /\ ContractPhase'[o] = IF charged'[o] = {} THEN "void" ELSE "open"
      BY <2>1, <2>4, <3>1, PhaseCases DEF Placed
    <3>3. charged'[o] \in SUBSET StoreOrders
      BY DEF IInv, TypeOK
    <3>4. Contract!Drop(o, charged'[o])
      BY <1>2, <1>5, <2>1, <3>2 DEF Contract!Drop
    <3>5. QED
      BY <3>3, <3>4 DEF Contract!Next
  <2>5. QED
    BY <2>1, <2>2, <2>3, <2>4 DEF Placed
<1>6. ASSUME NEW o \in Orders, OnlyOrder(o), PlaceOrder(o)
      PROVE  Step
  <2>1. /\ status[o] = "NONE" /\ status'[o] = "PLACED"
        /\ charged'[o] = StoreOrdersOf(o)
    BY <1>6 DEF PlaceOrder, Placed, IInv, TypeOK
  <2>2. ContractPhase[o] = "none" /\ ContractPhase'[o] = "open"
    BY <2>1, PhaseCases
  <2>3. Contract!Place(o)
    BY <1>2, <1>6, <2>1, <2>2 DEF Contract!Place
  <2>4. QED
    BY <2>3 DEF Contract!Next
<1>7. ASSUME NEW o \in Orders, OnlyOrder(o), CompleteOrder(o)
      PROVE  Step
  <2>1. /\ status[o] \notin {"NONE", "CANCELLED", "COMPLETED"}
        /\ status'[o] = "COMPLETED" /\ payment'[o] = payment[o] /\ charged'[o] = charged[o]
    BY <1>7 DEF CompleteOrder, AdminTransitions, IInv, TypeOK
  <2>2. payment[o] # "COLLECTED"
    BY <2>1 DEF IInv, CollectedOnlyWhenDelivered
  <2>3. ContractPhase[o] = "open" /\ ContractPhase'[o] = "delivered"
    BY <2>1, <2>2, PhaseCases
  <2>4. QED
    BY <1>4, <1>7, <2>1, <2>3
<1>8. ASSUME NEW o \in Orders, OnlyOrder(o), ReverseDelivery(o)
      PROVE  Step
  <2>1. /\ status[o] = "COMPLETED" /\ payment[o] # "COLLECTED"
        /\ status'[o] = "IN_PROGRESS" /\ charged'[o] = charged[o]
    BY <1>8 DEF ReverseDelivery, ReversalAllowed, IInv, TypeOK
  <2>2. ContractPhase[o] = "delivered" /\ ContractPhase'[o] = "open"
    BY <2>1, PhaseCases
  <2>3. QED
    BY <1>4, <1>8, <2>1, <2>2
<1>9. ASSUME NEW o \in Orders, OnlyOrder(o), NEW new \in PaymentStatus,
             UpdatePaymentStatus(o, new)
      PROVE  Step
  <2>1. /\ status'[o] = status[o] /\ charged'[o] = charged[o] /\ payment'[o] = new
        /\ status[o] # "NONE"
        /\ payment[o] = "COLLECTED" => new = "PENDING"
        /\ payment[o] # "COLLECTED" => payment[o] = "PENDING"
        /\ new = "COLLECTED" => payment[o] # "COLLECTED" /\ status[o] = "COMPLETED"
    BY <1>9 DEF UpdatePaymentStatus, Placed, IInv, TypeOK
  <2>2. payment[o] = "COLLECTED" => status[o] = "COMPLETED"
    BY DEF IInv, CollectedOnlyWhenDelivered
  <2>3. CASE new = "COLLECTED"
    <3>1. ContractPhase[o] = "delivered" /\ ContractPhase'[o] = "paid"
      BY <2>1, <2>3, PhaseCases
    <3>2. QED
      BY <1>4, <1>9, <2>1, <3>1
  <2>4. CASE payment[o] = "COLLECTED"
    <3>1. ContractPhase[o] = "paid" /\ ContractPhase'[o] = "delivered"
      BY <2>1, <2>2, <2>4, PhaseCases
    <3>2. QED
      BY <1>4, <1>9, <2>1, <3>1
  <2>5. CASE new # "COLLECTED" /\ payment[o] # "COLLECTED"
    <3>1. ContractPhase'[o] = ContractPhase[o]
      BY <2>1, <2>5, PhaseCases
    <3>2. QED
      BY <1>3, <1>9, <2>1, <3>1
  <2>6. QED
    BY <2>3, <2>4, <2>5
<1>10. QED
  BY <1>1, <1>5, <1>6, <1>7, <1>8, <1>9, StepKinds

\* The services implement the contract, for any number of orders and stores.
THEOREM ImplementsContract == Spec => KeepsContract
BY ContractInit, ContractStep, Invariance, PTL DEF Spec, KeepsContract, Contract!Spec
=============================================================================
