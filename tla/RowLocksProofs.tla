---------------------------- MODULE RowLocksProofs ----------------------------
(***************************************************************************)
(* What holds of the locks for every set of services, of any length.       *)
(***************************************************************************)
EXTENDS RowLocks, SequenceTheorems, WellFoundedInduction, TLAPS

-----------------------------------------------------------------------------
(* Sequences of sequences *)

\* What FlattenSeq computes piece by piece.
IsFlatten(f, seqs, n) ==
    f = [i \in 1..n |-> IF i = 1 THEN seqs[i] ELSE f[i - 1] \o seqs[i]]

\* A set of naturals has a least one.
LEMMA Least ==
    ASSUME NEW N, N \subseteq Nat, N # {}
    PROVE  \E n \in N : \A m \in N : n <= m
<1>1. PICK n \in N : \A m \in N : ~ (<<m, n>> \in OpToRel(<, Nat))
  BY NatLessThanWellFounded, WFMin
<1>2. ASSUME NEW m \in N PROVE n <= m
  <2>1. ~ (m < n)
    BY <1>1 DEF OpToRel
  <2> QED BY <2>1
<1> QED BY <1>2

LEMMA FlattenExists ==
    ASSUME NEW seqs, NEW n \in Nat
    PROVE  \E f : IsFlatten(f, seqs, n)
<1> DEFINE Missing == {m \in Nat : ~ \E f : IsFlatten(f, seqs, m)}
<1> SUFFICES ASSUME Missing # {} PROVE FALSE
  OBVIOUS
<1>1. PICK m \in Missing : \A k \in Missing : m <= k
  BY Least
<1>2. m \in Nat /\ ~ \E f : IsFlatten(f, seqs, m)
  OBVIOUS
<1>3. m # 0
  <2> DEFINE none == [i \in 1..0 |-> seqs]
  <2>1. IsFlatten(none, seqs, 0)
    BY DEF IsFlatten
  <2> QED BY <1>2, <2>1
<1>4. m - 1 \in Nat /\ m - 1 \notin Missing
  BY <1>1, <1>2, <1>3
<1>5. PICK f : IsFlatten(f, seqs, m - 1)
  BY <1>4
<1> DEFINE g == [i \in 1..m |-> IF i = m THEN (IF m = 1 THEN seqs[m] ELSE f[m - 1] \o seqs[m]) ELSE f[i]]
<1>6. IsFlatten(g, seqs, m)
  <2>1. ASSUME NEW i \in 1..m
        PROVE  g[i] = IF i = 1 THEN seqs[i] ELSE g[i - 1] \o seqs[i]
    <3>1. CASE i = m
      BY <1>2, <1>3, <3>1
    <3>2. CASE i # m
      <4>1. i \in 1..(m - 1)
        BY <1>2, <1>3, <3>2
      <4>2. f[i] = IF i = 1 THEN seqs[i] ELSE f[i - 1] \o seqs[i]
        BY <1>5, <4>1 DEF IsFlatten
      <4>3. i # 1 => i - 1 \in 1..m /\ i - 1 # m
        BY <1>2, <3>2
      <4> QED BY <3>2, <4>2, <4>3
    <3> QED BY <3>1, <3>2
  <2> HIDE DEF g
  <2>2. g = [i \in 1..m |-> g[i]]
    BY DEF g
  <2> QED BY <2>1, <2>2 DEF IsFlatten
<1> QED BY <1>2, <1>6

\* A sequence of sequences over T is flattened to a sequence over T.
LEMMA FlattenSeqType ==
    ASSUME NEW T, NEW seqs \in Seq(Seq(T))
    PROVE  FlattenSeq(seqs) \in Seq(T)
<1> DEFINE n == Len(seqs)
<1>0. n \in Nat /\ \A i \in 1..n : seqs[i] \in Seq(T)
  BY ElementOfSeq, LenProperties
<1>1. CASE n = 0
  <2>1. seqs = <<>>
    BY <1>1, EmptySeq
  <2> QED BY <1>1, <2>1, EmptySeq DEF FlattenSeq
<1>2. CASE n # 0
  <2> DEFINE f == CHOOSE f : f = [i \in 1..n |-> IF i = 1 THEN seqs[i] ELSE f[i - 1] \o seqs[i]]
  <2>1. FlattenSeq(seqs) = f[n]
    BY <1>2 DEF FlattenSeq
  <2>2. \E g : g = [i \in 1..n |-> IF i = 1 THEN seqs[i] ELSE g[i - 1] \o seqs[i]]
    BY <1>0, FlattenExists DEF IsFlatten
  <2>3. f = [i \in 1..n |-> IF i = 1 THEN seqs[i] ELSE f[i - 1] \o seqs[i]]
    BY <2>2
  <2> HIDE DEF f
  <2>4. \A i \in 1..n : f[i] = IF i = 1 THEN seqs[i] ELSE f[i - 1] \o seqs[i]
    BY <2>3
  <2> DEFINE Bad == {i \in 1..n : f[i] \notin Seq(T)}
  <2>5. Bad = {}
    <3> SUFFICES ASSUME Bad # {} PROVE FALSE
      OBVIOUS
    <3>1. Bad \subseteq Nat
      BY <1>0
    <3>2. PICK m \in Bad : \A k \in Bad : m <= k
      BY <3>1, Least
    <3>3. m \in 1..n /\ f[m] \notin Seq(T)
      OBVIOUS
    <3>4. m # 1
      BY <1>0, <2>4, <3>3
    <3>5. m - 1 \in 1..n /\ m - 1 \notin Bad
      BY <1>0, <3>2, <3>3, <3>4
    <3>6. f[m - 1] \in Seq(T) /\ seqs[m] \in Seq(T)
      BY <1>0, <3>3, <3>5
    <3>7. f[m] = f[m - 1] \o seqs[m]
      BY <2>4, <3>3, <3>4
    <3> QED BY <3>3, <3>6, <3>7, ConcatProperties
  <2> QED BY <1>0, <1>2, <2>1, <2>5
<1> QED BY <1>1, <1>2

\* The locks of the members of a sequence, one member after the other.
LEMMA ForEachType ==
    ASSUME NEW S, NEW T, NEW seq \in Seq(S), NEW locks \in [S -> Seq(T)]
    PROVE  FlattenSeq([k \in DOMAIN seq |-> locks[seq[k]]]) \in Seq(T)
<1>1. [k \in DOMAIN seq |-> locks[seq[k]]] \in Seq(Seq(T))
  <2>1. Len(seq) \in Nat /\ DOMAIN seq = 1..Len(seq)
    BY LenProperties
  <2>2. \A k \in 1..Len(seq) : locks[seq[k]] \in Seq(T)
    BY ElementOfSeq
  <2> QED BY <2>1, <2>2, IsASeq
<1> QED BY <1>1, FlattenSeqType

\* A sequence that goes on begins as it did.
LEMMA Joined ==
    ASSUME NEW T, NEW s \in Seq(T), NEW t \in Seq(T), s # <<>>
    PROVE  s \o t \in Seq(T) /\ s \o t # <<>> /\ (s \o t)[1] = s[1]
<1>1. Len(s) \in Nat /\ Len(s) # 0 /\ Len(t) \in Nat
  BY EmptySeq, LenProperties
<1>2. /\ s \o t \in Seq(T) /\ Len(s \o t) = Len(s) + Len(t)
      /\ \A i \in 1..(Len(s) + Len(t)) : (s \o t)[i] = IF i <= Len(s) THEN s[i] ELSE t[i - Len(s)]
  BY ConcatProperties
<1>3. (s \o t)[1] = s[1] /\ Len(s \o t) # 0
  BY <1>1, <1>2
<1> QED BY <1>2, <1>3, EmptySeq

LEMMA FourJoined ==
    ASSUME NEW a, NEW b, NEW c, NEW d
    PROVE  /\ <<a, b, c>> \o <<d>> = <<a, b, c, d>>
           /\ <<a>> \o <<b, c, d>> = <<a, b, c, d>>
<1> DEFINE T == {a, b, c, d}
           u == <<a, b, c, d>>
<1>1. /\ <<a, b, c>> \in Seq(T) /\ <<d>> \in Seq(T) /\ <<a>> \in Seq(T) /\ <<b, c, d>> \in Seq(T)
      /\ u \in Seq(T)
  OBVIOUS
<1>2. /\ Len(<<a, b, c>>) = 3 /\ Len(<<d>>) = 1 /\ Len(<<a>>) = 1 /\ Len(<<b, c, d>>) = 3
      /\ Len(u) = 4
  OBVIOUS
<1> HIDE DEF T
<1>3. ASSUME NEW s \in Seq(T), NEW t \in Seq(T), Len(s) + Len(t) = 4,
             \A i \in 1..4 : u[i] = IF i <= Len(s) THEN s[i] ELSE t[i - Len(s)]
      PROVE  s \o t = u
  <2> HIDE DEF u
  <2>1. /\ s \o t \in Seq(T) /\ Len(s \o t) = 4
        /\ \A i \in 1..4 : (s \o t)[i] = IF i <= Len(s) THEN s[i] ELSE t[i - Len(s)]
    BY <1>3, ConcatProperties
  <2>2. Len(s \o t) = Len(u) /\ \A i \in 1..Len(s \o t) : (s \o t)[i] = u[i]
    BY <1>2, <1>3, <2>1
  <2> QED BY <1>1, <2>1, <2>2, SeqEqual
<1>4. <<a, b, c>> \o <<d>> = u
  <2> DEFINE s == <<a, b, c>>
             t == <<d>>
  <2>1. \A i \in 1..4 : u[i] = IF i <= 3 THEN s[i] ELSE t[i - 3]
    OBVIOUS
  <2>2. s \in Seq(T) /\ t \in Seq(T) /\ Len(s) = 3 /\ Len(t) = 1
    BY <1>1, <1>2
  <2> HIDE DEF s, t, u
  <2>3. Len(s) + Len(t) = 4 /\ \A i \in 1..4 : u[i] = IF i <= Len(s) THEN s[i] ELSE t[i - Len(s)]
    BY <2>1, <2>2
  <2>4. s \o t = u
    BY <1>3, <2>2, <2>3, Zenon
  <2> QED BY <2>4 DEF s, t
<1>5. <<a>> \o <<b, c, d>> = u
  <2> DEFINE s == <<a>>
             t == <<b, c, d>>
  <2>1. \A i \in 1..4 : u[i] = IF i <= 1 THEN s[i] ELSE t[i - 1]
    OBVIOUS
  <2>2. s \in Seq(T) /\ t \in Seq(T) /\ Len(s) = 1 /\ Len(t) = 3
    BY <1>1, <1>2
  <2> HIDE DEF s, t, u
  <2>3. Len(s) + Len(t) = 4 /\ \A i \in 1..4 : u[i] = IF i <= Len(s) THEN s[i] ELSE t[i - Len(s)]
    BY <2>1, <2>2
  <2>4. s \o t = u
    BY <1>3, <2>2, <2>3, Zenon
  <2> QED BY <2>4 DEF s, t
<1> QED BY <1>4, <1>5

-----------------------------------------------------------------------------
(* The locks of the services *)

Table(l) == l.row[1]

\* A lock of a service of order o: of the orders and StoreOrders only those of o.
Own(l, o) ==
    /\ Table(l) = "Order" => l.row[2] = o
    /\ Table(l) = "StoreOrder" => OrderOf[l.row[2]] = o

\* A lock of another service.
Apart(l) == Table(l) \notin {"Order", "StoreOrder"}

OrderKinds == {"transition", "reject", "cancel", "management"}

\* The locks that a service of order o may take.
StoreOrderRows(o) == {Update("StoreOrder", so) : so \in {so \in DOMAIN OrderOf : OrderOf[so] = o}}

ItemRows(o) ==
    UNION {{Update("OrderItem", i), Update("StoreOrder", StoreOrderOf[i]),
            Update("Store", SellerOf[StoreOrderOf[i]]), Update("Product", ProductOf[i])} :
           i \in {i \in DOMAIN StoreOrderOf : OrderOf[StoreOrderOf[i]] = o}}

OrderRows(o) ==
    {Update("Order", o), Update("Customer", CustomerOf[o])} \cup StoreOrderRows(o) \cup ItemRows(o)

LEMMA RowsOwn ==
    ASSUME NEW o, NEW l \in OrderRows(o)
    PROVE  Own(l, o)
  BY DEF OrderRows, StoreOrderRows, ItemRows, Own, Table, Update

LEMMA StoreOrderLocks ==
    ASSUME NEW o, StoreOrdersOf[o] \in Seq({so \in DOMAIN OrderOf : OrderOf[so] = o})
    PROVE  ForEach(StoreOrdersOf[o], LAMBDA so : << Update("StoreOrder", so) >>)
             \in Seq(StoreOrderRows(o))
<1> DEFINE S == {so \in DOMAIN OrderOf : OrderOf[so] = o}
           locks == [so \in S |-> << Update("StoreOrder", so) >>]
           seq == StoreOrdersOf[o]
<1>1. locks \in [S -> Seq(StoreOrderRows(o))]
  BY DEF StoreOrderRows
<1>2. [k \in DOMAIN seq |-> locks[seq[k]]] = [k \in DOMAIN seq |-> << Update("StoreOrder", seq[k]) >>]
  <2>1. \A k \in DOMAIN seq : seq[k] \in S
    BY ElementOfSeq, LenProperties
  <2> QED BY <2>1
<1>3. seq \in Seq(S)
  OBVIOUS
<1>4. FlattenSeq([k \in DOMAIN seq |-> locks[seq[k]]]) \in Seq(StoreOrderRows(o))
  <2> HIDE DEF locks, S, seq
  <2> QED BY <1>1, <1>3, ForEachType
<1>5. ForEach(seq, LAMBDA so : << Update("StoreOrder", so) >>)
        = FlattenSeq([k \in DOMAIN seq |-> << Update("StoreOrder", seq[k]) >>])
  BY DEF ForEach
<1> HIDE DEF locks, S
<1> QED BY <1>2, <1>4, <1>5

LEMMA ItemLocks ==
    ASSUME NEW o, ItemsOf[o] \in Seq({i \in DOMAIN StoreOrderOf : OrderOf[StoreOrderOf[i]] = o})
    PROVE  ForEach(ItemsOf[o], LAMBDA i :
             << Update("OrderItem", i), Update("StoreOrder", StoreOrderOf[i]),
                Update("Store", SellerOf[StoreOrderOf[i]]), Update("Product", ProductOf[i]) >>)
             \in Seq(ItemRows(o))
<1> DEFINE S == {i \in DOMAIN StoreOrderOf : OrderOf[StoreOrderOf[i]] = o}
           four(i) == << Update("OrderItem", i), Update("StoreOrder", StoreOrderOf[i]),
                         Update("Store", SellerOf[StoreOrderOf[i]]), Update("Product", ProductOf[i]) >>
           locks == [i \in S |-> four(i)]
           seq == ItemsOf[o]
<1>1. ASSUME NEW i \in S PROVE four(i) \in Seq(ItemRows(o))
  <2>1. /\ Update("OrderItem", i) \in ItemRows(o) /\ Update("StoreOrder", StoreOrderOf[i]) \in ItemRows(o)
        /\ Update("Product", ProductOf[i]) \in ItemRows(o)
        /\ Update("Store", SellerOf[StoreOrderOf[i]]) \in ItemRows(o)
    BY DEF ItemRows
  <2> QED BY <2>1
<1>2. [k \in DOMAIN seq |-> locks[seq[k]]] = [k \in DOMAIN seq |-> four(seq[k])]
  <2>1. \A k \in DOMAIN seq : seq[k] \in S
    BY ElementOfSeq, LenProperties
  <2> HIDE DEF four, S
  <2> QED BY <2>1
<1>3. locks \in [S -> Seq(ItemRows(o))]
  <2> HIDE DEF four, S
  <2> QED BY <1>1
<1>4. seq \in Seq(S)
  OBVIOUS
<1>5. FlattenSeq([k \in DOMAIN seq |-> locks[seq[k]]]) \in Seq(ItemRows(o))
  <2> HIDE DEF locks, S, seq
  <2> QED BY <1>3, <1>4, ForEachType
<1>6. ForEach(seq, LAMBDA i :
             << Update("OrderItem", i), Update("StoreOrder", StoreOrderOf[i]),
                Update("Store", SellerOf[StoreOrderOf[i]]), Update("Product", ProductOf[i]) >>)
        = FlattenSeq([k \in DOMAIN seq |-> four(seq[k])])
  BY DEF ForEach
<1> HIDE DEF locks, S, four
<1> QED BY <1>2, <1>5, <1>6

\* _lock_order_graph begins with the order and takes rows of this order.
LEMMA OrderGraphShape ==
    ASSUME NEW o,
           StoreOrdersOf[o] \in Seq({so \in DOMAIN OrderOf : OrderOf[so] = o}),
           ItemsOf[o] \in Seq({i \in DOMAIN StoreOrderOf : OrderOf[StoreOrderOf[i]] = o})
    PROVE  /\ OrderGraphLocks(o) \in Seq(OrderRows(o))
           /\ OrderGraphLocks(o) # <<>>
           /\ OrderGraphLocks(o)[1] = Update("Order", o)
<1> DEFINE first == << Update("Order", o), Update("Customer", CustomerOf[o]) >>
           second == ForEach(StoreOrdersOf[o], LAMBDA so : << Update("StoreOrder", so) >>)
           third == ForEach(ItemsOf[o], LAMBDA i :
             << Update("OrderItem", i), Update("StoreOrder", StoreOrderOf[i]),
                Update("Store", SellerOf[StoreOrderOf[i]]), Update("Product", ProductOf[i]) >>)
<1>1. second \in Seq(OrderRows(o))
  <2>1. second \in Seq(StoreOrderRows(o))
    BY StoreOrderLocks
  <2>2. StoreOrderRows(o) \subseteq OrderRows(o)
    BY DEF OrderRows
  <2> HIDE DEF second
  <2> QED BY <2>1, <2>2, SeqMonotonic
<1>2. third \in Seq(OrderRows(o))
  <2>1. third \in Seq(ItemRows(o))
    BY ItemLocks
  <2>2. ItemRows(o) \subseteq OrderRows(o)
    BY DEF OrderRows
  <2> HIDE DEF third
  <2> QED BY <2>1, <2>2, SeqMonotonic
<1>3. first \in Seq(OrderRows(o)) /\ first # <<>> /\ first[1] = Update("Order", o)
  BY DEF OrderRows
<1>4. OrderGraphLocks(o) = first \o second \o third
  BY DEF OrderGraphLocks
<1> HIDE DEF first, second, third
<1>6. /\ first \o second \in Seq(OrderRows(o)) /\ first \o second # <<>>
      /\ (first \o second)[1] = Update("Order", o)
  BY <1>1, <1>3, Joined
<1> QED BY <1>2, <1>4, <1>6, Joined


\* The locks of a checkout and of a purchase.
CheckoutRows(c) ==
    {Share("Customer", c)} \cup
    UNION {{Update("CartItem", <<c, p>>), Update("Product", p), Update("Store", StoreOf[p]),
            Update("Category", CategoryOf[p])} : p \in DOMAIN StoreOf}

PurchaseRows(e) ==
    {Update("PurchaseEntry", e)} \cup
    UNION {{Update("Product", p), Share("Store", StoreOf[p])} : p \in DOMAIN StoreOf}

LEMMA CheckoutShape ==
    ASSUME NEW c, CartOf[c] \in Seq(DOMAIN StoreOf)
    PROVE  CheckoutLocks(c) \in Seq(CheckoutRows(c))
<1> DEFINE seq == CartOf[c]
           S == DOMAIN StoreOf
           T == CheckoutRows(c)
           line(p) == << Update("CartItem", <<c, p>>), Update("Product", p) >>
           lines == [p \in S |-> line(p)]
           stores == [p \in S |-> ProductWithStore(p)]
<1>0. \A k \in DOMAIN seq : seq[k] \in S
  BY ElementOfSeq, LenProperties
<1>1. ASSUME NEW p \in S PROVE line(p) \in Seq(T) /\ ProductWithStore(p) \in Seq(T)
  <2>1. /\ Update("CartItem", <<c, p>>) \in T /\ Update("Product", p) \in T
        /\ Update("Store", StoreOf[p]) \in T /\ Update("Category", CategoryOf[p]) \in T
    BY DEF CheckoutRows
  <2> HIDE DEF T
  <2> QED BY <2>1 DEF ProductWithStore
<1>2. lines \in [S -> Seq(T)] /\ stores \in [S -> Seq(T)]
  <2> HIDE DEF line, S, T
  <2> QED BY <1>1
<1>3. /\ FlattenSeq([k \in DOMAIN seq |-> lines[seq[k]]]) \in Seq(T)
      /\ FlattenSeq([k \in DOMAIN seq |-> stores[seq[k]]]) \in Seq(T)
  <2>1. seq \in Seq(S)
    OBVIOUS
  <2> HIDE DEF lines, stores, S, T, seq
  <2> QED BY <1>2, <2>1, ForEachType
<1>4. /\ [k \in DOMAIN seq |-> lines[seq[k]]] = [k \in DOMAIN seq |-> line(seq[k])]
      /\ [k \in DOMAIN seq |-> stores[seq[k]]] = [k \in DOMAIN seq |-> ProductWithStore(seq[k])]
  <2> HIDE DEF line, S
  <2> QED BY <1>0
<1> DEFINE first == ForEach(seq, LAMBDA p : << Update("CartItem", <<c, p>>), Update("Product", p) >>)
           second == ForEach(seq, LAMBDA p : ProductWithStore(p))
           third == << Share("Customer", c) >>
<1>5. /\ first = FlattenSeq([k \in DOMAIN seq |-> line(seq[k])])
      /\ second = FlattenSeq([k \in DOMAIN seq |-> ProductWithStore(seq[k])])
  BY DEF ForEach
<1>6. third \in Seq(T)
  BY DEF CheckoutRows
<1>7. CheckoutLocks(c) = first \o second \o third
  BY DEF CheckoutLocks
<1>8. first \in Seq(T) /\ second \in Seq(T)
  <2> HIDE DEF line, lines, stores, S, T, first, second
  <2> QED BY <1>3, <1>4, <1>5
<1> HIDE DEF first, second, third, T
<1> QED BY <1>6, <1>7, <1>8, ConcatProperties DEF T

LEMMA PurchaseShape ==
    ASSUME NEW e, NEW products \in Seq(DOMAIN StoreOf)
    PROVE  PurchaseLocks(e, products) \in Seq(PurchaseRows(e))
<1> DEFINE S == DOMAIN StoreOf
           T == PurchaseRows(e)
           line(p) == << Update("Product", p), Share("Store", StoreOf[p]) >>
           lines == [p \in S |-> line(p)]
<1>0. \A k \in DOMAIN products : products[k] \in S
  BY ElementOfSeq, LenProperties
<1>1. ASSUME NEW p \in S PROVE line(p) \in Seq(T)
  <2>1. Update("Product", p) \in T /\ Share("Store", StoreOf[p]) \in T
    BY DEF PurchaseRows
  <2> HIDE DEF T
  <2> QED BY <2>1
<1>2. lines \in [S -> Seq(T)]
  <2> HIDE DEF line, S, T
  <2> QED BY <1>1
<1>3. FlattenSeq([k \in DOMAIN products |-> lines[products[k]]]) \in Seq(T)
  <2>1. products \in Seq(S)
    OBVIOUS
  <2> HIDE DEF lines, S, T
  <2> QED BY <1>2, <2>1, ForEachType
<1>4. [k \in DOMAIN products |-> lines[products[k]]] = [k \in DOMAIN products |-> line(products[k])]
  <2> HIDE DEF line, S
  <2> QED BY <1>0
<1> DEFINE first == << Update("PurchaseEntry", e) >>
           second == ForEach(products, LAMBDA p : << Update("Product", p), Share("Store", StoreOf[p]) >>)
<1>5. second = FlattenSeq([k \in DOMAIN products |-> line(products[k])])
  BY DEF ForEach
<1>6. first \in Seq(T)
  BY DEF PurchaseRows
<1>7. PurchaseLocks(e, products) = first \o second
  BY DEF PurchaseLocks
<1>8. second \in Seq(T)
  <2> HIDE DEF line, lines, S, T, second
  <2> QED BY <1>3, <1>4, <1>5
<1> HIDE DEF first, second, T
<1> QED BY <1>6, <1>7, <1>8, ConcatProperties DEF T

\* The locks of an addition to a cart and of a change of its quantity.
LEMMA CartLocks ==
    ASSUME NEW c, NEW p
    PROVE  /\ AddLocks(c, p) = << Update("Product", p), Update("Store", StoreOf[p]),
                                  Update("Category", CategoryOf[p]), Update("CartItem", <<c, p>>) >>
           /\ QuantityLocks(c, p) = << Update("CartItem", <<c, p>>), Update("Product", p),
                                       Update("Store", StoreOf[p]), Update("Category", CategoryOf[p]) >>
  BY FourJoined DEF AddLocks, QuantityLocks, ProductWithStore

\* What matters of the sequence of locks of a request, which are in T.
Shape(q, T) ==
    LET s == Services[q]
    IN  /\ Statements[q] \in Seq(T)
        /\ s.kind \in OrderKinds =>
              /\ Statements[q] # <<>>
              /\ Statements[q][1] = Update("Order", OrderOfService(s))
              /\ \A l \in T : Own(l, OrderOfService(s))
        /\ s.kind \notin OrderKinds => \A l \in T : Apart(l)
        /\ s.kind = "management" => \A l \in T : Table(l) \in {"Order", "StoreOrder"}
        /\ s.kind = "transition" => \A l \in T : Table(l) \in {"Order", "StoreOrder", "Store"}

LEMMA StatementsShape ==
    ASSUME NEW q \in Requests
    PROVE  \E T : Shape(q, T)
<1> DEFINE s == Services[q]
           o == OrderOfService(s)
<1>0. /\ s.kind \in Kinds
      /\ s.kind \in {"management", "cancel", "reject"} =>
            /\ StoreOrdersOf[o] \in Seq({so \in DOMAIN OrderOf : OrderOf[so] = o})
            /\ ItemsOf[o] \in Seq({i \in DOMAIN StoreOrderOf : OrderOf[StoreOrderOf[i]] = o})
      /\ s.kind = "checkout" => CartOf[s.customer] \in Seq(DOMAIN StoreOf)
      /\ s.kind = "purchase" => s.products \in Seq(DOMAIN StoreOf)
  BY ServicesAssumption DEF Requests
<1>s. Statements[q] = Locks(s)
  BY DEF Statements
<1>1. CASE s.kind = "transition"
  <2> DEFINE so == s.storeOrder
             T == {Update("Order", o), Update("StoreOrder", so), Update("Store", SellerOf[so])}
  <2>1. o = OrderOf[so] /\ Statements[q] = TransitionLocks(so)
    BY <1>1, <1>s DEF OrderOfService, Locks
  <2>2. /\ Statements[q] \in Seq(T) /\ Statements[q] # <<>> /\ Statements[q][1] = Update("Order", o)
    BY <2>1 DEF TransitionLocks
  <2>3. \A l \in T : Own(l, o) /\ Table(l) \in {"Order", "StoreOrder", "Store"}
    BY <2>1 DEF Own, Table, Update
  <2> QED BY <1>1, <2>2, <2>3 DEF Shape, OrderKinds
<1>2. CASE s.kind = "reject"
  <2> DEFINE so == s.storeOrder
             T == OrderRows(o) \cup {Update("StoreOrder", so), Update("Store", SellerOf[so])}
  <2>1. o = OrderOf[so] /\ Statements[q] = TransitionLocks(so) \o OrderGraphLocks(o)
    BY <1>2, <1>s DEF OrderOfService, Locks, RejectLocks
  <2>2. TransitionLocks(so) \in Seq(T) /\ TransitionLocks(so) # <<>>
        /\ TransitionLocks(so)[1] = Update("Order", o)
    <3>1. Update("Order", o) \in T
      BY DEF OrderRows
    <3>2. Update("StoreOrder", so) \in T /\ Update("Store", SellerOf[so]) \in T
      OBVIOUS
    <3> HIDE DEF T
    <3> QED BY <2>1, <3>1, <3>2 DEF TransitionLocks
  <2>3. OrderGraphLocks(o) \in Seq(T)
    <3>1. OrderGraphLocks(o) \in Seq(OrderRows(o))
      BY <1>0, <1>2, OrderGraphShape
    <3> QED BY <3>1, SeqMonotonic
  <2>4. \A l \in T : Own(l, o)
    BY <2>1, RowsOwn DEF Own, Table, Update
  <2> HIDE DEF T
  <2>5. /\ Statements[q] \in Seq(T) /\ Statements[q] # <<>> /\ Statements[q][1] = Update("Order", o)
    BY <2>1, <2>2, <2>3, Joined
  <2> QED BY <1>2, <2>4, <2>5 DEF Shape, OrderKinds
<1>3. CASE s.kind = "cancel"
  <2>1. Statements[q] = OrderGraphLocks(o)
    BY <1>3, <1>s DEF OrderOfService, Locks
  <2>2. /\ Statements[q] \in Seq(OrderRows(o)) /\ Statements[q] # <<>>
        /\ Statements[q][1] = Update("Order", o)
    BY <1>0, <1>3, <2>1, OrderGraphShape
  <2> QED BY <1>3, <2>2, RowsOwn DEF Shape, OrderKinds
<1>4. CASE s.kind = "management"
  <2> DEFINE first == << Update("Order", o) >>
             second == ForEach(StoreOrdersOf[o], LAMBDA so : << Update("StoreOrder", so) >>)
             T == {Update("Order", o)} \cup StoreOrderRows(o)
  <2>1. Statements[q] = first \o second
    BY <1>4, <1>s DEF OrderOfService, Locks, ManagementLocks
  <2>2. second \in Seq(T)
    <3>1. second \in Seq(StoreOrderRows(o))
      BY <1>0, <1>4, StoreOrderLocks
    <3> HIDE DEF second
    <3> QED BY <3>1, SeqMonotonic
  <2>3. first \in Seq(T) /\ first # <<>> /\ first[1] = Update("Order", o)
    OBVIOUS
  <2>4. \A l \in T : Own(l, o) /\ Table(l) \in {"Order", "StoreOrder"}
    BY DEF StoreOrderRows, Own, Table, Update
  <2> HIDE DEF first, second, T
  <2>5. Statements[q] \in Seq(T) /\ Statements[q] # <<>> /\ Statements[q][1] = Update("Order", o)
    BY <2>1, <2>2, <2>3, Joined
  <2> QED BY <1>4, <2>4, <2>5 DEF Shape, OrderKinds
<1>5. CASE s.kind = "checkout"
  <2>1. Statements[q] \in Seq(CheckoutRows(s.customer))
    BY <1>0, <1>5, <1>s, CheckoutShape DEF Locks
  <2>2. \A l \in CheckoutRows(s.customer) : Apart(l)
    BY DEF CheckoutRows, Apart, Table, Update, Share
  <2> QED BY <1>5, <2>1, <2>2 DEF Shape, OrderKinds
<1>6. CASE s.kind = "purchase"
  <2>1. Statements[q] \in Seq(PurchaseRows(s.entry))
    BY <1>0, <1>6, <1>s, PurchaseShape DEF Locks
  <2>2. \A l \in PurchaseRows(s.entry) : Apart(l)
    BY DEF PurchaseRows, Apart, Table, Update, Share
  <2> QED BY <1>6, <2>1, <2>2 DEF Shape, OrderKinds
<1>7. CASE s.kind \in {"add", "quantity"}
  <2> DEFINE p == s.product
             T == {Update("CartItem", <<s.customer, p>>), Update("Product", p),
                   Update("Store", StoreOf[p]), Update("Category", CategoryOf[p])}
  <2>1. Statements[q] = AddLocks(s.customer, p) \/ Statements[q] = QuantityLocks(s.customer, p)
    BY <1>7, <1>s DEF Locks
  <2>2. Statements[q] \in Seq(T)
    <3>1. \A a, b, c, d \in T : <<a, b, c, d>> \in Seq(T)
      OBVIOUS
    <3>c. /\ AddLocks(s.customer, p) = << Update("Product", p), Update("Store", StoreOf[p]),
                Update("Category", CategoryOf[p]), Update("CartItem", <<s.customer, p>>) >>
          /\ QuantityLocks(s.customer, p) = << Update("CartItem", <<s.customer, p>>), Update("Product", p),
                Update("Store", StoreOf[p]), Update("Category", CategoryOf[p]) >>
      BY CartLocks
    <3>2. /\ Update("CartItem", <<s.customer, p>>) \in T /\ Update("Product", p) \in T
          /\ Update("Store", StoreOf[p]) \in T /\ Update("Category", CategoryOf[p]) \in T
      OBVIOUS
    <3> HIDE DEF T, s, p
    <3> QED BY <2>1, <3>1, <3>2, <3>c
  <2>3. \A l \in T : Apart(l)
    BY DEF Apart, Table, Update
  <2> QED BY <1>7, <2>2, <2>3 DEF Shape, OrderKinds
<1>8. CASE s.kind \in {"set default", "deactivate"}
  <2> DEFINE c == s.customer
             T == {Update("CustomerAddress", NewestOf[c]), Update("Customer", c),
                   Update("CustomerAddress", DefaultOf[c])}
  <2>1. Statements[q] = SetDefaultLocks(c) \/ Statements[q] = DeactivateLocks(c)
    BY <1>8, <1>s DEF Locks
  <2>2. Statements[q] \in Seq(T)
    <3>1. \A x, y, z \in T : <<x, y, z>> \in Seq(T)
      OBVIOUS
    <3>2. /\ Update("CustomerAddress", NewestOf[c]) \in T /\ Update("Customer", c) \in T
          /\ Update("CustomerAddress", DefaultOf[c]) \in T
      OBVIOUS
    <3> HIDE DEF T, s, c
    <3> QED BY <2>1, <3>1, <3>2 DEF SetDefaultLocks, DeactivateLocks
  <2>3. \A l \in T : Apart(l)
    BY DEF Apart, Table, Update
  <2> QED BY <1>8, <2>2, <2>3 DEF Shape, OrderKinds
<1> QED BY <1>0, <1>1, <1>2, <1>3, <1>4, <1>5, <1>6, <1>7, <1>8 DEF Kinds

-----------------------------------------------------------------------------
(* What requests hold *)

\* Request q has the first k of its locks.
Has(q, k) ==
    LET all == Statements[q]
    IN  /\ k \in 0..Len(all)
        /\ held[q] = {all[i] : i \in 1..k}
        /\ ahead[q] = SubSeq(all, k + 1, Len(all))

\* The locks of two requests do not conflict.
LocksApart ==
    \A q, r \in Requests : q # r => \A l \in held[q], m \in held[r] : ~Conflict(l, m)

IInv ==
    /\ held = [q \in Requests |-> held[q]] /\ ahead = [q \in Requests |-> ahead[q]]
    /\ \A q \in Requests : \E k : Has(q, k)
    /\ LocksApart

LEMMA StatementsSeq ==
    ASSUME NEW q \in Requests
    PROVE  \E T : Statements[q] \in Seq(T)
  BY StatementsShape DEF Shape

LEMMA HasNone ==
    ASSUME NEW q \in Requests
    PROVE  /\ Len(Statements[q]) \in Nat
           /\ SubSeq(Statements[q], 1, Len(Statements[q])) = Statements[q]
           /\ {Statements[q][i] : i \in 1..0} = {}
<1>1. PICK T : Statements[q] \in Seq(T)
  BY StatementsSeq
<1>2. 1..0 = {}
  OBVIOUS
<1>3. {Statements[q][i] : i \in 1..0} = {}
  BY <1>2, Zenon
<1> QED BY <1>1, <1>3, LenProperties, SubSeqFull

LEMMA InitIInv == Init => IInv
<1> SUFFICES ASSUME Init PROVE IInv
  OBVIOUS
<1>1. ASSUME NEW q \in Requests PROVE Has(q, 0) /\ held[q] = {}
  <2>1. held[q] = {} /\ ahead[q] = Statements[q]
    BY DEF Init
  <2> QED BY <2>1, HasNone DEF Has
<1>2. held = [q \in Requests |-> held[q]] /\ ahead = [q \in Requests |-> ahead[q]]
  BY DEF Init, Statements
<1> QED BY <1>1, <1>2 DEF IInv, LocksApart

\* A request takes its next lock, which nobody's lock conflicts with.
LEMMA LockKeeps ==
    ASSUME IInv, NEW q \in Requests, Lock(q)
    PROVE  IInv'
<1> DEFINE all == Statements[q]
           n == Len(all)
<1>0. PICK T : all \in Seq(T)
  BY StatementsSeq
<1>n. n \in Nat
  BY <1>0, LenProperties
<1>1. PICK k : Has(q, k)
  BY DEF IInv
<1>2. /\ ahead[q] # <<>> /\ ~Waits(q)
      /\ held' = [held EXCEPT ![q] = @ \cup {Head(ahead[q])}]
      /\ ahead' = [ahead EXCEPT ![q] = Tail(@)]
  BY DEF Lock
<1>3. k \in Nat /\ k + 1 \in 1..n
  <2>1. k \in 0..n /\ ahead[q] = SubSeq(all, k + 1, n)
    BY <1>1 DEF Has
  <2>2. CASE k = n
    BY <1>n, <1>2, <2>1, <2>2, SubSeqEmpty
  <2>3. CASE k # n
    <3> HIDE DEF n
    <3> QED BY <1>n, <2>1, <2>3
  <2> QED BY <2>2, <2>3
<1>4. Head(ahead[q]) = all[k + 1] /\ Tail(ahead[q]) = SubSeq(all, k + 2, n)
  <2>1. n \in (k + 1)..n
    BY <1>n, <1>3
  <2>2. ahead[q] = SubSeq(all, k + 1, n)
    BY <1>1 DEF Has
  <2>3. /\ Head(SubSeq(all, k + 1, n)) = all[k + 1]
        /\ Tail(SubSeq(all, k + 1, n)) = SubSeq(all, k + 1 + 1, n)
    <3> DEFINE m == k + 1
    <3>1. m \in 1..Len(all) /\ n \in m..Len(all)
      BY <1>3, <2>1
    <3> HIDE DEF m, all, n
    <3>2. Head(SubSeq(all, m, n)) = all[m] /\ Tail(SubSeq(all, m, n)) = SubSeq(all, m + 1, n)
      BY <1>0, <3>1, HeadTailOfSubSeq
    <3> QED BY <3>2 DEF m
  <2>4. k + 1 + 1 = k + 2
    BY <1>3
  <2> QED BY <2>2, <2>3, <2>4
<1>5. /\ held'[q] = held[q] \cup {all[k + 1]} /\ ahead'[q] = SubSeq(all, k + 2, n)
      /\ \A r \in Requests \ {q} : held'[r] = held[r] /\ ahead'[r] = ahead[r]
      /\ held' = [r \in Requests |-> held'[r]] /\ ahead' = [r \in Requests |-> ahead'[r]]
  <2> HIDE DEF all, n
  <2> QED BY <1>2, <1>4 DEF IInv
<1>6. ASSUME NEW r \in Requests PROVE \E j : Has(r, j)'
  <2>1. CASE r = q
    <3>1. held'[q] = {all[i] : i \in 1..(k + 1)}
      <4>1. held[q] = {all[i] : i \in 1..k}
        BY <1>1 DEF Has
      <4>2. 1..(k + 1) = 1..k \cup {k + 1}
        BY <1>3
      <4> HIDE DEF all, n
      <4> QED BY <1>5, <4>1, <4>2
    <3>2. k + 1 \in 0..n /\ (k + 1) + 1 = k + 2
      BY <1>3
    <3>3. Has(q, k + 1)'
      <4> HIDE DEF n
      <4> QED BY <1>5, <3>1, <3>2 DEF Has, n
    <3> QED BY <2>1, <3>3
  <2>2. CASE r # q
    <3>1. PICK j : Has(r, j)
      BY DEF IInv
    <3>2. Has(r, j)'
      BY <1>5, <2>2, <3>1 DEF Has
    <3> QED BY <3>2
  <2> QED BY <2>1, <2>2
<1>7. ASSUME NEW r \in Requests, r # q, NEW m \in held[r]
      PROVE  ~Conflict(Head(ahead[q]), m) /\ ~Conflict(m, Head(ahead[q]))
  BY <1>2, <1>7 DEF Waits, WaitsFor, Conflict
<1>8. LocksApart'
  <2>1. ASSUME NEW a \in Requests, NEW b \in Requests, a # b, NEW l \in held'[a], NEW m \in held'[b]
        PROVE  ~Conflict(l, m)
    BY <1>4, <1>5, <1>7, <2>1 DEF IInv, LocksApart
  <2> QED BY <2>1 DEF LocksApart
<1> QED BY <1>5, <1>6, <1>8 DEF IInv

\* A request ends and lets its locks go.
LEMMA EndKeeps ==
    ASSUME IInv, NEW q \in Requests, End(q)
    PROVE  IInv'
<1>1. /\ held'[q] = {} /\ ahead'[q] = Statements[q]
      /\ \A r \in Requests \ {q} : held'[r] = held[r] /\ ahead'[r] = ahead[r]
      /\ held' = [r \in Requests |-> held'[r]] /\ ahead' = [r \in Requests |-> ahead'[r]]
  BY DEF End, IInv
<1>2. ASSUME NEW r \in Requests PROVE \E j : Has(r, j)'
  <2>1. CASE r = q
    <3>1. Has(q, 0)'
      BY <1>1, HasNone DEF Has
    <3> QED BY <2>1, <3>1
  <2>2. CASE r # q
    <3>1. PICK j : Has(r, j)
      BY DEF IInv
    <3>2. Has(r, j)'
      BY <1>1, <2>2, <3>1 DEF Has
    <3> QED BY <3>2
  <2> QED BY <2>1, <2>2
<1>3. LocksApart'
  BY <1>1 DEF IInv, LocksApart
<1> QED BY <1>1, <1>2, <1>3 DEF IInv

LEMMA NextIInv == IInv /\ [Next]_vars => IInv'
<1> SUFFICES ASSUME IInv, [Next]_vars PROVE IInv'
  OBVIOUS
<1>1. ASSUME NEW q \in Requests, Advance(q) PROVE IInv'
  BY <1>1, LockKeeps, EndKeeps DEF Advance, Commit, AbortDeadlocked
<1>2. CASE UNCHANGED vars
  BY <1>2 DEF vars, IInv, Has, LocksApart
<1> QED BY <1>1, <1>2 DEF Next

LEMMA Invariance == Spec => []IInv
  BY InitIInv, NextIInv, PTL DEF Spec

-----------------------------------------------------------------------------
(* Who can wait for whom *)

TheOrder(q) == OrderOfService(Services[q])

\* A request holds the first of its locks, and goes on with another of them.
LEMMA HeldShape ==
    ASSUME IInv, NEW q \in Requests, NEW T, Shape(q, T)
    PROVE  /\ held[q] \subseteq T
           /\ ahead[q] # <<>> => Head(ahead[q]) \in T
           /\ held[q] # {} => Statements[q][1] \in held[q]
<1> DEFINE all == Statements[q]
           n == Len(all)
<1>1. PICK k : Has(q, k)
  BY DEF IInv
<1>2. all \in Seq(T) /\ n \in Nat
  BY LenProperties DEF Shape
<1>3. /\ k \in 0..n /\ held[q] = {all[i] : i \in 1..k} /\ ahead[q] = SubSeq(all, k + 1, n)
  BY <1>1 DEF Has
<1>4. held[q] \subseteq T
  <2>1. \A i \in 1..k : i \in 1..n
    BY <1>2, <1>3
  <2>2. \A i \in 1..n : all[i] \in T
    BY <1>2, ElementOfSeq
  <2> HIDE DEF all, n
  <2> QED BY <1>3, <2>1, <2>2
<1>5. ahead[q] # <<>> => Head(ahead[q]) \in T
  <2>1. \A i \in (k + 1)..n : all[i] \in T
    <3>1. \A i \in (k + 1)..n : i \in 1..n
      BY <1>2, <1>3
    <3> QED BY <1>2, <3>1, ElementOfSeq
  <2>2. ahead[q] \in Seq(T)
    <3>1. k + 1 \in Int /\ n \in Int
      BY <1>2, <1>3
    <3> HIDE DEF all, n
    <3> QED BY <1>3, <2>1, <3>1, SubSeqProperties
  <2> QED BY <2>2, HeadTailProperties
<1>6. held[q] # {} => all[1] \in held[q]
  <2>1. k # 0 => 1 \in 1..k
    BY <1>3
  <2>2. k = 0 => held[q] = {}
    BY <1>3, HasNone
  <2> HIDE DEF all, n
  <2> QED BY <1>3, <2>1, <2>2
<1> QED BY <1>4, <1>5, <1>6

LEMMA HeldRows ==
    ASSUME IInv, NEW q \in Requests
    PROVE  /\ Services[q].kind \in OrderKinds =>
                /\ \A l \in held[q] : Own(l, TheOrder(q))
                /\ ahead[q] # <<>> => Own(Head(ahead[q]), TheOrder(q))
                /\ held[q] # {} => Update("Order", TheOrder(q)) \in held[q]
           /\ Services[q].kind \notin OrderKinds =>
                /\ \A l \in held[q] : Apart(l)
                /\ ahead[q] # <<>> => Apart(Head(ahead[q]))
           /\ Services[q].kind = "management" =>
                /\ \A l \in held[q] : Table(l) \in {"Order", "StoreOrder"}
                /\ ahead[q] # <<>> => Table(Head(ahead[q])) \in {"Order", "StoreOrder"}
           /\ Services[q].kind = "transition" =>
                /\ \A l \in held[q] : Table(l) \in {"Order", "StoreOrder", "Store"}
                /\ ahead[q] # <<>> => Table(Head(ahead[q])) \in {"Order", "StoreOrder", "Store"}
<1>1. PICK T : Shape(q, T)
  BY StatementsShape
<1>2. /\ held[q] \subseteq T
      /\ ahead[q] # <<>> => Head(ahead[q]) \in T
      /\ held[q] # {} => Statements[q][1] \in held[q]
  BY <1>1, HeldShape
<1> QED BY <1>1, <1>2 DEF Shape, TheOrder

\* The order's lock admits one service at a time.
LEMMA OrderLocksOut ==
    ASSUME IInv, NEW q \in Requests, NEW r \in Requests, q # r,
           Services[q].kind \in OrderKinds, Services[r].kind \in OrderKinds,
           TheOrder(q) = TheOrder(r), held[q] # {}, held[r] # {}
    PROVE  FALSE
<1>1. /\ Update("Order", TheOrder(q)) \in held[q]
      /\ Update("Order", TheOrder(q)) \in held[r]
  BY HeldRows
<1>2. Conflict(Update("Order", TheOrder(q)), Update("Order", TheOrder(q)))
  BY DEF Conflict, Update
<1> QED BY <1>1, <1>2 DEF IInv, LocksApart

\* Hence who holds something never waits for an Order or a StoreOrder.
LEMMA NoWaitInOrder ==
    ASSUME IInv, NEW q \in Requests, NEW r \in Requests, WaitsFor(q, r), held[q] # {}
    PROVE  Apart(Head(ahead[q]))
<1> SUFFICES ASSUME ~Apart(Head(ahead[q])) PROVE FALSE
  OBVIOUS
<1> DEFINE h == Head(ahead[q])
<1>1. PICK l \in held[r] : Conflict(h, l)
  BY DEF WaitsFor
<1>2. q # r /\ ahead[q] # <<>>
  BY DEF WaitsFor
<1>3. h.row = l.row /\ Table(h) = Table(l)
  BY <1>1 DEF Conflict, Table
<1>4. Services[q].kind \in OrderKinds /\ Own(h, TheOrder(q))
  BY <1>2, HeldRows
<1>5. Services[r].kind \in OrderKinds /\ Own(l, TheOrder(r))
  <2>1. ~Apart(l)
    BY <1>3 DEF Apart
  <2> QED BY <2>1, HeldRows
<1>6. TheOrder(q) = TheOrder(r)
  BY <1>3, <1>4, <1>5 DEF Own, Apart
<1> QED BY <1>2, <1>4, <1>5, <1>6, OrderLocksOut

\* The tables in an order in which a service takes their locks.
QuantityLevels ==
    [Order |-> 1, StoreOrder |-> 2, CartItem |-> 3, Product |-> 4, Store |-> 5, Category |-> 6]

AddLevels ==
    [Order |-> 1, StoreOrder |-> 2, Product |-> 3, Store |-> 4, Category |-> 5, CartItem |-> 6]

Tables == {"Order", "StoreOrder", "CartItem", "Product", "Store", "Category"}

LEMMA LevelsType ==
    /\ QuantityLevels \in [Tables -> 1..6] /\ AddLevels \in [Tables -> 1..6]
    /\ QuantityLevels["Order"] = 1 /\ QuantityLevels["StoreOrder"] = 2 /\ QuantityLevels["CartItem"] = 3
    /\ QuantityLevels["Product"] = 4 /\ QuantityLevels["Store"] = 5 /\ QuantityLevels["Category"] = 6
    /\ AddLevels["Order"] = 1 /\ AddLevels["StoreOrder"] = 2 /\ AddLevels["Product"] = 3
    /\ AddLevels["Store"] = 4 /\ AddLevels["Category"] = 5 /\ AddLevels["CartItem"] = 6
  BY DEF QuantityLevels, AddLevels, Tables

\* Request q takes one lock of each table, in the order of the levels.
Climbs(q, levels) ==
    LET all == Statements[q]
    IN  /\ \A i \in 1..Len(all) : Table(all[i]) \in Tables
        /\ \A i, j \in 1..Len(all) : i < j => levels[Table(all[i])] < levels[Table(all[j])]

LEMMA TransitionClimbs ==
    ASSUME NEW q \in Requests, Services[q].kind = "transition"
    PROVE  Climbs(q, QuantityLevels) /\ Climbs(q, AddLevels)
<1> DEFINE so == Services[q].storeOrder
           a == Update("Order", OrderOf[so])
           b == Update("StoreOrder", so)
           c == Update("Store", SellerOf[so])
           s == <<a, b, c>>
<1>1. Statements[q] = s
  BY DEF Statements, Locks, TransitionLocks
<1>2. Table(a) = "Order" /\ Table(b) = "StoreOrder" /\ Table(c) = "Store"
  BY DEF Table, Update
<1> HIDE DEF a, b, c
<1>3. Len(s) = 3 /\ s[1] = a /\ s[2] = b /\ s[3] = c
  OBVIOUS
<1>4. \A i \in 1..3 : i = 1 \/ i = 2 \/ i = 3
  OBVIOUS
<1> HIDE DEF s
<1> QED BY <1>1, <1>2, <1>3, <1>4, LevelsType DEF Climbs, Tables

LEMMA QuantityClimbs ==
    ASSUME NEW q \in Requests, Services[q].kind = "quantity"
    PROVE  Climbs(q, QuantityLevels)
<1> DEFINE p == Services[q].product
           a == Update("CartItem", <<Services[q].customer, p>>)
           b == Update("Product", p)
           c == Update("Store", StoreOf[p])
           d == Update("Category", CategoryOf[p])
           s == <<a, b, c, d>>
<1>1. Statements[q] = s
  BY CartLocks DEF Statements, Locks
<1>2. Table(a) = "CartItem" /\ Table(b) = "Product" /\ Table(c) = "Store" /\ Table(d) = "Category"
  BY DEF Table, Update
<1> HIDE DEF a, b, c, d
<1>3. Len(s) = 4 /\ s[1] = a /\ s[2] = b /\ s[3] = c /\ s[4] = d
  OBVIOUS
<1>4. \A i \in 1..4 : i = 1 \/ i = 2 \/ i = 3 \/ i = 4
  OBVIOUS
<1> HIDE DEF s
<1> QED BY <1>1, <1>2, <1>3, <1>4, LevelsType DEF Climbs, Tables

LEMMA AddClimbs ==
    ASSUME NEW q \in Requests, Services[q].kind = "add"
    PROVE  Climbs(q, AddLevels)
<1> DEFINE p == Services[q].product
           a == Update("Product", p)
           b == Update("Store", StoreOf[p])
           c == Update("Category", CategoryOf[p])
           d == Update("CartItem", <<Services[q].customer, p>>)
           s == <<a, b, c, d>>
<1>1. Statements[q] = s
  BY CartLocks DEF Statements, Locks
<1>2. Table(a) = "Product" /\ Table(b) = "Store" /\ Table(c) = "Category" /\ Table(d) = "CartItem"
  BY DEF Table, Update
<1> HIDE DEF a, b, c, d
<1>3. Len(s) = 4 /\ s[1] = a /\ s[2] = b /\ s[3] = c /\ s[4] = d
  OBVIOUS
<1>4. \A i \in 1..4 : i = 1 \/ i = 2 \/ i = 3 \/ i = 4
  OBVIOUS
<1> HIDE DEF s
<1> QED BY <1>1, <1>2, <1>3, <1>4, LevelsType DEF Climbs, Tables

\* What a request that climbs takes next is above all that it holds.
LEMMA ClimbsOn ==
    ASSUME IInv, NEW q \in Requests, NEW levels, Climbs(q, levels), ahead[q] # <<>>
    PROVE  /\ Table(Head(ahead[q])) \in Tables
           /\ \A l \in held[q] :
                 Table(l) \in Tables /\ levels[Table(l)] < levels[Table(Head(ahead[q]))]
<1> DEFINE all == Statements[q]
           n == Len(all)
<1>0. PICK T : all \in Seq(T)
  BY StatementsSeq
<1>1. PICK k : Has(q, k)
  BY DEF IInv
<1>2. k \in 0..n /\ held[q] = {all[i] : i \in 1..k} /\ ahead[q] = SubSeq(all, k + 1, n) /\ n \in Nat
  BY <1>0, <1>1, LenProperties DEF Has
<1>3. k # n
  BY <1>2, SubSeqEmpty
<1>4. k + 1 \in 1..n /\ n \in (k + 1)..n
  BY <1>2, <1>3
<1>5. Head(ahead[q]) = all[k + 1]
  <2> DEFINE m == k + 1
  <2>1. m \in 1..Len(all) /\ n \in m..Len(all)
    BY <1>4
  <2> HIDE DEF m, all, n
  <2>2. Head(SubSeq(all, m, n)) = all[m]
    BY <1>0, <2>1, HeadTailOfSubSeq
  <2> QED BY <1>2, <2>2 DEF m
<1>6. /\ \A i \in 1..n : Table(all[i]) \in Tables
      /\ \A i, j \in 1..n : i < j => levels[Table(all[i])] < levels[Table(all[j])]
  BY DEF Climbs
<1> HIDE DEF all, n
<1>7. \A i \in 1..k : i \in 1..n /\ i < k + 1
  BY <1>2
<1> QED BY <1>2, <1>4, <1>5, <1>6, <1>7

-----------------------------------------------------------------------------
(* Circles *)

\* If everybody waits for requests of a lower rank only, there is no circle.
LEMMA RankedNoCircle ==
    ASSUME NEW S \in SUBSET Requests, NEW rank \in [Requests -> Nat],
           \A q, r \in S : WaitsFor(q, r) => rank[r] < rank[q]
    PROVE  NoCircle(S)
<1> SUFFICES ASSUME NEW some, some \in SUBSET {q \in S : Waits(q)}, some # {}
             PROVE  \E q \in some : \A r \in some : ~WaitsFor(q, r)
  BY Zenon DEF NoCircle
<1> some \subseteq S
  OBVIOUS
<1>1. PICK n \in {rank[q] : q \in some} : \A m \in {rank[q] : q \in some} : n <= m
  <2>1. {rank[q] : q \in some} \subseteq Nat /\ {rank[q] : q \in some} # {}
    OBVIOUS
  <2> QED BY <2>1, Least
<1>2. PICK q \in some : rank[q] = n
  OBVIOUS
<1>3. ASSUME NEW r \in some PROVE ~(rank[r] < rank[q])
  <2>1. rank[q] <= rank[r] /\ rank[q] \in Nat /\ rank[r] \in Nat
    BY <1>1, <1>2
  <2> QED BY <2>1
<1> QED BY <1>3

\* Managements next to services that climb in one order.
LEMMA ClimbersNoCircle ==
    ASSUME IInv, NEW S \in SUBSET Requests, NEW levels \in [Tables -> 1..6],
           \A q \in S : Services[q].kind = "management" \/ Climbs(q, levels)
    PROVE  NoCircle(S)
<1> DEFINE value(q) == IF held[q] = {} THEN 7
                       ELSE IF ahead[q] = <<>> \/ ~Climbs(q, levels) THEN 0
                       ELSE 7 - levels[Table(Head(ahead[q]))]
           rank == [q \in Requests |-> value(q)]
<1>0. ASSUME NEW q \in Requests, held[q] # {}, ahead[q] # <<>>, Climbs(q, levels)
      PROVE  levels[Table(Head(ahead[q]))] \in 1..6
  BY <1>0, ClimbsOn
<1>1. ASSUME NEW q \in S, NEW r \in S, WaitsFor(q, r) PROVE value(r) < value(q)
  <2>1. PICK l \in held[r] : Table(Head(ahead[q])) = Table(l)
    BY <1>1 DEF WaitsFor, Conflict, Table
  <2>2. ahead[q] # <<>>
    BY <1>1 DEF WaitsFor
  <2>3. CASE held[q] = {}
    <3>1. value(r) <= 6 /\ value(r) \in Int
      BY <1>0, <2>1
    <3> HIDE DEF value
    <3>2. value(q) = 7
      BY <2>3 DEF value
    <3> QED BY <3>1, <3>2
  <2>4. CASE held[q] # {}
    <3>1. Apart(Head(ahead[q]))
      BY <1>1, <2>4, NoWaitInOrder
    <3>2. Services[q].kind # "management" /\ Services[r].kind # "management"
      BY <2>1, <2>2, <3>1, HeldRows DEF Apart
    <3>3. Climbs(q, levels) /\ Climbs(r, levels)
      BY <3>2
    <3>4. value(q) = 7 - levels[Table(Head(ahead[q]))] /\ levels[Table(Head(ahead[q]))] \in 1..6
      BY <1>0, <2>2, <2>4, <3>3
    <3>5. CASE ahead[r] = <<>>
      BY <2>1, <3>4, <3>5
    <3>6. CASE ahead[r] # <<>>
      <4>1. value(r) = 7 - levels[Table(Head(ahead[r]))] /\ levels[Table(Head(ahead[r]))] \in 1..6
        BY <1>0, <2>1, <3>3, <3>6
      <4>2. levels[Table(l)] < levels[Table(Head(ahead[r]))]
        BY <2>1, <3>3, <3>6, ClimbsOn
      <4> HIDE DEF value
      <4> QED BY <2>1, <3>4, <4>1, <4>2
    <3> QED BY <3>5, <3>6
  <2> QED BY <2>3, <2>4
<1>2. rank \in [Requests -> Nat] /\ \A q \in Requests : rank[q] = value(q)
  <2>1. \A q \in Requests : value(q) \in Nat
    BY <1>0
  <2> HIDE DEF value
  <2> QED BY <2>1
<1> HIDE DEF value, rank
<1>3. \A q, r \in S : WaitsFor(q, r) => rank[r] < rank[q]
  BY <1>1, <1>2
<1> QED BY <1>2, <1>3, RankedNoCircle

\* Transitions and managements with changes of quantities, or with additions.
LEMMA QuickServices ==
    ASSUME IInv
    PROVE  /\ NoCircle(Of({"transition", "management", "quantity"}))
           /\ NoCircle(Of({"transition", "management", "add"}))
<1>1. NoCircle(Of({"transition", "management", "quantity"}))
  <2> DEFINE S == Of({"transition", "management", "quantity"})
  <2>1. S \in SUBSET Requests
    BY DEF Of
  <2>2. \A q \in S : Services[q].kind = "management" \/ Climbs(q, QuantityLevels)
    BY TransitionClimbs, QuantityClimbs DEF Of
  <2> HIDE DEF S
  <2>3. NoCircle(S)
    BY <2>1, <2>2, LevelsType, ClimbersNoCircle
  <2> QED BY <2>3 DEF S
<1>2. NoCircle(Of({"transition", "management", "add"}))
  <2> DEFINE S == Of({"transition", "management", "add"})
  <2>1. S \in SUBSET Requests
    BY DEF Of
  <2>2. \A q \in S : Services[q].kind = "management" \/ Climbs(q, AddLevels)
    BY TransitionClimbs, AddClimbs DEF Of
  <2> HIDE DEF S
  <2>3. NoCircle(S)
    BY <2>1, <2>2, LevelsType, ClimbersNoCircle
  <2> QED BY <2>3 DEF S
<1> QED BY <1>1, <1>2

\* Transitions and managements with the cancellations and rejections of one
\* order, or with one other service.
LEMMA OrderServices ==
    ASSUME IInv, NEW one \in Requests
    PROVE  NoCircle(Of({"transition", "management"}) \cup Alongside(one))
<1> DEFINE Plain == Of({"transition", "management"})
           S == Plain \cup Alongside(one)
           value(q) == IF held[q] = {} THEN 3
                       ELSE IF ahead[q] = <<>> THEN 0
                       ELSE IF q \in Plain THEN 2 ELSE 1
           rank == [q \in Requests |-> value(q)]
<1>0. S \in SUBSET Requests
  BY DEF Of, Alongside
<1>1. ASSUME NEW q \in S, NEW r \in S, WaitsFor(q, r) PROVE value(r) < value(q)
  <2>0. q \in Requests /\ r \in Requests /\ q # r
    BY <1>0, <1>1 DEF WaitsFor
  <2>1. PICK l \in held[r] : Table(Head(ahead[q])) = Table(l)
    BY <1>1 DEF WaitsFor, Conflict, Table
  <2>2. ahead[q] # <<>>
    BY <1>1 DEF WaitsFor
  <2>3. CASE held[q] = {}
    BY <2>1, <2>3
  <2>4. ASSUME held[q] # {}, r \in Plain PROVE ahead[r] = <<>>
    <3>1. Table(l) \notin {"Order", "StoreOrder"}
      BY <1>1, <2>0, <2>1, <2>4, NoWaitInOrder DEF Apart
    <3>2. Services[r].kind = "transition" /\ Table(l) = "Store"
      BY <2>0, <2>1, <2>4, <3>1, HeldRows DEF Of
    <3>3. CASE ahead[r] # <<>>
      <4>1. /\ Table(Head(ahead[r])) \in {"Order", "StoreOrder", "Store"}
            /\ QuantityLevels["Store"] < QuantityLevels[Table(Head(ahead[r]))]
        BY <2>0, <2>1, <3>2, <3>3, HeldRows, TransitionClimbs, ClimbsOn
      <4> QED BY <4>1, LevelsType
    <3> QED BY <3>3
  <2>5. CASE held[q] # {} /\ r \in Plain
    BY <2>1, <2>2, <2>4, <2>5
  <2>6. CASE held[q] # {} /\ r \notin Plain /\ q \in Plain
    BY <2>1, <2>2, <2>6
  <2>7. CASE held[q] # {} /\ r \notin Plain /\ q \notin Plain
    <3>1. /\ q \in Alongside(one) /\ r \in Alongside(one)
      BY <2>7
    <3>2. /\ Services[q].kind \in OrderKinds /\ Services[r].kind \in OrderKinds
          /\ TheOrder(q) = TheOrder(r)
      BY <2>0, <3>1 DEF Alongside, Of, OrderKinds, TheOrder
    <3> QED BY <2>0, <2>1, <2>7, <3>2, OrderLocksOut
  <2> QED BY <2>3, <2>5, <2>6, <2>7
<1>2. rank \in [Requests -> Nat] /\ \A q \in Requests : rank[q] = value(q)
  OBVIOUS
<1> HIDE DEF value, rank, S
<1>4. \A q, r \in S : WaitsFor(q, r) => rank[r] < rank[q]
  BY <1>0, <1>1, <1>2
<1>5. NoCircle(S)
  BY <1>0, <1>2, <1>4, RankedNoCircle
<1> QED BY <1>5 DEF S

\* Whatever services are at work, on how many orders and carts: accepting,
\* processing and managing orders never wait in a circle, nor with changes of
\* quantities, nor with additions to carts, nor with all that cancels or
\* rejects in one order.
THEOREM OrderServicesAreDeadlockFree == Spec => []OrderServicesNeverDeadlock
<1>1. IInv => OrderServicesNeverDeadlock
  BY QuickServices, OrderServices DEF OrderServicesNeverDeadlock
<1> QED BY <1>1, Invariance, PTL
=============================================================================
