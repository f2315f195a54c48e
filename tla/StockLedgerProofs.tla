-------------------------- MODULE StockLedgerProofs --------------------------
(***************************************************************************)
(* Proofs about StockLedger, for any products, purchases, orders, runs of  *)
(* the opening-stock command and limits.                                   *)
(***************************************************************************)
EXTENDS StockLedger, TLAPS

\* What holds of an account on its own, committed or not.
Sound(p, a) ==
    /\ a \in Accounts
    /\ Explained(p, a)
    /\ OneOpening(a)
    /\ OneRowPerReference(a)

\* Account b has the rows of a, and possibly more.
Extends(b, a) == \A k \in DOMAIN a.rows : k \in DOMAIN b.rows /\ b.rows[k] = a.rows[k]

RecordedIn(ref, a) == \E k \in DOMAIN a.rows : a.rows[k].source = ref

\* The inductive invariant: a purchase commits what it sees, so what it sees
\* must be sound and extend what is committed, and must be what is committed
\* on the products it has not locked.
IInv ==
    /\ TypeOK
    /\ \A p \in Products :
          /\ Sound(p, account[p])
          /\ Sound(p, draft[p])
          /\ Extends(draft[p], account[p])
          /\ holder[p] = Nobody => draft[p] = account[p]
    /\ \A c \in Callers :
          /\ caller[c].step = "returned" => Recorded(caller[c].ref)
          /\ caller[c].step # "idle" => caller[c].ref \in References
    /\ \A j \in Jobs : jobStep[j] \in {"convert", "verify"} => current[j] \in Products

-----------------------------------------------------------------------------
(* Movements *)

\* The parts of an account.
LEMMA AccountParts ==
    ASSUME NEW a \in Accounts
    PROVE  /\ a = [stock |-> a.stock, rows |-> a.rows]
           /\ a.stock \in 0 .. MaxQuantity
           /\ a.rows \in Seq(Rows)
           /\ DOMAIN a.rows = 1 .. Len(a.rows)
           /\ Len(a.rows) \in Nat
           /\ \A k \in DOMAIN a.rows : a.rows[k] \in Rows
BY DEF Accounts

\* A row appended to a sound account that continues from its balance, and
\* brings neither a second opening nor a used reference, keeps it sound.
LEMMA AppendedRow ==
    ASSUME NEW p \in Products, NEW a, Sound(p, a),
           NEW row \in Rows, NEW b,
           b = [stock |-> row.new, rows |-> Append(a.rows, row)],
           IF IsConversion(row)
           THEN row.previous = 0 /\ row.new = a.stock /\ row.quantity = row.new
           ELSE /\ row.previous = a.stock
                /\ row.new = row.previous + Signed(row.type, row.quantity),
           IsOpening(row) => ~OpeningRecorded(a),
           row.source \in References => ~RecordedIn(row.source, a)
    PROVE  /\ Sound(p, b)
           /\ Extends(b, a)
           /\ RecordedIn(row.source, b)
<1> DEFINE n == Len(a.rows)
<1>1. /\ a.rows \in Seq(Rows) /\ n \in Nat /\ DOMAIN a.rows = 1 .. n
      /\ a.stock \in 0 .. MaxQuantity
  BY AccountParts DEF Sound
<1>2. /\ b.rows \in Seq(Rows) /\ Len(b.rows) = n + 1 /\ DOMAIN b.rows = 1 .. (n + 1)
      /\ b.rows[n + 1] = row
      /\ \A k \in 1 .. n : b.rows[k] = a.rows[k]
      /\ b.stock = row.new
  BY <1>1
<1>3. b \in Accounts
  BY <1>1, <1>2 DEF Accounts, Rows
<1>4. Extends(b, a) /\ RecordedIn(row.source, b)
  BY <1>1, <1>2 DEF Extends, RecordedIn
<1>5. \A k \in 1 .. (n + 1) : BalanceBefore(p, b, k) = BalanceBefore(p, a, k)
  BY <1>1, <1>2 DEF BalanceBefore
<1>6. Explained(p, b)
  <2>1. BalanceBefore(p, a, n + 1) = a.stock
    BY DEF Sound, Explained
  <2>2. ASSUME NEW k \in 1 .. n PROVE RowExplained(p, b, k)
    <3>1. RowExplained(p, a, k)
      BY <1>1 DEF Sound, Explained
    <3>2. b.rows[k] = a.rows[k] /\ BalanceBefore(p, b, k) = BalanceBefore(p, a, k)
      <4>1. k \in 1 .. (n + 1)
        BY <1>1
      <4>2. QED
        BY <1>2, <1>5, <4>1
    <3>3. QED
      BY <3>1, <3>2 DEF RowExplained
  <2>3. RowExplained(p, b, n + 1)
    <3>1. b.rows[n + 1] = row /\ BalanceBefore(p, b, n + 1) = a.stock
      <4>1. n + 1 \in 1 .. (n + 1)
        BY <1>1
      <4>2. QED
        BY <1>2, <1>5, <2>1, <4>1
    <3>2. QED
      BY <3>1 DEF RowExplained
  <2>4. b.stock = BalanceBefore(p, b, Len(b.rows) + 1)
    <3>1. n + 2 # 1 /\ (n + 2) - 1 = n + 1 /\ Len(b.rows) + 1 = n + 2
      BY <1>1, <1>2
    <3>2. QED
      BY <1>2, <3>1 DEF BalanceBefore
  <2>5. \A k \in DOMAIN b.rows : RowExplained(p, b, k)
    <3>1. \A k \in 1 .. (n + 1) : k \in 1 .. n \/ k = n + 1
      BY <1>1
    <3>2. QED
      BY <1>2, <2>2, <2>3, <3>1
  <2>6. QED
    BY <2>4, <2>5 DEF Explained
<1>7. OneOpening(b)
  BY <1>1, <1>2 DEF OneOpening, Sound, OpeningRecorded
<1>8. OneRowPerReference(b)
  BY <1>1, <1>2 DEF OneRowPerReference, Sound, RecordedIn
<1>9. QED
  BY <1>3, <1>4, <1>6, <1>7, <1>8 DEF Sound

\* apply_stock_movement, after its checks.
LEMMA MovedIsSound ==
    ASSUME NEW p \in Products, NEW a, Sound(p, a),
           NEW type \in InTypes \cup OutTypes, NEW q \in 1 .. MaxQuantity,
           NEW source \in Sources, NEW system \in BOOLEAN,
           CanMove(a, type, q),
           ~(type = "OPENING" /\ system),
           source \in References => ~RecordedIn(source, a)
    PROVE  /\ Sound(p, Moved(a, type, q, source, system))
           /\ Extends(Moved(a, type, q, source, system), a)
           /\ RecordedIn(source, Moved(a, type, q, source, system))
<1> DEFINE new == a.stock + Signed(type, q)
           row == Row(type, q, a.stock, new, source, system)
<1>1. a.stock \in 0 .. MaxQuantity /\ new \in 0 .. MaxQuantity
  BY AccountParts DEF Sound, CanMove
<1>2. row \in Rows
  BY <1>1 DEF Row, Rows
<1>3. /\ row.new = new /\ row.previous = a.stock /\ row.type = type
      /\ row.quantity = q /\ row.source = source /\ row.system = system
  BY DEF Row
<1>4. Moved(a, type, q, source, system) = [stock |-> row.new, rows |-> Append(a.rows, row)]
  BY <1>3 DEF Moved
<1>5. ~IsConversion(row) /\ (IsOpening(row) => ~OpeningRecorded(a))
  BY <1>3 DEF IsConversion, IsOpening, CanMove
<1> HIDE DEF row
<1>6. QED
  BY <1>2, <1>3, <1>4, <1>5, AppendedRow

\* The conversion of an existing balance.
LEMMA ConvertedIsSound ==
    ASSUME NEW p \in Products, NEW a, Sound(p, a), CanConvert(a)
    PROVE  Sound(p, Converted(a)) /\ Extends(Converted(a), a)
<1> DEFINE row == Row("OPENING", a.stock, 0, a.stock, NoSource, TRUE)
<1>1. /\ a.stock \in 1 .. MaxQuantity
      /\ a = [stock |-> a.stock, rows |-> a.rows]
  BY AccountParts DEF Sound, CanConvert
<1>2. row \in Rows
  BY <1>1, LimitsAssumption DEF Row, Rows, InTypes, Sources
<1>3. /\ row.new = a.stock /\ row.previous = 0 /\ row.type = "OPENING"
      /\ row.quantity = a.stock /\ row.source = NoSource /\ row.system = TRUE
  BY DEF Row
<1>4. Converted(a) = [stock |-> row.new, rows |-> Append(a.rows, row)]
  BY <1>1, <1>3 DEF Converted
<1>5. IsConversion(row) /\ ~OpeningRecorded(a) /\ row.source \notin References
  <2>1. NoSource \notin References
    BY DEF NoSource, References
  <2>2. QED
    BY <1>3, <2>1 DEF IsConversion, IsOpening, CanConvert
<1> HIDE DEF row
<1>6. QED
  BY <1>2, <1>3, <1>4, <1>5, AppendedRow

-----------------------------------------------------------------------------
(* What every step keeps *)

\* Recorded, in terms of one account.
LEMMA RecordedAccount ==
    ASSUME NEW ref
    PROVE  Recorded(ref) <=> RecordedIn(ref, account[OrderProduct(ref)])
BY DEF Recorded, RecordedIn

\* An account extends itself, and extending is transitive.
LEMMA ExtendsOrder ==
    ASSUME NEW a, NEW b, NEW c
    PROVE  /\ Extends(a, a)
           /\ Extends(c, b) /\ Extends(b, a) => Extends(c, a)
           /\ \A ref : Extends(b, a) /\ RecordedIn(ref, a) => RecordedIn(ref, b)
BY DEF Extends, RecordedIn

\* References are of order items, and orders sell products.
LEMMA ReferenceParts ==
    ASSUME NEW ref \in References
    PROVE  /\ OrderProduct(ref) \in Products
           /\ Quantity[ref[2]] \in 1 .. MaxQuantity
           /\ OrderType(ref) \in {"STOCK_OUT", "CUSTOMER_RETURN"}
BY OrderItemsAssumption DEF References, OrderProduct, OrderType

\* Initially nothing is in the ledger.
LEMMA InitIInv == Init => IInv
<1> SUFFICES ASSUME Init PROVE IInv
  OBVIOUS
<1>1. ASSUME NEW p \in Products
      PROVE  /\ account[p] = [stock |-> InitialStock[p], rows |-> <<>>]
             /\ draft[p] = account[p]
             /\ Sound(p, account[p])
             /\ Extends(draft[p], account[p])
  <2> DEFINE a == [stock |-> InitialStock[p], rows |-> <<>>]
  <2>1. account[p] = a /\ draft[p] = a
    BY DEF Init
  <2>2. a \in Accounts /\ DOMAIN a.rows = {} /\ Len(a.rows) = 0 /\ a.stock = InitialStock[p]
    BY ProductsAssumption DEF Accounts
  <2> HIDE DEF a
  <2>3. Explained(p, a)
    BY <2>2 DEF Explained, BalanceBefore
  <2>4. OneOpening(a) /\ OneRowPerReference(a) /\ Extends(a, a)
    BY <2>2 DEF OneOpening, OneRowPerReference, Extends
  <2>5. QED
    BY <2>1, <2>2, <2>3, <2>4 DEF Sound, a
<1>2. TypeOK
  <2>1. account \in [Products -> Accounts] /\ draft = account
    BY <1>1 DEF Init, Sound
  <2>2. /\ entry \in [Purchases -> {"NONE", "DRAFT", "CONFIRMED", "CANCELLED"}]
        /\ line \in [Purchases -> Nat]
        /\ holder \in [Products -> Purchases \cup {Nobody}]
    BY DEF Init
  <2>3. caller \in [Callers -> [ref : References \cup {NoSource},
                               step : {"idle", "move", "returned", "refused"}]]
    BY DEF Init
  <2>4. /\ jobStep \in [Jobs -> {"idle", "check", "convert", "verify"}]
        /\ todo \in [Jobs -> SUBSET Products]
        /\ current \in [Jobs -> Products \cup {NoProduct}]
    BY DEF Init
  <2>5. seenStock \in [Jobs -> [Products -> 0 .. MaxQuantity]]
    BY LimitsAssumption DEF Init
  <2>6. QED
    BY <2>1, <2>2, <2>3, <2>4, <2>5 DEF TypeOK
<1>3. QED
  BY <1>1, <1>2 DEF IInv, Init

\* What every step does to the accounts: they stay sound and only grow.
AccountsGrow ==
    /\ account' \in [Products -> Accounts]
    /\ draft' \in [Products -> Accounts]
    /\ \A q \in Products :
          /\ Sound(q, account'[q])
          /\ Sound(q, draft'[q])
          /\ Extends(account'[q], account[q])
          /\ Extends(draft'[q], account'[q])
          /\ holder'[q] = Nobody => draft'[q] = account'[q]

\* The other variables keep their types.
OthersTyped ==
    /\ holder' \in [Products -> Purchases \cup {Nobody}]
    /\ entry' \in [Purchases -> {"NONE", "DRAFT", "CONFIRMED", "CANCELLED"}]
    /\ line' \in [Purchases -> Nat]
    /\ caller' \in [Callers -> [ref : References \cup {NoSource},
                                 step : {"idle", "move", "returned", "refused"}]]
    /\ jobStep' \in [Jobs -> {"idle", "check", "convert", "verify"}]
    /\ todo' \in [Jobs -> SUBSET Products]
    /\ seenStock' \in [Jobs -> [Products -> 0 .. MaxQuantity]]
    /\ current' \in [Jobs -> Products \cup {NoProduct}]

\* A caller stays as it is, or its reference is an order item's, recorded if
\* it is answered.
CallersAnswered ==
    \A c \in Callers :
        \/ caller'[c] = caller[c]
        \/ /\ caller'[c].ref \in References
           /\ caller'[c].step = "returned" => Recorded(caller[c].ref)'

\* A run of the command has a product at hand while it converts or verifies.
JobsAimed ==
    \A j \in Jobs : jobStep'[j] \in {"convert", "verify"} => current'[j] \in Products

\* What every step keeps.
Kept == AccountsGrow /\ OthersTyped /\ CallersAnswered /\ JobsAimed

\* While accounts only grow, what callers rely on stays true.
LEMMA KeptKeepsIInv == IInv /\ Kept => IInv'
<1> SUFFICES ASSUME IInv, AccountsGrow, OthersTyped, CallersAnswered, JobsAimed
             PROVE  IInv'
  BY DEF Kept
<1>1. TypeOK'
  BY DEF AccountsGrow, OthersTyped, TypeOK
<1>2. ASSUME NEW ref \in References, Recorded(ref)
      PROVE  Recorded(ref)'
  <2> DEFINE p == OrderProduct(ref)
  <2>1. p \in Products
    BY ReferenceParts
  <2>2. RecordedIn(ref, account[p])
    BY <1>2 DEF Recorded, RecordedIn
  <2>3. Extends(account'[p], account[p])
    BY <2>1 DEF AccountsGrow
  <2>4. RecordedIn(ref, account'[p])
    BY <2>2, <2>3, ExtendsOrder
  <2>5. QED
    BY <2>4 DEF Recorded, RecordedIn
<1>3. ASSUME NEW c \in Callers
      PROVE  /\ caller'[c].step = "returned" => Recorded(caller[c].ref)'
             /\ caller'[c].step # "idle" => caller'[c].ref \in References
  <2>1. CASE caller'[c] = caller[c]
    <3>1. caller[c].step = "returned" =>
             caller[c].ref \in References /\ Recorded(caller[c].ref)
      BY DEF IInv
    <3>2. caller[c].step = "returned" => Recorded(caller[c].ref)'
      BY <1>2, <2>1, <3>1
    <3>3. QED
      BY <2>1, <3>2 DEF IInv
  <2>2. CASE caller'[c] # caller[c]
    BY <2>2 DEF CallersAnswered
  <2>3. QED
    BY <2>1, <2>2
<1>4. QED
  BY <1>1, <1>3 DEF IInv, AccountsGrow, JobsAimed

\* A step that leaves the accounts alone.
LEMMA SameAccounts ==
    ASSUME IInv, UNCHANGED accountVars
    PROVE  AccountsGrow
BY ExtendsOrder DEF IInv, TypeOK, accountVars, AccountsGrow

\* A transaction on one product that makes its account a sound, longer one.
LEMMA UpdateAccounts ==
    ASSUME IInv, NEW p \in Products, NEW a, Update(p, a),
           Sound(p, a), Extends(a, account[p])
    PROVE  AccountsGrow /\ holder' = holder /\ account'[p] = a
<1>1. a \in Accounts
  BY DEF Sound
<1>2. account \in [Products -> Accounts] /\ draft \in [Products -> Accounts]
  BY DEF IInv, TypeOK
<1>3. /\ account' = [account EXCEPT ![p] = a] /\ draft' = [draft EXCEPT ![p] = a]
      /\ holder' = holder
  BY DEF Update
<1>4. account' \in [Products -> Accounts] /\ draft' \in [Products -> Accounts]
  BY <1>1, <1>2, <1>3
<1>5. ASSUME NEW q \in Products
      PROVE  /\ Sound(q, account'[q])
             /\ Sound(q, draft'[q])
             /\ Extends(account'[q], account[q])
             /\ Extends(draft'[q], account'[q])
             /\ holder'[q] = Nobody => draft'[q] = account'[q]
  <2>1. CASE q = p
    <3>1. account'[q] = a /\ draft'[q] = a
      BY <1>2, <1>3, <2>1
    <3>2. QED
      BY <2>1, <3>1, ExtendsOrder
  <2>2. CASE q # p
    <3>1. account'[q] = account[q] /\ draft'[q] = draft[q]
      BY <1>2, <1>3, <2>2
    <3>2. QED
      BY <1>3, <3>1, ExtendsOrder DEF IInv
  <2>3. QED
    BY <2>1, <2>2
<1>6. QED
  BY <1>2, <1>3, <1>4, <1>5 DEF AccountsGrow

-----------------------------------------------------------------------------
(* Each service *)

\* The portal's movements.
LEMMA ManualIsKept ==
    ASSUME IInv, NEW p \in Products, NEW q \in Quantities,
           \/ RecordOpeningStock(p, q)
           \/ \E type \in ManualTypes : RecordManual(p, type, q)
    PROVE  Kept
<1>1. PICK type \in InTypes \cup OutTypes :
         /\ CanMove(account[p], type, q)
         /\ Update(p, Moved(account[p], type, q, NoSource, FALSE))
         /\ UNCHANGED <<purchaseVars, caller, jobVars>>
  BY ProductsAssumption DEF RecordOpeningStock, RecordManual, InTypes
<1>2. /\ q \in 1 .. MaxQuantity /\ Sound(p, account[p])
      /\ NoSource \in Sources /\ NoSource \notin References
  BY ProductsAssumption DEF IInv, Sources, NoSource, References
<1>3. /\ Sound(p, Moved(account[p], type, q, NoSource, FALSE))
      /\ Extends(Moved(account[p], type, q, NoSource, FALSE), account[p])
  BY <1>1, <1>2, MovedIsSound
<1>4. AccountsGrow /\ holder' = holder
  BY <1>1, <1>3, UpdateAccounts
<1>5. OthersTyped /\ CallersAnswered
  BY <1>1, <1>4
  DEF OthersTyped, CallersAnswered, IInv, TypeOK, purchaseVars, jobVars
<1>6. QED
  BY <1>1, <1>4, <1>5 DEF Kept, JobsAimed, IInv, jobVars

\* The lookup answers a caller only with a recorded reference.
LEMMA LookUpIsKept ==
    ASSUME IInv, NEW c \in Callers, NEW ref \in References, LookUpReference(c, ref)
    PROVE  Kept
<1> DEFINE new == [ref |-> ref, step |-> IF Recorded(ref) THEN "returned" ELSE "move"]
<1>1. /\ caller' = [caller EXCEPT ![c] = new]
      /\ UNCHANGED <<accountVars, purchaseVars, jobVars>>
  BY DEF LookUpReference
<1>2. AccountsGrow
  BY <1>1, SameAccounts
<1>3. OthersTyped
  BY <1>1 DEF OthersTyped, IInv, TypeOK, accountVars, purchaseVars, jobVars
<1>4. CallersAnswered
  <2>1. ASSUME NEW d \in Callers, d # c PROVE caller'[d] = caller[d]
    BY <1>1, <2>1 DEF IInv, TypeOK
  <2>2. caller'[c] = new
    BY <1>1 DEF IInv, TypeOK
  <2>3. new.step = "returned" => Recorded(ref)
    OBVIOUS
  <2>4. Recorded(ref) => Recorded(ref)'
    BY <1>1 DEF Recorded, accountVars
  <2>5. new.ref = ref
    OBVIOUS
  <2> HIDE DEF new
  <2>6. QED
    BY <2>1, <2>2, <2>3, <2>4, <2>5 DEF CallersAnswered
<1>5. QED
  BY <1>1, <1>2, <1>3, <1>4 DEF Kept, JobsAimed, IInv, jobVars

\* The movement of a caller's order item, or its refusal.
LEMMA MoveOrderIsKept ==
    ASSUME IInv, NEW c \in Callers, MoveOrderStock(c)
    PROVE  Kept
<1> DEFINE ref == caller[c].ref
           p == OrderProduct(ref)
           q == Quantity[ref[2]]
           a == account[p]
           b == Moved(a, OrderType(ref), q, ref, TRUE)
<1>1. /\ ref \in References
      /\ UNCHANGED <<purchaseVars, jobVars>>
      /\ caller \in [Callers -> [ref : References \cup {NoSource},
                                 step : {"idle", "move", "returned", "refused"}]]
  BY DEF MoveOrderStock, IInv, TypeOK
<1>2. CASE /\ CanMove(a, OrderType(ref), q) /\ ReferenceFree(ref)
           /\ Update(p, b)
           /\ caller' = [caller EXCEPT ![c].step = "returned"]
  <2>1. /\ p \in Products /\ q \in 1 .. MaxQuantity
        /\ OrderType(ref) \in {"STOCK_OUT", "CUSTOMER_RETURN"}
        /\ ref \in Sources
    BY <1>1, ReferenceParts DEF Sources
  <2>2. Sound(p, a) /\ ~RecordedIn(ref, a)
    BY <1>2, <2>1 DEF IInv, ReferenceFree, Recorded, RecordedIn
  <2>3. Sound(p, b) /\ Extends(b, a) /\ RecordedIn(ref, b)
    <3>1. OrderType(ref) \in InTypes \cup OutTypes /\ OrderType(ref) # "OPENING"
      BY <2>1 DEF InTypes, OutTypes
    <3> HIDE DEF ref, p, q, a
    <3>2. QED
      BY <1>2, <2>1, <2>2, <3>1, MovedIsSound
  <2>4. AccountsGrow /\ holder' = holder /\ account'[p] = b
    BY <1>2, <2>1, <2>3, UpdateAccounts
  <2>5. OthersTyped
    BY <1>1, <1>2, <2>4 DEF OthersTyped, IInv, TypeOK, purchaseVars, jobVars
  <2>6. CallersAnswered
    <3>1. caller'[c].ref = ref
      BY <1>1, <1>2
    <3>2. Recorded(caller[c].ref)'
      BY <2>3, <2>4, <3>1 DEF Recorded, RecordedIn, OrderProduct
    <3>3. \A d \in Callers : d # c => caller'[d] = caller[d]
      BY <1>1, <1>2
    <3>4. QED
      BY <1>1, <3>1, <3>2, <3>3 DEF CallersAnswered
  <2>7. QED
    BY <1>1, <2>4, <2>5, <2>6 DEF Kept, JobsAimed, IInv, jobVars
<1>3. CASE /\ caller' = [caller EXCEPT ![c].step = "refused"]
           /\ UNCHANGED accountVars
  <2>1. AccountsGrow
    BY <1>3, SameAccounts
  <2>2. OthersTyped
    BY <1>1, <1>3 DEF OthersTyped, IInv, TypeOK, accountVars, purchaseVars, jobVars
  <2>3. CallersAnswered
    BY <1>1, <1>3 DEF CallersAnswered
  <2>4. QED
    BY <1>1, <2>1, <2>2, <2>3 DEF Kept, JobsAimed, IInv, jobVars
<1>4. QED
  BY <1>2, <1>3 DEF MoveOrderStock

\* A step that leaves the accounts and the callers alone.
LEMMA QuietIsKept ==
    ASSUME IInv, UNCHANGED <<accountVars, caller>>, OthersTyped, JobsAimed
    PROVE  Kept
BY SameAccounts DEF Kept, CallersAnswered

\* The steps of a purchase entry that do not touch stock.
LEMMA EntryIsKept ==
    ASSUME IInv, NEW e \in Purchases,
           CreatePurchaseEntry(e) \/ StartPurchase(e) \/ CancelPurchaseEntry(e)
    PROVE  Kept
<1>1. UNCHANGED <<accountVars, caller, jobVars>>
  BY DEF CreatePurchaseEntry, StartPurchase, CancelPurchaseEntry
<1>2. OthersTyped
  <2> DEFINE statuses == {"NONE", "DRAFT", "CONFIRMED", "CANCELLED"}
  <2>1. entry \in [Purchases -> statuses] /\ line \in [Purchases -> Nat]
    BY DEF IInv, TypeOK
  <2>2. entry' \in [Purchases -> statuses]
    BY <2>1 DEF CreatePurchaseEntry, StartPurchase, CancelPurchaseEntry
  <2>3. line' \in [Purchases -> Nat]
    BY <2>1 DEF CreatePurchaseEntry, StartPurchase, CancelPurchaseEntry
  <2>4. QED
    BY <1>1, <2>2, <2>3 DEF OthersTyped, IInv, TypeOK, accountVars, jobVars
<1>3. JobsAimed
  BY <1>1 DEF JobsAimed, IInv, jobVars
<1>4. QED
  BY <1>1, <1>2, <1>3, QuietIsKept

\* A line moves what its purchase sees of the product, on top of all that is
\* committed.
LEMMA PurchaseLineIsKept ==
    ASSUME IInv, NEW e \in Purchases, PurchaseLine(e)
    PROVE  Kept
<1> DEFINE l == LinesOf[e][line[e]]
           p == l.product
           b == Moved(draft[p], "PURCHASE", l.quantity, PurchaseSource(e), FALSE)
<1>1. p \in Products /\ l.quantity \in 1 .. MaxQuantity
  <2>1. LinesOf[e] \in Seq([product : Products, quantity : 1 .. MaxQuantity])
    BY PurchasesAssumption
  <2>2. line[e] \in DOMAIN LinesOf[e]
    BY DEF PurchaseLine
  <2>3. l \in [product : Products, quantity : 1 .. MaxQuantity]
    <3>1. \A S, s : s \in Seq(S) => \A k \in DOMAIN s : s[k] \in S
      OBVIOUS
    <3>2. QED
      BY <2>1, <2>2, <3>1, Zenon
  <2>4. QED
    BY <2>3
<1>2. /\ CanMove(draft[p], "PURCHASE", l.quantity)
      /\ draft' = [draft EXCEPT ![p] = b]
      /\ holder' = [holder EXCEPT ![p] = e]
      /\ line' = [line EXCEPT ![e] = line[e] + 1]
      /\ UNCHANGED <<account, entry, caller, jobVars>>
  BY DEF PurchaseLine
<1>3. /\ account \in [Products -> Accounts] /\ draft \in [Products -> Accounts]
      /\ holder \in [Products -> Purchases \cup {Nobody}]
      /\ line \in [Purchases -> Nat]
  BY DEF IInv, TypeOK
<1>4. PurchaseSource(e) \in Sources \ References
  BY DEF Sources, PurchaseSource, References
<1>5. Sound(p, b) /\ Extends(b, draft[p])
  <2>1. Sound(p, draft[p])
    BY <1>1 DEF IInv
  <2> HIDE DEF p, l
  <2>2. "PURCHASE" \in InTypes \cup OutTypes
    BY DEF InTypes
  <2>3. QED
    BY <1>1, <1>2, <1>4, <2>1, <2>2, MovedIsSound
<1>6. AccountsGrow
  <2>1. b \in Accounts
    BY <1>5 DEF Sound
  <2> HIDE DEF b
  <2>2. account' \in [Products -> Accounts] /\ draft' \in [Products -> Accounts]
    BY <1>2, <1>3, <2>1
  <2>3. ASSUME NEW q \in Products
        PROVE  /\ Sound(q, account'[q])
               /\ Sound(q, draft'[q])
               /\ Extends(account'[q], account[q])
               /\ Extends(draft'[q], account'[q])
               /\ holder'[q] = Nobody => draft'[q] = account'[q]
    <3>1. account'[q] = account[q] /\ Extends(account[q], account[q]) /\ Sound(q, account[q])
      BY <1>2, ExtendsOrder DEF IInv
    <3>2. CASE q = p
      <4>1. draft'[q] = b /\ holder'[q] = e /\ e # Nobody
        BY <1>2, <1>3, <3>2, DistinctAssumption
      <4>2. Extends(b, account[q])
        <5>1. Extends(draft[p], account[p])
          BY <1>1 DEF IInv
        <5>2. QED
          BY <1>5, <3>2, <5>1, ExtendsOrder
      <4>3. QED
        BY <1>5, <3>1, <3>2, <4>1, <4>2
    <3>3. CASE q # p
      <4>1. draft'[q] = draft[q] /\ holder'[q] = holder[q]
        BY <1>2, <1>3, <3>3
      <4>2. QED
        BY <3>1, <4>1 DEF IInv
    <3>4. QED
      BY <3>2, <3>3
  <2>4. QED
    BY <2>2, <2>3 DEF AccountsGrow
<1>7. OthersTyped
  <2>1. line' \in [Purchases -> Nat]
    BY <1>2, <1>3
  <2>2. holder' \in [Products -> Purchases \cup {Nobody}]
    <3> HIDE DEF p
    <3>1. QED
      BY <1>2, <1>3
  <2>3. QED
    BY <1>2, <2>1, <2>2 DEF OthersTyped, IInv, TypeOK, jobVars
<1>8. CallersAnswered /\ JobsAimed
  BY <1>2 DEF CallersAnswered, JobsAimed, IInv, jobVars
<1>9. QED
  BY <1>6, <1>7, <1>8 DEF Kept

\* A purchase that ends leaves its products as committed before, or commits
\* what it saw of them.
LEMMA PurchaseEndIsKept ==
    ASSUME IInv, NEW e \in Purchases, CommitPurchase(e) \/ Rollback(e)
    PROVE  Kept
<1>1. /\ holder' = [p \in Products |-> IF p \in Held(e) THEN Nobody ELSE holder[p]]
      /\ line' = [line EXCEPT ![e] = 0]
      /\ UNCHANGED <<caller, jobVars>>
  BY DEF CommitPurchase, Rollback
<1>2. /\ account \in [Products -> Accounts] /\ draft \in [Products -> Accounts]
      /\ holder \in [Products -> Purchases \cup {Nobody}]
      /\ line \in [Purchases -> Nat]
      /\ entry \in [Purchases -> {"NONE", "DRAFT", "CONFIRMED", "CANCELLED"}]
  BY DEF IInv, TypeOK
<1>3. ASSUME NEW q \in Products
      PROVE  \/ account'[q] = account[q] /\ draft'[q] = draft[q] /\ holder'[q] = holder[q]
             \/ account'[q] = account[q] /\ draft'[q] = account[q]
             \/ account'[q] = draft[q] /\ draft'[q] = draft[q]
  BY <1>1 DEF CommitPurchase, Rollback
<1>4. account' \in [Products -> Accounts] /\ draft' \in [Products -> Accounts]
  <2>1. CASE CommitPurchase(e)
    BY <1>2, <2>1 DEF CommitPurchase
  <2>2. CASE Rollback(e)
    BY <1>2, <2>2 DEF Rollback
  <2>3. QED
    BY <2>1, <2>2
<1>5. AccountsGrow
  <2>1. ASSUME NEW q \in Products
        PROVE  /\ Sound(q, account'[q])
               /\ Sound(q, draft'[q])
               /\ Extends(account'[q], account[q])
               /\ Extends(draft'[q], account'[q])
               /\ holder'[q] = Nobody => draft'[q] = account'[q]
    <3>1. /\ Sound(q, account[q]) /\ Sound(q, draft[q])
          /\ Extends(draft[q], account[q])
          /\ holder[q] = Nobody => draft[q] = account[q]
      BY DEF IInv
    <3>2. Extends(account[q], account[q]) /\ Extends(draft[q], draft[q])
      BY ExtendsOrder
    <3>3. QED
      BY <1>3, <3>1, <3>2
  <2>2. QED
    BY <1>4, <2>1 DEF AccountsGrow
<1>6. OthersTyped
  <2>1. holder' \in [Products -> Purchases \cup {Nobody}] /\ line' \in [Purchases -> Nat]
    BY <1>1, <1>2
  <2>2. entry' \in [Purchases -> {"NONE", "DRAFT", "CONFIRMED", "CANCELLED"}]
    BY <1>2 DEF CommitPurchase, Rollback
  <2>3. QED
    BY <1>1, <2>1, <2>2 DEF OthersTyped, IInv, TypeOK, jobVars
<1>7. CallersAnswered /\ JobsAimed
  BY <1>1 DEF CallersAnswered, JobsAimed, IInv, jobVars
<1>8. QED
  BY <1>5, <1>6, <1>7 DEF Kept

\* The steps of the command initialize_opening_stock that convert nothing.
LEMMA JobIsKept ==
    ASSUME IInv, NEW j \in Jobs,
           \/ ListCandidates(j) \/ VerifyBalance(j) \/ FinishJob(j)
           \/ \E p \in Products : CheckCandidate(j, p)
           \/ /\ EndJob(j)
              /\ UNCHANGED <<accountVars, purchaseVars, caller>>
    PROVE  Kept
<1>1. UNCHANGED <<accountVars, purchaseVars, caller>>
  BY DEF ListCandidates, VerifyBalance, FinishJob, CheckCandidate
<1>2. /\ jobStep \in [Jobs -> {"idle", "check", "convert", "verify"}]
      /\ todo \in [Jobs -> SUBSET Products]
      /\ seenStock \in [Jobs -> [Products -> 0 .. MaxQuantity]]
      /\ current \in [Jobs -> Products \cup {NoProduct}]
      /\ account \in [Products -> Accounts]
  BY DEF IInv, TypeOK
<1>3. jobStep' \in [Jobs -> {"idle", "check", "convert", "verify"}]
  BY <1>2 DEF ListCandidates, VerifyBalance, FinishJob, CheckCandidate, EndJob, jobVars
<1>4. todo' \in [Jobs -> SUBSET Products]
  <2>1. \E T \in SUBSET Products : todo' = [todo EXCEPT ![j] = T] \/ todo' = todo
    <3>1. /\ {p \in Products : account[p].stock > 0 /\ account[p].rows = <<>>} \in SUBSET Products
          /\ {} \in SUBSET Products
          /\ \A p : todo[j] \ {p} \in SUBSET Products
      BY <1>2
    <3>2. QED
      BY <3>1, Zenon
      DEF ListCandidates, VerifyBalance, FinishJob, CheckCandidate, EndJob
  <2>2. QED
    BY <1>2, <2>1
<1>5. seenStock' \in [Jobs -> [Products -> 0 .. MaxQuantity]]
  <2>1. \E f \in [Products -> 0 .. MaxQuantity] :
           seenStock' = [seenStock EXCEPT ![j] = f] \/ seenStock' = seenStock
    <3>1. \A p \in Products : account[p].stock \in 0 .. MaxQuantity
      BY <1>2 DEF Accounts
    <3>2. /\ [p \in Products |-> account[p].stock] \in [Products -> 0 .. MaxQuantity]
          /\ [p \in Products |-> 0] \in [Products -> 0 .. MaxQuantity]
      BY <3>1, LimitsAssumption
    <3>3. QED
      BY <3>2, Zenon
      DEF ListCandidates, VerifyBalance, FinishJob, CheckCandidate, EndJob
  <2>2. QED
    BY <1>2, <2>1
<1>6. current' \in [Jobs -> Products \cup {NoProduct}]
  BY <1>2 DEF ListCandidates, VerifyBalance, FinishJob, CheckCandidate, EndJob
<1>7. OthersTyped
  BY <1>1, <1>3, <1>4, <1>5, <1>6
  DEF OthersTyped, IInv, TypeOK, accountVars, purchaseVars
<1>8. JobsAimed
  <2>1. ASSUME NEW i \in Jobs, i # j
        PROVE  jobStep'[i] = jobStep[i] /\ current'[i] = current[i]
    BY <1>2, <2>1
    DEF ListCandidates, VerifyBalance, FinishJob, CheckCandidate, EndJob
  <2>2. jobStep'[j] \in {"convert", "verify"} => current'[j] \in Products
    BY <1>2 DEF ListCandidates, VerifyBalance, FinishJob, CheckCandidate, EndJob, IInv
  <2>3. QED
    BY <2>1, <2>2 DEF JobsAimed, IInv
<1>9. QED
  BY <1>1, <1>7, <1>8, QuietIsKept

\* The conversion of a candidate, or the error that ends the command.
LEMMA ConvertIsKept ==
    ASSUME IInv, NEW j \in Jobs, ConvertOpeningStock(j)
    PROVE  Kept
<1> DEFINE p == current[j]
<1>1. p \in Products /\ UNCHANGED <<purchaseVars, caller>>
  BY DEF ConvertOpeningStock, IInv
<1>2. CASE /\ CanConvert(account[p])
           /\ Update(p, Converted(account[p]))
           /\ jobStep' = [jobStep EXCEPT ![j] = "verify"]
           /\ UNCHANGED <<todo, seenStock, current>>
  <2>1. Sound(p, account[p])
    BY <1>1 DEF IInv
  <2>2. Sound(p, Converted(account[p])) /\ Extends(Converted(account[p]), account[p])
    BY <1>1, <1>2, <2>1, ConvertedIsSound
  <2>3. AccountsGrow /\ holder' = holder
    BY <1>1, <1>2, <2>2, UpdateAccounts
  <2>4. OthersTyped
    BY <1>1, <1>2, <2>3 DEF OthersTyped, IInv, TypeOK, purchaseVars
  <2>5. CallersAnswered
    BY <1>1 DEF CallersAnswered
  <2>6. JobsAimed
    BY <1>1, <1>2 DEF JobsAimed, IInv, TypeOK
  <2>7. QED
    BY <2>3, <2>4, <2>5, <2>6 DEF Kept
<1>3. CASE EndJob(j) /\ UNCHANGED accountVars
  BY <1>1, <1>3, JobIsKept
<1>4. QED
  BY <1>2, <1>3 DEF ConvertOpeningStock

-----------------------------------------------------------------------------
(* Theorems *)

\* Every step, and every stutter, keeps what the invariant needs.
LEMMA NextIsKept == IInv /\ [Next]_vars => Kept
<1> SUFFICES ASSUME IInv, [Next]_vars PROVE Kept
  OBVIOUS
<1>1. CASE \E p \in Products, q \in Quantities :
              \/ \E type \in ManualTypes : RecordManual(p, type, q)
              \/ RecordOpeningStock(p, q)
  BY <1>1, ManualIsKept
<1>2. CASE \E c \in Callers :
              \/ \E ref \in References : LookUpReference(c, ref)
              \/ MoveOrderStock(c)
  BY <1>2, LookUpIsKept, MoveOrderIsKept
<1>3. CASE \E e \in Purchases :
              \/ CreatePurchaseEntry(e) \/ StartPurchase(e)
              \/ AdvancePurchase(e) \/ LoseWorker(e) \/ CancelPurchaseEntry(e)
  <2>1. ASSUME NEW e \in Purchases,
               CreatePurchaseEntry(e) \/ StartPurchase(e) \/ CancelPurchaseEntry(e)
        PROVE  Kept
    BY <2>1, EntryIsKept
  <2>2. ASSUME NEW e \in Purchases, AdvancePurchase(e) \/ LoseWorker(e)
        PROVE  Kept
    <3>1. PurchaseLine(e) \/ CommitPurchase(e) \/ Rollback(e)
      BY <2>2 DEF AdvancePurchase, RefusePurchaseLine, AbortDeadlocked, LoseWorker
    <3>2. QED
      BY <3>1, PurchaseLineIsKept, PurchaseEndIsKept
  <2>3. QED
    BY <1>3, <2>1, <2>2
<1>4. CASE \E j \in Jobs :
              \/ ListCandidates(j)
              \/ \E p \in Products : CheckCandidate(j, p)
              \/ ConvertOpeningStock(j) \/ VerifyBalance(j) \/ FinishJob(j)
  BY <1>4, JobIsKept, ConvertIsKept
<1>5. CASE UNCHANGED vars
  <2>1. OthersTyped /\ JobsAimed
    BY <1>5 DEF vars, OthersTyped, JobsAimed, IInv, TypeOK, accountVars, purchaseVars, jobVars
  <2>2. QED
    BY <1>5, <2>1, QuietIsKept DEF vars
<1>6. QED
  BY <1>1, <1>2, <1>3, <1>4, <1>5 DEF Next, MovementForm, PurchaseStep, CommandStep

\* The inductive invariant holds in every reachable state.
THEOREM Invariance == Spec => []IInv
<1>1. IInv /\ [Next]_vars => IInv'
  BY NextIsKept, KeptKeepsIInv
<1>2. QED
  BY InitIInv, <1>1, PTL DEF Spec

\* Type correctness: no balance and no ledger row leaves the range of its
\* column, whatever movements interleave.
THEOREM TypeCorrect == Spec => []TypeOK
<1>1. IInv => TypeOK
  BY DEF IInv
<1>2. QED
  BY Invariance, <1>1, PTL

\* apply_stock_movement: the ledger always explains the balance on the
\* product.
THEOREM LedgerIsBalanced == Spec => []LedgerExplainsBalance
<1>1. IInv => LedgerExplainsBalance
  BY DEF IInv, Sound, LedgerExplainsBalance
<1>2. QED
  BY Invariance, <1>1, PTL

\* The unique constraint and the check on opening rows: opening stock enters
\* the ledger once per product, recorded or converted.
THEOREM OpeningIsOnce == Spec => []OpeningOnce
<1>1. IInv => OpeningOnce
  BY DEF IInv, Sound, OpeningOnce
<1>2. QED
  BY Invariance, <1>1, PTL

\* deduct_order_stock and restore_order_stock act once per order item, for
\* any number of callers that repeat and race.
THEOREM ReferenceIsOnce == Spec => []ReferenceOnce
<1>1. IInv => ReferenceOnce
  BY DEF IInv, Sound, ReferenceOnce
<1>2. QED
  BY Invariance, <1>1, PTL

\* InventoryTransaction refuses update and delete, and no service rewrites a
\* row by other means.
THEOREM LedgerIsKept == Spec => LedgerAppendOnly
<1>1. IInv /\ [Next]_vars =>
        [\A p \in Products :
           \A k \in DOMAIN account[p].rows :
             /\ k \in DOMAIN account'[p].rows
             /\ account'[p].rows[k] = account[p].rows[k]]_vars
  BY NextIsKept DEF Kept, AccountsGrow, Extends
<1>2. QED
  BY Invariance, <1>1, PTL DEF Spec, LedgerAppendOnly
-----------------------------------------------------------------------------
(* Purchases in the ledger *)

\* How many lines of e the transaction that sees product p has put on it.
Done(e, p) == IF holder[p] = e THEN line[e] - 1 ELSE Settled(e)

\* What a purchase under way has done: it is not confirmed yet, it has locked
\* exactly the products of the lines behind it, and what it sees of them has
\* a row per line, while what others see of them has none.
Progress ==
    /\ \A e \in Purchases :
          /\ line[e] <= Len(LinesOf[e]) + 1
          /\ line[e] # 0 => entry[e] # "CONFIRMED"
    /\ \A e \in Purchases, p \in Products :
          /\ holder[p] = e => line[e] # 0
          /\ line[e] # 0 /\ holder[p] # e => LinesFor(e, p, line[e] - 1) = {}
          /\ Booked(account[p], e, p, Settled(e))
          /\ Booked(draft[p], e, p, Done(e, p))

\* The lines of a purchase.
LEMMA PurchaseLines ==
    ASSUME NEW e \in Purchases
    PROVE  /\ Len(LinesOf[e]) \in Nat
           /\ DOMAIN LinesOf[e] = 1 .. Len(LinesOf[e])
           /\ \A k \in DOMAIN LinesOf[e] : /\ LinesOf[e][k].product \in Products
                                           /\ LinesOf[e][k].quantity \in 1 .. MaxQuantity
<1>1. LinesOf[e] \in Seq([product : Products, quantity : 1 .. MaxQuantity])
  BY PurchasesAssumption
<1>2. \A k \in DOMAIN LinesOf[e] : LinesOf[e][k] \in [product : Products, quantity : 1 .. MaxQuantity]
  <2>1. \A S, s : s \in Seq(S) => \A k \in DOMAIN s : s[k] \in S
    OBVIOUS
  <2>2. QED
    BY <1>1, <2>1, Zenon
<1>3. QED
  BY <1>1, <1>2

\* What is booked depends on the lines alone.
LEMMA BookedSameLines ==
    ASSUME NEW a, NEW e, NEW p, NEW m, NEW n,
           LinesFor(e, p, m) = LinesFor(e, p, n), Booked(a, e, p, m)
    PROVE  Booked(a, e, p, n)
BY DEF Booked

\* An account without rows has no line booked.
LEMMA NothingBooked ==
    ASSUME NEW a, a.rows = <<>>, NEW e, NEW p
    PROVE  Booked(a, e, p, 0)
<1>1. LinesFor(e, p, 0) = {} /\ DOMAIN a.rows = {}
  BY DEF LinesFor
<1> DEFINE at == [k \in {} |-> 0]
<1>2. at \in [{} -> {}]
  OBVIOUS
<1>3. QED
  BY <1>1, <1>2 DEF Booked

\* A row of another source books nothing and hides nothing.
LEMMA BookedOtherRow ==
    ASSUME NEW a, a.rows \in Seq(Rows), NEW row \in Rows, NEW b, b.rows = Append(a.rows, row),
           NEW e, NEW p, NEW n, row.source # PurchaseSource(e), Booked(a, e, p, n)
    PROVE  Booked(b, e, p, n)
<1> DEFINE m == Len(a.rows)
<1>1. PICK at \in [LinesFor(e, p, n) -> DOMAIN a.rows] :
         /\ \A k, l \in LinesFor(e, p, n) : k < l => at[k] < at[l]
         /\ \A k \in LinesFor(e, p, n) : a.rows[at[k]].quantity = LinesOf[e][k].quantity
         /\ \A r \in DOMAIN a.rows :
               a.rows[r].source = PurchaseSource(e) <=> \E k \in LinesFor(e, p, n) : at[k] = r
  BY DEF Booked
<1>2. /\ m \in Nat /\ DOMAIN a.rows = 1 .. m /\ DOMAIN b.rows = 1 .. (m + 1)
      /\ b.rows[m + 1] = row /\ \A r \in 1 .. m : b.rows[r] = a.rows[r]
  OBVIOUS
<1>3. at \in [LinesFor(e, p, n) -> DOMAIN b.rows]
  BY <1>2
<1>4. \A k \in LinesFor(e, p, n) : at[k] \in 1 .. m
  BY <1>2
<1>5. \A r \in DOMAIN b.rows : r \in DOMAIN a.rows \/ r = m + 1
  BY <1>2
<1>6. \A r \in DOMAIN b.rows :
         b.rows[r].source = PurchaseSource(e) <=> \E k \in LinesFor(e, p, n) : at[k] = r
  BY <1>1, <1>2, <1>4, <1>5
<1>7. \A k \in LinesFor(e, p, n) : b.rows[at[k]].quantity = LinesOf[e][k].quantity
  BY <1>1, <1>2, <1>4
<1>8. QED
  BY <1>1, <1>3, <1>6, <1>7 DEF Booked

\* The row of the next line books it.
LEMMA BookedNextLine ==
    ASSUME NEW a, a.rows \in Seq(Rows), NEW row \in Rows, NEW b, b.rows = Append(a.rows, row),
           NEW e \in Purchases, NEW n \in DOMAIN LinesOf[e],
           row.source = PurchaseSource(e), row.quantity = LinesOf[e][n].quantity,
           Booked(a, e, LinesOf[e][n].product, n - 1)
    PROVE  Booked(b, e, LinesOf[e][n].product, n)
<1> DEFINE m == Len(a.rows)
           p == LinesOf[e][n].product
           before == LinesFor(e, p, n - 1)
           upto == LinesFor(e, p, n)
<1>1. n \in Nat \ {0}
  BY PurchaseLines
<1>2. upto = before \cup {n} /\ n \notin before /\ \A k \in before : k \in Nat /\ k < n
  BY <1>1 DEF LinesFor
<1>3. PICK at \in [before -> DOMAIN a.rows] :
         /\ \A k, l \in before : k < l => at[k] < at[l]
         /\ \A k \in before : a.rows[at[k]].quantity = LinesOf[e][k].quantity
         /\ \A r \in DOMAIN a.rows :
               a.rows[r].source = PurchaseSource(e) <=> \E k \in before : at[k] = r
  BY DEF Booked
<1>4. /\ m \in Nat /\ DOMAIN a.rows = 1 .. m /\ DOMAIN b.rows = 1 .. (m + 1)
      /\ b.rows[m + 1] = row /\ \A r \in 1 .. m : b.rows[r] = a.rows[r]
  OBVIOUS
<1> DEFINE new == [k \in upto |-> IF k = n THEN m + 1 ELSE at[k]]
<1> HIDE DEF before, upto
<1>5. \A k \in before : at[k] \in 1 .. m
  BY <1>3, <1>4
<1>6. new[n] = m + 1 /\ \A k \in before : new[k] = at[k]
  BY <1>2
<1>7. new \in [upto -> DOMAIN b.rows]
  BY <1>2, <1>4, <1>5
<1> HIDE DEF new, m
<1>8. \A k, l \in upto : k < l => new[k] < new[l]
  <2>1. ASSUME NEW k \in upto, NEW l \in upto, k < l PROVE new[k] < new[l]
    <3>1. k \in before
      BY <1>1, <1>2, <2>1
    <3>2. CASE l = n
      BY <1>4, <1>5, <1>6, <3>1, <3>2
    <3>3. CASE l \in before
      BY <1>3, <1>6, <2>1, <3>1, <3>3
    <3>4. QED
      BY <1>2, <3>2, <3>3
  <2>2. QED
    BY <2>1
<1>9. \A k \in upto : b.rows[new[k]].quantity = LinesOf[e][k].quantity
  BY <1>2, <1>3, <1>4, <1>5, <1>6
<1>10. \A r \in DOMAIN b.rows :
          b.rows[r].source = PurchaseSource(e) <=> \E k \in upto : new[k] = r
  <2>1. ASSUME NEW r \in 1 .. m
        PROVE  b.rows[r].source = PurchaseSource(e) <=> \E k \in upto : new[k] = r
    <3>1. r # m + 1 /\ r \in DOMAIN a.rows /\ b.rows[r] = a.rows[r]
      BY <1>4
    <3>2. (\E k \in upto : new[k] = r) <=> (\E k \in before : at[k] = r)
      BY <1>2, <1>6, <3>1
    <3>3. QED
      BY <1>3, <3>1, <3>2
  <2>2. ASSUME NEW r \in DOMAIN b.rows, r \notin 1 .. m
        PROVE  b.rows[r].source = PurchaseSource(e) /\ \E k \in upto : new[k] = r
    <3>1. r = m + 1
      BY <1>4, <2>2
    <3>2. QED
      BY <1>2, <1>4, <1>6, <3>1
  <2>3. QED
    BY <2>1, <2>2
<1>11. QED
  BY <1>7, <1>8, <1>9, <1>10 DEF Booked, upto

\* The sources of the different movements differ.
LEMMA SourcesDiffer ==
    ASSUME NEW e
    PROVE  /\ NoSource # PurchaseSource(e)
           /\ \A ref \in References : ref # PurchaseSource(e)
           /\ \A f : PurchaseSource(e) = PurchaseSource(f) => e = f
BY DEF NoSource, References, PurchaseSource

\* A transaction that appends to one free product a row of no purchase.
LEMMA OtherUpdateKeepsProgress ==
    ASSUME IInv, Progress, NEW p \in Products, NEW row \in Rows, NEW b,
           b.rows = Append(account[p].rows, row), Update(p, b),
           \A e \in Purchases : row.source # PurchaseSource(e),
           UNCHANGED purchaseVars
    PROVE  Progress'
<1>1. /\ account' = [account EXCEPT ![p] = b] /\ draft' = [draft EXCEPT ![p] = b]
      /\ holder' = holder /\ holder[p] = Nobody /\ entry' = entry /\ line' = line
      /\ account \in [Products -> Accounts] /\ draft \in [Products -> Accounts]
      /\ account[p] = draft[p]
  BY DEF Update, purchaseVars, IInv, TypeOK
<1>2. account[p].rows \in Seq(Rows)
  BY <1>1, AccountParts
<1>3. ASSUME NEW e \in Purchases
      PROVE  Booked(b, e, p, Settled(e)) /\ Booked(b, e, p, Done(e, p))
  BY <1>1, <1>2, BookedOtherRow DEF Progress
<1>4. \A e \in Purchases, q \in Products : Settled(e)' = Settled(e) /\ Done(e, q)' = Done(e, q)
  BY <1>1 DEF Settled, Done
<1>5. ASSUME NEW e \in Purchases, NEW q \in Products
      PROVE  Booked(account'[q], e, q, Settled(e)) /\ Booked(draft'[q], e, q, Done(e, q))
  BY <1>1, <1>3 DEF Progress
<1>6. QED
  BY <1>1, <1>4, <1>5 DEF Progress

\* Steps outside the purchases and the accounts.
LEMMA QuietKeepsProgress ==
    ASSUME Progress, UNCHANGED <<accountVars, purchaseVars>>
    PROVE  Progress'
<1>1. account' = account /\ draft' = draft /\ holder' = holder /\ entry' = entry /\ line' = line
  BY DEF accountVars, purchaseVars
<1>2. QED
  BY <1>1 DEF Progress, Settled, Done

\* A purchase that is created, begins, or is cancelled has booked nothing.
LEMMA EntryKeepsProgress ==
    ASSUME IInv, Progress, NEW e \in Purchases,
           CreatePurchaseEntry(e) \/ StartPurchase(e) \/ CancelPurchaseEntry(e)
    PROVE  Progress'
<1>1. /\ account' = account /\ draft' = draft /\ holder' = holder
      /\ line[e] = 0 /\ entry[e] # "CONFIRMED"
      /\ entry \in [Purchases -> {"NONE", "DRAFT", "CONFIRMED", "CANCELLED"}]
      /\ line \in [Purchases -> Nat]
  BY DEF CreatePurchaseEntry, StartPurchase, CancelPurchaseEntry, MayConfirm, accountVars,
         IInv, TypeOK
<1>2. entry'[e] # "CONFIRMED" /\ line'[e] \in {0, 1}
  BY <1>1 DEF CreatePurchaseEntry, StartPurchase, CancelPurchaseEntry
<1>3. \A f \in Purchases : f # e => entry'[f] = entry[f] /\ line'[f] = line[f]
  BY <1>1 DEF CreatePurchaseEntry, StartPurchase, CancelPurchaseEntry
<1>4. \A p \in Products : holder[p] # e
  BY <1>1 DEF Progress
<1>5. ASSUME NEW f \in Purchases, NEW p \in Products
      PROVE  Settled(f)' = Settled(f) /\ Done(f, p)' = Done(f, p)
  BY <1>1, <1>2, <1>3, <1>4 DEF Settled, Done
<1>6. \A p \in Products : LinesFor(e, p, 0) = {}
  BY DEF LinesFor
<1>7. ASSUME NEW f \in Purchases
      PROVE  /\ line'[f] <= Len(LinesOf[f]) + 1
             /\ line'[f] # 0 => entry'[f] # "CONFIRMED"
             /\ \A p \in Products :
                  /\ holder[p] = f => line'[f] # 0
                  /\ line'[f] # 0 /\ holder[p] # f => LinesFor(f, p, line'[f] - 1) = {}
  <2>1. CASE f = e
    BY <1>2, <1>4, <1>6, <2>1, PurchaseLines
  <2>2. CASE f # e
    BY <1>3, <2>2 DEF Progress
  <2>3. QED
    BY <2>1, <2>2
<1>8. ASSUME NEW f \in Purchases, NEW p \in Products
      PROVE  Booked(account[p], f, p, Settled(f)') /\ Booked(draft[p], f, p, Done(f, p)')
  BY <1>5 DEF Progress
<1>9. QED
  BY <1>1, <1>7, <1>8 DEF Progress

\* A line is booked on the product it locks, for the purchase alone.
LEMMA LineKeepsProgress ==
    ASSUME IInv, Progress, NEW e \in Purchases, PurchaseLine(e)
    PROVE  Progress'
<1> DEFINE n == line[e]
           p == LinesOf[e][n].product
           row == Row("PURCHASE", LinesOf[e][n].quantity, draft[p].stock,
                      draft[p].stock + Signed("PURCHASE", LinesOf[e][n].quantity),
                      PurchaseSource(e), FALSE)
           b == Moved(draft[p], "PURCHASE", LinesOf[e][n].quantity, PurchaseSource(e), FALSE)
<1>1. /\ n \in DOMAIN LinesOf[e] /\ n \in Nat \ {0} /\ n <= Len(LinesOf[e]) /\ Len(LinesOf[e]) \in Nat
      /\ p \in Products /\ LinesOf[e][n].quantity \in 1 .. MaxQuantity
      /\ holder[p] \in {Nobody, e}
      /\ CanMove(draft[p], "PURCHASE", LinesOf[e][n].quantity)
      /\ draft' = [draft EXCEPT ![p] = b] /\ holder' = [holder EXCEPT ![p] = e]
      /\ line' = [line EXCEPT ![e] = n + 1] /\ account' = account /\ entry' = entry
  BY PurchaseLines DEF PurchaseLine
<1>2. /\ draft \in [Products -> Accounts] /\ line \in [Purchases -> Nat]
      /\ holder \in [Products -> Purchases \cup {Nobody}]
  BY DEF IInv, TypeOK
<1>3. b.rows = Append(draft[p].rows, row) /\ row \in Rows /\ draft[p].rows \in Seq(Rows)
      /\ row.source = PurchaseSource(e) /\ row.quantity = LinesOf[e][n].quantity
  <2>1. draft[p].stock \in 0 .. MaxQuantity /\ draft[p].rows \in Seq(Rows)
    BY <1>1, <1>2, AccountParts
  <2>2. PurchaseSource(e) \in Sources
    BY DEF Sources
  <2>3. draft[p].stock + Signed("PURCHASE", LinesOf[e][n].quantity) \in 0 .. MaxQuantity
    BY <1>1 DEF CanMove
  <2>4. row \in Rows
    BY <1>1, <2>1, <2>2, <2>3 DEF Row, Rows, InTypes
  <2>5. QED
    BY <2>1, <2>4 DEF Moved, Row
<1> HIDE DEF n, p, row, b
<1>4. /\ draft'[p] = b /\ holder'[p] = e /\ line'[e] = n + 1
      /\ \A q \in Products : q # p => draft'[q] = draft[q] /\ holder'[q] = holder[q]
      /\ \A f \in Purchases : f # e => line'[f] = line[f]
  BY <1>1, <1>2
<1>5. entry[e] # "CONFIRMED" /\ \A f \in Purchases : Settled(f)' = Settled(f)
  BY <1>1 DEF Progress, Settled, n
<1>6. \A q \in Products : q # p => LinesFor(e, q, n) = LinesFor(e, q, n - 1)
  BY <1>1 DEF LinesFor, p
<1>7. Booked(draft[p], e, p, n - 1)
  <2>1. CASE holder[p] = e
    BY <1>1, <2>1 DEF Progress, Done, n
  <2>2. CASE holder[p] # e
    <3>1. LinesFor(e, p, n - 1) = {} /\ LinesFor(e, p, 0) = {}
      BY <1>1, <2>2 DEF Progress, LinesFor, n
    <3>2. Booked(draft[p], e, p, 0)
      BY <1>1, <1>5, <2>2 DEF Progress, Done, Settled
    <3>3. QED
      BY <3>1, <3>2, BookedSameLines
  <2>3. QED
    BY <2>1, <2>2
<1>8. Booked(b, e, p, n)
  BY <1>1, <1>3, <1>7, BookedNextLine DEF p
<1>9. ASSUME NEW f \in Purchases, NEW q \in Products
      PROVE  Booked(draft'[q], f, q, Done(f, q)')
  <2>1. CASE f = e /\ q = p
    <3>1. Done(f, q)' = n
      BY <1>1, <1>4, <2>1 DEF Done
    <3>2. QED
      BY <1>4, <1>8, <2>1, <3>1
  <2>2. CASE f = e /\ q # p
    <3>1. CASE holder[q] = e
      <4>1. Done(f, q)' = n /\ Done(f, q) = n - 1
        BY <1>1, <1>4, <2>2, <3>1 DEF Done, n
      <4>2. Booked(draft[q], e, q, n - 1)
        BY <2>2, <4>1 DEF Progress
      <4>3. Booked(draft[q], e, q, n)
        BY <1>6, <2>2, <4>2, BookedSameLines
      <4>4. QED
        BY <1>4, <2>2, <4>1, <4>3
    <3>2. CASE holder[q] # e
      BY <1>4, <1>5, <2>2, <3>2 DEF Progress, Done
    <3>3. QED
      BY <3>1, <3>2
  <2>3. CASE f # e /\ q = p
    <3>1. holder[p] # f /\ holder'[p] # f
      BY <1>1, <1>4, <2>3, DistinctAssumption
    <3>2. Booked(draft[p], f, p, Settled(f))
      BY <1>1, <3>1 DEF Progress, Done
    <3>3. row.source # PurchaseSource(f)
      BY <1>3, <2>3, SourcesDiffer
    <3>4. Booked(b, f, p, Settled(f))
      BY <1>3, <3>2, <3>3, BookedOtherRow
    <3>5. QED
      BY <1>4, <1>5, <2>3, <3>1, <3>4 DEF Done
  <2>4. CASE f # e /\ q # p
    BY <1>4, <1>5, <2>4 DEF Progress, Done
  <2>5. QED
    BY <2>1, <2>2, <2>3, <2>4
<1>10. ASSUME NEW f \in Purchases
       PROVE  /\ line'[f] <= Len(LinesOf[f]) + 1
              /\ line'[f] # 0 => entry'[f] # "CONFIRMED"
              /\ \A q \in Products :
                   /\ holder'[q] = f => line'[f] # 0
                   /\ line'[f] # 0 /\ holder'[q] # f => LinesFor(f, q, line'[f] - 1) = {}
  <2>1. CASE f = e
    <3>1. ASSUME NEW q \in Products, holder'[q] # e PROVE LinesFor(e, q, (n + 1) - 1) = {}
      <4>1. q # p /\ holder[q] # e
        BY <1>4, <3>1
      <4>2. LinesFor(e, q, n - 1) = {}
        BY <1>1, <4>1 DEF Progress, n
      <4>3. (n + 1) - 1 = n
        BY <1>1
      <4>4. QED
        BY <1>6, <4>1, <4>2, <4>3
    <3>2. QED
      BY <1>1, <1>4, <1>5, <2>1, <3>1
  <2>2. CASE f # e
    <3>1. \A q \in Products : holder'[q] = f <=> holder[q] = f
      BY <1>1, <1>4, <2>2, DistinctAssumption
    <3>2. QED
      BY <1>1, <1>4, <2>2, <3>1 DEF Progress
  <2>3. QED
    BY <2>1, <2>2
<1>11. \A f \in Purchases, q \in Products : Booked(account'[q], f, q, Settled(f)')
  BY <1>1, <1>5 DEF Progress
<1>12. QED
  BY <1>9, <1>10, <1>11 DEF Progress

\* A commit shows everybody the rows of all the lines, and a rollback takes
\* away those of the lines done.
LEMMA EndKeepsProgress ==
    ASSUME IInv, Progress, NEW e \in Purchases, CommitPurchase(e) \/ Rollback(e)
    PROVE  Progress'
<1>1. /\ holder' = [p \in Products |-> IF p \in Held(e) THEN Nobody ELSE holder[p]]
      /\ line' = [line EXCEPT ![e] = 0]
      /\ line \in [Purchases -> Nat]
      /\ entry \in [Purchases -> {"NONE", "DRAFT", "CONFIRMED", "CANCELLED"}]
      /\ account \in [Products -> Accounts] /\ draft \in [Products -> Accounts]
  BY DEF CommitPurchase, Rollback, IInv, TypeOK
<1>2. /\ \A p \in Products : holder[p] = e => holder'[p] = Nobody
      /\ \A p \in Products : holder[p] # e => holder'[p] = holder[p]
      /\ line'[e] = 0 /\ \A f \in Purchases : f # e => line'[f] = line[f]
  BY <1>1 DEF Held
<1>3. \A f \in Purchases : f # e => entry'[f] = entry[f]
  BY <1>1 DEF CommitPurchase, Rollback
<1>4. /\ \A f \in Purchases : f # e => Settled(f)' = Settled(f)
      /\ \A f \in Purchases, p \in Products : f # e => Done(f, p)' = Done(f, p)
      /\ \A p \in Products : Done(e, p)' = Settled(e)'
  BY <1>2, <1>3, DistinctAssumption DEF Settled, Done
<1>5. ASSUME NEW f \in Purchases
      PROVE  /\ line'[f] <= Len(LinesOf[f]) + 1
             /\ line'[f] # 0 => entry'[f] # "CONFIRMED"
             /\ \A p \in Products :
                  /\ holder'[p] = f => line'[f] # 0
                  /\ line'[f] # 0 /\ holder'[p] # f => LinesFor(f, p, line'[f] - 1) = {}
  <2>1. CASE f = e
    BY <1>2, <2>1, DistinctAssumption, PurchaseLines
  <2>2. CASE f # e
    <3>1. \A p \in Products : holder'[p] = f <=> holder[p] = f
      BY <1>2, <2>2, DistinctAssumption
    <3>2. QED
      BY <1>2, <1>3, <2>2, <3>1 DEF Progress
  <2>3. QED
    BY <2>1, <2>2
<1>6. ASSUME NEW p \in Products, NEW f \in Purchases
      PROVE  Booked(account'[p], f, p, Settled(f)') /\ Booked(draft'[p], f, p, Done(f, p)')
  <2>1. CASE CommitPurchase(e)
    <3>1. /\ account'[p] = IF holder[p] = e THEN draft[p] ELSE account[p]
          /\ draft'[p] = draft[p] /\ line[e] = Len(LinesOf[e]) + 1 /\ Settled(e)' = Len(LinesOf[e])
          /\ entry'[e] = "CONFIRMED" /\ Len(LinesOf[e]) \in Nat
      BY <1>1, <2>1, PurchaseLines DEF CommitPurchase, Held, Settled
    <3>2. CASE f = e
      <4>1. CASE holder[p] = e
        <5>1. Done(e, p) = Len(LinesOf[e])
          BY <3>1, <4>1 DEF Done
        <5>2. QED
          BY <1>4, <3>1, <3>2, <4>1, <5>1 DEF Progress
      <4>2. CASE holder[p] # e
        <5>1. Settled(e) = 0 /\ Done(e, p) = 0
          BY <3>1, <4>2 DEF Settled, Done, Progress
        <5>2. LinesFor(e, p, Len(LinesOf[e])) = {} /\ LinesFor(e, p, 0) = {}
          <6>1. line[e] # 0 /\ line[e] - 1 = Len(LinesOf[e])
            BY <3>1
          <6>2. QED
            BY <4>2, <6>1 DEF Progress, LinesFor
        <5>3. Booked(account[p], e, p, 0) /\ Booked(draft[p], e, p, 0)
          BY <5>1 DEF Progress
        <5>4. QED
          BY <1>4, <3>1, <3>2, <4>2, <5>2, <5>3, BookedSameLines
      <4>3. QED
        BY <4>1, <4>2
    <3>3. CASE f # e
      <4>1. holder[p] = e => Done(f, p) = Settled(f)
        BY <3>3 DEF Done
      <4>2. QED
        BY <1>4, <3>1, <3>3, <4>1 DEF Progress
    <3>4. QED
      BY <3>2, <3>3
  <2>2. CASE Rollback(e)
    <3>1. /\ draft'[p] = IF holder[p] = e THEN account[p] ELSE draft[p]
          /\ account'[p] = account[p] /\ entry' = entry /\ Settled(e)' = Settled(e)
      BY <1>1, <2>2 DEF Rollback, Held, Settled
    <3>2. CASE holder[p] = e
      <4>1. Done(f, p)' = Settled(f)
        BY <1>2, <1>4, <3>1, <3>2, DistinctAssumption DEF Done
      <4>2. QED
        BY <1>4, <3>1, <3>2, <4>1 DEF Progress
    <3>3. CASE holder[p] # e
      <4>1. Done(e, p) = Settled(e)
        BY <3>3 DEF Done
      <4>2. QED
        BY <1>4, <3>1, <3>3, <4>1 DEF Progress
    <3>4. QED
      BY <3>2, <3>3
  <2>3. QED
    BY <2>1, <2>2
<1>7. QED
  BY <1>5, <1>6 DEF Progress

\* Initially no purchase exists and no product has a history.
LEMMA InitProgress == Init => Progress
<1> SUFFICES ASSUME Init PROVE Progress
  OBVIOUS
<1>1. \A e \in Purchases : line[e] = 0 /\ entry[e] = "NONE" /\ Settled(e) = 0
  BY DEF Init, Settled
<1>2. \A p \in Products : /\ account[p].rows = <<>> /\ draft[p] = account[p]
                          /\ \A e \in Purchases : holder[p] # e
  BY DistinctAssumption DEF Init
<1>3. \A e \in Purchases, p \in Products : Done(e, p) = 0
  BY <1>1, <1>2 DEF Done
<1>4. \A e \in Purchases, p \in Products : Booked(account[p], e, p, 0) /\ Booked(draft[p], e, p, 0)
  BY <1>2, NothingBooked
<1>5. QED
  BY <1>1, <1>2, <1>3, <1>4, PurchaseLines DEF Progress

\* A step that posts one row on one free product: no purchase's, and neither a
\* second opening nor a second row for a reference.
Posting(p, row) ==
    /\ Update(p, [stock |-> row.new, rows |-> Append(account[p].rows, row)])
    /\ Journal!Follows(row, account[p].stock)
    /\ \A e \in Purchases : row.source # PurchaseSource(e)
    /\ row.type = "OPENING" => ~OpeningRecorded(account[p])
    /\ row.source \in References => ~RecordedIn(row.source, account[p])
    /\ UNCHANGED purchaseVars

\* A purchase entry changes, and no stock.
Preparing(e) == CreatePurchaseEntry(e) \/ StartPurchase(e) \/ CancelPurchaseEntry(e)

\* apply_stock_movement posts one row.
LEMMA MovePosts ==
    ASSUME IInv, NEW p \in Products, NEW type \in InTypes \cup OutTypes, NEW q \in 1 .. MaxQuantity,
           NEW source \in Sources, NEW system \in BOOLEAN, type = "OPENING" => ~system,
           CanMove(account[p], type, q), Update(p, Moved(account[p], type, q, source, system)),
           \A e \in Purchases : source # PurchaseSource(e),
           source \in References => ~RecordedIn(source, account[p]),
           UNCHANGED purchaseVars
    PROVE  \E row \in Rows : Posting(p, row)
<1> DEFINE a == account[p]
           row == Row(type, q, a.stock, a.stock + Signed(type, q), source, system)
<1>1. a.stock \in 0 .. MaxQuantity /\ a.stock + Signed(type, q) \in 0 .. MaxQuantity
  <2>1. a \in Accounts
    BY DEF IInv, Sound
  <2>2. QED
    BY <2>1, AccountParts DEF CanMove
<1>2. /\ row \in Rows
      /\ Moved(a, type, q, source, system) = [stock |-> row.new, rows |-> Append(a.rows, row)]
      /\ row.source = source /\ row.type = type
  BY <1>1 DEF Row, Rows, Moved
<1>3. Journal!Follows(row, a.stock)
  BY DEF Journal!Follows, Row
<1>4. row.type = "OPENING" => ~OpeningRecorded(a)
  BY <1>2 DEF CanMove
<1> HIDE DEF row
<1>5. Posting(p, row)
  BY <1>2, <1>3, <1>4 DEF Posting
<1>6. QED
  BY <1>2, <1>5

\* convert_existing_opening_stock posts one row.
LEMMA ConvertPosts ==
    ASSUME IInv, NEW p \in Products, CanConvert(account[p]), Update(p, Converted(account[p])),
           UNCHANGED purchaseVars
    PROVE  \E row \in Rows : Posting(p, row)
<1> DEFINE a == account[p]
           row == Row("OPENING", a.stock, 0, a.stock, NoSource, TRUE)
<1>1. a.stock \in 1 .. MaxQuantity
  <2>1. a \in Accounts
    BY DEF IInv, Sound
  <2>2. QED
    BY <2>1, AccountParts DEF CanConvert
<1>2. /\ row \in Rows
      /\ Converted(a) = [stock |-> row.new, rows |-> Append(a.rows, row)]
      /\ row.source = NoSource
  BY <1>1, LimitsAssumption DEF Row, Rows, Converted, InTypes, Sources
<1>3. Journal!Follows(row, a.stock)
  BY DEF Journal!Follows, Row
<1>4. ~OpeningRecorded(a) /\ NoSource \notin References
  BY SourcesDiffer DEF CanConvert, NoSource, References
<1> HIDE DEF row
<1>5. Posting(p, row)
  BY <1>2, <1>3, <1>4, SourcesDiffer DEF Posting
<1>6. QED
  BY <1>2, <1>5

\* What the steps do to accounts and purchases.
LEMMA StepKinds ==
    ASSUME IInv, [Next]_vars
    PROVE  \/ \E p \in Products, row \in Rows : Posting(p, row)
           \/ UNCHANGED <<accountVars, purchaseVars>>
           \/ \E e \in Purchases : Preparing(e)
           \/ \E e \in Purchases : PurchaseLine(e)
           \/ \E e \in Purchases : CommitPurchase(e) \/ Rollback(e)
<1> DEFINE Posts == \E p \in Products, row \in Rows : Posting(p, row)
           Quiet == UNCHANGED <<accountVars, purchaseVars>>
<1>1. CASE \E p \in Products, q \in Quantities : MovementForm(p, q) \/ RecordOpeningStock(p, q)
  <2>1. PICK p \in Products, q \in Quantities, type \in InTypes \cup OutTypes :
           /\ CanMove(account[p], type, q)
           /\ Update(p, Moved(account[p], type, q, NoSource, FALSE))
           /\ UNCHANGED purchaseVars
    BY <1>1, ProductsAssumption DEF MovementForm, RecordOpeningStock, RecordManual, InTypes
  <2>2. q \in 1 .. MaxQuantity /\ NoSource \in Sources /\ NoSource \notin References
    BY ProductsAssumption DEF Sources, NoSource, References
  <2>3. Posts
    BY <2>1, <2>2, SourcesDiffer, MovePosts
  <2>4. QED
    BY <2>3
<1>2. ASSUME NEW c \in Callers, MoveOrderStock(c)
      PROVE  Posts \/ Quiet
  <2> DEFINE ref == caller[c].ref
             p == OrderProduct(ref)
  <2>1. ref \in References /\ ref \in Sources /\ \A e \in Purchases : ref # PurchaseSource(e)
    <3>1. ref \in References
      BY <1>2 DEF MoveOrderStock, IInv
    <3>2. QED
      BY <3>1, SourcesDiffer DEF Sources
  <2>2. CASE UNCHANGED accountVars
    BY <1>2, <2>2 DEF MoveOrderStock, purchaseVars
  <2>3. CASE ~ UNCHANGED accountVars
    <3>1. /\ CanMove(account[p], OrderType(ref), Quantity[ref[2]])
          /\ Update(p, Moved(account[p], OrderType(ref), Quantity[ref[2]], ref, TRUE))
          /\ ~RecordedIn(ref, account[p])
          /\ UNCHANGED purchaseVars
      BY <1>2, <2>3 DEF MoveOrderStock, ReferenceFree, Recorded, RecordedIn
    <3>2. /\ p \in Products /\ Quantity[ref[2]] \in 1 .. MaxQuantity
          /\ OrderType(ref) \in InTypes \cup OutTypes /\ OrderType(ref) # "OPENING"
      BY <2>1, ReferenceParts DEF InTypes, OutTypes, OrderType
    <3> HIDE DEF ref, p
    <3>3. Posts
      BY <2>1, <3>1, <3>2, MovePosts
    <3>4. QED
      BY <3>3
  <2>4. QED
    BY <2>2, <2>3
<1>3. ASSUME NEW c \in Callers, NEW ref \in References, LookUpReference(c, ref)
      PROVE  Quiet
  BY <1>3 DEF LookUpReference
<1>4. ASSUME NEW e \in Purchases, PurchaseStep(e)
      PROVE  Preparing(e) \/ PurchaseLine(e) \/ CommitPurchase(e) \/ Rollback(e)
  BY <1>4 DEF Preparing, PurchaseStep, AdvancePurchase, RefusePurchaseLine, AbortDeadlocked, LoseWorker
<1>5. ASSUME NEW j \in Jobs, ConvertOpeningStock(j)
      PROVE  Posts \/ Quiet
  <2>1. current[j] \in Products
    BY <1>5 DEF ConvertOpeningStock, IInv
  <2>2. CASE /\ CanConvert(account[current[j]]) /\ Update(current[j], Converted(account[current[j]]))
             /\ UNCHANGED purchaseVars
    BY <2>1, <2>2, ConvertPosts
  <2>3. QED
    BY <1>5, <2>2 DEF ConvertOpeningStock
<1>6. ASSUME NEW j \in Jobs,
             \/ ListCandidates(j) \/ VerifyBalance(j) \/ FinishJob(j)
             \/ \E p \in Products : CheckCandidate(j, p)
      PROVE  Quiet
  BY <1>6 DEF ListCandidates, VerifyBalance, FinishJob, CheckCandidate
<1>7. CASE \E c \in Callers : (\E ref \in References : LookUpReference(c, ref)) \/ MoveOrderStock(c)
  BY <1>2, <1>3, <1>7
<1>8. CASE \E e \in Purchases : PurchaseStep(e)
  BY <1>4, <1>8
<1>9. CASE \E j \in Jobs : CommandStep(j)
  BY <1>5, <1>6, <1>9 DEF CommandStep
<1>10. CASE UNCHANGED vars
  BY <1>10 DEF vars
<1>11. QED
  BY <1>1, <1>7, <1>8, <1>9, <1>10 DEF Next

\* Every step keeps the progress of the purchases.
LEMMA NextKeepsProgress == IInv /\ Progress /\ [Next]_vars => Progress'
<1> SUFFICES ASSUME IInv, Progress, [Next]_vars PROVE Progress'
  OBVIOUS
<1>1. ASSUME NEW p \in Products, NEW row \in Rows, Posting(p, row)
      PROVE  Progress'
  BY <1>1, OtherUpdateKeepsProgress DEF Posting
<1>2. ASSUME NEW e \in Purchases, Preparing(e)
      PROVE  Progress'
  BY <1>2, EntryKeepsProgress DEF Preparing
<1>3. QED
  BY <1>1, <1>2, StepKinds, QuietKeepsProgress, LineKeepsProgress, EndKeepsProgress

\* transaction.atomic around confirm_purchase_entry and
\* record_purchase_stock_in: however many purchases interleave, fail, deadlock
\* or die, the ledger has all of the lines of one or none.
THEOREM PurchaseIsAtomic == Spec => []PurchaseAllOrNothing
<1>1. Progress => PurchaseAllOrNothing
  BY DEF Progress, PurchaseAllOrNothing
<1>2. QED
  BY InitProgress, NextKeepsProgress, <1>1, Invariance, PTL DEF Spec

-----------------------------------------------------------------------------
(* The journal *)

\* A purchase under way may still be confirmed, and what only it sees is its
\* own: purchase rows on products it has locked.
Open ==
    /\ \A e \in Purchases : line[e] # 0 => MayConfirm(e)
    /\ \A p \in Products : \A k \in Journal!NewRows(account[p], draft[p]) :
          /\ draft[p].rows[k].type = "PURCHASE"
          /\ draft[p].rows[k].source = PurchaseSource(holder[p])

LEMMA InitOpen == Init => Open
BY DEF Init, Open, Journal!NewRows

\* A row that is posted is committed at once.
LEMMA PostingKeepsOpen ==
    ASSUME IInv, Open, NEW p \in Products, NEW row \in Rows, Posting(p, row)
    PROVE  Open'
<1>1. /\ account' = [account EXCEPT ![p] = [stock |-> row.new, rows |-> Append(account[p].rows, row)]]
      /\ draft' = [draft EXCEPT ![p] = [stock |-> row.new, rows |-> Append(account[p].rows, row)]]
      /\ holder' = holder /\ entry' = entry /\ line' = line
      /\ account \in [Products -> Accounts] /\ draft \in [Products -> Accounts]
  BY DEF Posting, Update, purchaseVars, IInv, TypeOK
<1>2. account'[p] = draft'[p]
  BY <1>1
<1>3. \A q \in Products : q # p => account'[q] = account[q] /\ draft'[q] = draft[q]
  BY <1>1
<1>4. ASSUME NEW q \in Products, NEW k \in Journal!NewRows(account'[q], draft'[q])
      PROVE  /\ draft'[q].rows[k].type = "PURCHASE"
             /\ draft'[q].rows[k].source = PurchaseSource(holder'[q])
  <2>1. q # p
    BY <1>2, <1>4 DEF Journal!NewRows
  <2>2. QED
    BY <1>1, <1>3, <1>4, <2>1 DEF Open
<1>5. QED
  BY <1>1, <1>4 DEF Open, MayConfirm

\* While its transaction is under way, no one else changes an entry.
LEMMA PreparingKeepsOpen ==
    ASSUME IInv, Open, NEW e \in Purchases, Preparing(e)
    PROVE  Open'
<1>1. /\ account' = account /\ draft' = draft /\ holder' = holder
      /\ entry \in [Purchases -> {"NONE", "DRAFT", "CONFIRMED", "CANCELLED"}]
      /\ line \in [Purchases -> Nat]
  BY DEF Preparing, CreatePurchaseEntry, StartPurchase, CancelPurchaseEntry, accountVars, IInv, TypeOK
<1>2. \A f \in Purchases : f # e => entry'[f] = entry[f] /\ line'[f] = line[f]
  BY <1>1 DEF Preparing, CreatePurchaseEntry, StartPurchase, CancelPurchaseEntry
<1>3. line'[e] # 0 => entry'[e] \in {"DRAFT", "NONE"}
  BY <1>1 DEF Preparing, CreatePurchaseEntry, StartPurchase, CancelPurchaseEntry, MayConfirm
<1>4. \A f \in Purchases : line'[f] # 0 => entry'[f] \in {"DRAFT", "NONE"}
  BY <1>2, <1>3 DEF Open, MayConfirm
<1>5. QED
  BY <1>1, <1>4 DEF Open, MayConfirm

\* A line adds one purchase row of its transaction.
LEMMA LineKeepsOpen ==
    ASSUME IInv, Open, NEW e \in Purchases, PurchaseLine(e)
    PROVE  Open'
<1> DEFINE l == LinesOf[e][line[e]]
           p == l.product
           row == Row("PURCHASE", l.quantity, draft[p].stock,
                      draft[p].stock + Signed("PURCHASE", l.quantity), PurchaseSource(e), FALSE)
<1>1. /\ p \in Products /\ holder[p] \in {Nobody, e} /\ line[e] \in DOMAIN LinesOf[e]
      /\ draft' = [draft EXCEPT ![p] = Moved(draft[p], "PURCHASE", l.quantity, PurchaseSource(e), FALSE)]
      /\ holder' = [holder EXCEPT ![p] = e] /\ account' = account
      /\ line' = [line EXCEPT ![e] = line[e] + 1] /\ entry' = entry
  BY PurchaseLines DEF PurchaseLine
<1>2. /\ draft \in [Products -> Accounts] /\ line \in [Purchases -> Nat]
      /\ holder \in [Products -> Purchases \cup {Nobody}]
  BY DEF IInv, TypeOK
<1>3. /\ Moved(draft[p], "PURCHASE", l.quantity, PurchaseSource(e), FALSE).rows = Append(draft[p].rows, row)
      /\ row.type = "PURCHASE" /\ row.source = PurchaseSource(e)
  BY DEF Moved, Row
<1>4. draft[p].rows \in Seq(Rows)
  BY <1>1, <1>2, AccountParts
<1>5. line[e] # 0
  BY <1>1, PurchaseLines
<1> HIDE DEF l, p, row
<1>6. /\ draft'[p].rows = Append(draft[p].rows, row) /\ holder'[p] = e
      /\ \A q \in Products : q # p => draft'[q] = draft[q] /\ holder'[q] = holder[q]
  BY <1>1, <1>2, <1>3
<1>7. ASSUME NEW q \in Products, NEW k \in Journal!NewRows(account'[q], draft'[q])
      PROVE  /\ draft'[q].rows[k].type = "PURCHASE"
             /\ draft'[q].rows[k].source = PurchaseSource(holder'[q])
  <2>1. CASE q # p
    BY <1>1, <1>6, <1>7, <2>1 DEF Open
  <2>2. CASE q = p /\ k \in DOMAIN draft[p].rows
    <3>1. k \in Journal!NewRows(account[p], draft[p])
      BY <1>1, <1>7, <2>2 DEF Journal!NewRows
    <3>2. holder[p] = e
      BY <1>1, <3>1 DEF IInv, Journal!NewRows
    <3>3. draft'[p].rows[k] = draft[p].rows[k]
      BY <1>4, <1>6, <2>2
    <3>4. draft[p].rows[k].type = "PURCHASE" /\ draft[p].rows[k].source = PurchaseSource(holder[p])
      <4>1. p \in Products
        BY <1>1
      <4>2. QED
        BY <3>1, <4>1, Zenon DEF Open
    <3>5. QED
      BY <1>6, <2>2, <3>2, <3>3, <3>4
  <2>3. CASE q = p /\ k \notin DOMAIN draft[p].rows
    <3>1. k \in DOMAIN draft'[p].rows
      BY <1>7, <2>3 DEF Journal!NewRows
    <3>2. draft'[p].rows[k] = row
      BY <1>4, <1>6, <2>3, <3>1
    <3>3. QED
      BY <1>3, <1>6, <2>3, <3>2
  <2>4. QED
    BY <2>1, <2>2, <2>3
<1>8. \A f \in Purchases : line'[f] # 0 => line[f] # 0
  BY <1>1, <1>2, <1>5
<1>9. QED
  BY <1>1, <1>7, <1>8 DEF Open, MayConfirm

\* After the end of a transaction nothing is seen by it alone.
LEMMA EndKeepsOpen ==
    ASSUME IInv, Open, NEW e \in Purchases, CommitPurchase(e) \/ Rollback(e)
    PROVE  Open'
<1>1. /\ holder' = [p \in Products |-> IF p \in Held(e) THEN Nobody ELSE holder[p]]
      /\ line' = [line EXCEPT ![e] = 0]
      /\ line \in [Purchases -> Nat]
      /\ entry \in [Purchases -> {"NONE", "DRAFT", "CONFIRMED", "CANCELLED"}]
      /\ account \in [Products -> Accounts] /\ draft \in [Products -> Accounts]
  BY DEF CommitPurchase, Rollback, IInv, TypeOK
<1>2. ASSUME NEW q \in Products
      PROVE  \/ account'[q] = draft'[q]
             \/ account'[q] = account[q] /\ draft'[q] = draft[q] /\ holder'[q] = holder[q]
  BY <1>1 DEF CommitPurchase, Rollback, Held
<1>3. ASSUME NEW q \in Products, NEW k \in Journal!NewRows(account'[q], draft'[q])
      PROVE  /\ draft'[q].rows[k].type = "PURCHASE"
             /\ draft'[q].rows[k].source = PurchaseSource(holder'[q])
  BY <1>2, <1>3 DEF Open, Journal!NewRows
<1>4. \A f \in Purchases : line'[f] # 0 => f # e /\ line[f] # 0 /\ entry'[f] = entry[f]
  BY <1>1 DEF CommitPurchase, Rollback
<1>5. QED
  BY <1>3, <1>4 DEF Open, MayConfirm

LEMMA NextKeepsOpen == IInv /\ Open /\ [Next]_vars => Open'
<1> SUFFICES ASSUME IInv, Open, [Next]_vars PROVE Open'
  OBVIOUS
<1>1. CASE UNCHANGED <<accountVars, purchaseVars>>
  BY <1>1 DEF Open, MayConfirm, accountVars, purchaseVars
<1>2. QED
  BY <1>1, StepKinds, PostingKeepsOpen, PreparingKeepsOpen, LineKeepsOpen, EndKeepsOpen

LEMMA JournalInit == Init => Journal!Init
<1> SUFFICES ASSUME Init PROVE Journal!Init
  OBVIOUS
<1>1. account \in [Products -> Accounts]
  BY InitIInv DEF IInv, TypeOK
<1>2. QED
  BY <1>1 DEF Init, Journal!Init

\* What is posted is one row that continues its account.
LEMMA PostingIsPost ==
    ASSUME IInv, IInv', NEW p \in Products, NEW row \in Rows, Posting(p, row)
    PROVE  Journal!Post(p)
<1> DEFINE a == account[p]
           b == account'[p]
           last == Len(a.rows) + 1
<1>1. /\ account' = [account EXCEPT ![p] = [stock |-> row.new, rows |-> Append(a.rows, row)]]
      /\ entry' = entry
      /\ account \in [Products -> Accounts] /\ account' \in [Products -> Accounts]
  BY DEF Posting, Update, purchaseVars, IInv, TypeOK
<1>2. a.rows \in Seq(Rows) /\ Len(a.rows) \in Nat
  BY <1>1, AccountParts
<1>3. b.stock = row.new /\ b.rows = Append(a.rows, row)
  BY <1>1
<1>4. /\ DOMAIN a.rows = 1 .. Len(a.rows) /\ DOMAIN b.rows = 1 .. last /\ Len(b.rows) = last
      /\ b.rows[last] = row /\ \A k \in DOMAIN a.rows : b.rows[k] = a.rows[k]
      /\ last \in Nat /\ (last + 1) - 1 = last /\ last # last + 1
  BY <1>2, <1>3
<1> HIDE DEF a, b, last
<1>5. Journal!NewRows(a, b) = {last}
  BY <1>2, <1>4 DEF Journal!NewRows, last
<1>6. Journal!Continues(a, b)
  <2>1. Journal!BalanceAt(a, b, last) = a.stock /\ Journal!BalanceAt(a, b, last + 1) = row.new
    BY <1>4 DEF Journal!BalanceAt, last
  <2>2. Journal!Follows(row, a.stock)
    BY DEF Posting, a
  <2>3. \A k \in DOMAIN a.rows : k \in DOMAIN b.rows /\ b.rows[k] = a.rows[k]
    BY <1>2, <1>4 DEF last
  <2>4. QED
    BY <1>3, <1>4, <1>5, <2>1, <2>2, <2>3 DEF Journal!Continues
<1>7. \A k \in DOMAIN a.rows :
         /\ ~(a.rows[k].type = "OPENING" /\ row.type = "OPENING")
         /\ row.source \in References => a.rows[k].source # row.source
  BY DEF Posting, OpeningRecorded, IsOpening, RecordedIn, a
<1>8. \A e \in Purchases : row.source # PurchaseSource(e)
  BY DEF Posting
<1>9. \A q \in Products \ {p} : account'[q] = account[q]
  BY <1>1
<1>10. QED
  BY <1>1, <1>4, <1>5, <1>6, <1>7, <1>8, <1>9 DEF Journal!Post, a, b, last

\* What a transaction sees continues what is committed.
LEMMA DraftContinues ==
    ASSUME IInv, NEW p \in Products
    PROVE  Journal!Continues(account[p], draft[p])
<1> DEFINE a == account[p]
           b == draft[p]
<1>1. a \in Accounts /\ b \in Accounts /\ Explained(p, a) /\ Explained(p, b) /\ Extends(b, a)
  BY DEF IInv, Sound
<1>2. a.rows \in Seq(Rows) /\ b.rows \in Seq(Rows)
  BY <1>1, AccountParts
<1> HIDE DEF a, b
<1>3. /\ DOMAIN a.rows = 1 .. Len(a.rows) /\ DOMAIN b.rows = 1 .. Len(b.rows)
      /\ Len(a.rows) \in Nat /\ Len(b.rows) \in Nat
  BY <1>2
<1>4. Len(a.rows) <= Len(b.rows)
  <2>1. CASE Len(a.rows) = 0
    BY <1>3, <2>1
  <2>2. CASE Len(a.rows) # 0
    <3>1. Len(a.rows) \in DOMAIN a.rows
      BY <1>3, <2>2
    <3>2. QED
      BY <1>1, <1>3, <3>1 DEF Extends
  <2>3. QED
    BY <2>1, <2>2
<1>5. a.stock = BalanceBefore(p, b, Len(a.rows) + 1)
  <2>1. a.stock = BalanceBefore(p, a, Len(a.rows) + 1)
    BY <1>1 DEF Explained
  <2>2. CASE Len(a.rows) = 0
    BY <2>1, <2>2 DEF BalanceBefore
  <2>3. CASE Len(a.rows) # 0
    <3>1. Len(a.rows) \in DOMAIN a.rows /\ (Len(a.rows) + 1) - 1 = Len(a.rows) /\ Len(a.rows) + 1 # 1
      BY <1>3, <2>3
    <3>2. b.rows[Len(a.rows)] = a.rows[Len(a.rows)]
      BY <1>1, <3>1 DEF Extends
    <3>3. QED
      BY <2>1, <3>1, <3>2 DEF BalanceBefore
  <2>4. QED
    BY <2>2, <2>3
<1>6. ASSUME NEW k \in Nat, k > Len(a.rows)
      PROVE  Journal!BalanceAt(a, b, k) = BalanceBefore(p, b, k)
  <2>1. CASE k = Len(a.rows) + 1
    BY <1>5, <2>1 DEF Journal!BalanceAt
  <2>2. CASE k # Len(a.rows) + 1
    BY <1>3, <1>6, <2>2 DEF Journal!BalanceAt, BalanceBefore
  <2>3. QED
    BY <2>1, <2>2
<1>7. ASSUME NEW k \in Journal!NewRows(a, b)
      PROVE  Journal!Follows(b.rows[k], Journal!BalanceAt(a, b, k))
  <2>1. k \in DOMAIN b.rows /\ k \in Nat /\ k > Len(a.rows)
    BY <1>3, <1>7 DEF Journal!NewRows
  <2>2. Journal!BalanceAt(a, b, k) = BalanceBefore(p, b, k)
    BY <1>6, <2>1
  <2>3. RowExplained(p, b, k)
    BY <1>1, <2>1 DEF Explained
  <2>4. QED
    BY <2>2, <2>3 DEF RowExplained, IsConversion, IsOpening, Journal!Follows
<1>8. b.stock = Journal!BalanceAt(a, b, Len(b.rows) + 1)
  <2>1. Len(b.rows) + 1 \in Nat /\ Len(b.rows) + 1 > Len(a.rows)
    BY <1>3, <1>4
  <2>2. QED
    BY <1>1, <1>6, <2>1 DEF Explained
<1>9. Journal!Continues(a, b)
  BY <1>1, <1>7, <1>8 DEF Extends, Journal!Continues
<1>10. QED
  BY <1>9 DEF a, b

\* An account that does not change continues itself.
LEMMA SameContinues ==
    ASSUME NEW a, a.rows \in Seq(Rows)
    PROVE  Journal!Continues(a, a) /\ Journal!NewRows(a, a) = {}
BY DEF Journal!Continues, Journal!NewRows, Journal!BalanceAt

\* A commit shows exactly the lines of its purchase.
LEMMA CommitIsRecord ==
    ASSUME IInv, IInv', Progress, Open, NEW e \in Purchases, CommitPurchase(e)
    PROVE  Journal!Record(e)
<1> DEFINE n == Len(LinesOf[e])
<1>1. /\ n \in Nat /\ DOMAIN LinesOf[e] = 1 .. n /\ line[e] = n + 1
      /\ entry' = [entry EXCEPT ![e] = "CONFIRMED"]
      /\ account' = [p \in Products |-> IF p \in Held(e) THEN draft[p] ELSE account[p]]
  BY PurchaseLines DEF CommitPurchase
<1>2. entry[e] \in {"NONE", "DRAFT"} /\ Settled(e) = 0
  <2>1. line[e] # 0
    BY <1>1
  <2>2. QED
    BY <2>1 DEF Open, MayConfirm, Settled
<1>3. account' \in [Products -> Accounts] /\ account \in [Products -> Accounts]
  BY DEF IInv, TypeOK
<1> HIDE DEF n
<1>4. \A p \in Products : Journal!LinesFor(e, p) = LinesFor(e, p, n)
  BY <1>1 DEF Journal!LinesFor, LinesFor
<1>5. ASSUME NEW p \in Products
      PROVE  /\ Journal!Continues(account[p], account'[p])
             /\ Journal!Enters(e, p, account[p], account'[p])
  <2> DEFINE a == account[p]
             b == account'[p]
             L == LinesFor(e, p, n)
  <2>1. CASE holder[p] # e
    <3>1. b = a
      BY <1>1, <2>1 DEF Held
    <3>2. a.rows \in Seq(Rows)
      BY <1>3, AccountParts
    <3>3. L = {}
      <4>1. line[e] # 0 /\ line[e] - 1 = n
        BY <1>1
      <4>2. QED
        BY <2>1, <4>1 DEF Progress
    <3> HIDE DEF a, b, L
    <3>4. Journal!Continues(a, b) /\ Journal!NewRows(a, b) = {}
      BY <3>1, <3>2, SameContinues
    <3>5. Journal!Enters(e, p, a, b)
      <4> DEFINE at == [k \in {} |-> k]
      <4>1. at \in [L -> Journal!NewRows(a, b)]
        BY <3>3
      <4>2. QED
        BY <1>4, <3>3, <3>4, <4>1 DEF Journal!Enters, L
    <3>6. QED
      BY <3>4, <3>5 DEF a, b
  <2>2. CASE holder[p] = e
    <3>1. b = draft[p]
      BY <1>1, <2>2 DEF Held
    <3>2. Journal!Continues(a, b)
      BY <3>1, DraftContinues
    <3>3. Booked(a, e, p, 0) /\ Booked(b, e, p, n)
      <4>1. Done(e, p) = n
        BY <1>1, <2>2 DEF Done
      <4>2. QED
        BY <1>2, <3>1, <4>1 DEF Progress
    <3>4. \A k \in Journal!NewRows(a, b) : b.rows[k].type = "PURCHASE" /\ b.rows[k].source = PurchaseSource(e)
      BY <2>2, <3>1 DEF Open
    <3>5. \A k \in DOMAIN a.rows : b.rows[k].source # PurchaseSource(e)
      <4>1. LinesFor(e, p, 0) = {}
        BY DEF LinesFor
      <4>2. \A k \in DOMAIN a.rows : a.rows[k].source # PurchaseSource(e)
        BY <3>3, <4>1 DEF Booked
      <4>3. QED
        BY <3>2, <4>2 DEF Journal!Continues
    <3> HIDE DEF a, b, L
    <3>6. PICK at \in [L -> DOMAIN b.rows] :
             /\ \A k, l \in L : k < l => at[k] < at[l]
             /\ \A k \in L : b.rows[at[k]].quantity = LinesOf[e][k].quantity
             /\ \A r \in DOMAIN b.rows :
                   b.rows[r].source = PurchaseSource(e) <=> \E k \in L : at[k] = r
      BY <3>3 DEF Booked, L
    <3>7. \A k \in L : at[k] \in Journal!NewRows(a, b)
      BY <3>5, <3>6 DEF Journal!NewRows
    <3>8. at \in [L -> Journal!NewRows(a, b)]
      BY <3>6, <3>7
    <3>9. \A r \in Journal!NewRows(a, b) : \E k \in L : at[k] = r
      BY <3>4, <3>6 DEF Journal!NewRows
    <3>10. \A k \in L : /\ b.rows[at[k]].type = "PURCHASE"
                        /\ b.rows[at[k]].source = PurchaseSource(e)
      BY <3>4, <3>7
    <3>11. Journal!Enters(e, p, a, b)
      <4>1. Journal!LinesFor(e, p) = L
        BY <1>4 DEF L
      <4>2. QED
        BY <3>6, <3>8, <3>9, <3>10, <4>1 DEF Journal!Enters
    <3>12. QED
      BY <3>2, <3>11 DEF a, b
  <2>3. QED
    BY <2>1, <2>2
<1>6. QED
  BY <1>1, <1>2, <1>3, <1>5 DEF Journal!Record

\* Every step of the inventory is a step of the journal or leaves it alone.
LEMMA JournalStep ==
    ASSUME IInv, IInv', Progress, Open, [Next]_vars
    PROVE  [Journal!Next]_<<account, entry>>
<1>1. ASSUME NEW e \in Purchases, Preparing(e)
      PROVE  Journal!Prepare(e) \/ UNCHANGED <<account, entry>>
  BY <1>1 DEF Preparing, CreatePurchaseEntry, StartPurchase, CancelPurchaseEntry, accountVars,
              Journal!Prepare
<1>2. ASSUME NEW e \in Purchases, PurchaseLine(e) \/ Rollback(e)
      PROVE  UNCHANGED <<account, entry>>
  BY <1>2 DEF PurchaseLine, Rollback
<1>3. CASE UNCHANGED <<accountVars, purchaseVars>>
  BY <1>3 DEF accountVars, purchaseVars
<1>4. QED
  BY <1>1, <1>2, <1>3, StepKinds, PostingIsPost, CommitIsRecord DEF Journal!Next

\* Whoever reads balances and ledger sees a journal: everything the services
\* do in any order and number adds whole movements and whole purchases to it.
THEOREM ImplementsJournal == Spec => KeepsJournal
BY JournalInit, JournalStep, InitOpen, NextKeepsOpen, InitProgress, NextKeepsProgress, Invariance,
   PTL DEF Spec, KeepsJournal, Journal!Spec, Journal!vars
=============================================================================
