----------------------------- MODULE StockLedger -----------------------------
(***************************************************************************)
(* The inventory of a shop: Product.stock_quantity and the append-only     *)
(* ledger of InventoryTransactions that explains it.                       *)
(*                                                                         *)
(* Every movement runs apply_stock_movement in a transaction that locks    *)
(* the Product row, so a movement of one product is one action.  A         *)
(* purchase moves several products in one transaction, line by line: it    *)
(* keeps the rows it has locked until it commits, and until then only it   *)
(* sees what it wrote.  The services that decide on a read made before     *)
(* the lock (the lookup of an order reference, the candidates of the       *)
(* opening-stock command) read in one action and write in another.         *)
(*                                                                         *)
(* Quantities are counted in thousandths of a unit.  Costs, dates, actors, *)
(* reasons and the random transaction numbers are left out: a call without *)
(* a required reason, or for a product of another store, changes nothing.  *)
(***************************************************************************)
EXTENDS Integers, Sequences

CONSTANTS
    Products,       \* products, some with a balance from before the ledger
    InitialStock,   \* that balance
    MaxQuantity,    \* the largest quantity a DecimalField of 12 digits holds
    MaxRows,        \* bound: ledger rows per product
    ManualTypes,    \* movement types of the portal's forms
    Quantities,     \* quantities entered in them
    Purchases,      \* purchase entries
    LinesOf,        \* the lines of a purchase entry, in id order
    Callers,        \* requests that deduct or restore order stock
    OrderItems,     \* order items
    ProductOf,      \* the Product of an order item
    Quantity,       \* the quantity of an order item
    Jobs            \* runs of the command initialize_opening_stock

InTypes == {"OPENING", "PURCHASE", "STOCK_IN", "ADJUSTMENT_IN", "CUSTOMER_RETURN"}
OutTypes == {"STOCK_OUT", "ADJUSTMENT_OUT", "DAMAGED", "EXPIRED", "SUPPLIER_RETURN"}

\* What a ledger row or a lock refers to.
NoSource == <<"manual">>
Nobody == <<"nobody">>
NoProduct == <<"no product">>
PurchaseSource(e) == <<"purchase", e>>
References == {<<"order-item", i, kind>> : i \in OrderItems, kind \in {"deduct", "restore"}}

ASSUME LimitsAssumption == MaxQuantity \in Nat /\ MaxRows \in Nat

ASSUME ProductsAssumption ==
    /\ InitialStock \in [Products -> 0 .. MaxQuantity]
    /\ ManualTypes \subseteq (InTypes \cup OutTypes) \ {"OPENING", "PURCHASE"}
    /\ Quantities \subseteq 1 .. MaxQuantity

\* A purchase entry has lines, each of a positive quantity.
ASSUME PurchasesAssumption ==
    \A e \in Purchases :
        /\ LinesOf[e] \in Seq([product : Products, quantity : 1 .. MaxQuantity])
        /\ LinesOf[e] # <<>>

\* Nobody and no product are none of the purchases and products.
ASSUME DistinctAssumption == Nobody \notin Purchases /\ NoProduct \notin Products

ASSUME OrderItemsAssumption ==
    \A i \in OrderItems : ProductOf[i] \in Products /\ Quantity[i] \in 1 .. MaxQuantity

VARIABLES
    account,    \* per product: stock_quantity and ledger rows, committed
    draft,      \* the same as the transaction that holds the product sees it
    holder,     \* the purchase whose transaction has locked the product
    entry,      \* PurchaseEntry.status, "NONE" before the row exists
    line,       \* the next line of a purchase's transaction, 0 outside one
    caller,     \* a caller's reference and how far its request has come
    jobStep,    \* where the command is: idle, check, convert or verify
    todo,       \* the candidates the command has still to look at
    seenStock,  \* their stock_quantity as the command read it
    current     \* the candidate the command is converting

accountVars == <<account, draft, holder>>
purchaseVars == <<entry, line>>
jobVars == <<jobStep, todo, seenStock, current>>
vars == <<accountVars, purchaseVars, caller, jobVars>>

-----------------------------------------------------------------------------
(* One movement *)

Signed(type, q) == IF type \in InTypes THEN q ELSE -q

IsOpening(row) == row.type = "OPENING"

\* A row that records a balance from before the ledger.
IsConversion(row) == IsOpening(row) /\ row.system

Row(type, q, previous, new, source, system) ==
    [type |-> type, quantity |-> q, previous |-> previous, new |-> new,
     source |-> source, system |-> system]

\* _opening_already_recorded
OpeningRecorded(a) == \E k \in DOMAIN a.rows : IsOpening(a.rows[k])

\* Mutant: the limit of the balance is not checked.
CanMoveUnchecked(a, type, q) == Len(a.rows) < MaxRows

\* The checks of apply_stock_movement on the locked product.
CanMove(a, type, q) ==
    /\ type = "OPENING" => ~OpeningRecorded(a)
    /\ a.stock + Signed(type, q) \in 0 .. MaxQuantity
    /\ Len(a.rows) < MaxRows

\* Mutant: the ledger row records the balance after the movement as previous.
MovedTwice(a, type, q, source, system) ==
    LET new == a.stock + Signed(type, q)
    IN  [stock |-> new,
         rows |-> Append(a.rows, Row(type, q, new, new, source, system))]

\* What apply_stock_movement makes of it: a new balance and one ledger row.
Moved(a, type, q, source, system) ==
    LET new == a.stock + Signed(type, q)
    IN  [stock |-> new,
         rows |-> Append(a.rows, Row(type, q, a.stock, new, source, system))]

\* Mutant: the once-only check does not cover conversions.
CanConvertAgain(a) == a.stock > 0 /\ Len(a.rows) < MaxRows

\* The same with skip_product_update: an existing balance is represented in
\* the ledger, as a movement from zero, without changing the product.
CanConvert(a) ==
    /\ ~OpeningRecorded(a)
    /\ a.stock > 0
    /\ Len(a.rows) < MaxRows

\* Mutant: skip_product_update is ignored and the balance is added again.
ConvertedByMoving(a) == Moved(a, "OPENING", a.stock, NoSource, TRUE)

\* The row of a conversion.
Converted(a) ==
    [stock |-> a.stock,
     rows |-> Append(a.rows, Row("OPENING", a.stock, 0, a.stock, NoSource, TRUE))]

\* Mutant: the product row is not locked.
UpdateUnlocked(p, a) ==
    /\ account' = [account EXCEPT ![p] = a]
    /\ draft' = IF holder[p] = Nobody THEN [draft EXCEPT ![p] = a] ELSE draft
    /\ UNCHANGED holder

\* A transaction that locks product p, writes account a and commits.
Update(p, a) ==
    /\ holder[p] = Nobody
    /\ account' = [account EXCEPT ![p] = a]
    /\ draft' = [draft EXCEPT ![p] = a]
    /\ UNCHANGED holder

-----------------------------------------------------------------------------
(* Manual movements *)

\* record_manual_stock_in and its siblings, from the portal's forms.
RecordManual(p, type, q) ==
    /\ CanMove(account[p], type, q)
    /\ Update(p, Moved(account[p], type, q, NoSource, FALSE))
    /\ UNCHANGED <<purchaseVars, caller, jobVars>>

\* record_opening_stock, once per product.
RecordOpeningStock(p, q) ==
    /\ CanMove(account[p], "OPENING", q)
    /\ Update(p, Moved(account[p], "OPENING", q, NoSource, FALSE))
    /\ UNCHANGED <<purchaseVars, caller, jobVars>>

-----------------------------------------------------------------------------
(* Order stock *)

OrderType(ref) == IF ref[3] = "deduct" THEN "STOCK_OUT" ELSE "CUSTOMER_RETURN"
OrderProduct(ref) == ProductOf[ref[2]]

\* _find_transaction_by_reference: a committed row with this reference.
Recorded(ref) ==
    LET rows == account[OrderProduct(ref)].rows
    IN  \E k \in DOMAIN rows : rows[k].source = ref

\* deduct_order_stock and restore_order_stock, up to the lookup: a reference
\* already in the ledger is answered with its row.  Orders restore only what
\* checkout deducted.  A caller may repeat its request.
LookUpReference(c, ref) ==
    /\ caller[c].step # "move"
    /\ ref[3] = "restore" => Recorded(<<"order-item", ref[2], "deduct">>)
    /\ caller' = [caller EXCEPT ![c] =
                    [ref |-> ref, step |-> IF Recorded(ref) THEN "returned" ELSE "move"]]
    /\ UNCHANGED <<accountVars, purchaseVars, jobVars>>

\* Mutant: a reference recorded since the lookup is recorded again.
ReferenceFreeAlways(ref) == TRUE

\* The unique constraint on order-item references, which full_clean and the
\* database check under the product's lock.
ReferenceFree(ref) == ~Recorded(ref)

\* The movement the lookup found missing.  It is refused, with everything
\* rolled back, when stock is short or the reference was recorded meanwhile.
MoveOrderStock(c) ==
    LET ref == caller[c].ref
        p == OrderProduct(ref)
        q == Quantity[ref[2]]
        a == account[p]
        allowed == CanMove(a, OrderType(ref), q) /\ ReferenceFree(ref)
    IN  /\ caller[c].step = "move"
        /\ holder[p] = Nobody
        /\ \/ /\ allowed
              /\ Update(p, Moved(a, OrderType(ref), q, ref, TRUE))
              /\ caller' = [caller EXCEPT ![c].step = "returned"]
           \/ /\ ~allowed
              /\ caller' = [caller EXCEPT ![c].step = "refused"]
              /\ UNCHANGED accountVars
        /\ UNCHANGED <<purchaseVars, jobVars>>

-----------------------------------------------------------------------------
(* Purchases *)

Held(e) == {p \in Products : holder[p] = e}

\* create_purchase_entry: a draft with its lines; no stock changes.
CreatePurchaseEntry(e) ==
    /\ entry[e] = "NONE" /\ line[e] = 0
    /\ entry' = [entry EXCEPT ![e] = "DRAFT"]
    /\ UNCHANGED <<accountVars, line, caller, jobVars>>

\* Mutant: the status is not checked again under the lock of the entry.
MayConfirmAny(e) == entry[e] # "CANCELLED"

\* A draft may be confirmed; record_purchase_stock_in makes an entry of its
\* own that is confirmed from the start.
MayConfirm(e) == entry[e] \in {"DRAFT", "NONE"}

\* confirm_purchase_entry locks the entry, and record_purchase_stock_in
\* inserts it unseen by others: both then go through the lines.
StartPurchase(e) ==
    /\ MayConfirm(e)
    /\ line[e] = 0
    /\ line' = [line EXCEPT ![e] = 1]
    /\ UNCHANGED <<accountVars, entry, caller, jobVars>>

\* One line: lock its product, move its stock.
PurchaseLine(e) ==
    LET l == LinesOf[e][line[e]]
        p == l.product
    IN  /\ line[e] \in DOMAIN LinesOf[e]
        /\ holder[p] \in {Nobody, e}
        /\ CanMove(draft[p], "PURCHASE", l.quantity)
        /\ draft' = [draft EXCEPT ![p] =
                       Moved(draft[p], "PURCHASE", l.quantity, PurchaseSource(e), FALSE)]
        /\ holder' = [holder EXCEPT ![p] = e]
        /\ line' = [line EXCEPT ![e] = line[e] + 1]
        /\ UNCHANGED <<account, entry, caller, jobVars>>

\* Every line is done: commit.
CommitPurchase(e) ==
    /\ line[e] = Len(LinesOf[e]) + 1
    /\ account' = [p \in Products |-> IF p \in Held(e) THEN draft[p] ELSE account[p]]
    /\ holder' = [p \in Products |-> IF p \in Held(e) THEN Nobody ELSE holder[p]]
    /\ entry' = [entry EXCEPT ![e] = "CONFIRMED"]
    /\ line' = [line EXCEPT ![e] = 0]
    /\ UNCHANGED <<draft, caller, jobVars>>

\* Mutant: the lines already done are kept.
RollbackNothing(e) ==
    /\ account' = [p \in Products |-> IF p \in Held(e) THEN draft[p] ELSE account[p]]
    /\ holder' = [p \in Products |-> IF p \in Held(e) THEN Nobody ELSE holder[p]]
    /\ line' = [line EXCEPT ![e] = 0]
    /\ UNCHANGED <<draft, entry, caller, jobVars>>

\* transaction.atomic rolls back entry, lines, ledger rows and stock together.
Rollback(e) ==
    /\ draft' = [p \in Products |-> IF p \in Held(e) THEN account[p] ELSE draft[p]]
    /\ holder' = [p \in Products |-> IF p \in Held(e) THEN Nobody ELSE holder[p]]
    /\ line' = [line EXCEPT ![e] = 0]
    /\ UNCHANGED <<account, entry, caller, jobVars>>

\* A line is refused: its product cannot hold that much.
RefusePurchaseLine(e) ==
    LET l == LinesOf[e][line[e]]
    IN  /\ line[e] \in DOMAIN LinesOf[e]
        /\ holder[l.product] \in {Nobody, e}
        /\ ~CanMove(draft[l.product], "PURCHASE", l.quantity)
        /\ Rollback(e)

\* Purchase e waits for a product that f has locked.
Waits(e, f) ==
    /\ line[e] \in DOMAIN LinesOf[e]
    /\ f # e
    /\ holder[LinesOf[e][line[e]].product] = f

\* The database ends one transaction of a circle of waiting ones.
AbortDeadlocked(e) ==
    /\ \E circle \in SUBSET Purchases :
          /\ e \in circle
          /\ \A f \in circle : \E g \in circle : Waits(f, g)
    /\ Rollback(e)

\* The worker dies inside the transaction.
LoseWorker(e) == line[e] # 0 /\ Rollback(e)

\* cancel_purchase_entry waits for the entry's lock; drafts only.
CancelPurchaseEntry(e) ==
    /\ line[e] = 0
    /\ entry[e] = "DRAFT"
    /\ entry' = [entry EXCEPT ![e] = "CANCELLED"]
    /\ UNCHANGED <<accountVars, line, caller, jobVars>>

-----------------------------------------------------------------------------
(* initialize_opening_stock_from_catalogue *)

\* products_needing_opening_stock_initialization: a balance and no history.
ListCandidates(j) ==
    /\ jobStep[j] = "idle"
    /\ todo' = [todo EXCEPT ![j] =
                  {p \in Products : account[p].stock > 0 /\ account[p].rows = <<>>}]
    /\ seenStock' = [seenStock EXCEPT ![j] = [p \in Products |-> account[p].stock]]
    /\ jobStep' = [jobStep EXCEPT ![j] = "check"]
    /\ UNCHANGED <<accountVars, purchaseVars, caller, current>>

\* The check whether history appeared, which no lock covers.
CheckCandidate(j, p) ==
    /\ jobStep[j] = "check" /\ p \in todo[j]
    /\ \/ /\ account[p].rows # <<>>
          /\ todo' = [todo EXCEPT ![j] = todo[j] \ {p}]
          /\ UNCHANGED <<jobStep, current>>
       \/ /\ account[p].rows = <<>>
          /\ jobStep' = [jobStep EXCEPT ![j] = "convert"]
          /\ current' = [current EXCEPT ![j] = p]
          /\ UNCHANGED todo
    /\ UNCHANGED <<accountVars, purchaseVars, caller, seenStock>>

\* The command ends, by itself or by an error no one catches.
EndJob(j) ==
    /\ jobStep' = [jobStep EXCEPT ![j] = "idle"]
    /\ todo' = [todo EXCEPT ![j] = {}]
    /\ seenStock' = [seenStock EXCEPT ![j] = [p \in Products |-> 0]]
    /\ current' = [current EXCEPT ![j] = NoProduct]

\* convert_existing_opening_stock, in a transaction of its own.
ConvertOpeningStock(j) ==
    LET p == current[j]
    IN  /\ jobStep[j] = "convert"
        /\ holder[p] = Nobody
        /\ \/ /\ CanConvert(account[p])
              /\ Update(p, Converted(account[p]))
              /\ jobStep' = [jobStep EXCEPT ![j] = "verify"]
              /\ UNCHANGED <<todo, seenStock, current>>
           \/ /\ ~CanConvert(account[p])
              /\ EndJob(j)
              /\ UNCHANGED accountVars
        /\ UNCHANGED <<purchaseVars, caller>>

\* The balance is read again and compared with the one the candidate had.
VerifyBalance(j) ==
    LET p == current[j]
    IN  /\ jobStep[j] = "verify"
        /\ \/ /\ account[p].stock = seenStock[j][p]
              /\ jobStep' = [jobStep EXCEPT ![j] = "check"]
              /\ todo' = [todo EXCEPT ![j] = todo[j] \ {p}]
              /\ current' = [current EXCEPT ![j] = NoProduct]
              /\ UNCHANGED seenStock
           \/ /\ account[p].stock # seenStock[j][p]
              /\ EndJob(j)
        /\ UNCHANGED <<accountVars, purchaseVars, caller>>

FinishJob(j) ==
    /\ jobStep[j] = "check" /\ todo[j] = {}
    /\ EndJob(j)
    /\ UNCHANGED <<accountVars, purchaseVars, caller>>

-----------------------------------------------------------------------------
(* Specification *)

Init ==
    /\ account = [p \in Products |-> [stock |-> InitialStock[p], rows |-> <<>>]]
    /\ draft = account
    /\ holder = [p \in Products |-> Nobody]
    /\ entry = [e \in Purchases |-> "NONE"]
    /\ line = [e \in Purchases |-> 0]
    /\ caller = [c \in Callers |-> [ref |-> NoSource, step |-> "idle"]]
    /\ jobStep = [j \in Jobs |-> "idle"]
    /\ todo = [j \in Jobs |-> {}]
    /\ seenStock = [j \in Jobs |-> [p \in Products |-> 0]]
    /\ current = [j \in Jobs |-> NoProduct]

AdvancePurchase(e) ==
    \/ PurchaseLine(e)
    \/ RefusePurchaseLine(e)
    \/ CommitPurchase(e)
    \/ AbortDeadlocked(e)

\* The movement forms of both portals.
MovementForm(p, q) == \E type \in ManualTypes : RecordManual(p, type, q)

\* The life of a purchase entry.
PurchaseStep(e) ==
    \/ CreatePurchaseEntry(e)
    \/ StartPurchase(e)
    \/ AdvancePurchase(e)
    \/ LoseWorker(e)
    \/ CancelPurchaseEntry(e)

\* A run of the command initialize_opening_stock.
CommandStep(j) ==
    \/ ListCandidates(j)
    \/ \E p \in Products : CheckCandidate(j, p)
    \/ ConvertOpeningStock(j)
    \/ VerifyBalance(j)
    \/ FinishJob(j)

Next ==
    \/ \E p \in Products, q \in Quantities : MovementForm(p, q) \/ RecordOpeningStock(p, q)
    \/ \E c \in Callers : (\E ref \in References : LookUpReference(c, ref)) \/ MoveOrderStock(c)
    \/ \E e \in Purchases : PurchaseStep(e)
    \/ \E j \in Jobs : CommandStep(j)

Spec == Init /\ [][Next]_vars

-----------------------------------------------------------------------------
(* Properties *)

Sources == {NoSource} \cup References \cup {PurchaseSource(e) : e \in Purchases}

Rows == [type : InTypes \cup OutTypes, quantity : 1 .. MaxQuantity,
         previous : 0 .. MaxQuantity, new : 0 .. MaxQuantity,
         source : Sources, system : BOOLEAN]

Accounts == [stock : 0 .. MaxQuantity, rows : Seq(Rows)]

\* Every field holds a value of its type; no balance and no ledger row is
\* negative or too large for its column.
TypeOK ==
    /\ account \in [Products -> Accounts]
    /\ draft \in [Products -> Accounts]
    /\ holder \in [Products -> Purchases \cup {Nobody}]
    /\ entry \in [Purchases -> {"NONE", "DRAFT", "CONFIRMED", "CANCELLED"}]
    /\ line \in [Purchases -> Nat]
    /\ caller \in [Callers -> [ref : References \cup {NoSource},
                               step : {"idle", "move", "returned", "refused"}]]
    /\ jobStep \in [Jobs -> {"idle", "check", "convert", "verify"}]
    /\ todo \in [Jobs -> SUBSET Products]
    /\ seenStock \in [Jobs -> [Products -> 0 .. MaxQuantity]]
    /\ current \in [Jobs -> Products \cup {NoProduct}]

\* The balance before the k-th row of account a of product p.
BalanceBefore(p, a, k) == IF k = 1 THEN InitialStock[p] ELSE a.rows[k - 1].new

\* A movement starts from the balance the row before it left; a conversion
\* states that balance.
RowExplained(p, a, k) ==
    LET row == a.rows[k]
    IN  IF IsConversion(row)
        THEN row.previous = 0 /\ row.new = BalanceBefore(p, a, k) /\ row.quantity = row.new
        ELSE /\ row.previous = BalanceBefore(p, a, k)
             /\ row.new = row.previous + Signed(row.type, row.quantity)

Explained(p, a) ==
    /\ \A k \in DOMAIN a.rows : RowExplained(p, a, k)
    /\ a.stock = BalanceBefore(p, a, Len(a.rows) + 1)

\* The ledger explains every balance: read from the first row to the last it
\* leads, without a gap, from the balance the shop started with to the one
\* on the product, whatever portal forms, orders, purchases and the
\* opening-stock command interleave.
LedgerExplainsBalance == \A p \in Products : Explained(p, account[p])

OneOpening(a) ==
    \A k, l \in DOMAIN a.rows : IsOpening(a.rows[k]) /\ IsOpening(a.rows[l]) => k = l

\* Opening stock is in the ledger at most once per product, whether recorded
\* or converted.
OpeningOnce == \A p \in Products : OneOpening(account[p])

OneRowPerReference(a) ==
    \A k, l \in DOMAIN a.rows :
        a.rows[k].source = a.rows[l].source /\ a.rows[k].source \in References => k = l

\* "Immutable once-only ledger references": an order item's stock is deducted
\* at most once and restored at most once however requests are repeated and
\* raced, and a caller that was answered can rely on its movement.
ReferenceOnce ==
    /\ \A p \in Products : OneRowPerReference(account[p])
    /\ \A c \in Callers : caller[c].step = "returned" => Recorded(caller[c].ref)

\* The lines of purchase e up to the n-th that add to product p.
LinesFor(e, p, n) == {k \in 1 .. n : LinesOf[e][k].product = p}

\* Account a of product p has exactly one row of purchase e for each of these
\* lines, with its quantity and in their order.
Booked(a, e, p, n) ==
    \E at \in [LinesFor(e, p, n) -> DOMAIN a.rows] :
        /\ \A k, l \in LinesFor(e, p, n) : k < l => at[k] < at[l]
        /\ \A k \in LinesFor(e, p, n) : a.rows[at[k]].quantity = LinesOf[e][k].quantity
        /\ \A r \in DOMAIN a.rows :
              a.rows[r].source = PurchaseSource(e) <=> \E k \in LinesFor(e, p, n) : at[k] = r

\* How many lines of a purchase the ledger owes it: all or none.
Settled(e) == IF entry[e] = "CONFIRMED" THEN Len(LinesOf[e]) ELSE 0

\* A confirmed purchase is in the ledger with each of its lines once, in
\* order; one that is not confirmed, or whose transaction failed or died at
\* any line, has left nothing.
PurchaseAllOrNothing ==
    \A e \in Purchases, p \in Products : Booked(account[p], e, p, Settled(e))

\* No committed ledger row is ever changed, moved or lost.
LedgerAppendOnly ==
    [][\A p \in Products :
        \A k \in DOMAIN account[p].rows :
            /\ k \in DOMAIN account'[p].rows
            /\ account'[p].rows[k] = account[p].rows[k]]_vars

\* A balance is converted to opening stock only while the product has no
\* history: "Re-check under the conversion lock path; skip if history
\* appeared."
ConvertsOnlyWithoutHistory ==
    [][\A p \in Products :
        LET before == account[p].rows
            after == account'[p].rows
        IN  Len(after) = Len(before) + 1 /\ IsConversion(after[Len(after)])
            => before = <<>>]_vars

-----------------------------------------------------------------------------
(* What readers of the inventory may rely on *)

Journal == INSTANCE StockJournal

\* What is committed is a journal: transactions that lock, read, write, fail
\* and die in any order add whole movements and whole purchases to it, one
\* after the other, each from the balance the one before it left.
KeepsJournal == Journal!Spec
=============================================================================
