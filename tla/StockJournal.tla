----------------------------- MODULE StockJournal -----------------------------
(***************************************************************************)
(* What the inventory promises to whoever reads balances and ledger: they  *)
(* change together and by whole entries.  One movement of one product is   *)
(* an entry, and so is a purchase with all of its lines.  Whatever is at   *)
(* work inside a transaction, under a lock or on an old read, the journal  *)
(* only ever gets longer, and each new row starts from the balance that    *)
(* the row before it left.                                                 *)
(***************************************************************************)
EXTENDS Integers, Sequences

CONSTANTS
    Products, Purchases,
    Accounts,           \* balances, each with a sequence of ledger rows
    LinesOf,            \* the lines of a purchase
    References,         \* what moves stock once
    PurchaseSource(_),  \* what the rows of a purchase refer to
    Signed(_, _)        \* by how much a row of this type changes the balance

VARIABLES
    account,            \* per product: balance and ledger
    entry               \* the status of a purchase entry

vars == <<account, entry>>

Init ==
    /\ account \in [Products -> Accounts]
    /\ \A p \in Products : account[p].rows = <<>>
    /\ entry = [e \in Purchases |-> "NONE"]

-----------------------------------------------------------------------------
(* How an account may grow *)

NewRows(a, b) == DOMAIN b.rows \ DOMAIN a.rows

\* The balance before the k-th row of account b, which was a before.
BalanceAt(a, b, k) == IF k = Len(a.rows) + 1 THEN a.stock ELSE b.rows[k - 1].new

\* A row moves the balance, or it states a balance there is no row for.
Follows(row, balance) ==
    IF row.type = "OPENING" /\ row.system
    THEN row.previous = 0 /\ row.new = balance /\ row.quantity = balance
    ELSE row.previous = balance /\ row.new = balance + Signed(row.type, row.quantity)

\* Account b is a with more rows, which lead from the balance of a to that of b.
Continues(a, b) ==
    /\ \A k \in DOMAIN a.rows : k \in DOMAIN b.rows /\ b.rows[k] = a.rows[k]
    /\ \A k \in NewRows(a, b) : Follows(b.rows[k], BalanceAt(a, b, k))
    /\ b.stock = BalanceAt(a, b, Len(b.rows) + 1)

LinesFor(e, p) == {k \in DOMAIN LinesOf[e] : LinesOf[e][k].product = p}

\* The new rows of account b are the lines of e for product p, in their order.
Enters(e, p, a, b) ==
    \E at \in [LinesFor(e, p) -> NewRows(a, b)] :
        /\ \A k, l \in LinesFor(e, p) : k < l => at[k] < at[l]
        /\ \A r \in NewRows(a, b) : \E k \in LinesFor(e, p) : at[k] = r
        /\ \A k \in LinesFor(e, p) :
              /\ b.rows[at[k]].type = "PURCHASE"
              /\ b.rows[at[k]].source = PurchaseSource(e)
              /\ b.rows[at[k]].quantity = LinesOf[e][k].quantity

-----------------------------------------------------------------------------
(* Steps *)

\* One movement of one product that is no purchase: a second opening, or a
\* second row for a reference, is no movement.
Post(p) ==
    LET a == account[p]
        b == account'[p]
        last == Len(a.rows) + 1
    IN  /\ NewRows(a, b) = {last}
        /\ Continues(a, b)
        /\ \A q \in Products \ {p} : account'[q] = account[q]
        /\ account' \in [Products -> Accounts]
        /\ \A e \in Purchases : b.rows[last].source # PurchaseSource(e)
        /\ \A k \in DOMAIN a.rows :
              /\ ~(a.rows[k].type = "OPENING" /\ b.rows[last].type = "OPENING")
              /\ b.rows[last].source \in References => a.rows[k].source # b.rows[last].source
        /\ UNCHANGED entry

\* A whole purchase: a draft, or one that was never seen as a draft.
Record(e) ==
    /\ entry[e] \in {"NONE", "DRAFT"}
    /\ entry' = [entry EXCEPT ![e] = "CONFIRMED"]
    /\ account' \in [Products -> Accounts]
    /\ \A p \in Products :
          /\ Continues(account[p], account'[p])
          /\ Enters(e, p, account[p], account'[p])

\* A draft is made, or it is given up.
Prepare(e) ==
    /\ \/ entry[e] = "NONE" /\ entry' = [entry EXCEPT ![e] = "DRAFT"]
       \/ entry[e] = "DRAFT" /\ entry' = [entry EXCEPT ![e] = "CANCELLED"]
    /\ UNCHANGED account

Next ==
    \/ \E p \in Products : Post(p)
    \/ \E e \in Purchases : Prepare(e) \/ Record(e)

Spec == Init /\ [][Next]_vars
=============================================================================
