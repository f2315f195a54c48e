------------------------------- MODULE BulkImport -------------------------------
(***************************************************************************)
(* The bulk import: a page in the browser sends the rows of a manifest one *)
(* by one, each as a request of its own that creates one pending product,  *)
(* and shows what became of it.  An answer may be lost: the page counts    *)
(* the row as failed and goes on while the server may still be working on  *)
(* it; the same rows are then sent again, from this page or another one.   *)
(* An answer of status 200 that cannot be read, because its body is cut or *)
(* is the login page, is shown as "Duplicate of undefined" and counted as  *)
(* a duplicate, whatever has become of the row.                            *)
(***************************************************************************)
EXTENDS ImportCatalogue

CONSTANTS
    Pages,          \* browser pages that have loaded the manifest
    Rows,           \* its number of rows; row r has the SKU NP-r
    RowSku, RowName,
    WithImage,      \* rows whose image is in the folder
    Workers         \* who works on requests at once

Results == {"", "created", "exists", "duplicate", "duplicate of undefined", "failed"}
RequestRows == [page : Pages, store : Stores, row : 1..Rows, outcome : Results, live : BOOLEAN]

ASSUME RowsAssumption ==
    /\ Rows \in Nat /\ RowSku \in [1..Rows -> Skus] /\ RowName \in [1..Rows -> Names]
    /\ \A q, r \in 1..Rows : q # r => RowSku[q] # RowSku[r]
    /\ None \notin RequestRows /\ None \notin Workers

VARIABLES
    page,           \* each page: its store, what it does, what it shows
    request         \* what each worker works on, or None; a request is live
                    \* while its page waits for the answer
bulkVars == <<page, request>>

IdlePage == [store |-> None, running |-> FALSE, stop |-> FALSE, index |-> 0,
             waiting |-> FALSE, result |-> [r \in 1..Rows |-> ""]]

BulkInit == page = [c \in Pages |-> IdlePage] /\ request = [w \in Workers |-> None]

(* The page *)

\* startButton: all rows are gone through again, from the first one.
BulkStart(c, s) ==
    /\ ~page[c].running
    /\ page' = [page EXCEPT ![c].store = s, ![c].running = TRUE, ![c].stop = FALSE, ![c].index = 0]
    /\ UNCHANGED <<request, product, storeLock>>

BulkStop(c) ==
    /\ page[c].running /\ ~page[c].stop
    /\ page' = [page EXCEPT ![c].stop = TRUE]
    /\ UNCHANGED <<request, product, storeLock>>

Ready(c) == page[c].running /\ ~page[c].waiting

\* Mutant: next() waits for a request it never sent.
WaitsForNothing(c, r) == [page EXCEPT ![c].index = r, ![c].result[r] = "failed", ![c].waiting = TRUE]

\* A row without an image fails at once, and next() is called again.
AfterMissing(c, r) == [page EXCEPT ![c].index = r, ![c].result[r] = "failed"]

\* next(): the following row is sent.
NextRow(c) ==
    LET r == page[c].index + 1
    IN  /\ Ready(c) /\ ~page[c].stop /\ r <= Rows
        /\ IF r \notin WithImage
           THEN page' = AfterMissing(c, r) /\ UNCHANGED request
           ELSE /\ page' = [page EXCEPT ![c].index = r, ![c].waiting = TRUE, ![c].result[r] = ""]
                /\ \E w \in Workers :
                      /\ request[w] = None
                      /\ request' = [request EXCEPT ![w] =
                            [page |-> c, store |-> page[c].store, row |-> r, outcome |-> "", live |-> TRUE]]
        /\ UNCHANGED <<product, storeLock>>

\* finish()
Finish(c) ==
    /\ Ready(c)
    /\ page[c].stop \/ page[c].index >= Rows
    /\ page' = [page EXCEPT ![c].running = FALSE]
    /\ UNCHANGED <<request, product, storeLock>>

Answered(c, result) == [page EXCEPT ![c].waiting = FALSE, ![c].result[page[c].index] = result]

\* The connection breaks, before the request reached the server or after.
NoAnswer(c) ==
    \E w \in Workers :
        /\ request[w] # None /\ request[w].page = c /\ request[w].live
        /\ \/ request' = [request EXCEPT ![w].live = FALSE]
           \/ request[w].outcome = "" /\ request' = [request EXCEPT ![w] = None]
        /\ page' = Answered(c, "failed")
        /\ UNCHANGED <<product, storeLock>>

\* The session has ended: the browser follows the redirect to the login page.
LoginPage(c) ==
    \E w \in Workers :
        /\ request[w] # None /\ request[w].page = c /\ request[w].live
        /\ request[w].outcome = ""
        /\ request' = [request EXCEPT ![w] = None]
        /\ page' = Answered(c, "duplicate of undefined")
        /\ UNCHANGED <<product, storeLock>>

(* The server *)

\* Mutant: the store's row is not locked.
NobodyLocks(w) == storeLock

Locked(w) == [storeLock EXCEPT ![request[w].store] = w]
Unlocked(w) == [storeLock EXCEPT ![request[w].store] = None]

\* Mutant: only the SKU is looked for.
OutcomeBySku(s, r) == IF InCatalogue(s, RowSku[r]) THEN "exists" ELSE "created"

\* What import_row finds in the store.
Outcome(s, r) ==
    IF InCatalogue(s, RowSku[r]) THEN "exists"
    ELSE IF \E sku \in Skus : InCatalogue(s, sku) /\ product[<<s, sku>>].name = RowName[r] THEN "duplicate"
    ELSE "created"

\* import_row locks the store and looks for the row's SKU and name.
RowChecked(w) ==
    /\ request[w] # None /\ request[w].outcome = ""
    /\ storeLock[request[w].store] = None
    /\ storeLock' = Locked(w)
    /\ request' = [request EXCEPT ![w].outcome = Outcome(request[w].store, request[w].row)]
    /\ UNCHANGED <<page, product>>

\* Mutant: the answer is shown for the row the page is at.
AnswerAnyRow(w, result) == Answered(request[w].page, result)

Answer(w, result) == IF request[w].live THEN Answered(request[w].page, result) ELSE page

\* The transaction ends, with a product if the row is new, and is answered; the
\* answer's body may be cut.
RowDone(w) ==
    /\ request[w] # None /\ request[w].outcome # ""
    /\ request' = [request EXCEPT ![w] = None]
    /\ storeLock' = Unlocked(w)
    /\ LET q == request[w]
       IN  product' = IF q.outcome = "created"
                      THEN Added(q.store, RowSku[q.row], RowName[q.row], {}, FALSE, FALSE) ELSE product
    /\ \E result \in {request[w].outcome, "duplicate of undefined"} : page' = Answer(w, result)

\* It fails instead: a category that may not be created, a storage error.
RowFails(w) ==
    /\ request[w] # None /\ request[w].outcome # ""
    /\ request' = [request EXCEPT ![w] = None]
    /\ storeLock' = Unlocked(w)
    /\ page' = Answer(w, "failed")
    /\ UNCHANGED product

PageStep(c) == NextRow(c) \/ Finish(c) \/ NoAnswer(c) \/ LoginPage(c)
WorkerStep(w) == RowChecked(w) \/ RowDone(w) \/ RowFails(w)

BulkNext ==
    \/ \E c \in Pages : PageStep(c) \/ BulkStop(c) \/ (\E s \in Stores : BulkStart(c, s))
    \/ \E w \in Workers : WorkerStep(w)
=============================================================================
