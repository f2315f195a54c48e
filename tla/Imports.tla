-------------------------------- MODULE Imports --------------------------------
(***************************************************************************)
(* Both imports at work on the same stores: the photo workspace of module  *)
(* PhotoImport and the manifest pages of module BulkImport.                *)
(***************************************************************************)
EXTENDS PhotoImport, BulkImport

\* The SKU of a row is never one that is made from a group of photos.
ASSUME SkusAssumption == \A r \in 1..Rows, group \in Groups : RowSku[r] # group

vars == <<product, storeLock, photoVars, bulkVars>>

Init == CatalogueInit /\ PhotoInit /\ BulkInit

\* Bound: a page is used in stores where no photos were staged, and the
\* workspace in stores where no page was used.  What one of them leaves is for
\* the other a product with a name, which rows of a manifest leave as well.
WorkspaceUntouched == batchStore = None /\ \A i \in Items : item[i] = None
PagesUntouched == \A c \in Pages : page[c] = IdlePage

Next ==
    \/ PhotoNext /\ UNCHANGED bulkVars /\ PagesUntouched
    \/ BulkNext /\ UNCHANGED photoVars /\ WorkspaceUntouched

\* The script of an open page goes on, its connection ends at the latest when
\* the server's worker is stopped for taking too long, and a worker comes to
\* an end of its request; nobody has to press a button.
Fairness ==
    /\ \A c \in Pages : WF_vars(PageStep(c) /\ UNCHANGED photoVars)
    /\ \A w \in Workers : WF_vars(WorkerStep(w) /\ UNCHANGED photoVars)

Spec == Init /\ [][Next]_vars /\ Fairness

-----------------------------------------------------------------------------
(* Properties *)

Imported(i) == item[i] # None /\ item[i].product # None

\* The photos an imported product shows are never deleted, although it shows
\* the very files of the workspace, where photos of other items are removed,
\* split off and uploaded at the same time (remove_photo, import_item).
FilesKept ==
    \A s \in Stores, sku \in Skus : InCatalogue(s, sku) => product[<<s, sku>>].images \subseteq stored

\* Every imported item is linked to a product of its own source, in the store
\* of its batch: also after retries, and for items imported one after the
\* other while somebody chooses the store (batch_detail, import_item).
ImportedInBatchStore ==
    \A i \in Items : Imported(i) =>
        item[i].product = <<batchStore, item[i].hash>> /\ InCatalogue(batchStore, item[i].hash)

\* Nothing is imported from a group that was split since its identity was
\* verified: somebody has looked at what was left (split, validated_item).
ImportedReviewed == \A i \in Items : Imported(i) => reviewed[i]

\* Two rows of a manifest with the same name become one product of a store,
\* whatever was sent twice, lost or stopped in between (import_row).
NamesOnce ==
    \A s \in Stores, r1, r2 \in 1..Rows :
        (RowSku[r1] # RowSku[r2] /\ InCatalogue(s, RowSku[r1]) /\ InCatalogue(s, RowSku[r2]))
            => RowName[r1] # RowName[r2]

\* What an answer has told the page of a row is so, and is shown at that row: a
\* created or existing row is in the catalogue, and the name of the duplicate
\* of another SKU is.  A failed row and a "duplicate of undefined" may be in the
\* catalogue or not (importRow, import_row).
ReportsTrue ==
    \A c \in Pages : page[c].running => \A r \in 1..page[c].index :
        LET shown == page[c].result[r]
            s == page[c].store
        IN  /\ shown \in {"created", "exists"} => InCatalogue(s, RowSku[r])
            /\ shown = "duplicate" =>
                  \E sku \in Skus \ {RowSku[r]} : InCatalogue(s, sku) /\ product[<<s, sku>>].name = RowName[r]

\* A run of the page comes to its end, with rows that lack an image, answers
\* that are lost and rows that fail.
RunsEnd == \A c \in Pages : page[c].running ~> ~page[c].running
=============================================================================
