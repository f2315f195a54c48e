----------------------------- MODULE ImportsProofs -----------------------------
(***************************************************************************)
(* What holds of the two imports for every number of stores, items, files, *)
(* rows, pages and workers.                                                *)
(*                                                                         *)
(* The workspace and the manifest pages have an invariant each.  They meet *)
(* in the catalogue, to which both only add, under the lock of the store:  *)
(* what the other one adds breaks neither.                                 *)
(***************************************************************************)
EXTENDS Imports, TLAPS

-----------------------------------------------------------------------------
(* The invariants *)

CatalogueTypes ==
    /\ product \in [Stores \X Skus -> ProductRows \cup {None}]
    /\ storeLock \in [Stores -> Workers \cup {None}]

PhotoTypes ==
    /\ batchStore \in Stores \cup {None}
    /\ item \in [Items -> ItemRows \cup {None}]
    /\ photo \in [Files -> PhotoRows \cup {None}]
    /\ uploading \in [Items -> Pictures \cup {None}]
    /\ reviewed \in [Items -> BOOLEAN]

\* Every photo of the workspace has its file, which nobody will delete, and
\* the file of a new photo is none of those that are still to be deleted.
FilesThere ==
    /\ doomed \subseteq stored
    /\ \A f \in Files : photo[f] # None => f \in stored /\ f \notin doomed

\* A product shows photos of imported items, which can no longer be changed.
ShownImported ==
    \A s \in Stores, sku \in Skus : InCatalogue(s, sku) =>
        \A f \in product[<<s, sku>>].images : photo[f] # None /\ Imported(photo[f].item)

Verified ==
    \A i \in Items :
        item[i] # None /\ (item[i].details.identity \/ item[i].product # None) => reviewed[i]

PInv == PhotoTypes /\ FilesThere /\ ShownImported /\ ImportedInBatchStore /\ Verified

PageRows == [store : Stores \cup {None}, running : BOOLEAN, stop : BOOLEAN, index : 0..Rows,
             waiting : BOOLEAN, result : [1..Rows -> Results]]

BulkTypes ==
    /\ page \in [Pages -> PageRows]
    /\ request \in [Workers -> RequestRows \cup {None}]

Decided(w) == request[w] # None /\ request[w].outcome # ""
Live(w) == request[w] # None /\ request[w].live

\* A worker that has looked for its row holds the store.
Holding == \A w \in Workers : Decided(w) => storeLock[request[w].store] = w

NameIn(s, name) == \E sku \in Skus : InCatalogue(s, sku) /\ product[<<s, sku>>].name = name

\* What it has found is still so.
Found(s, r, outcome) ==
    /\ outcome = "exists" => InCatalogue(s, RowSku[r])
    /\ outcome = "created" => ~InCatalogue(s, RowSku[r]) /\ ~NameIn(s, RowName[r])
    /\ outcome = "duplicate" =>
          \E sku \in Skus \ {RowSku[r]} : InCatalogue(s, sku) /\ product[<<s, sku>>].name = RowName[r]

StillFound == \A w \in Workers : Decided(w) => Found(request[w].store, request[w].row, request[w].outcome)

\* A page waits for one request, that of the row it is at.
Waiting ==
    \A w \in Workers : Live(w) =>
        /\ page[request[w].page].running /\ page[request[w].page].waiting
        /\ page[request[w].page].store = request[w].store
        /\ page[request[w].page].index = request[w].row
        /\ \A v \in Workers : v # w /\ Live(v) => request[v].page # request[w].page

StoresChosen == \A c \in Pages : page[c].running => page[c].store \in Stores

\* The product with a row's SKU came from that row.
RowsNamed ==
    \A s \in Stores, r \in 1..Rows : InCatalogue(s, RowSku[r]) => product[<<s, RowSku[r]>>].name = RowName[r]

CInv ==
    /\ CatalogueTypes /\ BulkTypes /\ Holding /\ StillFound /\ Waiting /\ StoresChosen
    /\ RowsNamed /\ NamesOnce /\ ReportsTrue

IInv == PInv /\ CInv

-----------------------------------------------------------------------------
(* The catalogue *)

\* Products are added, never changed.
Grows == \A s \in Stores, sku \in Skus : InCatalogue(s, sku) => product'[<<s, sku>>] = product[<<s, sku>>]

LEMMA AddGrows ==
    ASSUME CatalogueTypes, NEW s \in Stores, NEW sku \in Skus, NEW row \in ProductRows,
           ~InCatalogue(s, sku), product' = [product EXCEPT ![<<s, sku>>] = row]
    PROVE  /\ product' \in [Stores \X Skus -> ProductRows \cup {None}]
           /\ Grows
           /\ product'[<<s, sku>>] = row /\ InCatalogue(s, sku)'
           /\ \A t \in Stores, k \in Skus : t # s \/ k # sku => product'[<<t, k>>] = product[<<t, k>>]
  BY ProductsAssumption DEF CatalogueTypes, Grows, InCatalogue

LEMMA InitiallyPhotos == CatalogueInit /\ PhotoInit => PInv
  BY DEF CatalogueInit, PhotoInit, PInv, PhotoTypes, FilesThere, ShownImported, Verified,
     ImportedInBatchStore, InCatalogue, Imported

LEMMA InitiallyRows == CatalogueInit /\ BulkInit => CInv
<1> SUFFICES ASSUME CatalogueInit, BulkInit PROVE CInv
  OBVIOUS
<1>1. IdlePage \in PageRows /\ ~IdlePage.running
  BY RowsAssumption DEF IdlePage, PageRows, Results
<1>2. CatalogueTypes /\ BulkTypes
  BY <1>1 DEF CatalogueInit, BulkInit, CatalogueTypes, BulkTypes
<1>3. \A s \in Stores, r \in 1..Rows : ~InCatalogue(s, RowSku[r])
  BY RowsAssumption DEF CatalogueInit, InCatalogue
<1>4. \A c \in Pages : ~page[c].running
  BY <1>1 DEF BulkInit
<1> QED
  BY <1>2, <1>3, <1>4 DEF BulkInit, CInv, Holding, StillFound, Waiting, StoresChosen, RowsNamed,
     NamesOnce, ReportsTrue, Decided, Live

-----------------------------------------------------------------------------
(* The workspace *)

\* Nothing of the workspace changes, and products without photos are added.
LEMMA PhotosAside ==
    ASSUME PInv, UNCHANGED photoVars, Grows,
           \A s \in Stores, sku \in Skus :
              InCatalogue(s, sku)' /\ ~InCatalogue(s, sku) => product'[<<s, sku>>].images = {}
    PROVE  PInv'
<1>1. PhotoTypes' /\ FilesThere' /\ Verified'
  BY DEF PInv, photoVars, PhotoTypes, FilesThere, Verified
<1>2. \A s \in Stores, sku \in Skus : InCatalogue(s, sku) => InCatalogue(s, sku)'
  BY DEF Grows, InCatalogue
<1>3. \A i \in Items : Imported(i)' <=> Imported(i)
  BY DEF photoVars, Imported
<1>4. ImportedInBatchStore'
  <2> SUFFICES ASSUME NEW i \in Items, Imported(i)
               PROVE  item'[i].product = <<batchStore', item'[i].hash>> /\ InCatalogue(batchStore, item[i].hash)'
    BY <1>3 DEF ImportedInBatchStore
  <2>1. item[i].product = <<batchStore, item[i].hash>> /\ InCatalogue(batchStore, item[i].hash)
    BY DEF PInv, ImportedInBatchStore
  <2>2. item[i] \in ItemRows /\ item[i].product # None
    BY DEF PInv, PhotoTypes, Imported
  <2>3. item[i].product \in Stores \X Skus
    BY <2>2 DEF ItemRows
  <2>4. batchStore \in Stores /\ item[i].hash \in Skus
    BY <2>1, <2>3
  <2> QED
    BY <2>1, <2>4 DEF photoVars, Grows, InCatalogue
<1>5. ShownImported'
  <2> SUFFICES ASSUME NEW s \in Stores, NEW sku \in Skus, InCatalogue(s, sku)', NEW f \in product'[<<s, sku>>].images
               PROVE  photo[f] # None /\ Imported(photo[f].item)
    BY <1>3 DEF ShownImported, photoVars, Imported
  <2>1. InCatalogue(s, sku) /\ product'[<<s, sku>>] = product[<<s, sku>>]
    BY DEF Grows
  <2> QED
    BY <2>1 DEF PInv, ShownImported
<1> QED
  BY <1>1, <1>4, <1>5 DEF PInv

\* A request at the workspace that imports nothing and spares what is imported.
LEMMA PhotosChanged ==
    ASSUME PInv, CatalogueTypes, product' = product, PhotoTypes', FilesThere', Verified',
           \A i \in Items : Imported(i)' <=> Imported(i),
           \A i \in Items : Imported(i) =>
              /\ item'[i].product = item[i].product /\ item'[i].hash = item[i].hash
              /\ batchStore' = batchStore,
           \A f \in Files : photo[f] # None /\ Imported(photo[f].item) =>
              photo'[f] # None /\ photo'[f].item = photo[f].item
    PROVE  PInv'
<1>1. ImportedInBatchStore'
  <2> SUFFICES ASSUME NEW i \in Items, Imported(i)
               PROVE  item'[i].product = <<batchStore', item'[i].hash>> /\ InCatalogue(batchStore, item[i].hash)'
    BY DEF ImportedInBatchStore
  <2>1. item[i].product = <<batchStore, item[i].hash>> /\ InCatalogue(batchStore, item[i].hash)
    BY DEF PInv, ImportedInBatchStore
  <2> QED
    BY <2>1 DEF InCatalogue
<1>2. ShownImported'
  <2> SUFFICES ASSUME NEW s \in Stores, NEW sku \in Skus, InCatalogue(s, sku), NEW f \in product[<<s, sku>>].images
               PROVE  photo'[f] # None /\ Imported(photo[f].item)'
    BY DEF ShownImported, InCatalogue
  <2>1. f \in Files
    BY DEF CatalogueTypes, InCatalogue, ProductRows
  <2>2. photo[f] # None /\ Imported(photo[f].item)
    BY DEF PInv, ShownImported
  <2>3. photo[f].item \in Items
    BY <2>1, <2>2 DEF PInv, PhotoTypes, PhotoRows
  <2>4. photo'[f] # None /\ photo'[f].item = photo[f].item
    BY <2>1, <2>2
  <2>5. Imported(photo[f].item)' <=> item'[photo'[f].item] # None /\ item'[photo'[f].item].product # None
    BY DEF Imported
  <2>6. item'[photo[f].item] # None /\ item'[photo[f].item].product # None
    BY <2>2, <2>3 DEF Imported
  <2> QED
    BY <2>4, <2>5, <2>6
<1> QED
  BY <1>1, <1>2 DEF PInv

LEMMA ItemMade ==
    ASSUME NEW hash \in Groups, NEW details \in DetailsRows
    PROVE  /\ NewItem(hash, details) \in ItemRows /\ NewItem(hash, details) # None
           /\ NewItem(hash, details).hash = hash /\ NewItem(hash, details).details = details
           /\ NewItem(hash, details).product = None
  BY PhotosAssumption DEF NewItem, ItemRows

\* Other details of an item are an item still.
LEMMA DetailsMade ==
    ASSUME NEW old \in ItemRows, NEW details \in DetailsRows
    PROVE  /\ [old EXCEPT !.details = details] \in ItemRows /\ [old EXCEPT !.details = details] # None
           /\ [old EXCEPT !.details = details].hash = old.hash
           /\ [old EXCEPT !.details = details].details = details
           /\ [old EXCEPT !.details = details].product = old.product
  BY PhotosAssumption DEF ItemRows

LEMMA PhotoMade ==
    ASSUME NEW i \in Items, NEW pic \in Pictures, NEW chosen \in BOOLEAN
    PROVE  /\ [item |-> i, picture |-> pic, selected |-> chosen] \in PhotoRows
           /\ [item |-> i, picture |-> pic, selected |-> chosen] # None
           /\ [item |-> i, picture |-> pic, selected |-> chosen].item = i
  BY PhotosAssumption DEF PhotoRows

LEMMA NoDetailsMade == NoDetails \in DetailsRows /\ ~NoDetails.identity
  BY DEF NoDetails, DetailsRows

\* An item is made or its details change, and photos that are not imported.
LEMMA ItemChanged ==
    ASSUME PInv, CatalogueTypes, NEW i \in Items, NEW row \in ItemRows, row # None,
           UNCHANGED <<product, batchStore, uploading>>,
           photo' \in [Files -> PhotoRows \cup {None}], FilesThere',
           \A f \in Files : photo[f] # None /\ Imported(photo[f].item) =>
              photo'[f] # None /\ photo'[f].item = photo[f].item,
           item' = [item EXCEPT ![i] = row],
           reviewed' = reviewed \/ reviewed' = [reviewed EXCEPT ![i] = TRUE],
           row.product = IF item[i] = None THEN None ELSE item[i].product,
           item[i] # None => row.hash = item[i].hash,
           row.details.identity \/ row.product # None => reviewed'[i]
    PROVE  PInv'
<1>1. item'[i] = row /\ \A j \in Items \ {i} : item'[j] = item[j]
  BY DEF PInv, PhotoTypes
<1>2. PhotoTypes'
  BY DEF PInv, PhotoTypes
<1>3. \A j \in Items : reviewed[j] => reviewed'[j]
  BY DEF PInv, PhotoTypes
<1>4. Verified'
  BY <1>1, <1>3 DEF PInv, Verified
<1>5. \A j \in Items : Imported(j)' <=> Imported(j)
  BY <1>1 DEF Imported
<1>6. \A j \in Items : Imported(j) => item'[j].product = item[j].product /\ item'[j].hash = item[j].hash
  BY <1>1 DEF Imported
<1> QED
  BY <1>2, <1>4, <1>5, <1>6, PhotosChanged

\* Photos change, of items that are not imported, and no item does.
LEMMA OnlyPhotos ==
    ASSUME PInv, CatalogueTypes, UNCHANGED <<product, batchStore, item>>,
           reviewed' \in [Items -> BOOLEAN], \A i \in Items : reviewed[i] => reviewed'[i],
           photo' \in [Files -> PhotoRows \cup {None}],
           uploading' \in [Items -> Pictures \cup {None}],
           FilesThere',
           \A f \in Files : photo[f] # None /\ Imported(photo[f].item) =>
              photo'[f] # None /\ photo'[f].item = photo[f].item
    PROVE  PInv'
<1>1. PhotoTypes' /\ Verified'
  BY DEF PInv, PhotoTypes, Verified
<1>2. \A j \in Items : Imported(j)' <=> Imported(j)
  BY DEF Imported
<1> QED
  BY <1>1, <1>2, PhotosChanged

\* The store of the batch is chosen while nothing is imported.
LEMMA StoreChoice ==
    ASSUME PInv, CatalogueTypes, NEW s \in Stores, ChooseStore(s)
    PROVE  PInv' /\ UNCHANGED <<product, storeLock>>
<1>1. \A j \in Items : Imported(j) => batchStore' = batchStore
  BY DEF ChooseStore, MayMove, Imported
<1>2. UNCHANGED <<item, photo, stored, doomed, uploading, reviewed, product>> /\ batchStore' \in Stores
  BY DEF ChooseStore
<1>3. PhotoTypes' /\ FilesThere' /\ Verified' /\ \A j \in Items : Imported(j)' <=> Imported(j)
  BY <1>2 DEF PInv, PhotoTypes, FilesThere, Verified, Imported
<1>4. UNCHANGED storeLock
  BY DEF ChooseStore
<1> QED
  BY <1>1, <1>2, <1>3, <1>4, PhotosChanged

LEMMA PhotoStep ==
    ASSUME PInv, CatalogueTypes, NEW i \in Items,
           \/ UploadEnd(i) \/ UploadFails(i) \/ OffersAge(i)
           \/ \E hash \in Folders : UpsertItem(i, hash) \/ \E d \in DetailsForms : StageGroup(i, hash, d)
           \/ \E pic \in Pictures : UploadBegin(i, pic)
           \/ \E d \in DetailsForms, chosen \in SUBSET Files : SaveDetails(i, d, chosen)
           \/ \E new \in Items, moved \in SUBSET Files : i # new /\ Split(i, new, moved)
           \/ \E f \in Files : RemovePhoto(i, f)
    PROVE  PInv'
<1>a. /\ item \in [Items -> ItemRows \cup {None}] /\ photo \in [Files -> PhotoRows \cup {None}]
      /\ uploading \in [Items -> Pictures \cup {None}] /\ reviewed \in [Items -> BOOLEAN]
  BY DEF PInv, PhotoTypes
<1>b. \A f \in Files : photo[f] # None => photo[f] \in PhotoRows /\ photo[f].item \in Items /\ photo[f].picture \in Pictures
  BY <1>a DEF PhotoRows
<1>c. \A j \in Items : item[j] # None =>
        item[j] \in ItemRows /\ item[j].hash \in Groups /\ item[j].details \in DetailsRows
  BY <1>a DEF ItemRows
<1>d. Open(i) => item[i] # None /\ ~Imported(i) /\ item[i].product = None
  BY DEF Open, Imported
<1>2. ASSUME UploadFails(i) PROVE PInv'
  <2>1. stored \subseteq stored' /\ UNCHANGED <<product, batchStore, item, photo, doomed, reviewed>>
    BY <1>2 DEF UploadFails
  <2>2. uploading' \in [Items -> Pictures \cup {None}]
    BY <1>2, <1>a DEF UploadFails
  <2>3. FilesThere'
    BY <2>1 DEF PInv, FilesThere
  <2> QED
    BY <1>a, <2>1, <2>2, <2>3, OnlyPhotos
<1>3. ASSUME UploadEnd(i) PROVE PInv'
  <2>1. PICK f \in FreshFiles :
          /\ stored' = stored \cup {f} /\ doomed' = doomed
          /\ photo' = [photo EXCEPT ![f] = [item |-> i, picture |-> uploading[i],
                          selected |-> Cardinality(Selected(i)) < MaxListing]]
    BY <1>3 DEF UploadEnd
  <2> DEFINE chosen == Cardinality(Selected(i)) < MaxListing
             row == [item |-> i, picture |-> uploading[i], selected |-> chosen]
  <2>2. chosen \in BOOLEAN /\ uploading[i] \in Pictures
    BY <1>3, <1>a DEF UploadEnd
  <2> HIDE DEF chosen
  <2>3. row \in PhotoRows
    BY <2>2, PhotoMade
  <2>4. photo' = [photo EXCEPT ![f] = row]
    BY <2>1 DEF chosen
  <2> HIDE DEF row
  <2>5. f \in Files /\ photo[f] = None /\ f \notin stored
    BY DEF FreshFiles
  <2>6. photo'[f] = row /\ \A g \in Files \ {f} : photo'[g] = photo[g]
    BY <1>a, <2>4, <2>5
  <2>7. photo' \in [Files -> PhotoRows \cup {None}]
    BY <1>a, <2>3, <2>4
  <2>8. FilesThere'
    BY <2>1, <2>5, <2>6 DEF PInv, FilesThere
  <2>9. /\ uploading' \in [Items -> Pictures \cup {None}]
        /\ UNCHANGED <<product, batchStore, item, reviewed>>
    BY <1>3, <1>a DEF UploadEnd
  <2> QED
    BY <1>a, <2>5, <2>6, <2>7, <2>8, <2>9, OnlyPhotos
<1>4. ASSUME OffersAge(i) PROVE PInv'
  <2> DEFINE details == [item[i].details EXCEPT !.offers = "stale"]
             row == [item[i] EXCEPT !.details = details]
  <2>1. item[i] # None /\ item[i] \in ItemRows /\ item[i].details \in DetailsRows
    BY <1>4, <1>c DEF OffersAge
  <2>2. details \in DetailsRows /\ details.identity = item[i].details.identity
    BY <2>1 DEF DetailsRows
  <2>3. item' = [item EXCEPT ![i] = row]
    BY <1>4, <1>a DEF OffersAge
  <2> HIDE DEF details
  <2>4. row \in ItemRows /\ row # None /\ row.hash = item[i].hash /\ row.product = item[i].product /\ row.details = details
    BY <2>1, <2>2, DetailsMade
  <2> HIDE DEF row
  <2>5. UNCHANGED <<product, batchStore, photo, stored, doomed, uploading, reviewed>>
    BY <1>4 DEF OffersAge
  <2>6. FilesThere'
    BY <2>5 DEF PInv, FilesThere
  <2>7. row.details.identity \/ row.product # None => reviewed'[i]
    BY <2>1, <2>2, <2>4, <2>5 DEF PInv, Verified
  <2> QED
    BY <1>a, <2>1, <2>3, <2>4, <2>5, <2>6, <2>7, ItemChanged
<1>5. ASSUME NEW hash \in Folders, UpsertItem(i, hash) PROVE PInv'
  <2> DEFINE row == NewItem(hash, NoDetails)
  <2>1. /\ row \in ItemRows /\ row # None /\ row.product = None /\ ~row.details.identity
    BY ItemMade, NoDetailsMade, PhotosAssumption
  <2>2. item[i] = None /\ item' = [item EXCEPT ![i] = row]
        /\ UNCHANGED <<product, batchStore, photo, stored, doomed, uploading, reviewed>>
    BY <1>5 DEF UpsertItem
  <2> HIDE DEF row
  <2>3. FilesThere'
    BY <2>2 DEF PInv, FilesThere
  <2> QED
    BY <1>a, <2>1, <2>2, <2>3, ItemChanged
<1>6. ASSUME NEW hash \in Folders, NEW d \in DetailsForms, StageGroup(i, hash, d) PROVE PInv'
  <2>a. PICK new \in SUBSET FreshFiles : \E selected \in SUBSET new : \E picture \in [new -> hash] :
          LET missing == hash \ {photo[f].picture : f \in Staged(i)}
          IN  /\ {picture[f] : f \in new} = missing
              /\ Cardinality(new) = Cardinality(missing)
              /\ uploading[i] \notin missing
              /\ photo' = [f \in Files |->
                    IF f \in new THEN [item |-> i, picture |-> picture[f], selected |-> f \in selected]
                    ELSE photo[f]]
              /\ stored' = stored \cup new
    BY <1>6, Zenon DEF StageGroup
  <2>b. PICK selected \in SUBSET new : \E picture \in [new -> hash] :
          /\ photo' = [f \in Files |->
                IF f \in new THEN [item |-> i, picture |-> picture[f], selected |-> f \in selected] ELSE photo[f]]
          /\ stored' = stored \cup new
    BY <2>a, Zenon
  <2>1. PICK picture \in [new -> hash] :
          /\ photo' = [f \in Files |->
                IF f \in new THEN [item |-> i, picture |-> picture[f], selected |-> f \in selected] ELSE photo[f]]
          /\ stored' = stored \cup new
    BY <2>b, Zenon
  <2>2. hash \in Groups /\ hash \subseteq Pictures /\ d \in DetailsRows
    BY PhotosAssumption DEF Groups
  <2>3. \A f \in new : f \in Files /\ photo[f] = None /\ picture[f] \in Pictures
    BY <2>2 DEF FreshFiles
  <2>4. \A f \in new : photo'[f] \in PhotoRows
    <3> SUFFICES ASSUME NEW f \in new PROVE photo'[f] \in PhotoRows
      OBVIOUS
    <3> DEFINE chosen == f \in selected
    <3>1. chosen \in BOOLEAN
      OBVIOUS
    <3>2. photo'[f] = [item |-> i, picture |-> picture[f], selected |-> chosen]
      BY <2>1, <2>3
    <3> HIDE DEF chosen
    <3> QED
      BY <2>3, <3>1, <3>2, PhotoMade
  <2>5. \A f \in Files \ new : photo'[f] = photo[f]
    BY <2>1
  <2>6. photo' \in [Files -> PhotoRows \cup {None}]
    <3>1. \A f \in Files : photo'[f] \in PhotoRows \cup {None}
      BY <1>a, <2>4, <2>5
    <3>2. photo' = [f \in Files |-> photo'[f]]
      BY <2>1
    <3> QED
      BY <3>1, <3>2
  <2>7. FilesThere'
    <3>1. doomed' = doomed /\ \A f \in new : f \notin stored
      BY <1>6 DEF StageGroup, FreshFiles
    <3> QED
      BY <2>1, <2>5, <3>1 DEF PInv, FilesThere
  <2>8. \A f \in Files : photo[f] # None => photo'[f] = photo[f]
    BY <2>3, <2>5
  <2>9. UNCHANGED <<product, batchStore, uploading>>
    BY <1>6 DEF StageGroup
  <2>10. CASE item[i] = None
    <3> DEFINE row == NewItem(hash, d)
    <3>1. row \in ItemRows /\ row # None /\ row.product = None
      BY <2>2, ItemMade
    <3>2. item' = [item EXCEPT ![i] = row] /\ reviewed' = [reviewed EXCEPT ![i] = TRUE] /\ reviewed'[i]
      BY <1>6, <1>a, <2>10 DEF StageGroup
    <3> HIDE DEF row
    <3> QED
      BY <2>6, <2>7, <2>8, <2>9, <2>10, <3>1, <3>2, ItemChanged
  <2>11. CASE item[i] # None
    <3>1. item' = item /\ reviewed' = reviewed
      BY <1>6, <2>11 DEF StageGroup
    <3> QED
      BY <1>a, <2>6, <2>7, <2>8, <2>9, <3>1, OnlyPhotos
  <2> QED
    BY <2>10, <2>11
<1>7. ASSUME NEW pic \in Pictures, UploadBegin(i, pic) PROVE PInv'
  <2>1. uploading' \in [Items -> Pictures \cup {None}]
    BY <1>7, <1>a DEF UploadBegin
  <2>2. UNCHANGED <<product, batchStore, item, photo, stored, doomed, reviewed>>
    BY <1>7 DEF UploadBegin
  <2>3. FilesThere'
    BY <2>2 DEF PInv, FilesThere
  <2> QED
    BY <1>a, <2>1, <2>2, <2>3, OnlyPhotos
<1>8. ASSUME NEW d \in DetailsForms, NEW chosen \in SUBSET Files, SaveDetails(i, d, chosen) PROVE PInv'
  <2> DEFINE row == [item[i] EXCEPT !.details = d]
  <2>1. item[i] # None /\ item[i] \in ItemRows /\ item[i].product = None /\ d \in DetailsRows
    BY <1>8, <1>c, <1>d, PhotosAssumption DEF SaveDetails
  <2>2. row \in ItemRows /\ row # None /\ row.hash = item[i].hash /\ row.product = item[i].product
    BY <2>1, DetailsMade
  <2>3. /\ item' = [item EXCEPT ![i] = row] /\ reviewed' = [reviewed EXCEPT ![i] = TRUE]
        /\ UNCHANGED <<product, batchStore, stored, doomed, uploading>>
    BY <1>8, <1>a DEF SaveDetails
  <2> HIDE DEF row
  <2>4. photo' = [f \in Files |->
           IF f \in Staged(i) THEN [photo[f] EXCEPT !.selected = f \in chosen] ELSE photo[f]]
    BY <1>8 DEF SaveDetails
  <2>5. \A f \in Staged(i) : photo'[f] \in PhotoRows /\ photo'[f].item = photo[f].item /\ photo[f] # None
    <3> SUFFICES ASSUME NEW f \in Staged(i)
                 PROVE  photo'[f] \in PhotoRows /\ photo'[f].item = photo[f].item /\ photo[f] # None
      OBVIOUS
    <3> DEFINE c == f \in chosen
    <3>1. c \in BOOLEAN /\ f \in Files /\ photo[f] # None
      BY DEF Staged
    <3>2. photo'[f] = [photo[f] EXCEPT !.selected = c]
      BY <2>4, <3>1
    <3> HIDE DEF c
    <3> QED
      BY <1>b, <3>1, <3>2 DEF PhotoRows
  <2>6. \A f \in Files \ Staged(i) : photo'[f] = photo[f]
    BY <2>4
  <2>7. photo' \in [Files -> PhotoRows \cup {None}]
    <3>1. \A f \in Files : photo'[f] \in PhotoRows \cup {None}
      BY <1>a, <2>5, <2>6
    <3>2. photo' = [f \in Files |-> photo'[f]]
      BY <2>4
    <3> QED
      BY <3>1, <3>2
  <2>8. FilesThere'
    BY <2>3, <2>5, <2>6 DEF PInv, FilesThere
  <2>9. \A f \in Files : photo[f] # None => photo'[f] # None /\ photo'[f].item = photo[f].item
    BY <2>5, <2>6, PhotosAssumption
  <2>10. reviewed'[i]
    BY <1>a, <2>3
  <2> QED
    BY <2>1, <2>2, <2>3, <2>7, <2>8, <2>9, <2>10, ItemChanged
<1>9. ASSUME NEW new \in Items, NEW moved \in SUBSET Files, i # new, Split(i, new, moved) PROVE PInv'
  <2> DEFINE rest == FlagsCleared(item[i].details)
             old == [item[i] EXCEPT !.details = rest]
             hash == {photo[f].picture : f \in moved}
             row == NewItem(hash, NoDetails)
  <2>1. item[i] # None /\ item[i] \in ItemRows /\ item[i].details \in DetailsRows /\ ~Imported(i) /\ item[new] = None
        /\ item[i].product = None
    BY <1>9, <1>c, <1>d DEF Split
  <2>2. \A f \in moved : f \in Staged(i) /\ photo[f] # None /\ photo[f].item = i /\ photo[f] \in PhotoRows
          /\ photo[f].picture \in Pictures
    BY <1>9, <1>b DEF Split, Staged
  <2>3. hash \in Groups
    <3>1. moved # {}
      BY <1>9 DEF Split
    <3>2. PICK f \in moved : photo[f].picture \in hash
      BY <3>1
    <3>3. hash \subseteq Pictures
      BY <2>2
    <3> HIDE DEF hash
    <3> QED
      BY <3>2, <3>3 DEF Groups
  <2>4. rest \in DetailsRows /\ ~rest.identity
    BY <2>1 DEF FlagsCleared, DetailsRows
  <2>5. item' = [item EXCEPT ![new] = row, ![i] = old]
    BY <1>9, <1>a DEF Split
  <2> HIDE DEF rest, hash
  <2>6. row \in ItemRows /\ row # None /\ row.product = None /\ ~row.details.identity
    BY <2>3, ItemMade, NoDetailsMade
  <2>7. old \in ItemRows /\ old # None /\ old.product = None /\ ~old.details.identity
    BY <2>1, <2>4, DetailsMade
  <2> HIDE DEF row, old
  <2>8. item'[i] = old /\ item'[new] = row /\ \A j \in Items \ {i, new} : item'[j] = item[j]
    BY <1>9, <1>a, <2>5
  <2>9. item' \in [Items -> ItemRows \cup {None}]
    BY <1>a, <2>5, <2>6, <2>7
  <2>10. /\ reviewed' \in [Items -> BOOLEAN] /\ \A j \in Items \ {i, new} : reviewed'[j] = reviewed[j]
         /\ UNCHANGED <<product, batchStore, stored, doomed, uploading>>
    BY <1>9, <1>a DEF Split
  <2>11. PICK first \in SUBSET moved : photo' = [f \in Files |->
           IF f \in moved THEN [photo[f] EXCEPT !.item = new, !.selected = f \in first] ELSE photo[f]]
    BY <1>9 DEF Split
  <2>12. \A f \in moved : photo'[f] \in PhotoRows /\ photo[f] # None
    <3> SUFFICES ASSUME NEW f \in moved PROVE photo'[f] \in PhotoRows
      BY <2>2
    <3> DEFINE c == f \in first
    <3>1. c \in BOOLEAN
      OBVIOUS
    <3>2. photo'[f] = [photo[f] EXCEPT !.item = new, !.selected = c]
      BY <2>11
    <3> HIDE DEF c
    <3> QED
      BY <2>2, <3>1, <3>2 DEF PhotoRows
  <2>13. \A f \in Files \ moved : photo'[f] = photo[f]
    BY <2>11
  <2>14. photo' \in [Files -> PhotoRows \cup {None}]
    <3>1. \A f \in Files : photo'[f] \in PhotoRows \cup {None}
      BY <1>a, <2>12, <2>13
    <3>2. photo' = [f \in Files |-> photo'[f]]
      BY <2>11
    <3> QED
      BY <3>1, <3>2
  <2>15. PhotoTypes'
    BY <2>9, <2>10, <2>14 DEF PInv, PhotoTypes
  <2>16. FilesThere'
    BY <2>10, <2>12, <2>13 DEF PInv, FilesThere
  <2>17. Verified'
    BY <2>6, <2>7, <2>8, <2>10 DEF PInv, Verified
  <2>18. \A j \in Items : Imported(j)' <=> Imported(j)
    BY <2>1, <2>6, <2>7, <2>8 DEF Imported
  <2>19. \A j \in Items : Imported(j) => item'[j] = item[j]
    BY <2>1, <2>8 DEF Imported
  <2>20. \A f \in Files : photo[f] # None /\ Imported(photo[f].item) => photo'[f] = photo[f]
    BY <2>1, <2>2, <2>13
  <2> QED
    BY <2>10, <2>15, <2>16, <2>17, <2>18, <2>19, <2>20, PhotosChanged
<1>10. ASSUME NEW f \in Files, RemovePhoto(i, f) PROVE PInv'
  <2>1. /\ ~Imported(i) /\ photo[f] # None /\ photo[f].item = i /\ photo' = [photo EXCEPT ![f] = None]
        /\ stored' = stored /\ doomed' = doomed \cup {f}
    BY <1>10, <1>d DEF RemovePhoto, Removable, Staged
  <2>2. photo'[f] = None /\ \A g \in Files \ {f} : photo'[g] = photo[g]
    BY <1>a, <2>1
  <2>3. photo' \in [Files -> PhotoRows \cup {None}]
    BY <1>a, <2>1
  <2>4. FilesThere'
    BY <2>1, <2>2 DEF PInv, FilesThere
  <2>5. UNCHANGED <<product, batchStore, item, uploading, reviewed>>
    BY <1>10 DEF RemovePhoto
  <2>6. \A g \in Files : photo[g] # None /\ Imported(photo[g].item) => photo'[g] = photo[g]
    BY <2>1, <2>2
  <2> QED
    BY <1>a, <2>3, <2>4, <2>5, <2>6, OnlyPhotos
<1> QED
  BY <1>2, <1>3, <1>4, <1>5, <1>6, <1>7, <1>8, <1>9, <1>10

\* The file of a removed photo goes, or stays in storage.
LEMMA FileGoes ==
    ASSUME PInv, CatalogueTypes, NEW f \in Files, DeleteFile(f)
    PROVE  PInv' /\ UNCHANGED <<product, storeLock>>
<1>1. UNCHANGED <<batchStore, item, photo, uploading, reviewed, product, storeLock>>
  BY DEF DeleteFile
<1>2. f \in doomed /\ doomed' = doomed \ {f} /\ (stored' = stored \/ stored' = stored \ {f})
  BY DEF DeleteFile
<1>3. FilesThere'
  BY <1>1, <1>2 DEF PInv, FilesThere
<1> QED
  BY <1>1, <1>3, OnlyPhotos DEF PInv, PhotoTypes

LEMMA ImportStep ==
    ASSUME PInv, CatalogueTypes, NEW i \in Items, NEW publish \in BOOLEAN, ImportItem(i, publish)
    PROVE  /\ PInv' /\ CatalogueTypes' /\ Grows /\ storeLock' = storeLock
           /\ \A s \in Stores, sku \in Skus : InCatalogue(s, sku)' /\ ~InCatalogue(s, sku) =>
                 storeLock[s] = None /\ sku \in Groups
<1>1. PICK s0 \in Stores : s0 = batchStore /\ storeLock[s0] = None
  BY DEF ImportItem, PInv, PhotoTypes
<1>2. item[i] # None /\ item[i].product = None /\ item[i] \in ItemRows
  BY DEF ImportItem, Open, PInv, PhotoTypes
<1>a. item[i].hash \in Groups /\ item[i].details \in DetailsRows
  BY <1>2 DEF ItemRows
<1>3. PICK sku0 \in Groups : sku0 = item[i].hash /\ sku0 \in Skus
  BY <1>a, PhotosAssumption
<1> DEFINE row == [item[i] EXCEPT !.product = <<s0, sku0>>]
<1>4. row \in ItemRows /\ row # None /\ row.hash = sku0 /\ row.product = <<s0, sku0>>
      /\ row.details = item[i].details
  BY <1>1, <1>2, <1>3, <1>a, PhotosAssumption DEF ItemRows
<1>5. <<s0, sku0>> # None
  BY <1>1, <1>3, PhotosAssumption
<1>6. item' = [item EXCEPT ![i] = row] /\ UNCHANGED <<batchStore, photo, stored, doomed, uploading, reviewed, storeLock>>
  BY <1>1, <1>2, <1>3 DEF ImportItem, PInv, PhotoTypes
<1> HIDE DEF row
<1>7. item'[i] = row /\ \A j \in Items \ {i} : item'[j] = item[j]
  BY <1>6 DEF PInv, PhotoTypes
<1>8. \A j \in Items : Imported(j)' <=> Imported(j) \/ j = i
  BY <1>4, <1>5, <1>7 DEF Imported
<1>9. PICK new \in ProductRows :
         /\ product' = IF InCatalogue(s0, sku0) THEN product ELSE [product EXCEPT ![<<s0, sku0>>] = new]
         /\ new.images = Selected(i)
  <2> DEFINE d == item[i].details
             new == [name |-> d.name, images |-> Selected(i), published |-> publish, stock |-> d.stock]
  <2>1. d.name \in Names /\ d.stock \in BOOLEAN
    BY <1>a DEF ImportItem, ValidatedItem, DetailsRows
  <2>2. Selected(i) \in SUBSET Files
    BY DEF Selected, Staged
  <2> HIDE DEF d
  <2>3. new \in ProductRows /\ new.images = Selected(i)
    BY <2>1, <2>2 DEF ProductRows
  <2>4. product' = IF InCatalogue(s0, sku0) THEN product ELSE [product EXCEPT ![<<s0, sku0>>] = new]
    BY <1>1, <1>3 DEF ImportItem, Added, d
  <2> QED
    BY <2>3, <2>4
<1>10. /\ CatalogueTypes' /\ Grows /\ InCatalogue(s0, sku0)'
       /\ \A t \in Stores, k \in Skus :
             InCatalogue(t, k)' /\ ~InCatalogue(t, k) =>
                t = s0 /\ k = sku0 /\ product'[<<t, k>>].images = Selected(i)
  <2>1. CASE InCatalogue(s0, sku0)
    BY <1>6, <1>9, <2>1 DEF CatalogueTypes, Grows, InCatalogue
  <2>2. CASE ~InCatalogue(s0, sku0)
    <3>1. product' = [product EXCEPT ![<<s0, sku0>>] = new]
      BY <1>9, <2>2
    <3>2. /\ product' \in [Stores \X Skus -> ProductRows \cup {None}] /\ Grows
          /\ product'[<<s0, sku0>>] = new /\ InCatalogue(s0, sku0)'
          /\ \A t \in Stores, k \in Skus : t # s0 \/ k # sku0 => product'[<<t, k>>] = product[<<t, k>>]
      BY <1>1, <1>3, <2>2, <3>1, AddGrows
    <3>3. \A t \in Stores, k \in Skus : InCatalogue(t, k)' /\ ~InCatalogue(t, k) => t = s0 /\ k = sku0
      BY <3>2 DEF InCatalogue
    <3> QED
      BY <1>6, <1>9, <3>2, <3>3 DEF CatalogueTypes
  <2> QED
    BY <2>1, <2>2
<1>11. PhotoTypes' /\ FilesThere'
  BY <1>4, <1>6 DEF PInv, PhotoTypes, FilesThere
<1>12. Verified'
  <2>1. reviewed[i]
    BY <1>2 DEF ImportItem, ValidatedItem, PInv, Verified
  <2> QED
    BY <1>6, <1>7, <2>1 DEF PInv, Verified
<1>13. ImportedInBatchStore'
  <2> SUFFICES ASSUME NEW j \in Items, Imported(j)'
               PROVE  item'[j].product = <<batchStore', item'[j].hash>> /\ InCatalogue(batchStore, item[j].hash)'
    BY DEF ImportedInBatchStore
  <2>1. CASE j = i
    <3>1. item'[j].hash = sku0
      BY <1>4, <1>7, <2>1
    <3>2. InCatalogue(batchStore, item[j].hash)' <=> product'[<<batchStore', item'[j].hash>>] # None
      BY DEF InCatalogue
    <3> QED
      BY <1>1, <1>4, <1>6, <1>7, <1>10, <2>1, <3>1, <3>2 DEF InCatalogue
  <2>2. CASE j # i
    <3>1. Imported(j) /\ item'[j] = item[j]
      BY <1>7, <1>8, <2>2
    <3>2. item[j].product = <<s0, item[j].hash>> /\ InCatalogue(s0, item[j].hash)
      BY <1>1, <3>1 DEF PInv, ImportedInBatchStore
    <3>3. item[j].hash \in Skus
      BY <3>1, PhotosAssumption DEF Imported, PInv, PhotoTypes, ItemRows
    <3>4. product'[<<s0, item[j].hash>>] = product[<<s0, item[j].hash>>]
      BY <1>1, <1>10, <3>2, <3>3 DEF Grows
    <3> QED
      BY <1>1, <1>6, <3>1, <3>2, <3>4 DEF InCatalogue
  <2> QED
    BY <2>1, <2>2
<1>14. ShownImported'
  <2> SUFFICES ASSUME NEW s \in Stores, NEW sku \in Skus, InCatalogue(s, sku)', NEW f \in product'[<<s, sku>>].images
               PROVE  photo'[f] # None /\ Imported(photo[f].item)'
    BY DEF ShownImported
  <2>1. photo[f] # None /\ (Imported(photo[f].item) \/ photo[f].item = i) /\ f \in Files
    <3>1. CASE InCatalogue(s, sku)
      <4>1. f \in product[<<s, sku>>].images
        BY <1>10, <3>1 DEF Grows
      <4>2. f \in Files
        BY <3>1, <4>1 DEF InCatalogue, CatalogueTypes, ProductRows
      <4> QED
        BY <3>1, <4>1, <4>2 DEF PInv, ShownImported
    <3>2. CASE ~InCatalogue(s, sku)
      BY <1>10, <3>2 DEF Selected, Staged
    <3> QED
      BY <3>1, <3>2
  <2>2. photo[f].item \in Items
    BY <2>1 DEF PInv, PhotoTypes, PhotoRows
  <2>3. Imported(photo[f].item)' <=> item'[photo'[f].item] # None /\ item'[photo'[f].item].product # None
    BY DEF Imported
  <2>4. item'[photo[f].item] # None /\ item'[photo[f].item].product # None
    BY <1>4, <1>5, <1>7, <2>1, <2>2 DEF Imported
  <2> QED
    BY <1>6, <2>1, <2>3, <2>4
<1> QED
  BY <1>1, <1>3, <1>6, <1>10, <1>11, <1>12, <1>13, <1>14 DEF PInv

-----------------------------------------------------------------------------
(* The manifest pages *)

\* What a page shows of a row.
Report(s, r, shown) ==
    /\ shown \in {"created", "exists"} => InCatalogue(s, RowSku[r])
    /\ shown = "duplicate" =>
          \E sku \in Skus \ {RowSku[r]} : InCatalogue(s, sku) /\ product[<<s, sku>>].name = RowName[r]

Reports(p) == p.running => \A r \in 1..p.index : Report(p.store, r, p.result[r])

LEMMA ReportsEach == ReportsTrue <=> \A c \in Pages : Reports(page[c])
  BY DEF ReportsTrue, Reports, Report

LEMMA ReportGrows ==
    ASSUME Grows, NEW s \in Stores, NEW r \in 1..Rows, NEW shown, Report(s, r, shown)
    PROVE  Report(s, r, shown)'
  BY RowsAssumption DEF Report, Grows, InCatalogue

\* Photo imports add products under the lock of a store, with SKUs of photos.
LEMMA RowsAside ==
    ASSUME CInv, UNCHANGED bulkVars, CatalogueTypes', Grows, storeLock' = storeLock,
           \A s \in Stores, sku \in Skus : InCatalogue(s, sku)' /\ ~InCatalogue(s, sku) =>
              storeLock[s] = None /\ sku \in Groups
    PROVE  CInv'
<1>1. BulkTypes' /\ Waiting' /\ StoresChosen'
  BY DEF CInv, bulkVars, BulkTypes, Waiting, StoresChosen, Live
<1>2. Holding'
  BY DEF CInv, bulkVars, Holding, Decided
<1>3. StillFound'
  <2> SUFFICES ASSUME NEW w \in Workers, Decided(w)
               PROVE  Found(request[w].store, request[w].row, request[w].outcome)'
    BY DEF StillFound, Decided, bulkVars
  <2>1. PICK s \in Stores, r \in 1..Rows, o \in Results :
           s = request[w].store /\ r = request[w].row /\ o = request[w].outcome
    BY DEF Decided, CInv, BulkTypes, RequestRows
  <2>2. storeLock[s] # None
    BY <2>1, RowsAssumption DEF CInv, Holding
  <2>3. \A sku \in Skus : /\ InCatalogue(s, sku)' <=> InCatalogue(s, sku)
                          /\ InCatalogue(s, sku) => product'[<<s, sku>>] = product[<<s, sku>>]
    BY <2>2 DEF Grows, InCatalogue
  <2>4. Found(s, r, o)
    BY <2>1 DEF CInv, StillFound
  <2>5. RowSku[r] \in Skus
    BY RowsAssumption
  <2>6. Found(s, r, o)'
    BY <2>3, <2>4, <2>5 DEF Found, NameIn, InCatalogue
  <2> QED
    BY <2>1, <2>6 DEF bulkVars
<1>4. \A s \in Stores, r \in 1..Rows :
        InCatalogue(s, RowSku[r])' => InCatalogue(s, RowSku[r]) /\ product'[<<s, RowSku[r]>>] = product[<<s, RowSku[r]>>]
  BY RowsAssumption, SkusAssumption DEF Grows
<1>5. RowsNamed' /\ NamesOnce'
  <2>1. RowsNamed'
    BY <1>4 DEF CInv, RowsNamed
  <2>2. NamesOnce'
    BY <1>4 DEF CInv, NamesOnce
  <2> QED
    BY <2>1, <2>2
<1>6. ReportsTrue'
  <2>1. \A c \in Pages : Reports(page[c])
    BY ReportsEach DEF CInv
  <2>2. ASSUME NEW c \in Pages PROVE Reports(page[c])'
    <3> SUFFICES ASSUME page[c].running, NEW r \in 1..page[c].index
                 PROVE  Report(page[c].store, r, page[c].result[r])'
      BY DEF Reports, bulkVars
    <3>1. page[c].store \in Stores /\ r \in 1..Rows
      BY RowsAssumption DEF CInv, StoresChosen, BulkTypes, PageRows
    <3>2. Report(page[c].store, r, page[c].result[r])
      BY <2>1 DEF Reports
    <3>3. page' = page
      BY DEF bulkVars
    <3> DEFINE s == page[c].store
               shown == page[c].result[r]
    <3>4. s \in Stores /\ Report(s, r, shown) /\ UNCHANGED <<s, shown>>
      BY <3>1, <3>2, <3>3
    <3> HIDE DEF s, shown
    <3>5. Report(s, r, shown)'
      BY <3>1, <3>4, RowsAssumption DEF Report, Grows, InCatalogue
    <3> QED
      BY <3>5 DEF s, shown
  <2>3. \A c \in Pages : Reports(page[c])'
    BY <2>2
  <2> QED
    BY <2>3 DEF ReportsTrue, Reports, Report
<1> QED
  BY <1>1, <1>2, <1>3, <1>5, <1>6 DEF CInv

\* A page changes, and what is asked of the server with it.
LEMMA PageChanges ==
    ASSUME CInv, UNCHANGED <<product, storeLock>>,
           NEW c \in Pages, NEW row \in PageRows, page' = [page EXCEPT ![c] = row],
           request' \in [Workers -> RequestRows \cup {None}],
           \A w \in Workers : Decided(w)' =>
              /\ Decided(w) /\ request'[w].store = request[w].store
              /\ request'[w].row = request[w].row /\ request'[w].outcome = request[w].outcome,
           \A w \in Workers : Live(w)' /\ request'[w].page # c => Live(w) /\ request'[w] = request[w],
           \A w \in Workers : Live(w)' /\ request'[w].page = c =>
              /\ row.running /\ row.waiting /\ row.store = request'[w].store /\ row.index = request'[w].row
              /\ \A v \in Workers : v # w /\ Live(v)' => request'[v].page # c,
           row.running => row.store \in Stores /\ \A r \in 1..row.index : Report(row.store, r, row.result[r])
    PROVE  CInv'
<1>1. page'[c] = row /\ \A d \in Pages \ {c} : page'[d] = page[d]
  BY DEF CInv, BulkTypes
<1>2. CatalogueTypes' /\ BulkTypes'
  BY DEF CInv, CatalogueTypes, BulkTypes
<1>3. Holding'
  BY DEF CInv, Holding
<1>5. StillFound'
  <2> SUFFICES ASSUME NEW w \in Workers, Decided(w)'
               PROVE  Found(request[w].store, request[w].row, request[w].outcome)'
    BY DEF StillFound
  <2>1. Found(request[w].store, request[w].row, request[w].outcome)
    BY DEF CInv, StillFound
  <2>2. Found(request[w].store, request[w].row, request[w].outcome)' <=>
        Found(request'[w].store, request'[w].row, request'[w].outcome)
    BY DEF Found, NameIn, InCatalogue
  <2> QED
    BY <2>1, <2>2
<1>6. Waiting'
  <2> SUFFICES ASSUME NEW w \in Workers, Live(w)'
               PROVE  /\ page'[request'[w].page].running /\ page'[request'[w].page].waiting
                      /\ page'[request'[w].page].store = request'[w].store
                      /\ page'[request'[w].page].index = request'[w].row
                      /\ \A v \in Workers : v # w /\ Live(v)' => request'[v].page # request'[w].page
    BY DEF Waiting
  <2>1. request'[w].page \in Pages
    BY DEF Live, RequestRows
  <2>2. CASE request'[w].page = c
    BY <1>1, <2>2
  <2>3. CASE request'[w].page # c
    <3>1. Live(w) /\ request'[w] = request[w]
      BY <2>3
    <3>2. \A v \in Workers : v # w /\ Live(v)' => request'[v].page # request[w].page
      BY <2>3, <3>1 DEF CInv, Waiting
    <3> QED
      BY <1>1, <2>1, <2>3, <3>1, <3>2 DEF CInv, Waiting
  <2> QED
    BY <2>2, <2>3
<1>7. StoresChosen'
  BY <1>1 DEF CInv, StoresChosen
<1>8. RowsNamed' /\ NamesOnce'
  BY DEF CInv, RowsNamed, NamesOnce, InCatalogue
<1>9. ReportsTrue'
  <2>1. \A d \in Pages \ {c} : Reports(page[d])
    BY ReportsEach DEF CInv
  <2>2. Reports(row)
    BY DEF Reports
  <2>4. \A d \in Pages : Reports(page'[d])
    BY <1>1, <2>1, <2>2
  <2>5. \A d \in Pages : Reports(page[d])' <=> Reports(page'[d])
    BY DEF Reports, Report, InCatalogue
  <2>6. \A d \in Pages : Reports(page[d])'
    BY <2>4, <2>5
  <2> QED
    BY <2>6 DEF ReportsTrue, Reports, Report
<1> QED
  BY <1>2, <1>3, <1>5, <1>6, <1>7, <1>8, <1>9 DEF CInv

\* No request waits for an answer to a page that waits for none.
LEMMA NoneLive ==
    ASSUME CInv, NEW c \in Pages, ~page[c].waiting \/ ~page[c].running
    PROVE  \A w \in Workers : Live(w) => request[w].page # c
  BY DEF CInv, Waiting

\* What a page of the invariant is.
LEMMA PageFacts ==
    ASSUME CInv, NEW c \in Pages
    PROVE  /\ page[c] \in PageRows
           /\ page[c].running => page[c].store \in Stores
           /\ page[c].running =>
                 \A r \in 1..page[c].index : Report(page[c].store, r, page[c].result[r])
  BY ReportsEach DEF CInv, BulkTypes, StoresChosen, Reports

\* The page goes on without the server.
LEMMA PageMoves ==
    ASSUME CInv, UNCHANGED <<request, product, storeLock>>,
           NEW c \in Pages, NEW row \in PageRows, page' = [page EXCEPT ![c] = row],
           \A w \in Workers : Live(w) /\ request[w].page = c =>
              row.running /\ row.waiting /\ row.store = request[w].store /\ row.index = request[w].row,
           row.running => row.store \in Stores /\ \A r \in 1..row.index : Report(row.store, r, row.result[r])
    PROVE  CInv'
<1>1. request' \in [Workers -> RequestRows \cup {None}]
  BY DEF CInv, BulkTypes
<1>2. \A w \in Workers : (Live(w)' <=> Live(w)) /\ (Decided(w)' <=> Decided(w)) /\ request'[w] = request[w]
  BY DEF Live, Decided
<1>3. \A w \in Workers : Live(w)' /\ request'[w].page = c =>
        /\ row.running /\ row.waiting /\ row.store = request'[w].store /\ row.index = request'[w].row
        /\ \A v \in Workers : v # w /\ Live(v)' => request'[v].page # c
  BY <1>2 DEF CInv, Waiting
<1> QED
  BY <1>1, <1>2, <1>3, PageChanges

LEMMA BehindPage ==
    ASSUME NEW old \in PageRows
    PROVE  \A q \in 1..old.index : q \in 1..Rows
<1>1. old.index \in Nat /\ old.index <= Rows /\ Rows \in Nat
  BY RowsAssumption DEF PageRows
<1> QED
  BY <1>1

LEMMA PageParts ==
    ASSUME NEW old \in PageRows
    PROVE  /\ old.store \in Stores \cup {None} /\ old.running \in BOOLEAN /\ old.stop \in BOOLEAN
           /\ old.index \in 0..Rows /\ old.waiting \in BOOLEAN /\ old.result \in [1..Rows -> Results]
           /\ old.index \in Nat /\ old.index <= Rows
  BY RowsAssumption DEF PageRows

\* What a page may become.
LEMMA PageMade ==
    ASSUME NEW old \in PageRows, NEW n \in 0..Rows, NEW results \in [1..Rows -> Results],
           NEW s \in Stores, NEW on \in BOOLEAN
    PROVE  /\ [old EXCEPT !.store = s, !.running = TRUE, !.stop = FALSE, !.index = n] \in PageRows
           /\ [old EXCEPT !.index = n, !.waiting = on, !.result = results] \in PageRows
           /\ [old EXCEPT !.index = n, !.result = results] \in PageRows
           /\ [old EXCEPT !.waiting = on, !.result = results] \in PageRows
  BY DEF PageRows

LEMMA PageSwitched ==
    ASSUME NEW old \in PageRows
    PROVE  [old EXCEPT !.stop = TRUE] \in PageRows /\ [old EXCEPT !.running = FALSE] \in PageRows
  BY DEF PageRows

LEMMA PageActions ==
    ASSUME CInv, NEW c \in Pages,
           NextRow(c) \/ Finish(c) \/ NoAnswer(c) \/ LoginPage(c) \/ BulkStop(c) \/ \E s \in Stores : BulkStart(c, s)
    PROVE  CInv' /\ UNCHANGED product
<1>a. /\ page \in [Pages -> PageRows] /\ page[c] \in PageRows
      /\ request \in [Workers -> RequestRows \cup {None}]
  BY DEF CInv, BulkTypes
<1>b. /\ page[c].index \in 0..Rows /\ page[c].index \in Nat /\ page[c].result \in [1..Rows -> Results]
      /\ Rows \in Nat /\ 0 \in 0..Rows
  BY <1>a, PageParts, RowsAssumption
<1>1. ASSUME NEW s \in Stores, BulkStart(c, s) PROVE CInv' /\ UNCHANGED product
  <2> DEFINE row == [page[c] EXCEPT !.store = s, !.running = TRUE, !.stop = FALSE, !.index = 0]
  <2>1. row.store = s /\ row.index = 0
    BY <1>a DEF PageRows
  <2>2. row \in PageRows
    BY <1>a, <1>b, PageMade
  <2>3. page' = [page EXCEPT ![c] = row] /\ UNCHANGED <<request, product, storeLock>>
    BY <1>1, <1>a DEF BulkStart
  <2> HIDE DEF row
  <2>4. \A w \in Workers : Live(w) => request[w].page # c
    BY <1>1, NoneLive DEF BulkStart
  <2>5. row.running => row.store \in Stores /\ \A r \in 1..row.index : Report(row.store, r, row.result[r])
    BY <2>1
  <2> QED
    BY <2>2, <2>3, <2>4, <2>5, PageMoves
<1>2. CASE BulkStop(c)
  <2> DEFINE row == [page[c] EXCEPT !.stop = TRUE]
  <2>1. /\ row.store = page[c].store /\ row.index = page[c].index /\ row.result = page[c].result
        /\ row.running = page[c].running /\ row.waiting = page[c].waiting
    BY <1>a DEF PageRows
  <2>2. row \in PageRows
    BY <1>a, PageSwitched
  <2>3. page' = [page EXCEPT ![c] = row] /\ UNCHANGED <<request, product, storeLock>>
    BY <1>2, <1>a DEF BulkStop
  <2> HIDE DEF row
  <2>4. \A w \in Workers : Live(w) /\ request[w].page = c =>
          row.running /\ row.waiting /\ row.store = request[w].store /\ row.index = request[w].row
    BY <2>1 DEF CInv, Waiting
  <2>5. row.running => row.store \in Stores /\ \A r \in 1..row.index : Report(row.store, r, row.result[r])
    BY <2>1, PageFacts
  <2> QED
    BY <2>2, <2>3, <2>4, <2>5, PageMoves
<1>3. CASE Finish(c)
  <2> DEFINE row == [page[c] EXCEPT !.running = FALSE]
  <2>1. ~row.running
    BY <1>a DEF PageRows
  <2>2. row \in PageRows
    BY <1>a, PageSwitched
  <2>3. page' = [page EXCEPT ![c] = row] /\ UNCHANGED <<request, product, storeLock>>
    BY <1>3, <1>a DEF Finish
  <2> HIDE DEF row
  <2>4. \A w \in Workers : Live(w) => request[w].page # c
    BY <1>3, NoneLive DEF Finish, Ready
  <2> QED
    BY <2>1, <2>2, <2>3, <2>4, PageMoves
<1>4. CASE NextRow(c)
  <2>1. page[c].running /\ ~page[c].waiting /\ page[c].index + 1 <= Rows
    BY <1>4 DEF NextRow, Ready
  <2>2. PICK r \in 1..Rows : r = page[c].index + 1
    BY <1>b, <2>1, RowsAssumption
  <2>3. page[c].store \in Stores /\ r \in 0..Rows
        /\ \A q \in 1..page[c].index : Report(page[c].store, q, page[c].result[q])
    BY <1>a, <2>1, PageFacts, RowsAssumption
  <2>4. \A w \in Workers : Live(w) => request[w].page # c
    BY <2>1, NoneLive
  <2>5. UNCHANGED <<product, storeLock>>
    BY <1>4 DEF NextRow
  \* The row shows nothing yet, or that it failed.
  <2>6. ASSUME NEW shown \in Results \ {"created", "exists", "duplicate"}, NEW row \in PageRows,
               row.running, row.store = page[c].store, row.index = r,
               row.result = [page[c].result EXCEPT ![r] = shown]
        PROVE  row.store \in Stores /\ \A q \in 1..row.index : Report(row.store, q, row.result[q])
    <3> SUFFICES ASSUME NEW q \in 1..r PROVE Report(page[c].store, q, row.result[q])
      BY <2>3, <2>6
    <3>1. CASE q = r
      BY <1>b, <2>6, <3>1 DEF Report
    <3>2. CASE q # r
      <4>1. q \in 1..page[c].index /\ q \in 1..Rows
        BY <1>b, <2>2, <3>2
      <4>2. row.result[q] = page[c].result[q]
        BY <1>b, <2>6, <3>2, <4>1
      <4> QED
        BY <2>3, <4>1, <4>2
    <3> QED
      BY <3>1, <3>2
  <2>7. ASSUME NEW shown \in Results
        PROVE  [page[c].result EXCEPT ![r] = shown] \in [1..Rows -> Results]
    BY <1>b
  <2>t. "" \in Results \ {"created", "exists", "duplicate"} /\ "failed" \in Results \ {"created", "exists", "duplicate"}
    BY DEF Results
  <2>8. CASE r \notin WithImage
    <3> DEFINE results == [page[c].result EXCEPT ![r] = "failed"]
               row == [page[c] EXCEPT !.index = r, !.result = results]
    <3>1. page' = [page EXCEPT ![c] = row] /\ UNCHANGED request
      <4>1. page' = [page EXCEPT ![c].index = r, ![c].result[r] = "failed"] /\ UNCHANGED request
        BY <1>4, <2>2, <2>8 DEF NextRow, AfterMissing
      <4>2. [page EXCEPT ![c].index = r, ![c].result[r] = "failed"] = [page EXCEPT ![c] = row]
        BY <1>a
      <4> QED
        BY <4>1, <4>2
    <3>2. row.running = page[c].running /\ row.store = page[c].store /\ row.index = r /\ row.result = results
      BY <1>a DEF PageRows
    <3>3. row \in PageRows
      BY <1>a, <2>3, <2>7, <2>t, PageMade
    <3> HIDE DEF row
    <3>4. row.store \in Stores /\ \A q \in 1..row.index : Report(row.store, q, row.result[q])
      BY <2>1, <2>6, <2>t, <3>2, <3>3
    <3> HIDE DEF results
    <3> QED
      BY <2>4, <2>5, <3>1, <3>3, <3>4, PageMoves
  <2>9. CASE r \in WithImage
    <3> DEFINE results == [page[c].result EXCEPT ![r] = ""]
               row == [page[c] EXCEPT !.index = r, !.waiting = TRUE, !.result = results]
               new == [page |-> c, store |-> page[c].store, row |-> r, outcome |-> "", live |-> TRUE]
    <3>1. page' = [page EXCEPT ![c] = row]
      <4>1. page' = [page EXCEPT ![c].index = r, ![c].waiting = TRUE, ![c].result[r] = ""]
        BY <1>4, <2>2, <2>9 DEF NextRow
      <4>2. [page EXCEPT ![c].index = r, ![c].waiting = TRUE, ![c].result[r] = ""] = [page EXCEPT ![c] = row]
        BY <1>a
      <4> QED
        BY <4>1, <4>2
    <3>2. /\ row.running = page[c].running /\ row.waiting /\ row.store = page[c].store
          /\ row.index = r /\ row.result = results
      BY <1>a DEF PageRows
    <3>3. row \in PageRows
      BY <1>a, <2>3, <2>7, <2>t, PageMade
    <3>4. new \in RequestRows /\ new.page = c /\ new.store = page[c].store /\ new.row = r /\ new.outcome = ""
      BY <2>3 DEF RequestRows, Results
    <3>5. PICK w \in Workers : request' = [request EXCEPT ![w] = new]
      BY <1>4, <2>2, <2>9 DEF NextRow
    <3> HIDE DEF row, new
    <3>6. row.store \in Stores /\ \A q \in 1..row.index : Report(row.store, q, row.result[q])
      BY <2>1, <2>6, <2>t, <3>2, <3>3
    <3>7. request'[w] = new /\ \A v \in Workers \ {w} : request'[v] = request[v]
      BY <1>a, <3>5
    <3>8. request' \in [Workers -> RequestRows \cup {None}]
      BY <1>a, <3>4, <3>5
    <3>9. \A v \in Workers : Decided(v)' =>
            /\ Decided(v) /\ request'[v].store = request[v].store
            /\ request'[v].row = request[v].row /\ request'[v].outcome = request[v].outcome
      BY <3>4, <3>7 DEF Decided
    <3>10. \A v \in Workers : Live(v)' /\ request'[v].page # c => Live(v) /\ request'[v] = request[v]
      BY <3>4, <3>7 DEF Live
    <3>11. \A v \in Workers : Live(v)' /\ request'[v].page = c => v = w
      BY <2>4, <3>7 DEF Live
    <3>12. \A v \in Workers : Live(v)' /\ request'[v].page = c =>
             /\ row.running /\ row.waiting /\ row.store = request'[v].store /\ row.index = request'[v].row
             /\ \A u \in Workers : u # v /\ Live(u)' => request'[u].page # c
      BY <2>1, <3>2, <3>4, <3>7, <3>11
    <3> HIDE DEF results
    <3> QED
      BY <2>5, <3>1, <3>3, <3>6, <3>8, <3>9, <3>10, <3>12, PageChanges
  <2> QED
    BY <2>5, <2>8, <2>9
<1>5. CASE NoAnswer(c) \/ LoginPage(c)
  <2>1. PICK w \in Workers, shown \in {"failed", "duplicate of undefined"} :
          /\ request[w] # None /\ request[w].page = c /\ request[w].live
          /\ \/ request' = [request EXCEPT ![w].live = FALSE]
             \/ request[w].outcome = "" /\ request' = [request EXCEPT ![w] = None]
          /\ page' = Answered(c, shown)
    BY <1>5 DEF NoAnswer, LoginPage
  <2> DEFINE n == page[c].index
             row == [page[c] EXCEPT !.waiting = FALSE, !.result[n] = shown]
  <2>2. Live(w) /\ request[w] \in RequestRows
    BY <1>a, <2>1 DEF Live
  <2>3. /\ n = request[w].row /\ n \in 1..Rows /\ page[c].running
        /\ \A v \in Workers : v # w /\ Live(v) => request[v].page # c
    BY <2>1, <2>2 DEF CInv, Waiting, RequestRows
  <2>4. page' = [page EXCEPT ![c] = row] /\ UNCHANGED <<product, storeLock>>
    <3>1. page' = [page EXCEPT ![c].waiting = FALSE, ![c].result[n] = shown]
      BY <2>1 DEF Answered
    <3>2. UNCHANGED <<product, storeLock>>
      BY <1>5 DEF NoAnswer, LoginPage
    <3>3. [page EXCEPT ![c].waiting = FALSE, ![c].result[n] = shown] = [page EXCEPT ![c] = row]
      BY <1>a
    <3> QED
      BY <3>1, <3>2, <3>3
  <2> HIDE DEF n
  <2>5. row \in PageRows /\ row.running /\ row.store = page[c].store /\ row.index = page[c].index
        /\ row.result = [page[c].result EXCEPT ![n] = shown]
    BY <1>a, <2>1, <2>3 DEF PageRows, Results
  <2> HIDE DEF row
  <2>6. row.store \in Stores /\ \A q \in 1..row.index : Report(row.store, q, row.result[q])
    <3> SUFFICES ASSUME NEW q \in 1..page[c].index PROVE Report(page[c].store, q, row.result[q])
      BY <2>3, <2>5, PageFacts
    <3>1. page[c].result \in [1..Rows -> Results] /\ q \in 1..Rows
      BY <1>a, BehindPage, PageParts
    <3>2. CASE q = n
      BY <2>1, <2>5, <3>1, <3>2 DEF Report
    <3>3. CASE q # n
      <4>1. row.result[q] = page[c].result[q]
        BY <2>5, <3>1, <3>3
      <4> QED
        BY <2>3, <4>1, PageFacts
    <3> QED
      BY <3>2, <3>3
  <2>7. /\ request' \in [Workers -> RequestRows \cup {None}]
        /\ \A v \in Workers \ {w} : request'[v] = request[v]
        /\ ~Live(w)'
        /\ Decided(w)' => /\ Decided(w) /\ request'[w].store = request[w].store
                          /\ request'[w].row = request[w].row /\ request'[w].outcome = request[w].outcome
    <3>1. CASE request' = [request EXCEPT ![w].live = FALSE]
      <4> DEFINE new == [request[w] EXCEPT !.live = FALSE]
      <4>1. new \in RequestRows /\ ~new.live /\ new.store = request[w].store /\ new.row = request[w].row
            /\ new.outcome = request[w].outcome
        BY <2>2 DEF RequestRows
      <4>2. request' = [request EXCEPT ![w] = new]
        BY <1>a, <3>1
      <4> HIDE DEF new
      <4> QED
        BY <1>a, <2>1, <4>1, <4>2 DEF Live, Decided
    <3>2. CASE request' = [request EXCEPT ![w] = None]
      BY <1>a, <3>2 DEF Live, Decided
    <3> QED
      BY <2>1, <3>1, <3>2
  <2>8. \A v \in Workers : Decided(v)' =>
          /\ Decided(v) /\ request'[v].store = request[v].store
          /\ request'[v].row = request[v].row /\ request'[v].outcome = request[v].outcome
    BY <2>7 DEF Decided
  <2>9. \A v \in Workers : Live(v)' => Live(v) /\ request'[v] = request[v] /\ request'[v].page # c
    BY <2>3, <2>7 DEF Live
  <2>10. \A v \in Workers : Live(v)' /\ request'[v].page # c => Live(v) /\ request'[v] = request[v]
    BY <2>9
  <2>11. \A v \in Workers : ~(Live(v)' /\ request'[v].page = c)
    BY <2>9
  <2> QED
    BY <2>4, <2>5, <2>6, <2>7, <2>8, <2>10, <2>11, PageChanges
<1> QED
  BY <1>1, <1>2, <1>3, <1>4, <1>5
-----------------------------------------------------------------------------
(* The workers *)

LEMMA RequestFacts ==
    ASSUME CInv, NEW w \in Workers, request[w] # None
    PROVE  /\ request[w] \in RequestRows /\ request[w].store \in Stores /\ request[w].row \in 1..Rows
           /\ request[w].page \in Pages /\ request[w].outcome \in Results
           /\ RowSku[request[w].row] \in Skus /\ RowName[request[w].row] \in Names
<1>1. request[w] \in RequestRows
  BY DEF CInv, BulkTypes
<1>2. request[w].row \in 1..Rows
  BY <1>1 DEF RequestRows
<1>3. RowSku[request[w].row] \in Skus /\ RowName[request[w].row] \in Names
  BY <1>2, RowsAssumption
<1> QED
  BY <1>1, <1>3 DEF RequestRows

\* Workers that have looked for their rows are in different stores.
LEMMA StoresApart ==
    ASSUME CInv, NEW v \in Workers, NEW w \in Workers, v # w, Decided(v), Decided(w)
    PROVE  request[v].store # request[w].store
  BY DEF CInv, Holding

LEMMA OutcomeFound ==
    ASSUME NEW s \in Stores, NEW r \in 1..Rows
    PROVE  Outcome(s, r) \in Results \ {""} /\ Found(s, r, Outcome(s, r))
<1>1. CASE InCatalogue(s, RowSku[r])
  BY <1>1 DEF Outcome, Found, Results
<1>2. CASE ~InCatalogue(s, RowSku[r]) /\ \E sku \in Skus : InCatalogue(s, sku) /\ product[<<s, sku>>].name = RowName[r]
  <2>1. Outcome(s, r) = "duplicate"
    BY <1>2 DEF Outcome
  <2>2. \E sku \in Skus \ {RowSku[r]} : InCatalogue(s, sku) /\ product[<<s, sku>>].name = RowName[r]
    BY <1>2
  <2> QED
    BY <2>1, <2>2 DEF Found, Results
<1>3. CASE ~InCatalogue(s, RowSku[r]) /\ ~\E sku \in Skus : InCatalogue(s, sku) /\ product[<<s, sku>>].name = RowName[r]
  BY <1>3 DEF Outcome, Found, NameIn, Results
<1> QED
  BY <1>1, <1>2, <1>3

\* A worker takes the store and looks for its row.
LEMMA RowChecks ==
    ASSUME CInv, NEW w \in Workers, RowChecked(w)
    PROVE  CInv' /\ UNCHANGED product
<1>a. request \in [Workers -> RequestRows \cup {None}] /\ storeLock \in [Stores -> Workers \cup {None}]
  BY DEF CInv, BulkTypes, CatalogueTypes
<1>b. request[w] # None /\ storeLock[request[w].store] = None /\ UNCHANGED <<page, product>>
  BY DEF RowChecked
<1>1. PICK s \in Stores, r \in 1..Rows, o \in Results \ {""} :
         s = request[w].store /\ r = request[w].row /\ o = Outcome(s, r) /\ Found(s, r, o)
  BY <1>b, RequestFacts, OutcomeFound
<1> DEFINE new == [request[w] EXCEPT !.outcome = o]
<1>2. /\ new \in RequestRows /\ new.store = s /\ new.row = r /\ new.outcome = o
      /\ new.page = request[w].page /\ new.live = request[w].live
  <2>1. request[w] \in RequestRows
    BY <1>b, RequestFacts
  <2> QED
    BY <1>1, <2>1 DEF RequestRows
<1>3. request' = [request EXCEPT ![w] = new] /\ storeLock' = [storeLock EXCEPT ![s] = w]
  BY <1>1, <1>a DEF RowChecked, Locked
<1> HIDE DEF new
<1>4. new # None
  BY <1>2, RowsAssumption
<1>5. request'[w] = new /\ \A v \in Workers \ {w} : request'[v] = request[v]
  BY <1>a, <1>3
<1>6. CatalogueTypes' /\ BulkTypes'
  BY <1>a, <1>b, <1>2, <1>3 DEF CInv, CatalogueTypes, BulkTypes
<1>7. \A v \in Workers \ {w} : Decided(v)' => Decided(v) /\ request[v].store # s
  <2> SUFFICES ASSUME NEW v \in Workers \ {w}, Decided(v)' PROVE Decided(v) /\ request[v].store # s
    OBVIOUS
  <2>1. Decided(v)
    BY <1>5 DEF Decided
  <2>2. storeLock[request[v].store] = v
    BY <2>1 DEF CInv, Holding
  <2> QED
    BY <1>1, <1>b, <2>1, <2>2, RowsAssumption
<1>8. Holding'
  <2> SUFFICES ASSUME NEW v \in Workers, Decided(v)' PROVE storeLock'[request'[v].store] = v
    BY DEF Holding
  <2>1. CASE v = w
    BY <1>a, <1>2, <1>3, <1>5, <2>1
  <2>2. CASE v # w
    <3>1. Decided(v) /\ request[v].store # s /\ request'[v] = request[v]
      BY <1>5, <1>7, <2>2
    <3>2. request[v].store \in Stores /\ storeLock[request[v].store] = v
      BY <3>1, RequestFacts DEF CInv, Holding, Decided
    <3> QED
      BY <1>a, <1>3, <3>1, <3>2
  <2> QED
    BY <2>1, <2>2
<1>9. StillFound'
  <2> SUFFICES ASSUME NEW v \in Workers, Decided(v)'
               PROVE  Found(request'[v].store, request'[v].row, request'[v].outcome)
    BY <1>b DEF StillFound, Found, NameIn, InCatalogue
  <2>1. CASE v = w
    BY <1>1, <1>2, <1>5, <2>1
  <2>2. CASE v # w
    BY <1>5, <1>7, <2>2 DEF CInv, StillFound
  <2> QED
    BY <2>1, <2>2
<1>10. Waiting'
  <2>1. \A v \in Workers : /\ Live(v)' <=> Live(v)
                           /\ Live(v) => /\ request'[v].page = request[v].page
                                         /\ request'[v].store = request[v].store
                                         /\ request'[v].row = request[v].row
    BY <1>1, <1>2, <1>4, <1>5, <1>b DEF Live
  <2> SUFFICES ASSUME NEW v \in Workers, Live(v)'
               PROVE  /\ page'[request'[v].page].running /\ page'[request'[v].page].waiting
                      /\ page'[request'[v].page].store = request'[v].store
                      /\ page'[request'[v].page].index = request'[v].row
                      /\ \A u \in Workers : u # v /\ Live(u)' => request'[u].page # request'[v].page
    BY DEF Waiting
  <2>2. \A u \in Workers : u # v /\ Live(u)' => request'[u].page # request[v].page
    <3> SUFFICES ASSUME NEW u \in Workers, u # v, Live(u)' PROVE request'[u].page # request[v].page
      OBVIOUS
    <3>1. Live(u) /\ Live(v) /\ request'[u].page = request[u].page
      BY <2>1
    <3> QED
      BY <3>1 DEF CInv, Waiting
  <2> QED
    BY <1>b, <2>1, <2>2 DEF CInv, Waiting
<1>11. StoresChosen' /\ RowsNamed' /\ NamesOnce'
  <2>1. \A t \in Stores, q \in 1..Rows : InCatalogue(t, RowSku[q])' <=> InCatalogue(t, RowSku[q])
    BY <1>b DEF InCatalogue
  <2>2. StoresChosen'
    BY <1>b DEF CInv, StoresChosen
  <2>3. RowsNamed'
    BY <1>b, <2>1 DEF CInv, RowsNamed
  <2>4. NamesOnce'
    BY <2>1 DEF CInv, NamesOnce
  <2> QED
    BY <2>2, <2>3, <2>4
<1>12. ReportsTrue'
  <2>1. \A d \in Pages : Reports(page[d])
    BY ReportsEach DEF CInv
  <2>2. product' = product
    BY <1>b
  <2>3. \A d \in Pages : Reports(page[d])' <=> Reports(page'[d])
    BY <2>2 DEF Reports, Report, InCatalogue
  <2>4. \A d \in Pages : Reports(page[d])'
    BY <1>b, <2>1, <2>3
  <2> QED
    BY <2>4 DEF ReportsTrue, Reports, Report
<1> QED
  BY <1>6, <1>8, <1>9, <1>10, <1>11, <1>12, <1>b DEF CInv

\* The page of a live request shows how it ended.
LEMMA PageAnswered ==
    ASSUME CInv, NEW w \in Workers, Live(w), NEW result \in Results,
           NEW c \in Pages, c = request[w].page, NEW r \in 1..Rows, r = request[w].row,
           NEW s \in Stores, s = request[w].store
    PROVE  \E row \in PageRows :
              /\ Answer(w, result) = [page EXCEPT ![c] = row]
              /\ row.running /\ page[c].running
              /\ row.store = s /\ page[c].store = s /\ row.index = r /\ page[c].index = r
              /\ row.result = [page[c].result EXCEPT ![r] = result]
<1>1. page[c].running /\ page[c].store = s /\ page[c].index = r
  BY DEF CInv, Waiting
<1>2. page[c] \in PageRows /\ page \in [Pages -> PageRows]
  BY DEF CInv, BulkTypes
<1>3. page[c].result \in [1..Rows -> Results]
  BY <1>2, PageParts
<1> DEFINE results == [page[c].result EXCEPT ![r] = result]
           row == [page[c] EXCEPT !.waiting = FALSE, !.result = results]
<1>4. results \in [1..Rows -> Results]
  BY <1>3
<1>5. r \in 0..Rows /\ FALSE \in BOOLEAN
  BY RowsAssumption
<1>6. row \in PageRows
  BY <1>2, <1>4, <1>5, PageMade
<1>7. Answer(w, result) = [page EXCEPT ![c] = row]
  <2>1. Answer(w, result) = [page EXCEPT ![c].waiting = FALSE, ![c].result[r] = result]
    BY <1>1 DEF Answer, Answered, Live
  <2>2. [page EXCEPT ![c].waiting = FALSE, ![c].result[r] = result]
          = [page EXCEPT ![c] = row]
    BY <1>2
  <2> QED
    BY <2>1, <2>2
<1>8. row.running = page[c].running /\ row.store = page[c].store /\ row.index = page[c].index /\ row.result = results
  BY <1>2 DEF PageRows
<1> HIDE DEF row, results
<1>9. results = [page[c].result EXCEPT ![r] = result]
  BY DEF results
<1> QED
  BY <1>1, <1>6, <1>7, <1>8, <1>9

\* A worker lets go of its request and of the store, with or without a product.
LEMMA RowEnds ==
    ASSUME CInv, NEW w \in Workers, Decided(w), NEW result \in Results,
           NEW s \in Stores, s = request[w].store, NEW r \in 1..Rows, r = request[w].row,
           request' = [request EXCEPT ![w] = None], storeLock' = Unlocked(w), page' = Answer(w, result),
           product' \in [Stores \X Skus -> ProductRows \cup {None}], Grows,
           \A t \in Stores, sku \in Skus : t # s => product'[<<t, sku>>] = product[<<t, sku>>],
           RowsNamed', NamesOnce', Report(s, r, result)'
    PROVE  CInv'
<1>a. /\ request \in [Workers -> RequestRows \cup {None}] /\ storeLock \in [Stores -> Workers \cup {None}]
      /\ page \in [Pages -> PageRows]
  BY DEF CInv, BulkTypes, CatalogueTypes
<1>1. PICK c \in Pages : c = request[w].page
  BY RequestFacts DEF Decided
<1>2. request'[w] = None /\ \A v \in Workers \ {w} : request'[v] = request[v]
  BY <1>a
<1>3. storeLock' = [storeLock EXCEPT ![s] = None]
  BY DEF Unlocked
<1>4. \A v \in Workers : Decided(v)' => v # w /\ Decided(v) /\ request[v].store # s /\ request'[v] = request[v]
  BY <1>2, StoresApart DEF Decided
<1>5. \A v \in Workers : Live(v)' => v # w /\ Live(v) /\ request'[v] = request[v]
  BY <1>2 DEF Live
\* What the pages show: at most the page of w shows something new.
<1> DEFINE Shown ==
             /\ page' \in [Pages -> PageRows]
             /\ \A d \in Pages : page'[d].running =>
                  page[d].running /\ page'[d].store = page[d].store /\ page'[d].index = page[d].index
             /\ \A d \in Pages, q \in 1..Rows : page'[d].running =>
                  \/ page'[d].result[q] = page[d].result[q]
                  \/ page[d].store = s /\ q = r /\ page'[d].result[q] = result
<1>6. ASSUME Live(w) PROVE Waiting' /\ Shown
  <2>1. PICK row \in PageRows :
           /\ page' = [page EXCEPT ![c] = row]
           /\ row.running /\ row.store = s /\ row.index = r /\ row.result = [page[c].result EXCEPT ![r] = result]
           /\ page[c].running /\ page[c].store = s /\ page[c].index = r
    BY <1>1, <1>6, PageAnswered
  <2>2. page' \in [Pages -> PageRows] /\ page'[c] = row /\ \A d \in Pages \ {c} : page'[d] = page[d]
    BY <1>a, <2>1
  <2>3. \A v \in Workers \ {w} : Live(v) => request[v].page # c
    BY <1>1, <1>6 DEF CInv, Waiting
  <2>4. \A d \in Pages : page'[d].running => page[d].running /\ page'[d].store = page[d].store /\ page'[d].index = page[d].index
    BY <2>1, <2>2
  <2>5. \A d \in Pages, q \in 1..Rows : page'[d].running /\ (d # c \/ q # r) => page'[d].result[q] = page[d].result[q]
    <3> SUFFICES ASSUME NEW d \in Pages, NEW q \in 1..Rows, d # c \/ q # r
                 PROVE  page'[d].result[q] = page[d].result[q]
      OBVIOUS
    <3>1. page[c].result \in [1..Rows -> Results]
      BY <1>a, PageParts
    <3>2. CASE d # c
      BY <2>2, <3>2
    <3>3. CASE d = c
      BY <2>1, <2>2, <3>1, <3>3
    <3> QED
      BY <3>2, <3>3
  <2>6. page'[c].result[r] = result
    <3>1. page[c].result \in [1..Rows -> Results]
      BY <1>a, PageParts
    <3>2. [page[c].result EXCEPT ![r] = result][r] = result
      BY <3>1
    <3>3. page'[c].result = [page[c].result EXCEPT ![r] = result]
      BY <2>1, <2>2
    <3> QED
      BY <3>2, <3>3
  <2>7. Waiting'
    <3> SUFFICES ASSUME NEW v \in Workers, Live(v)'
                 PROVE  /\ page'[request'[v].page].running /\ page'[request'[v].page].waiting
                        /\ page'[request'[v].page].store = request'[v].store
                        /\ page'[request'[v].page].index = request'[v].row
                        /\ \A u \in Workers : u # v /\ Live(u)' => request'[u].page # request'[v].page
      BY DEF Waiting
    <3>1. Live(v) /\ v # w /\ request'[v] = request[v] /\ request[v].page # c
      BY <1>5, <2>3
    <3>2. request[v].page \in Pages
      BY <3>1, RequestFacts DEF Live
    <3>3. page'[request[v].page] = page[request[v].page]
      BY <2>2, <3>1, <3>2
    <3>4. \A u \in Workers : u # v /\ Live(u)' => request'[u].page # request[v].page
      BY <1>5, <3>1 DEF CInv, Waiting
    <3> QED
      BY <3>1, <3>3, <3>4 DEF CInv, Waiting
  <2>8. \A d \in Pages, q \in 1..Rows : page'[d].running =>
          page'[d].result[q] = page[d].result[q] \/ (page[d].store = s /\ q = r /\ page'[d].result[q] = result)
    BY <2>1, <2>5, <2>6
  <2> QED
    BY <2>2, <2>4, <2>7, <2>8 DEF Shown
<1>7. ASSUME ~Live(w) PROVE Waiting' /\ Shown
  <2>1. page' = page
    BY <1>7 DEF Answer, Live, Decided
  <2>2. Waiting'
    <3> SUFFICES ASSUME NEW v \in Workers, Live(v)'
                 PROVE  /\ page[request'[v].page].running /\ page[request'[v].page].waiting
                        /\ page[request'[v].page].store = request'[v].store
                        /\ page[request'[v].page].index = request'[v].row
                        /\ \A u \in Workers : u # v /\ Live(u)' => request'[u].page # request'[v].page
      BY <2>1 DEF Waiting
    <3>1. Live(v) /\ request'[v] = request[v]
      BY <1>5
    <3>2. \A u \in Workers : u # v /\ Live(u)' => request'[u].page # request[v].page
      BY <1>5, <3>1 DEF CInv, Waiting
    <3> QED
      BY <3>1, <3>2 DEF CInv, Waiting
  <2> QED
    BY <1>a, <2>1, <2>2 DEF Shown
<1>8. Waiting' /\ Shown
  BY <1>6, <1>7
<1>9. CatalogueTypes' /\ BulkTypes'
  BY <1>a, <1>3, <1>8 DEF CatalogueTypes, BulkTypes, Shown
<1>10. Holding'
  <2> SUFFICES ASSUME NEW v \in Workers, Decided(v)' PROVE storeLock'[request'[v].store] = v
    BY DEF Holding
  <2>1. Decided(v) /\ request[v].store # s /\ request'[v] = request[v]
    BY <1>4
  <2>2. request[v].store \in Stores /\ storeLock[request[v].store] = v
    BY <2>1, RequestFacts DEF CInv, Holding, Decided
  <2> QED
    BY <1>a, <1>3, <2>1, <2>2
<1>11. StillFound'
  <2> SUFFICES ASSUME NEW v \in Workers, Decided(v)'
               PROVE  Found(request[v].store, request[v].row, request[v].outcome)'
    BY DEF StillFound
  <2>1. Decided(v) /\ request[v].store # s /\ request'[v] = request[v]
    BY <1>4
  <2>2. PICK t \in Stores, q \in 1..Rows, o \in Results :
           t = request[v].store /\ q = request[v].row /\ o = request[v].outcome
    BY <2>1, RequestFacts DEF Decided
  <2>3. Found(t, q, o)
    BY <2>1, <2>2 DEF CInv, StillFound
  <2>4. \A sku \in Skus : product'[<<t, sku>>] = product[<<t, sku>>]
    BY <2>1, <2>2
  <2>5. RowSku[q] \in Skus
    BY RowsAssumption
  <2>6. Found(t, q, o)'
    BY <2>3, <2>4, <2>5 DEF Found, NameIn, InCatalogue
  <2>7. t = request'[v].store /\ q = request'[v].row /\ o = request'[v].outcome
    BY <2>1, <2>2
  <2> QED
    BY <2>6, <2>7
<1>12. StoresChosen'
  BY <1>8 DEF CInv, StoresChosen, Shown
<1>13. ReportsTrue'
  <2> SUFFICES ASSUME NEW d \in Pages, page'[d].running, NEW q \in 1..page'[d].index
               PROVE  Report(page[d].store, q, page[d].result[q])'
    BY DEF ReportsTrue, Report
  <2>1. /\ page[d].running /\ page[d].store = page'[d].store /\ q \in 1..page[d].index
        /\ page[d].store \in Stores /\ page[d] \in PageRows /\ page'[d] \in PageRows
    BY <1>8, PageFacts DEF Shown
  <2>2. page[d].index \in Nat /\ page[d].index <= Rows /\ Rows \in Nat
    BY <2>1, PageParts, RowsAssumption
  <2>3. q \in 1..Rows
    BY <2>1, <2>2
  <2>4. page'[d].result \in [1..Rows -> Results]
    BY <2>1, PageParts
  <2>5. PICK t \in Stores, x \in Results : t = page'[d].store /\ x = page'[d].result[q]
    BY <2>1, <2>3, <2>4
  <2>6. CASE page'[d].result[q] = page[d].result[q]
    <3>1. Report(t, q, x)
      BY <2>1, <2>5, <2>6, PageFacts
    <3>2. Report(t, q, x)'
      BY <2>3, <3>1, ReportGrows
    <3> QED
      BY <2>5, <3>2
  <2>7. CASE page[d].store = s /\ q = r /\ page'[d].result[q] = result
    <3>1. Report(t, q, x)'
      BY <2>1, <2>5, <2>7
    <3> QED
      BY <2>5, <3>1
  <2> QED
    BY <1>8, <2>3, <2>6, <2>7 DEF Shown
<1> QED
  BY <1>8, <1>9, <1>10, <1>11, <1>12, <1>13 DEF CInv

\* A row that was checked becomes a product, or is answered without one.
LEMMA RowAnswers ==
    ASSUME CInv, NEW w \in Workers, RowDone(w) \/ RowFails(w)
    PROVE  /\ CInv' /\ Grows
           /\ \A s \in Stores, sku \in Skus :
                 InCatalogue(s, sku)' /\ ~InCatalogue(s, sku) => product'[<<s, sku>>].images = {}
<1>a. /\ Decided(w) /\ request' = [request EXCEPT ![w] = None] /\ storeLock' = Unlocked(w)
  BY DEF RowDone, RowFails, Decided
<1>1. PICK s \in Stores, r \in 1..Rows, o \in Results :
         s = request[w].store /\ r = request[w].row /\ o = request[w].outcome
  BY <1>a, RequestFacts DEF Decided
<1>2. Found(s, r, o) /\ RowSku[r] \in Skus /\ RowName[r] \in Names
  BY <1>1, <1>a, RequestFacts DEF CInv, StillFound, Decided
<1>3. product \in [Stores \X Skus -> ProductRows \cup {None}]
  BY DEF CInv, CatalogueTypes
<1>4. CASE UNCHANGED product
  <2>1. PICK result \in Results : page' = Answer(w, result) /\ Report(s, r, result)
    <3>1. CASE RowDone(w) /\ o # "created"
      <4>1. PICK result \in {o, "duplicate of undefined"} : page' = Answer(w, result)
        BY <1>1, <3>1 DEF RowDone
      <4>2. Report(s, r, result) /\ result \in Results
        BY <1>1, <1>2, <3>1, <4>1 DEF Report, Found, Results
      <4> QED
        BY <4>1, <4>2
    <3>2. CASE RowDone(w) /\ o = "created"
      <4>1. ~InCatalogue(s, RowSku[r])
        BY <1>2, <3>2 DEF Found
      <4>2. product' = Added(s, RowSku[r], RowName[r], {}, FALSE, FALSE)
        BY <1>1, <3>2 DEF RowDone
      <4> DEFINE new == [name |-> RowName[r], images |-> {}, published |-> FALSE, stock |-> FALSE]
      <4>3. new \in ProductRows
        BY <1>2 DEF ProductRows
      <4>4. product'[<<s, RowSku[r]>>] = new
        BY <1>2, <1>3, <4>2 DEF Added
      <4> QED
        BY <1>4, <4>1, <4>3, <4>4, ProductsAssumption DEF InCatalogue
    <3>3. CASE RowFails(w)
      BY <3>3 DEF RowFails, Report, Results
    <3> QED
      BY <3>1, <3>2, <3>3
  <2>2. RowsNamed' /\ NamesOnce' /\ Grows
    BY <1>4 DEF CInv, RowsNamed, NamesOnce, InCatalogue, Grows
  <2>3. Report(s, r, result)'
    BY <2>1, <2>2, ReportGrows
  <2>4. CInv'
    BY <1>1, <1>3, <1>4, <1>a, <2>1, <2>2, <2>3, RowEnds
  <2> QED
    BY <1>4, <2>2, <2>4 DEF InCatalogue
<1>5. CASE RowDone(w) /\ o = "created"
  <2> DEFINE new == [name |-> RowName[r], images |-> {}, published |-> FALSE, stock |-> FALSE]
  <2>1. new \in ProductRows /\ new.name = RowName[r] /\ new.images = {}
    BY <1>2 DEF ProductRows
  <2>2. ~InCatalogue(s, RowSku[r]) /\ ~NameIn(s, RowName[r])
    BY <1>2, <1>5 DEF Found
  <2>3. PICK result \in {o, "duplicate of undefined"} :
          page' = Answer(w, result) /\ product' = [product EXCEPT ![<<s, RowSku[r]>>] = new]
    BY <1>1, <1>5 DEF RowDone, Added
  <2> HIDE DEF new
  <2>4. CatalogueTypes
    BY DEF CInv
  <2>5. /\ product' \in [Stores \X Skus -> ProductRows \cup {None}]
        /\ Grows
        /\ product'[<<s, RowSku[r]>>] = new /\ InCatalogue(s, RowSku[r])'
        /\ \A t \in Stores, k \in Skus : t # s \/ k # RowSku[r] => product'[<<t, k>>] = product[<<t, k>>]
    BY <1>2, <2>1, <2>2, <2>3, <2>4, AddGrows
  <2>6. \A t \in Stores, k \in Skus :
          InCatalogue(t, k)' => (t = s /\ k = RowSku[r]) \/ (InCatalogue(t, k) /\ product'[<<t, k>>] = product[<<t, k>>])
    BY <2>5 DEF InCatalogue
  <2>7. RowsNamed'
    <3> SUFFICES ASSUME NEW t \in Stores, NEW q \in 1..Rows, InCatalogue(t, RowSku[q])'
                 PROVE  product'[<<t, RowSku[q]>>].name = RowName[q]
      BY DEF RowsNamed
    <3>1. RowSku[q] \in Skus /\ (RowSku[q] = RowSku[r] => q = r)
      BY RowsAssumption
    <3>2. CASE t = s /\ q = r
      BY <2>1, <2>5, <3>2
    <3>3. CASE ~(t = s /\ q = r)
      BY <2>6, <3>1, <3>3 DEF CInv, RowsNamed
    <3> QED
      BY <3>2, <3>3
  <2>8. NamesOnce'
    <3> SUFFICES ASSUME NEW t \in Stores, NEW q \in 1..Rows, NEW p \in 1..Rows, RowSku[q] # RowSku[p],
                        InCatalogue(t, RowSku[q])', InCatalogue(t, RowSku[p])'
                 PROVE  RowName[q] # RowName[p]
      BY DEF NamesOnce
    <3>1. RowSku[q] \in Skus /\ RowSku[p] \in Skus
      BY RowsAssumption
    <3>2. \A k \in 1..Rows : InCatalogue(s, RowSku[k]) => RowName[k] # RowName[r]
      BY <2>2, RowsAssumption DEF CInv, RowsNamed, NameIn
    <3>3. CASE InCatalogue(t, RowSku[q]) /\ InCatalogue(t, RowSku[p])
      BY <3>3 DEF CInv, NamesOnce
    <3>4. CASE t = s /\ RowSku[q] = RowSku[r]
      <4>1. q = r /\ InCatalogue(s, RowSku[p])
        BY <2>6, <3>1, <3>4, RowsAssumption
      <4> QED
        BY <3>2, <4>1
    <3>5. CASE t = s /\ RowSku[p] = RowSku[r]
      <4>1. p = r /\ InCatalogue(s, RowSku[q])
        BY <2>6, <3>1, <3>5, RowsAssumption
      <4> QED
        BY <3>2, <4>1
    <3> QED
      BY <2>6, <3>1, <3>3, <3>4, <3>5
  <2>9. Report(s, r, result)' /\ result \in Results
    BY <1>5, <2>3, <2>5 DEF Report, Results
  <2>10. \A t \in Stores, k \in Skus : t # s => product'[<<t, k>>] = product[<<t, k>>]
    BY <2>5
  <2>11. CInv'
    BY <1>1, <1>a, <2>3, <2>5, <2>7, <2>8, <2>9, <2>10, RowEnds
  <2>12. \A t \in Stores, k \in Skus : InCatalogue(t, k)' /\ ~InCatalogue(t, k) => product'[<<t, k>>].images = {}
    BY <2>1, <2>5, <2>6
  <2> QED
    BY <2>5, <2>11, <2>12
<1>6. UNCHANGED product \/ (RowDone(w) /\ o = "created")
  BY <1>1 DEF RowDone, RowFails
<1> QED
  BY <1>4, <1>5, <1>6

-----------------------------------------------------------------------------
(* Both together *)

LEMMA BulkStep ==
    ASSUME CInv, BulkNext
    PROVE  /\ CInv' /\ Grows
           /\ \A s \in Stores, sku \in Skus :
                 InCatalogue(s, sku)' /\ ~InCatalogue(s, sku) => product'[<<s, sku>>].images = {}
<1>1. ASSUME UNCHANGED product
      PROVE  /\ Grows
             /\ \A s \in Stores, sku \in Skus :
                   InCatalogue(s, sku)' /\ ~InCatalogue(s, sku) => product'[<<s, sku>>].images = {}
  BY <1>1 DEF Grows, InCatalogue
<1>2. ASSUME NEW c \in Pages, PageStep(c) \/ BulkStop(c) \/ \E s \in Stores : BulkStart(c, s)
      PROVE  CInv' /\ UNCHANGED product
  BY <1>2, PageActions DEF PageStep
<1>3. CASE \E c \in Pages : PageStep(c) \/ BulkStop(c) \/ \E s \in Stores : BulkStart(c, s)
  BY <1>1, <1>2, <1>3
<1>4. ASSUME NEW w \in Workers, WorkerStep(w)
      PROVE  /\ CInv' /\ Grows
             /\ \A s \in Stores, sku \in Skus :
                   InCatalogue(s, sku)' /\ ~InCatalogue(s, sku) => product'[<<s, sku>>].images = {}
  <2>1. CASE RowChecked(w)
    <3>1. CInv' /\ UNCHANGED product
      BY <2>1, RowChecks
    <3> QED
      BY <1>1, <3>1
  <2>2. CASE RowDone(w) \/ RowFails(w)
    BY <2>2, RowAnswers
  <2> QED
    BY <1>4, <2>1, <2>2 DEF WorkerStep
<1> QED
  BY <1>3, <1>4 DEF BulkNext

LEMMA PhotosStep ==
    ASSUME PInv, CatalogueTypes, PhotoNext
    PROVE  /\ PInv' /\ CatalogueTypes' /\ Grows /\ storeLock' = storeLock
           /\ \A s \in Stores, sku \in Skus : InCatalogue(s, sku)' /\ ~InCatalogue(s, sku) =>
                 storeLock[s] = None /\ sku \in Groups
<1> DEFINE Rest == /\ CatalogueTypes' /\ Grows /\ storeLock' = storeLock
                   /\ \A s \in Stores, sku \in Skus : InCatalogue(s, sku)' /\ ~InCatalogue(s, sku) =>
                         storeLock[s] = None /\ sku \in Groups
<1>1. ASSUME UNCHANGED <<product, storeLock>> PROVE Rest
  BY <1>1 DEF CatalogueTypes, Grows, InCatalogue
<1> HIDE DEF Rest
<1>2. ASSUME NEW i \in Items, NEW publish \in BOOLEAN, ImportItem(i, publish) PROVE PInv' /\ Rest
  BY <1>2, ImportStep DEF Rest
<1>3. ASSUME NEW i \in Items,
             \/ UploadEnd(i) \/ UploadFails(i) \/ OffersAge(i)
             \/ \E hash \in Folders : UpsertItem(i, hash) \/ \E d \in DetailsForms : StageGroup(i, hash, d)
             \/ \E pic \in Pictures : UploadBegin(i, pic)
             \/ \E d \in DetailsForms, chosen \in SUBSET Files : SaveDetails(i, d, chosen)
             \/ \E new \in Items, moved \in SUBSET Files : i # new /\ Split(i, new, moved)
             \/ \E f \in Files : RemovePhoto(i, f)
      PROVE  PInv' /\ UNCHANGED <<product, storeLock>>
  <2>1. PInv'
    BY <1>3, PhotoStep
  <2>2. UNCHANGED <<product, storeLock>>
    BY <1>3 DEF UploadEnd, UploadFails, OffersAge, UpsertItem, StageGroup, UploadBegin,
       SaveDetails, Split, RemovePhoto
  <2> QED
    BY <2>1, <2>2
<1>4. ASSUME NEW s \in Stores, ChooseStore(s) PROVE PInv' /\ Rest
  BY <1>1, <1>4, StoreChoice
<1>5. ASSUME NEW f \in Files, DeleteFile(f) PROVE PInv' /\ Rest
  BY <1>1, <1>5, FileGoes
<1>6. PInv' /\ Rest
  <2>1. CASE \E s \in Stores : ChooseStore(s)
    BY <1>4, <2>1
  <2>2. CASE \E i \in Items, publish \in BOOLEAN : ImportItem(i, publish)
    BY <1>2, <2>2
  <2>3. CASE \E i \in Items, hash \in Folders :
               UpsertItem(i, hash) \/ (\E d \in DetailsForms : StageGroup(i, hash, d))
    BY <1>1, <1>3, <2>3
  <2>4. CASE \E i \in Items, pic \in Pictures : UploadBegin(i, pic)
    BY <1>1, <1>3, <2>4
  <2>5. CASE \E i \in Items, d \in DetailsForms, chosen \in SUBSET Files : SaveDetails(i, d, chosen)
    BY <1>1, <1>3, <2>5
  <2>6. CASE \E i, new \in Items, moved \in SUBSET Files : i # new /\ Split(i, new, moved)
    BY <1>1, <1>3, <2>6
  <2>7. CASE \E i \in Items, f \in Files : RemovePhoto(i, f)
    BY <1>1, <1>3, <2>7
  <2>8. CASE \E i \in Items : UploadEnd(i) \/ UploadFails(i) \/ OffersAge(i)
    BY <1>1, <1>3, <2>8
  <2>9. CASE \E f \in Files : DeleteFile(f)
    BY <1>5, <2>9
  <2> QED
    BY <2>1, <2>2, <2>3, <2>4, <2>5, <2>6, <2>7, <2>8, <2>9 DEF PhotoNext
<1> QED
  BY <1>6 DEF Rest

LEMMA ImportsStep == IInv /\ [Next]_vars => IInv'
<1> SUFFICES ASSUME PInv, CInv, [Next]_vars PROVE PInv' /\ CInv'
  BY DEF IInv
<1>1. CatalogueTypes
  BY DEF CInv
<1>2. CASE PhotoNext /\ UNCHANGED bulkVars
  <2>1. /\ PInv' /\ CatalogueTypes' /\ Grows /\ storeLock' = storeLock
        /\ \A s \in Stores, sku \in Skus : InCatalogue(s, sku)' /\ ~InCatalogue(s, sku) =>
              storeLock[s] = None /\ sku \in Groups
    BY <1>1, <1>2, PhotosStep
  <2> QED
    BY <1>2, <2>1, RowsAside
<1>3. CASE BulkNext /\ UNCHANGED photoVars
  <2>1. /\ CInv' /\ Grows
        /\ \A s \in Stores, sku \in Skus :
              InCatalogue(s, sku)' /\ ~InCatalogue(s, sku) => product'[<<s, sku>>].images = {}
    BY <1>3, BulkStep
  <2> QED
    BY <1>3, <2>1, PhotosAside
<1>4. CASE UNCHANGED vars
  <2>1. UNCHANGED <<product, storeLock, photoVars, bulkVars>>
    BY <1>4 DEF vars
  <2>2. /\ CatalogueTypes' /\ Grows /\ storeLock' = storeLock
        /\ \A s \in Stores, sku \in Skus : InCatalogue(s, sku)' => InCatalogue(s, sku)
    BY <1>1, <2>1 DEF CatalogueTypes, Grows, InCatalogue
  <2> QED
    BY <2>1, <2>2, RowsAside, PhotosAside
<1> QED
  BY <1>2, <1>3, <1>4 DEF Next

-----------------------------------------------------------------------------
(* What always holds *)

\* The invariants of the workspace and of the manifest pages hold together:
\* both imports work on one catalogue (import_item, import_row).
THEOREM Invariance == Spec => []IInv
<1>1. Init => IInv
  BY InitiallyPhotos, InitiallyRows DEF Init, IInv
<1> QED
  BY <1>1, ImportsStep, PTL DEF Spec

\* Whatever is removed, split off or uploaded later, and however often, the
\* files of the photos an imported product shows stay in storage (remove_photo).
THEOREM FilesAreKept == Spec => []FilesKept
<1>1. IInv => FilesKept
  <2> SUFFICES ASSUME IInv, NEW s \in Stores, NEW sku \in Skus, InCatalogue(s, sku),
                      NEW f \in product[<<s, sku>>].images
               PROVE  f \in stored
    BY DEF FilesKept
  <2>1. f \in Files
    BY DEF IInv, CInv, CatalogueTypes, InCatalogue, ProductRows
  <2> QED
    BY <2>1 DEF IInv, PInv, ShownImported, FilesThere
<1> QED
  BY <1>1, Invariance, PTL

\* Every imported item is linked to the product of its own source in the store
\* its batch has now (batch_detail refuses to move a batch that has imported).
THEOREM ItemsInOneStore == Spec => []ImportedInBatchStore
<1>1. IInv => ImportedInBatchStore
  BY DEF IInv, PInv
<1> QED
  BY <1>1, Invariance, PTL

\* What is imported was looked at after it was last split (split clears the
\* flags that validated_item asks for).
THEOREM ImportsReviewed == Spec => []ImportedReviewed
<1>1. IInv => ImportedReviewed
  BY DEF IInv, PInv, Verified, ImportedReviewed, Imported
<1> QED
  BY <1>1, Invariance, PTL

\* Rows sent twice, by several pages, with lost answers and failures, never
\* make two products of one name in a store (import_row under the store's lock).
THEOREM NamesAreUnique == Spec => []NamesOnce
<1>1. IInv => NamesOnce
  BY DEF IInv, CInv
<1> QED
  BY <1>1, Invariance, PTL

\* What the answers have told a running page of the rows behind it is so: a row
\* shown as created, existing or the duplicate of a product is that.  One that is
\* shown as failed, or as "duplicate of undefined", may be anything (importRow).
THEOREM PagesTellTheTruth == Spec => []ReportsTrue
<1>1. IInv => ReportsTrue
  BY DEF IInv, CInv
<1> QED
  BY <1>1, Invariance, PTL
=============================================================================
