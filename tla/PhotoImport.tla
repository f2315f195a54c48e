------------------------------ MODULE PhotoImport ------------------------------
(***************************************************************************)
(* The photo import workspace: one batch, whose items (groups of photos)   *)
(* are filled, reviewed, split and imported one by one, each at most once. *)
(* Requests come from any number of browser tabs, in any order and any     *)
(* number of times: a tab that got no answer tries again.                  *)
(*                                                                         *)
(* An item's source hash is the fingerprint of the set of pictures it was  *)
(* made from, and its product's SKU is made from that hash; both are       *)
(* modelled by the set.  A picture (its SHA-256) is uploaded to a file of  *)
(* its own, which is deleted after the removal of its photo has committed. *)
(* Every service locks the item's row, and the import the batch's and the  *)
(* store's too; an upload is two steps, because it looks for the picture   *)
(* in the other items, which it has not locked.  That the store is active  *)
(* is one more condition, which only refuses.                              *)
(***************************************************************************)
EXTENDS ImportCatalogue

CONSTANTS
    Items,          \* source keys an administrator uses
    Pictures,
    Folders,        \* sets of pictures that are uploaded or staged as a group
    DetailsForms,   \* what an administrator fills in
    MaxListing,     \* photos of one listing: 5
    MaxStaged       \* photos of one item: 30

\* What the review form may hold, how an item is kept and how a photo is.
DetailsRows == [identity : BOOLEAN, offersVerified : BOOLEAN, offers : {"none", "valid", "stale"},
                policy : {"retail_mean", "manual", "unpriced"}, stock : BOOLEAN, name : Names \cup {None}]
Groups == (SUBSET Pictures) \ {{}}
ItemRows == [hash : Groups, details : DetailsRows, product : (Stores \X Skus) \cup {None}]
PhotoRows == [item : Items, picture : Pictures, selected : BOOLEAN]

NoDetails == [identity |-> FALSE, offersVerified |-> FALSE, offers |-> "none",
              policy |-> "retail_mean", stock |-> FALSE, name |-> None]

ASSUME PhotosAssumption ==
    /\ DetailsForms \subseteq DetailsRows
    /\ Folders \subseteq Groups /\ Groups \subseteq Skus
    /\ None \notin ItemRows /\ None \notin PhotoRows /\ None \notin Stores \X Skus

VARIABLES
    batchStore,     \* PhotoImportBatch.store
    item,           \* the PhotoImportItem of each source key, or None
    photo,          \* the PhotoImportImage of each file, or None
    stored,         \* files in storage
    doomed,         \* files of removed photos that are still to be deleted
    uploading,      \* the picture an upload that holds the item's lock will add
    reviewed        \* the item was saved by an administrator since it was last split
photoVars == <<batchStore, item, photo, stored, doomed, uploading, reviewed>>

Staged(i) == {f \in Files : photo[f] # None /\ photo[f].item = i}
Selected(i) == {f \in Staged(i) : photo[f].selected}
StagedPictures == {photo[f].picture : f \in {f \in Files : photo[f] # None}}
FreshFiles == {f \in Files : f \notin stored /\ photo[f] = None}

PhotoInit ==
    /\ batchStore = None
    /\ item = [i \in Items |-> None]
    /\ photo = [f \in Files |-> None]
    /\ stored = {}
    /\ doomed = {}
    /\ uploading = [i \in Items |-> None]
    /\ reviewed = [i \in Items |-> FALSE]

\* An item whose lock is free and which is not yet imported: what upload,
\* save, split and remove_photo ask for.
Open(i) == item[i] # None /\ uploading[i] = None /\ item[i].product = None

\* Mutant: a batch may move whatever became of its items.
MoveAnywhere(s) == TRUE

\* An imported batch cannot be moved to another Store.
MayMove(s) == (\E i \in Items : item[i] # None /\ item[i].product # None) => batchStore = s

\* batch_detail, POST
ChooseStore(s) ==
    /\ MayMove(s)
    /\ batchStore' = s
    /\ UNCHANGED <<item, photo, stored, doomed, uploading, reviewed, product, storeLock>>

NewItem(hash, details) == [hash |-> hash, details |-> details, product |-> None]

\* upsert_item: a new group; for a known one the fingerprint must be the
\* same, and nothing changes.
UpsertItem(i, hash) ==
    /\ item[i] = None
    /\ item' = [item EXCEPT ![i] = NewItem(hash, NoDetails)]
    /\ UNCHANGED <<batchStore, photo, stored, doomed, uploading, reviewed, product, storeLock>>

\* item_action, upload: the item is locked and the picture looked for in the
\* whole batch.  If it is there, nothing is added.
UploadBegin(i, pic) ==
    /\ Open(i)
    /\ pic \notin StagedPictures
    /\ Cardinality(Staged(i)) < MaxStaged
    /\ uploading' = [uploading EXCEPT ![i] = pic]
    /\ UNCHANGED <<batchStore, item, photo, stored, doomed, reviewed, product, storeLock>>

\* The photo is saved, selected while there is room, and committed.
UploadEnd(i) ==
    /\ uploading[i] # None
    /\ uploading' = [uploading EXCEPT ![i] = None]
    /\ \E f \in FreshFiles :
          /\ stored' = stored \cup {f}
          /\ photo' = [photo EXCEPT ![f] =
                [item |-> i, picture |-> uploading[i],
                 selected |-> Cardinality(Selected(i)) < MaxListing]]
    /\ UNCHANGED <<batchStore, item, doomed, reviewed, product, storeLock>>

\* The storage fails, or the process stops: the row is rolled back, the file
\* may stay.
UploadFails(i) ==
    /\ uploading[i] # None
    /\ uploading' = [uploading EXCEPT ![i] = None]
    /\ stored' \in {stored} \cup {stored \cup {f} : f \in FreshFiles}
    /\ UNCHANGED <<batchStore, item, photo, doomed, reviewed, product, storeLock>>

\* item_action, save
SaveDetails(i, details, selection) ==
    /\ Open(i)
    /\ selection \subseteq Staged(i)
    /\ item' = [item EXCEPT ![i].details = details]
    /\ photo' = [f \in Files |->
                    IF f \in Staged(i) THEN [photo[f] EXCEPT !.selected = f \in selection] ELSE photo[f]]
    /\ reviewed' = [reviewed EXCEPT ![i] = TRUE]
    /\ UNCHANGED <<batchStore, stored, doomed, uploading, product, storeLock>>

\* Mutant: the group that was split stays verified.
FlagsKept(details) == details

FlagsCleared(details) == [details EXCEPT !.identity = FALSE, !.offersVerified = FALSE]

\* item_action, split: the chosen photos move to a new item.
Split(i, new, moved) ==
    /\ Open(i)
    /\ moved \subseteq Staged(i) /\ moved # {}
    /\ item[new] = None
    /\ item' = [item EXCEPT ![new] = NewItem({photo[f].picture : f \in moved}, NoDetails),
                            ![i].details = FlagsCleared(@)]
    /\ \E first \in SUBSET moved :
          /\ Cardinality(first) = (IF Cardinality(moved) < MaxListing THEN Cardinality(moved) ELSE MaxListing)
          /\ photo' = [f \in Files |->
                IF f \in moved
                THEN [photo[f] EXCEPT !.item = new, !.selected = f \in first]
                ELSE photo[f]]
    /\ reviewed' = [reviewed EXCEPT ![i] = FALSE, ![new] = FALSE]
    /\ UNCHANGED <<batchStore, stored, doomed, uploading, product, storeLock>>

\* Mutant: a photo may be removed from an imported item.
RemovableAnyway(i) == item[i] # None /\ uploading[i] = None

Removable(i) == Open(i)

\* item_action, remove_photo: the row goes.
RemovePhoto(i, f) ==
    /\ Removable(i)
    /\ f \in Staged(i)
    /\ photo' = [photo EXCEPT ![f] = None]
    /\ doomed' = doomed \cup {f}
    /\ UNCHANGED <<batchStore, item, stored, uploading, reviewed, product, storeLock>>

\* on_commit: the file goes too, when no lock is held any more; it stays if the
\* storage fails or the process stops before.
DeleteFile(f) ==
    /\ f \in doomed
    /\ doomed' = doomed \ {f}
    /\ stored' \in {stored, stored \ {f}}
    /\ UNCHANGED <<batchStore, item, photo, uploading, reviewed, product, storeLock>>

\* price_research: offers that are incomplete, doubled or older than 30 days
\* refuse the import; "none" is a count of zero.
ResearchUsable(details) == details.offers # "stale"

\* validated_item: what an import asks of the details and the selection.
ValidatedItem(i) ==
    LET d == item[i].details
    IN  /\ d.name # None /\ d.identity
        /\ ResearchUsable(d)
        /\ CASE d.policy = "retail_mean" -> d.offers = "valid" /\ d.offersVerified
             [] d.policy = "manual" -> TRUE
             [] d.policy = "unpriced" -> FALSE
        /\ Selected(i) # {} /\ Cardinality(Selected(i)) <= MaxListing

\* import_item, which is repeated without effect once the item has a product:
\* a product of the same source in the store is linked, never changed;
\* otherwise it is created with its photos, price, stock and status at once.
ImportItem(i, publish) ==
    /\ Open(i)
    /\ batchStore # None
    /\ storeLock[batchStore] = None
    /\ ValidatedItem(i)
    /\ LET sku == item[i].hash
           d == item[i].details
       IN  /\ item' = [item EXCEPT ![i].product = <<batchStore, sku>>]
           /\ product' = IF InCatalogue(batchStore, sku) THEN product
                         ELSE Added(batchStore, sku, d.name, Selected(i), publish, d.stock)
    /\ UNCHANGED <<batchStore, photo, stored, doomed, uploading, reviewed, storeLock>>

\* stage_photo_catalogue: a group of the local catalogue is created if it is
\* new, and its photos are looked for in this item only.  (One that is just
\* being uploaded to it makes one of the two fail.)
StageGroup(i, hash, details) ==
    /\ item[i] # None => item[i].hash = hash /\ item[i].product = None
    /\ item' = IF item[i] = None THEN [item EXCEPT ![i] = NewItem(hash, details)] ELSE item
    /\ \E new \in SUBSET FreshFiles : \E selected \in SUBSET new,
       picture \in [new -> hash] :
          LET missing == hash \ {photo[f].picture : f \in Staged(i)}
          IN  /\ {picture[f] : f \in new} = missing
              /\ Cardinality(new) = Cardinality(missing)
              /\ uploading[i] \notin missing
              /\ photo' = [f \in Files |->
                    IF f \in new THEN [item |-> i, picture |-> picture[f], selected |-> f \in selected]
                    ELSE photo[f]]
              /\ stored' = stored \cup new
    /\ reviewed' = IF item[i] = None THEN [reviewed EXCEPT ![i] = TRUE] ELSE reviewed
    /\ UNCHANGED <<batchStore, doomed, uploading, product, storeLock>>

\* Time passes: the researched offers become older than 30 days.
OffersAge(i) ==
    /\ item[i] # None /\ item[i].details.offers = "valid"
    /\ item' = [item EXCEPT ![i].details.offers = "stale"]
    /\ UNCHANGED <<batchStore, photo, stored, doomed, uploading, reviewed, product, storeLock>>

PhotoNext ==
    \/ \E s \in Stores : ChooseStore(s)
    \/ \E i \in Items : UploadEnd(i) \/ UploadFails(i) \/ OffersAge(i)
    \/ \E i \in Items, hash \in Folders :
          UpsertItem(i, hash) \/ (\E d \in DetailsForms : StageGroup(i, hash, d))
    \/ \E i \in Items, pic \in Pictures : UploadBegin(i, pic)
    \/ \E i \in Items, d \in DetailsForms, chosen \in SUBSET Files : SaveDetails(i, d, chosen)
    \/ \E i, new \in Items, moved \in SUBSET Files : i # new /\ Split(i, new, moved)
    \/ \E i \in Items, f \in Files : RemovePhoto(i, f)
    \/ \E f \in Files : DeleteFile(f)
    \/ \E i \in Items, publish \in BOOLEAN : ImportItem(i, publish)
=============================================================================
