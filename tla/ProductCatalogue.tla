--------------------------- MODULE ProductCatalogue ---------------------------
(***************************************************************************)
(* The life of a product: stores write it, management reviews, prices and  *)
(* publishes it, and both change its photos.                               *)
(*                                                                         *)
(* Every service locks the Product row before it decides anything, so a    *)
(* request is one action.  What a view read before the lock (the status a  *)
(* form offers transitions from, the check that refuses to open an         *)
(* inactive product, the margin a form validated a price against) may be   *)
(* outdated when the service runs: no guard below relies on it.            *)
(*                                                                         *)
(* The reviewed fields other than the store's price (name, SKU, category,  *)
(* description, tags, ...) are one abstract content.  A photo is the file  *)
(* an image row points to.  Search keywords, the low-stock threshold, the  *)
(* featured flag, audit rows and texts are left out.                       *)
(***************************************************************************)
EXTENDS Pricing, FiniteSets

CONSTANTS
    Products,
    Photos,         \* files uploaded
    Staff,          \* management accounts
    Can,            \* their permissions; a super admin has them all
    Contents,       \* what a form may say of a product
    StorePrices,    \* prices stores ask
    Margins,        \* margins and
    Discounts,      \*   discounts management sets
    MaxImages,      \* MAX_IMAGES_PER_PRODUCT
    NoProduct, NoPhoto, NoUser

Permissions == {"add", "change", "price", "approve"}

ASSUME StaffAssumption == Can \in [Staff -> SUBSET Permissions] /\ NoUser \notin Staff
ASSUME AmountsAssumption ==
    /\ StorePrices \subseteq Nat
    /\ Margins \subseteq Adjustment({"FIXED", "PERCENTAGE"})
    /\ Discounts \subseteq Adjustment({"", "FIXED", "PERCENTAGE"})
ASSUME PhotosAssumption == IsFiniteSet(Photos) /\ NoPhoto \notin Photos /\ MaxImages \in Nat

Statuses == {"DRAFT", "PENDING", "APPROVED", "REJECTED", "INACTIVE"}

ProductRows ==
    [status : Statuses, content : Contents, storePrice : StorePrices,
     margin : Margins \cup {Unset}, discount : Discounts \cup {Unset},
     selling : Nat \cup {NoPrice}, final : Nat \cup {NoPrice},
     images : SUBSET Photos, primary : Photos \cup {NoPhoto},
     approvedBy : Staff \cup {NoUser}, autoPublish : BOOLEAN]

ASSUME NoProductAssumption == NoProduct \notin ProductRows

VARIABLES
    product,        \* the Product row and its images, or NoProduct
    shopOpen,       \* the store is active with status ACTIVE, and so is the
                    \* product's category
    statusLog,      \* new_status of the last ProductStatusHistory row
    priceLog,       \* the last ProductPriceHistory row
    unreviewed      \* a store has changed what customers see, and no manager
                    \* has decided on the product since
vars == <<product, shopOpen, statusLog, priceLog, unreviewed>>

-----------------------------------------------------------------------------
(* The status machine *)

AllowedTransitions ==
    [DRAFT    |-> {"PENDING"},
     PENDING  |-> {"APPROVED", "REJECTED"},
     REJECTED |-> {"PENDING", "DRAFT"},
     APPROVED |-> {"INACTIVE", "PENDING"},
     INACTIVE |-> {"APPROVED", "PENDING"}]

\* Mutant: every transition may be asked for by a store.
StoreUserMayDoAnything(from, to) == TRUE

StoreUserMayTransition(from, to) ==
    <<from, to>> \in {<<"DRAFT", "PENDING">>, <<"REJECTED", "PENDING">>,
                      <<"REJECTED", "DRAFT">>, <<"APPROVED", "PENDING">>}

\* Mutant: approving needs no more than editing.
PermissionForAnyTransition(to) == "change"

\* permission_for_transition: it depends on the new status alone.
PermissionForTransition(to) == IF to \in {"APPROVED", "REJECTED"} THEN "approve" ELSE "change"

HasImage(r) == r.images # {}
PricingComplete(r) == MarginSet(r.margin) /\ r.selling # NoPrice /\ r.final # NoPrice

\* Mutant: the photos are not looked at.
ValidWithoutImage(r) == shopOpen /\ PricingComplete(r) /\ r.final > 0

\* validate_product_for_approval
ValidForApproval(r) ==
    /\ shopOpen
    /\ PricingComplete(r) /\ r.final > 0
    /\ HasImage(r)

Prices(r) == [storePrice |-> r.storePrice, margin |-> r.margin, selling |-> r.selling,
              discount |-> r.discount, final |-> r.final]

\* The product with another status and the approval stamp that goes with it.
WithStatus(r, to, by) ==
    [r EXCEPT !.status = to,
              !.approvedBy = IF to = "APPROVED" THEN by
                               ELSE IF to = "REJECTED" \/ r.status = "APPROVED" THEN NoUser
                               ELSE r.approvedBy]

\* record_product_status_change accepts the transition of the locked row.
MayRecord(r, to, byStore) ==
    /\ to \in AllowedTransitions[r.status]
    /\ byStore => StoreUserMayTransition(r.status, to)
    /\ to = "APPROVED" => ValidForApproval(r)

-----------------------------------------------------------------------------
(* Photos *)

\* Mutant: the limit is checked before the additions.
FewEnoughBefore(old, new) == Cardinality(old) <= MaxImages

FewEnough(old, new) == Cardinality(new) <= MaxImages

\* Mutant: an approved product may lose its last photo.
ImagesOnlyFewEnough(r, new) == FewEnough(r.images, new)

\* What mutate_product_images accepts, before it writes anything.
ImagesAllowed(r, new) ==
    /\ FewEnough(r.images, new)
    /\ (r.status = "APPROVED" /\ r.images \ new # {}) => new # {}

\* Mutant: the primary photo of a batch that deletes it is not replaced.
PrimariesKept(r, new, chosen) ==
    IF chosen \in new THEN {chosen}
    ELSE IF r.primary = NoPhoto /\ new # {} THEN new ELSE {r.primary}

\* The primary photo of the new set: the one asked for, else the old one if
\* it stays, else the first in an order that stores edit freely.
Primaries(r, new, chosen) ==
    IF chosen \in new THEN {chosen}
    ELSE IF r.primary \in new THEN {r.primary}
    ELSE IF new = {} THEN {NoPhoto} ELSE new

\* Mutant: an approved product stays approved when its photos change.
AfterImagesKept(r, new, added, by) == r

\* The status after photos were added or removed: back to review if the
\* product was approved; published if a manager who may approve it adds a
\* photo it was waiting for, and it is valid.
AfterImages(r, new, added, by) ==
    CASE r.status = "APPROVED" -> WithStatus(r, "PENDING", by)
      [] /\ r.status = "PENDING" /\ r.autoPublish /\ added
         /\ by \in Staff /\ "approve" \in Can[by]
         /\ ValidForApproval([r EXCEPT !.images = new])
         -> [WithStatus(r, "APPROVED", by) EXCEPT !.autoPublish = FALSE]
      [] OTHER -> r

\* A photo no product uses: every upload makes a file of its own.
FreshPhoto(f) == \A p \in Products : product[p] # NoProduct => f \notin product[p].images

-----------------------------------------------------------------------------
(* Saving a product *)

\* What a step of a store leaves for review; a manager's step leaves none.
Reviewed(r) == <<r.content, r.storePrice, r.images>>

\* Mutant: the resubmission saves without its row of the status history.
SaveUnlogged(p, r, byStore) ==
    /\ product' = [product EXCEPT ![p] = r]
    /\ priceLog' = [priceLog EXCEPT ![p] = IF Prices(r) # Prices(product[p]) THEN Prices(r) ELSE @]
    /\ UNCHANGED <<shopOpen, statusLog, unreviewed>>

\* The row is saved: the histories get a row when status or prices changed.
Save(p, r, byStore) ==
    /\ product' = [product EXCEPT ![p] = r]
    /\ statusLog' = [statusLog EXCEPT ![p] = IF r.status # product[p].status THEN r.status ELSE @]
    /\ priceLog' = [priceLog EXCEPT ![p] = IF Prices(r) # Prices(product[p]) THEN Prices(r) ELSE @]
    /\ unreviewed' = [unreviewed EXCEPT ![p] =
                        IF r.status # product[p].status /\ r.status = "APPROVED" THEN FALSE
                        ELSE @ \/ (byStore /\ Reviewed(r) # Reviewed(product[p]))]
    /\ UNCHANGED shopOpen

Init ==
    /\ product = [p \in Products |-> NoProduct]
    /\ shopOpen = TRUE
    /\ statusLog = [p \in Products |-> ""]
    /\ priceLog = [p \in Products |-> <<>>]
    /\ unreviewed = [p \in Products |-> FALSE]

\* create_product: a new row, its first rows in both histories, its photos.
CreateProduct(p, content, storePrice, status, images, autoPublish, byStore) ==
    LET new(primary) ==
        [status |-> status, content |-> content, storePrice |-> storePrice,
         margin |-> Unset, discount |-> Unset, selling |-> NoPrice, final |-> NoPrice,
         images |-> images, primary |-> primary, approvedBy |-> NoUser,
         autoPublish |-> autoPublish]
    IN  /\ product[p] = NoProduct
        /\ FewEnough({}, images)
        /\ \E f \in IF images = {} THEN {NoPhoto} ELSE images :
              /\ product' = [product EXCEPT ![p] = new(f)]
              /\ priceLog' = [priceLog EXCEPT ![p] = Prices(new(f))]
        /\ statusLog' = [statusLog EXCEPT ![p] = status]
        /\ unreviewed' = [unreviewed EXCEPT ![p] = byStore]
        /\ UNCHANGED shopOpen

\* Mutant: a change of the store's price alone needs no review.
ContentRequiresReapproval(r, content, storePrice) == content # r.content

\* changes_require_reapproval, and the comparison of the tags.
ChangesRequireReapproval(r, content, storePrice) ==
    content # r.content \/ storePrice # r.storePrice

\* update_product on the locked row.  An approved product edited by a store
\* goes back to review with the prices it had; otherwise prices are computed
\* again, and a price they do not fit refuses the save.
UpdateProduct(p, content, storePrice, byStore) ==
    LET r == product[p]
        edited == [r EXCEPT !.content = content, !.storePrice = storePrice]
        priced == AppliedPrices(storePrice, r.margin, r.discount)
    IN  /\ r # NoProduct
        /\ IF byStore /\ r.status = "APPROVED" /\ ChangesRequireReapproval(r, content, storePrice)
           THEN Save(p, [edited EXCEPT !.status = "PENDING"], byStore)
           ELSE /\ PricesFit(storePrice, r.margin, r.discount)
                /\ Save(p, [edited EXCEPT !.selling = priced.selling, !.final = priced.final], byStore)

\* apply_admin_pricing
ApplyAdminPricing(p, margin, discount) ==
    LET r == product[p]
        priced == CalculatePrices(r.storePrice, margin, discount)
    IN  /\ r # NoProduct
        /\ CanCalculatePrices(r.storePrice, margin, discount)
        /\ Save(p, [r EXCEPT !.margin = margin, !.discount = discount,
                             !.selling = priced.selling, !.final = priced.final], FALSE)

\* record_product_status_change
RecordStatusChange(p, to, by, byStore) ==
    /\ product[p] # NoProduct
    /\ MayRecord(product[p], to, byStore)
    /\ Save(p, WithStatus(product[p], to, by), byStore)

\* mutate_product_images for the product r of row p: it gets the set of photos
\* new; added tells an added photo from a replaced one.
MutateImages(p, r, new, added, chosen, by, byStore) ==
    /\ ImagesAllowed(r, new)
    /\ \E f \in Primaries(r, new, chosen) :
          LET after == IF new = r.images THEN r ELSE AfterImages(r, new, added, by)
          IN  Save(p, [after EXCEPT !.images = new, !.primary = f], byStore)

-----------------------------------------------------------------------------
(* The pages of management *)

\* product_create_view; bulk and photo import create pending products too.
ManagementCreate(p, s) ==
    /\ "add" \in Can[s]
    /\ \E c \in Contents, price \in StorePrices, status \in {"DRAFT", "PENDING"} :
          CreateProduct(p, c, price, status, {}, FALSE, FALSE)

\* product_edit_view
ManagementEdit(p, s) ==
    /\ "change" \in Can[s]
    /\ \E c \in Contents, price \in StorePrices : UpdateProduct(p, c, price, FALSE)

\* product_pricing_view
SetPricing(p, s) ==
    /\ "price" \in Can[s]
    /\ \E m \in Margins, d \in Discounts : ApplyAdminPricing(p, m, d)

\* product_change_status_view; a rejection has a reason.
ChangeStatus(p, s) ==
    \E to \in Statuses :
        /\ PermissionForTransition(to) \in Can[s]
        /\ RecordStatusChange(p, to, s, FALSE)

\* product_images_view, and the same of the store: one photo is added.
AddImage(p, by, byStore) ==
    LET r == product[p]
    IN  \E f \in {f \in Photos : FreshPhoto(f)} : \E chosen \in {f, NoPhoto} :
            MutateImages(p, r, r.images \cup {f}, TRUE, chosen, by, byStore)

\* product_image_delete_view and store_product_image_delete_view
DeleteImage(p, by, byStore) ==
    LET r == product[p]
    IN  \E f \in r.images : MutateImages(p, r, r.images \ {f}, FALSE, NoPhoto, by, byStore)

\* product_image_set_primary_view and that of the store: no other photo, no
\* new review.
SetPrimaryImage(p, byStore) ==
    LET r == product[p]
    IN  \E f \in r.images : MutateImages(p, r, r.images, FALSE, f, NoUser, byStore)

ManageImages(p, s) ==
    /\ product[p] # NoProduct
    /\ "change" \in Can[s]
    /\ AddImage(p, s, FALSE) \/ DeleteImage(p, s, FALSE) \/ SetPrimaryImage(p, FALSE)

\* ProductImageAdmin.save_model: the file of an image is replaced.
AdminReplaceImage(p, s) ==
    /\ product[p] # NoProduct
    /\ "change" \in Can[s]
    /\ LET r == product[p]
       IN  \E old \in r.images, f \in {f \in Photos : FreshPhoto(f)} :
               MutateImages(p, r, (r.images \ {old}) \cup {f}, FALSE,
                            IF r.primary = old THEN f ELSE NoPhoto, s, FALSE)

\* ProductAdmin.save_model and save_formset: the admin site changes fields
\* and photos of a product in one transaction and leaves its prices alone,
\* which its form has nevertheless computed again.
AdminSaveProduct(p, s) ==
    /\ product[p] # NoProduct
    /\ "change" \in Can[s]
    /\ PricesFit(product[p].storePrice, product[p].margin, product[p].discount)
    /\ \E c \in Contents, removed \in SUBSET product[p].images,
          added \in SUBSET {f \in Photos : FreshPhoto(f)} :
          LET r == [product[p] EXCEPT !.content = c]
              new == (r.images \ removed) \cup added
          IN  /\ ImagesAllowed(r, new)
              /\ \E chosen \in new \cup {NoPhoto} :
                    MutateImages(p, r, new, added # {}, chosen, s, FALSE)

\* ProductImageAdmin.delete_queryset: photos of several products are deleted
\* in one transaction; a product that may not lose its photos stops it.
AdminDeleteImages(s) ==
    \E files \in SUBSET {f \in Photos : ~FreshPhoto(f)} :
        LET hit == {p \in Products : product[p] # NoProduct /\ product[p].images \cap files # {}}
            left(p) == product[p].images \ files
            after(p, f) == [AfterImages(product[p], left(p), FALSE, s) EXCEPT !.images = left(p), !.primary = f]
        IN  /\ "change" \in Can[s]
            /\ hit # {}
            /\ \A p \in hit : ImagesAllowed(product[p], left(p))
            /\ \E primary \in [hit -> Photos \cup {NoPhoto}] :
                  /\ \A p \in hit : primary[p] \in Primaries(product[p], left(p), NoPhoto)
                  /\ product' = [p \in Products |->
                                    IF p \in hit THEN after(p, primary[p]) ELSE product[p]]
                  /\ statusLog' = [p \in Products |->
                                    IF p \in hit /\ product[p].status = "APPROVED"
                                    THEN "PENDING" ELSE statusLog[p]]
            /\ UNCHANGED <<shopOpen, priceLog, unreviewed>>

\* Mutant: the admin site deletes what was selected, whatever is left.
AdminDeleteAnything(p) == TRUE

\* guard_product_image_cascade: deleting a product deletes its photos, which
\* an approved product that has any may not lose.
MayDelete(p) == ImagesAllowed(product[p], {})

\* ProductAdmin.delete_model: the rows of both histories go with the product.
AdminDeleteProduct(p) ==
    /\ product[p] # NoProduct
    /\ MayDelete(p)
    /\ product' = [product EXCEPT ![p] = NoProduct]
    /\ statusLog' = [statusLog EXCEPT ![p] = ""]
    /\ priceLog' = [priceLog EXCEPT ![p] = <<>>]
    /\ unreviewed' = [unreviewed EXCEPT ![p] = FALSE]
    /\ UNCHANGED shopOpen

-----------------------------------------------------------------------------
(* The portal of the store; its check that the store is active is another  *)
(* one that is made before the lock                                        *)

\* store_product_create_view
StoreCreate(p) ==
    \E c \in Contents, price \in StorePrices, status \in {"DRAFT", "PENDING"},
      images \in SUBSET {f \in Photos : FreshPhoto(f)} :
        CreateProduct(p, c, price, status, images, FALSE, TRUE)

\* store_product_edit_view; it refuses to open for an inactive product, on a
\* read before the lock.
StoreEdit(p) ==
    \E c \in Contents, price \in StorePrices : UpdateProduct(p, c, price, TRUE)

\* store_product_submit_view
StoreSubmit(p) == RecordStatusChange(p, "PENDING", NoUser, TRUE)

\* store_product_images_view, _image_delete_view and _set_primary_view
StoreImages(p) ==
    /\ product[p] # NoProduct
    /\ AddImage(p, NoUser, TRUE) \/ DeleteImage(p, NoUser, TRUE) \/ SetPrimaryImage(p, TRUE)

-----------------------------------------------------------------------------
(* What happens elsewhere *)

\* A store is suspended or reactivated, a category switched off or on.
SwitchShop == shopOpen' = ~shopOpen /\ UNCHANGED <<product, statusLog, priceLog, unreviewed>>

\* A product loaded without a photo and marked to be published with its first.
LoadWaitingProduct(p) ==
    \E c \in Contents, price \in StorePrices :
        CreateProduct(p, c, price, "PENDING", {}, TRUE, FALSE)

ManagementStep(p, s) ==
    \/ ManagementCreate(p, s) \/ ManagementEdit(p, s) \/ SetPricing(p, s)
    \/ ChangeStatus(p, s) \/ ManageImages(p, s)
    \/ AdminReplaceImage(p, s) \/ AdminSaveProduct(p, s)

StoreStep(p) == StoreCreate(p) \/ StoreEdit(p) \/ StoreSubmit(p) \/ StoreImages(p)

Next ==
    \/ \E p \in Products : StoreStep(p) \/ AdminDeleteProduct(p) \/ LoadWaitingProduct(p)
    \/ \E p \in Products, s \in Staff : ManagementStep(p, s)
    \/ \E s \in Staff : AdminDeleteImages(s)
    \/ SwitchShop

Spec == Init /\ [][Next]_vars

-----------------------------------------------------------------------------
(* Properties *)

\* Type invariant; in particular no sequence of edits makes a price negative.
TypeOK ==
    /\ product \in [Products -> ProductRows \cup {NoProduct}]
    /\ shopOpen \in BOOLEAN
    /\ statusLog \in [Products -> Statuses \cup {""}]
    /\ unreviewed \in [Products -> BOOLEAN]

Exists(p) == product[p] # NoProduct
Published(p) == Exists(p) /\ product[p].status = "APPROVED"

\* A product has at most MaxImages photos, one of them primary if there are
\* any, whatever batches of the portals and the admin site added, replaced
\* and deleted; and no photo belongs to two products.
PhotosConsistent ==
    \A p \in Products : Exists(p) =>
        /\ Cardinality(product[p].images) <= MaxImages
        /\ product[p].primary \in (IF product[p].images = {} THEN {NoPhoto} ELSE product[p].images)
        /\ \A q \in Products \ {p} : Exists(q) => product[p].images \cap product[q].images = {}

\* What customers can buy has a photo and a price above zero: checked when
\* the product is approved, and kept by every edit, repricing and deletion of
\* photos after it (validate_product_for_approval, mutate_product_images).
PublishedComplete ==
    \A p \in Products : Published(p) =>
        /\ HasImage(product[p])
        /\ product[p].final \in Nat /\ product[p].final > 0

\* Customers never see a store's change of content, price or photos that no
\* manager has decided on, along whatever path the product came to be
\* approved (update_product, mutate_product_images).
PublishedReviewed == \A p \in Products : Published(p) => ~unreviewed[p]

\* An approved product names the manager who approved it, who may: also when
\* it was published by uploading a photo.
PublishedByApprover ==
    \A p \in Products : Published(p) =>
        product[p].approvedBy \in Staff /\ "approve" \in Can[product[p].approvedBy]

\* The last rows of the status and price histories say what the product is,
\* whichever service changed it.
HistoryCurrent ==
    \A p \in Products : Exists(p) =>
        statusLog[p] = product[p].status /\ priceLog[p] = Prices(product[p])

\* A product a store sent back to review: approved before, still stamped.
AwaitsReview(p) == Exists(p) /\ product[p].status = "PENDING" /\ product[p].approvedBy # NoUser

\* The comment in update_product: "Keep previously approved
\* selling/final/margin until admin re-reviews."
PricesKeptUntilReview ==
    [][\A p \in Products : (AwaitsReview(p) /\ StoreEdit(p)) =>
          /\ product'[p].selling = product[p].selling
          /\ product'[p].final = product[p].final]_vars
=============================================================================
