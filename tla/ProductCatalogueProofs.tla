------------------------ MODULE ProductCatalogueProofs ------------------------
(***************************************************************************)
(* What holds of the catalogue for every set of products, photos, staff    *)
(* and prices: the type invariant, that customers see only what a manager  *)
(* who may approve has decided on, complete and with its history, and that *)
(* no product has too many photos or those of another.                     *)
(*                                                                         *)
(* The inductive invariant speaks of one product at a time: Sound is what  *)
(* is true of a row whatever its status, Offer what an approved one keeps. *)
(* Lemma SaveKeeps shows it of everything that saves one row, and a lemma  *)
(* for each service that the row it saves qualifies; the pages only choose *)
(* the arguments.  That photos are few and of one product relates the rows *)
(* of different products: Albums says it of their sets of photos, and      *)
(* NextPhotos what a step can do to them.                                  *)
(***************************************************************************)
EXTENDS ProductCatalogue, FiniteSetTheorems, TLAPS

\* A row with its primary photo and, once there is a margin, its price.
Sound(r) ==
    /\ r \in ProductRows
    /\ r.primary \in (IF r.images = {} THEN {NoPhoto} ELSE r.images)
    /\ MarginSet(r.margin) => r.selling \in Nat /\ r.final \in Nat /\ r.final > 0

Offer(r) ==
    r.status = "APPROVED" =>
        /\ MarginSet(r.margin) /\ HasImage(r)
        /\ r.approvedBy \in Staff /\ "approve" \in Can[r.approvedBy]

Logged(p) == statusLog[p] = product[p].status /\ priceLog[p] = Prices(product[p])

IInv ==
    /\ TypeOK
    /\ DOMAIN priceLog = Products /\ priceLog = [p \in Products |-> priceLog[p]]
    /\ \A p \in Products : Exists(p) =>
          /\ Sound(product[p]) /\ Offer(product[p]) /\ Logged(p)
          /\ product[p].status = "APPROVED" => ~unreviewed[p]

-----------------------------------------------------------------------------
(* Prices *)

LEMMA PositiveInt ==
    /\ \A n \in Nat : n \in Int
    /\ \A n \in Int : n > 0 => n \in Nat
  OBVIOUS

\* Rounding a product of integers gives an integer.
LEMMA RoundedInt ==
    ASSUME NEW a \in Int, NEW b \in Int
    PROVE  RoundHalfUp(a * b, Whole) \in Int
<1> DEFINE n == a * b
<1>1. n \in Int
  BY SMT
<1>2. (2 * n + 10000) \div (2 * 10000) \in Int
  <2> HIDE DEF n
  <2> QED BY <1>1, SMT
<1> QED
  BY <1>2 DEF RoundHalfUp, Whole

\* A margin raises a price by whole paise.
LEMMA RaisedInt ==
    ASSUME NEW price \in Int, NEW v \in Nat
    PROVE  /\ price + v \in Int /\ price - v \in Int
           /\ RoundHalfUp(price * (Whole + v), Whole) \in Int
           /\ RoundHalfUp(price * (Whole - v), Whole) \in Int
<1>1. Whole + v \in Int /\ Whole - v \in Int
  BY DEF Whole
<1>2. price + v \in Int /\ price - v \in Int
  OBVIOUS
<1> QED
  BY <1>1, <1>2, RoundedInt

\* An accepted calculation returns amounts of whole paise, and a final price
\* above zero (calculate_prices).
LEMMA PricesRight ==
    ASSUME NEW storePrice \in Nat,
           NEW margin \in Adjustment({"FIXED", "PERCENTAGE"}),
           NEW discount \in Adjustment({"", "FIXED", "PERCENTAGE"}),
           CanCalculatePrices(storePrice, margin, discount)
    PROVE  /\ CalculatePrices(storePrice, margin, discount).selling \in Nat
           /\ CalculatePrices(storePrice, margin, discount).final \in Nat
           /\ CalculatePrices(storePrice, margin, discount).final > 0
<1> DEFINE selling == CalculateSellingPrice(storePrice, margin)
           final == CalculateFinalPrice(selling, discount)
<1>0. /\ margin.value \in Nat /\ discount.value \in Nat
      /\ discount.type \in {"", "FIXED", "PERCENTAGE"}
  BY DEF Adjustment
<1>1. selling > 0 /\ DiscountAllowed(selling, discount)
  BY DEF CanCalculatePrices
<1>2. discount.type # "" => final > 0
  BY DEF CanCalculatePrices
<1>3. selling \in Int
  <2>1. storePrice \in Int
    BY PositiveInt, Zenon
  <2> QED BY <1>0, <2>1, RaisedInt, Zenon DEF CalculateSellingPrice
<1>4. final \in Int
  <2> HIDE DEF selling
  <2> QED BY <1>0, <1>3, RaisedInt, Zenon DEF CalculateFinalPrice
<1>5. discount.type = "" => final = selling
  <2> HIDE DEF selling
  <2> QED BY DEF CalculateFinalPrice
<1>6. /\ CalculatePrices(storePrice, margin, discount).selling = selling
      /\ CalculatePrices(storePrice, margin, discount).final = final
  BY Zenon DEF CalculatePrices
<1> HIDE DEF selling, final
<1>7. final > 0
  BY <1>1, <1>2, <1>5, Zenon
<1>8. selling > 0
  BY <1>1
<1>9. selling \in Nat /\ final \in Nat
  BY <1>3, <1>4, <1>7, <1>8, PositiveInt, Zenon
<1> QED
  BY <1>7, <1>9, <1>6, Zenon

-----------------------------------------------------------------------------
(* One row is saved *)

\* A qualified row keeps the invariant: what a store changes of an approved
\* product takes it out of the shop.
LEMMA SaveKeeps ==
    ASSUME IInv, NEW p \in Products, Exists(p), NEW r, NEW byStore \in BOOLEAN,
           Sound(r), Offer(r), Save(p, r, byStore),
           (r.status = "APPROVED" /\ product[p].status = "APPROVED" /\ byStore)
               => Reviewed(r) = Reviewed(product[p])
    PROVE  IInv'
<1>1. /\ product' = [product EXCEPT ![p] = r]
      /\ shopOpen' = shopOpen
  BY DEF Save
<1>2. TypeOK'
  <2>1. r \in ProductRows /\ r.status \in Statuses
    BY DEF Sound, ProductRows
  <2>2. product' \in [Products -> ProductRows \cup {NoProduct}]
    BY <1>1, <2>1 DEF IInv, TypeOK
  <2>3. statusLog' \in [Products -> Statuses \cup {""}]
    BY <2>1 DEF IInv, TypeOK, Save
  <2>4. unreviewed' \in [Products -> BOOLEAN]
    BY Zenon DEF IInv, TypeOK, Save
  <2> QED BY <1>1, <2>2, <2>3, <2>4 DEF IInv, TypeOK
<1>3. ASSUME NEW q \in Products, Exists(q)'
      PROVE  /\ Sound(product'[q]) /\ Offer(product'[q])
             /\ statusLog'[q] = product'[q].status /\ priceLog'[q] = Prices(product'[q])
             /\ product'[q].status = "APPROVED" => ~unreviewed'[q]
  <2>1. CASE q = p
    <3>1. product'[q] = r
      BY <1>1, <2>1 DEF IInv, TypeOK
    <3>2. statusLog'[q] = r.status
      BY <2>1, NoProductAssumption DEF Save, IInv, TypeOK, Logged, Exists
    <3>3. priceLog'[q] = Prices(r)
      BY <2>1 DEF Save, IInv, TypeOK, Logged, Exists
    <3>4. r.status = "APPROVED" => ~unreviewed'[q]
      BY <2>1 DEF Save, IInv, TypeOK, Exists
    <3> QED BY <3>1, <3>2, <3>3, <3>4
  <2>2. CASE q # p
    BY <1>1, <1>3, <2>2 DEF IInv, TypeOK, Save, Exists, Logged
  <2> QED BY <2>1, <2>2
<1>4. priceLog' = [q \in Products |-> priceLog'[q]] /\ DOMAIN priceLog' = Products
  BY DEF Save, IInv
<1> QED
  BY <1>2, <1>3, <1>4 DEF IInv, Exists, Logged

-----------------------------------------------------------------------------
(* The rows the services save *)

\* The primary photo is one of the photos, whatever was asked for.
LEMMA PrimaryInside ==
    ASSUME NEW r, NEW new \in SUBSET Photos, NEW chosen, NEW f \in Primaries(r, new, chosen)
    PROVE  /\ f \in (IF new = {} THEN {NoPhoto} ELSE new)
           /\ f \in Photos \cup {NoPhoto}
  BY DEF Primaries

\* A sound row with another status and approver.
LEMMA WithStatusSound ==
    ASSUME NEW r, Sound(r), NEW to \in Statuses, NEW by \in Staff \cup {NoUser}
    PROVE  /\ Sound(WithStatus(r, to, by))
           /\ WithStatus(r, to, by).status = to
           /\ to = "APPROVED" => WithStatus(r, to, by).approvedBy = by
           /\ WithStatus(r, to, by).images = r.images
           /\ WithStatus(r, to, by).margin = r.margin
           /\ Reviewed(WithStatus(r, to, by)) = Reviewed(r)
           /\ Prices(WithStatus(r, to, by)) = Prices(r)
<1> DEFINE stamp == IF to = "APPROVED" THEN by
                    ELSE IF to = "REJECTED" \/ r.status = "APPROVED" THEN NoUser
                    ELSE r.approvedBy
           w == [r EXCEPT !.status = to, !.approvedBy = stamp]
<1>1. r \in ProductRows
  BY DEF Sound
<1>2. stamp \in Staff \cup {NoUser} /\ (to = "APPROVED" => stamp = by)
  <2>1. r.approvedBy \in Staff \cup {NoUser}
    BY <1>1 DEF ProductRows
  <2> QED BY <2>1
<1>3. WithStatus(r, to, by) = w
  BY DEF WithStatus
<1> HIDE DEF stamp
<1>4. /\ w \in ProductRows /\ w.status = to /\ w.approvedBy = stamp
      /\ w.images = r.images /\ w.margin = r.margin /\ w.primary = r.primary
      /\ w.selling = r.selling /\ w.final = r.final /\ w.content = r.content
      /\ w.storePrice = r.storePrice /\ w.discount = r.discount
  BY <1>1, <1>2 DEF ProductRows
<1> HIDE DEF w
<1>5. Sound(w)
  BY <1>4 DEF Sound
<1>6. Reviewed(w) = Reviewed(r) /\ Prices(w) = Prices(r)
  BY <1>4 DEF Reviewed, Prices
<1> QED BY <1>2, <1>3, <1>4, <1>5, <1>6

\* What an approval rests on, in terms of the invariant.
LEMMA ApprovalOffers ==
    ASSUME NEW r, Sound(r), NEW by \in Staff, "approve" \in Can[by], ValidForApproval(r)
    PROVE  Offer(WithStatus(r, "APPROVED", by))
<1>1. MarginSet(r.margin) /\ r.images # {}
  BY DEF ValidForApproval, PricingComplete, HasImage
<1>2. "APPROVED" \in Statuses
  BY DEF Statuses
<1> QED BY <1>1, <1>2, WithStatusSound DEF Offer, HasImage

\* A row with other photos.
Pictured(r, new, added, by, f) ==
    [AfterImages(r, new, added, by) EXCEPT !.images = new, !.primary = f]

\* Photos were added or removed: an approved product leaves the shop, and a
\* product enters it only as an approval would let it.
LEMMA ImagesRow ==
    ASSUME NEW r, Sound(r), NEW new \in SUBSET Photos, NEW chosen,
           NEW f \in Primaries(r, new, chosen), NEW added \in BOOLEAN,
           NEW by \in Staff \cup {NoUser}
    PROVE  LET row == Pictured(r, new, added, by, f)
           IN  /\ Sound(row) /\ Offer(row) /\ Prices(row) = Prices(r)
               /\ r.status = "APPROVED" => row.status = "PENDING"
               /\ row.status = r.status \/ r.status = "APPROVED" \/ added
               /\ row.images = new
<1> DEFINE row == Pictured(r, new, added, by, f)
<1>00. row = [AfterImages(r, new, added, by) EXCEPT !.images = new, !.primary = f]
  BY DEF Pictured
<1> SUFFICES /\ Sound(row) /\ Offer(row) /\ Prices(row) = Prices(r)
             /\ r.status = "APPROVED" => row.status = "PENDING"
             /\ row.status = r.status \/ r.status = "APPROVED" \/ added
             /\ row.images = new
  OBVIOUS
<1> HIDE DEF row
<1>0. /\ f \in (IF new = {} THEN {NoPhoto} ELSE new)
      /\ f \in Photos \cup {NoPhoto}
  BY PrimaryInside
<1>1. ASSUME NEW a, Sound(a), Prices(a) = Prices(r), row = [a EXCEPT !.images = new, !.primary = f]
      PROVE  /\ Sound(row) /\ Prices(row) = Prices(r)
             /\ row.status = a.status /\ row.margin = a.margin
             /\ row.approvedBy = a.approvedBy /\ row.images = new
  <2>1. a \in ProductRows
    BY <1>1 DEF Sound
  <2>2. /\ row \in ProductRows /\ row.images = new /\ row.primary = f
        /\ row.status = a.status /\ row.margin = a.margin /\ row.approvedBy = a.approvedBy
        /\ row.selling = a.selling /\ row.final = a.final
        /\ row.storePrice = a.storePrice /\ row.discount = a.discount
    BY <1>0, <1>1, <2>1 DEF ProductRows
  <2>3. Sound(row)
    BY <1>0, <1>1, <2>2 DEF Sound
  <2>4. Prices(row) = Prices(r)
    BY <1>1, <2>2 DEF Prices
  <2> QED BY <2>2, <2>3, <2>4
<1>2. CASE r.status = "APPROVED"
  <2>1. AfterImages(r, new, added, by) = WithStatus(r, "PENDING", by)
    BY <1>2 DEF AfterImages
  <2>2. "PENDING" \in Statuses
    BY DEF Statuses
  <2> DEFINE w == WithStatus(r, "PENDING", by)
  <2>3. Sound(w) /\ Prices(w) = Prices(r) /\ w.status = "PENDING"
    BY <2>2, WithStatusSound
  <2>4. row = [w EXCEPT !.images = new, !.primary = f]
    BY <1>00, <2>1
  <2> HIDE DEF w
  <2>5. /\ Sound(row) /\ Prices(row) = Prices(r) /\ row.status = "PENDING" /\ row.images = new
    BY <1>1, <2>3, <2>4
  <2> QED BY <1>2, <2>5 DEF Offer
<1>3. CASE /\ r.status = "PENDING" /\ r.autoPublish /\ added
           /\ by \in Staff /\ "approve" \in Can[by]
           /\ ValidForApproval([r EXCEPT !.images = new])
  <2> DEFINE w == WithStatus(r, "APPROVED", by)
             a == [w EXCEPT !.autoPublish = FALSE]
  <2>1. AfterImages(r, new, added, by) = a
    BY <1>3 DEF AfterImages
  <2>2. "APPROVED" \in Statuses
    BY DEF Statuses
  <2>3. /\ Sound(w) /\ w.status = "APPROVED" /\ w.approvedBy = by
        /\ w.margin = r.margin /\ Prices(w) = Prices(r)
    BY <1>3, <2>2, WithStatusSound
  <2> HIDE DEF w
  <2>4. w \in ProductRows
    BY <2>3 DEF Sound
  <2>5. /\ a \in ProductRows /\ a.status = w.status /\ a.margin = w.margin
        /\ a.approvedBy = w.approvedBy /\ a.images = w.images /\ a.primary = w.primary
        /\ a.selling = w.selling /\ a.final = w.final
        /\ a.storePrice = w.storePrice /\ a.discount = w.discount
    BY <2>4 DEF ProductRows
  <2> HIDE DEF a
  <2>6. Sound(a) /\ Prices(a) = Prices(r)
    BY <2>3, <2>5 DEF Sound, Prices
  <2>7. MarginSet(r.margin) /\ new # {}
    <3>1. r \in ProductRows
      BY DEF Sound
    <3>2. [r EXCEPT !.images = new].images = new /\ [r EXCEPT !.images = new].margin = r.margin
      BY <3>1 DEF ProductRows
    <3> QED BY <1>3, <3>2 DEF ValidForApproval, PricingComplete, HasImage
  <2>8. /\ Sound(row) /\ Prices(row) = Prices(r) /\ row.status = "APPROVED"
        /\ row.margin = r.margin /\ row.approvedBy = by /\ row.images = new
    BY <1>00, <1>1, <2>1, <2>3, <2>5, <2>6
  <2> QED BY <1>3, <2>7, <2>8 DEF Offer, HasImage
<1>4. CASE r.status # "APPROVED" /\ ~(/\ r.status = "PENDING" /\ r.autoPublish /\ added
                                     /\ by \in Staff /\ "approve" \in Can[by]
                                     /\ ValidForApproval([r EXCEPT !.images = new]))
  <2>1. AfterImages(r, new, added, by) = r
    BY <1>4 DEF AfterImages
  <2>2. Sound(row) /\ Prices(row) = Prices(r) /\ row.status = r.status /\ row.images = new
    BY <1>00, <1>1, <2>1
  <2> QED BY <1>4, <2>2 DEF Offer
<1> QED BY <1>2, <1>3, <1>4

-----------------------------------------------------------------------------
(* The services *)

\* record_product_status_change keeps the invariant if an approval comes from
\* someone who may approve.
LEMMA RecordKeeps ==
    ASSUME IInv, NEW p \in Products, NEW to \in Statuses, NEW by \in Staff \cup {NoUser},
           NEW byStore \in BOOLEAN, RecordStatusChange(p, to, by, byStore),
           to = "APPROVED" => byStore \/ (by \in Staff /\ "approve" \in Can[by])
    PROVE  IInv'
<1> DEFINE r == product[p]
           w == WithStatus(r, to, by)
<1>1. Exists(p) /\ Sound(r)
  BY DEF RecordStatusChange, Exists, IInv
<1>2. MayRecord(r, to, byStore) /\ Save(p, w, byStore)
  BY DEF RecordStatusChange
<1>3. byStore => to # "APPROVED"
  BY <1>2 DEF MayRecord, StoreUserMayTransition
<1>4. Sound(w) /\ w.status = to /\ Reviewed(w) = Reviewed(r)
  BY <1>1, WithStatusSound
<1>5. Offer(w)
  <2>1. CASE to = "APPROVED"
    BY <1>1, <1>2, <1>3, <2>1, ApprovalOffers DEF MayRecord
  <2>2. CASE to # "APPROVED"
    <3> HIDE DEF w
    <3> QED BY <1>4, <2>2 DEF Offer
  <2> QED BY <2>1, <2>2
<1> HIDE DEF w
<1> QED BY <1>1, <1>2, <1>4, <1>5, SaveKeeps

\* A row with another content and other prices.
Repriced(r, content, storePrice, margin, discount, selling, final) ==
    [r EXCEPT !.content = content, !.storePrice = storePrice, !.margin = margin,
              !.discount = discount, !.selling = selling, !.final = final]

LEMMA RepricedSound ==
    ASSUME NEW r, Sound(r), NEW margin \in Margins \cup {Unset},
           NEW discount \in Discounts \cup {Unset}, NEW content \in Contents,
           NEW storePrice \in StorePrices,
           NEW selling \in Nat \cup {NoPrice}, NEW final \in Nat \cup {NoPrice},
           MarginSet(margin) => selling \in Nat /\ final \in Nat /\ final > 0
    PROVE  LET row == Repriced(r, content, storePrice, margin, discount, selling, final)
           IN  /\ Sound(row) /\ row.status = r.status /\ row.margin = margin
               /\ row.images = r.images /\ row.approvedBy = r.approvedBy
               /\ row.content = content /\ row.storePrice = storePrice
<1> DEFINE row == Repriced(r, content, storePrice, margin, discount, selling, final)
<1>1. r \in ProductRows
  BY DEF Sound
<1>2. /\ row \in ProductRows /\ row.status = r.status /\ row.margin = margin
      /\ row.selling = selling /\ row.final = final /\ row.primary = r.primary
      /\ row.images = r.images /\ row.approvedBy = r.approvedBy
      /\ row.content = content /\ row.storePrice = storePrice
  BY <1>1 DEF ProductRows, Repriced
<1>3. Sound(row)
  <2> HIDE DEF row
  <2> QED BY <1>2 DEF Sound
<1> QED BY <1>2, <1>3

LEMMA MarginTypes ==
    /\ \A m \in Margins : m \in Adjustment({"FIXED", "PERCENTAGE"}) /\ MarginSet(m)
    /\ ~MarginSet(Unset)
    /\ \A d \in Discounts \cup {Unset} : d \in Adjustment({"", "FIXED", "PERCENTAGE"})
<1>1. ASSUME NEW m \in Margins PROVE m \in Adjustment({"FIXED", "PERCENTAGE"}) /\ MarginSet(m)
  <2>1. m \in Adjustment({"FIXED", "PERCENTAGE"})
    BY AmountsAssumption
  <2> QED BY <2>1 DEF Adjustment, MarginSet
<1>2. ~MarginSet(Unset)
  BY DEF MarginSet, Unset
<1>3. ASSUME NEW d \in Discounts \cup {Unset} PROVE d \in Adjustment({"", "FIXED", "PERCENTAGE"})
  <2>1. Unset \in Adjustment({"", "FIXED", "PERCENTAGE"})
    BY DEF Adjustment, Unset
  <2> QED BY <2>1, AmountsAssumption
<1> QED BY <1>1, <1>2, <1>3

\* apply_admin_pricing keeps the invariant.
LEMMA PricingKeeps ==
    ASSUME IInv, NEW p \in Products, NEW margin \in Margins, NEW discount \in Discounts,
           ApplyAdminPricing(p, margin, discount)
    PROVE  IInv'
<1> DEFINE r == product[p]
           priced == CalculatePrices(r.storePrice, margin, discount)
           row == [r EXCEPT !.margin = margin, !.discount = discount,
                            !.selling = priced.selling, !.final = priced.final]
<1>1. /\ Exists(p) /\ Sound(r) /\ Offer(r) /\ r \in ProductRows
      /\ CanCalculatePrices(r.storePrice, margin, discount) /\ Save(p, row, FALSE)
  BY DEF ApplyAdminPricing, Exists, IInv, Sound
<1>2. r.storePrice \in StorePrices /\ r.storePrice \in Nat /\ r.content \in Contents
  BY <1>1, AmountsAssumption DEF ProductRows
<1>3. priced.selling \in Nat /\ priced.final \in Nat /\ priced.final > 0
  BY <1>1, <1>2, MarginTypes, PricesRight
<1> HIDE DEF priced
<1>4. row = Repriced(r, r.content, r.storePrice, margin, discount, priced.selling, priced.final)
  BY <1>1 DEF ProductRows, Repriced
<1> HIDE DEF row, r
<1>5. /\ Sound(row) /\ row.status = r.status /\ row.margin = margin
      /\ row.images = r.images /\ row.approvedBy = r.approvedBy
  BY <1>1, <1>2, <1>3, <1>4, RepricedSound
<1>6. Offer(row)
  BY <1>1, <1>5, MarginTypes DEF Offer, HasImage
<1> USE DEF r
<1> QED BY <1>1, <1>5, <1>6, SaveKeeps

\* update_product keeps the invariant.
LEMMA UpdateKeeps ==
    ASSUME IInv, NEW p \in Products, NEW content \in Contents, NEW storePrice \in StorePrices,
           NEW byStore \in BOOLEAN, UpdateProduct(p, content, storePrice, byStore)
    PROVE  IInv'
<1> DEFINE r == product[p]
           edited == [r EXCEPT !.content = content, !.storePrice = storePrice]
           priced == AppliedPrices(storePrice, r.margin, r.discount)
           frozen == [edited EXCEPT !.status = "PENDING"]
           row == [edited EXCEPT !.selling = priced.selling, !.final = priced.final]
<1>1. /\ Exists(p) /\ Sound(r) /\ Offer(r) /\ r \in ProductRows
  BY DEF UpdateProduct, Exists, IInv, Sound
<1>2. /\ r.margin \in Margins \cup {Unset} /\ r.discount \in Discounts \cup {Unset}
      /\ r.selling \in Nat \cup {NoPrice} /\ r.final \in Nat \cup {NoPrice}
      /\ storePrice \in Nat
  BY <1>1, AmountsAssumption DEF ProductRows
<1>3. CASE byStore /\ r.status = "APPROVED" /\ ChangesRequireReapproval(r, content, storePrice)
  <2>1. Save(p, frozen, byStore)
    BY <1>3 DEF UpdateProduct
  <2>2. /\ frozen \in ProductRows /\ frozen.status = "PENDING"
        /\ frozen.margin = r.margin /\ frozen.selling = r.selling /\ frozen.final = r.final
        /\ frozen.images = r.images /\ frozen.primary = r.primary
    BY <1>1 DEF ProductRows, Statuses
  <2> HIDE DEF frozen
  <2>3. Sound(frozen) /\ Offer(frozen)
    BY <1>1, <2>2 DEF Sound, Offer
  <2> QED BY <1>1, <2>1, <2>2, <2>3, SaveKeeps
<1>4. CASE ~(byStore /\ r.status = "APPROVED" /\ ChangesRequireReapproval(r, content, storePrice))
  <2>1. PricesFit(storePrice, r.margin, r.discount) /\ Save(p, row, byStore)
    BY <1>4 DEF UpdateProduct
  <2>4. /\ priced.selling \in Nat \cup {NoPrice} /\ priced.final \in Nat \cup {NoPrice}
        /\ MarginSet(r.margin) => priced.selling \in Nat /\ priced.final \in Nat /\ priced.final > 0
    <3>1. CASE MarginSet(r.margin)
      <4>1. priced = CalculatePrices(storePrice, r.margin, r.discount)
        BY <3>1 DEF AppliedPrices
      <4>2. /\ CalculatePrices(storePrice, r.margin, r.discount).selling \in Nat
            /\ CalculatePrices(storePrice, r.margin, r.discount).final \in Nat
            /\ CalculatePrices(storePrice, r.margin, r.discount).final > 0
        BY <1>2, <2>1, <3>1, MarginTypes, PricesRight DEF PricesFit
      <4> QED BY <3>1, <4>1, <4>2
    <3>2. CASE ~MarginSet(r.margin)
      BY <3>2 DEF AppliedPrices
    <3> QED BY <3>1, <3>2
  <2> HIDE DEF priced
  <2>5. row = Repriced(r, content, storePrice, r.margin, r.discount, priced.selling, priced.final)
    BY <1>1 DEF ProductRows, Repriced
  <2> HIDE DEF row
  <2>6. /\ Sound(row) /\ row.status = r.status /\ row.margin = r.margin
        /\ row.images = r.images /\ row.approvedBy = r.approvedBy
        /\ row.content = content /\ row.storePrice = storePrice
    <3> DEFINE m == r.margin
               d == r.discount
               sp == priced.selling
               fp == priced.final
    <3>1. /\ m \in Margins \cup {Unset} /\ d \in Discounts \cup {Unset}
          /\ sp \in Nat \cup {NoPrice} /\ fp \in Nat \cup {NoPrice}
          /\ MarginSet(m) => sp \in Nat /\ fp \in Nat /\ fp > 0
      BY <1>2, <2>4
    <3>2. row = Repriced(r, content, storePrice, m, d, sp, fp) /\ Sound(r)
      BY <1>1, <2>5
    <3>3. m = r.margin
      OBVIOUS
    <3> HIDE DEF r, m, d, sp, fp
    <3> QED BY <3>1, <3>2, <3>3, RepricedSound
  <2>7. Offer(row)
    BY <1>1, <2>6 DEF Offer, HasImage
  <2>8. (row.status = "APPROVED" /\ r.status = "APPROVED" /\ byStore) => Reviewed(row) = Reviewed(r)
    BY <1>4, <2>6 DEF Reviewed, ChangesRequireReapproval
  <2> QED BY <1>1, <2>1, <2>6, <2>7, <2>8, SaveKeeps
<1> QED BY <1>3, <1>4

\* mutate_product_images keeps the invariant, for the row as it is or with a
\* content the same step of management gives it.
LEMMA ImagesKeep ==
    ASSUME IInv, NEW p \in Products, Exists(p), NEW r, Sound(r), Offer(r),
           r.status = product[p].status,
           NEW new \in SUBSET Photos, NEW added \in BOOLEAN, NEW chosen,
           NEW by \in Staff \cup {NoUser}, NEW byStore \in BOOLEAN,
           byStore => r = product[p],
           MutateImages(p, r, new, added, chosen, by, byStore)
    PROVE  IInv'
<1>1. PICK f \in Primaries(r, new, chosen) :
        Save(p, [IF new = r.images THEN r ELSE AfterImages(r, new, added, by)
                   EXCEPT !.images = new, !.primary = f], byStore)
  BY DEF MutateImages
<1>2. CASE new = r.images
  <2> DEFINE row == [r EXCEPT !.images = new, !.primary = f]
  <2>1. Save(p, row, byStore)
    BY <1>1, <1>2
  <2>2. f \in (IF new = {} THEN {NoPhoto} ELSE new) /\ f \in Photos \cup {NoPhoto}
    BY PrimaryInside
  <2>3. r \in ProductRows
    BY DEF Sound
  <2>4. /\ row \in ProductRows /\ row.images = r.images /\ row.primary = f
        /\ row.status = r.status /\ row.margin = r.margin /\ row.approvedBy = r.approvedBy
        /\ row.selling = r.selling /\ row.final = r.final
        /\ row.content = r.content /\ row.storePrice = r.storePrice
    BY <1>2, <2>2, <2>3 DEF ProductRows
  <2> HIDE DEF row
  <2>5. Sound(row) /\ Offer(row)
    BY <1>2, <2>2, <2>4 DEF Sound, Offer, HasImage
  <2>6. byStore => Reviewed(row) = Reviewed(product[p])
    BY <2>4 DEF Reviewed
  <2> QED BY <2>1, <2>5, <2>6, SaveKeeps
<1>3. CASE new # r.images
  <2> DEFINE row == Pictured(r, new, added, by, f)
  <2>1. Save(p, row, byStore)
    BY <1>1, <1>3 DEF Pictured
  <2>2. Sound(row) /\ Offer(row) /\ (r.status = "APPROVED" => row.status = "PENDING")
    BY ImagesRow
  <2> HIDE DEF row
  <2> QED BY <2>1, <2>2, SaveKeeps
<1> QED BY <1>2, <1>3

\* create_product keeps the invariant.
LEMMA CreateKeeps ==
    ASSUME IInv, NEW p \in Products, NEW content \in Contents, NEW storePrice \in StorePrices,
           NEW status \in {"DRAFT", "PENDING"}, NEW images \in SUBSET Photos,
           NEW autoPublish \in BOOLEAN, NEW byStore \in BOOLEAN,
           CreateProduct(p, content, storePrice, status, images, autoPublish, byStore)
    PROVE  IInv'
<1> DEFINE new(primary) ==
        [status |-> status, content |-> content, storePrice |-> storePrice,
         margin |-> Unset, discount |-> Unset, selling |-> NoPrice, final |-> NoPrice,
         images |-> images, primary |-> primary, approvedBy |-> NoUser,
         autoPublish |-> autoPublish]
<1>1. PICK f \in IF images = {} THEN {NoPhoto} ELSE images :
        /\ product' = [product EXCEPT ![p] = new(f)]
        /\ priceLog' = [priceLog EXCEPT ![p] = Prices(new(f))]
  BY DEF CreateProduct
<1> DEFINE row == new(f)
<1>2. f \in Photos \cup {NoPhoto}
  BY <1>1
<1>3. /\ row \in ProductRows /\ row.margin = Unset /\ row.status = status
      /\ row.images = images /\ row.primary = f
  BY <1>2 DEF ProductRows, Statuses
<1>4. /\ product' = [product EXCEPT ![p] = row] /\ shopOpen' = shopOpen
      /\ priceLog' = [priceLog EXCEPT ![p] = Prices(row)]
      /\ statusLog' = [statusLog EXCEPT ![p] = status]
      /\ unreviewed' = [unreviewed EXCEPT ![p] = byStore]
  BY <1>1 DEF CreateProduct
<1> HIDE DEF row
<1>5. Sound(row) /\ Offer(row)
  BY <1>1, <1>3, MarginTypes DEF Sound, Offer
<1>6. status \in Statuses
  BY DEF Statuses
<1>7. TypeOK'
  <2>1. product' \in [Products -> ProductRows \cup {NoProduct}]
    BY <1>3, <1>4 DEF IInv, TypeOK
  <2>2. statusLog' \in [Products -> Statuses \cup {""}]
    BY <1>4, <1>6 DEF IInv, TypeOK
  <2>3. unreviewed' \in [Products -> BOOLEAN]
    BY <1>4, Zenon DEF IInv, TypeOK
  <2> QED BY <1>4, <2>1, <2>2, <2>3 DEF IInv, TypeOK
<1>8. ASSUME NEW q \in Products, Exists(q)'
      PROVE  /\ Sound(product'[q]) /\ Offer(product'[q])
             /\ statusLog'[q] = product'[q].status /\ priceLog'[q] = Prices(product'[q])
             /\ product'[q].status = "APPROVED" => ~unreviewed'[q]
  <2>1. CASE q = p
    <3>1. product'[q] = row /\ statusLog'[q] = status
      BY <1>4, <2>1 DEF IInv, TypeOK
    <3>2. priceLog'[q] = Prices(row)
      BY <1>4, <2>1 DEF IInv
    <3> QED BY <1>3, <1>5, <3>1, <3>2
  <2>2. CASE q # p
    BY <1>4, <1>8, <2>2 DEF IInv, TypeOK, Exists, Logged
  <2> QED BY <2>1, <2>2
<1>9. priceLog' = [q \in Products |-> priceLog'[q]] /\ DOMAIN priceLog' = Products
  BY <1>4 DEF IInv
<1> QED
  BY <1>7, <1>8, <1>9 DEF IInv, Exists, Logged

-----------------------------------------------------------------------------
(* The pages *)

\* What a page of management or of the store does with photos.
LEMMA PhotoPagesKeep ==
    ASSUME IInv, NEW p \in Products, Exists(p), NEW by \in Staff \cup {NoUser},
           NEW byStore \in BOOLEAN,
           AddImage(p, by, byStore) \/ DeleteImage(p, by, byStore) \/ SetPrimaryImage(p, byStore)
    PROVE  IInv'
<1> DEFINE r == product[p]
<1>1. Sound(r) /\ Offer(r) /\ r.images \in SUBSET Photos
  BY DEF IInv, Sound, ProductRows
<1>2. CASE AddImage(p, by, byStore)
  <2>1. PICK f \in Photos, chosen \in Photos \cup {NoPhoto} :
          MutateImages(p, r, r.images \cup {f}, TRUE, chosen, by, byStore)
    BY <1>2 DEF AddImage
  <2>2. r.images \cup {f} \in SUBSET Photos
    BY <1>1
  <2> QED BY <1>1, <2>1, <2>2, ImagesKeep
<1>3. CASE DeleteImage(p, by, byStore)
  <2>1. PICK f \in r.images : MutateImages(p, r, r.images \ {f}, FALSE, NoPhoto, by, byStore)
    BY <1>3 DEF DeleteImage
  <2>2. r.images \ {f} \in SUBSET Photos
    BY <1>1
  <2> QED BY <1>1, <2>1, <2>2, ImagesKeep
<1>4. CASE SetPrimaryImage(p, byStore)
  <2>1. PICK f \in r.images : MutateImages(p, r, r.images, FALSE, f, NoUser, byStore)
    BY <1>4 DEF SetPrimaryImage
  <2> QED BY <1>1, <2>1, ImagesKeep
<1> QED BY <1>2, <1>3, <1>4

\* The admin site saves a product with its photos.
LEMMA AdminSaveKeeps ==
    ASSUME IInv, NEW p \in Products, NEW s \in Staff, AdminSaveProduct(p, s)
    PROVE  IInv'
<1>1. Exists(p) /\ Sound(product[p]) /\ Offer(product[p]) /\ product[p] \in ProductRows
  BY DEF AdminSaveProduct, Exists, IInv, Sound
<1>2. PICK c \in Contents, removed \in SUBSET product[p].images, added \in SUBSET Photos :
        LET r == [product[p] EXCEPT !.content = c]
            new == (r.images \ removed) \cup added
        IN  \E chosen : MutateImages(p, r, new, added # {}, chosen, s, FALSE)
  BY DEF AdminSaveProduct
<1> DEFINE r == [product[p] EXCEPT !.content = c]
           new == (r.images \ removed) \cup added
<1>3. PICK chosen : MutateImages(p, r, new, added # {}, chosen, s, FALSE)
  BY <1>2
<1>4. /\ r \in ProductRows /\ r.status = product[p].status /\ r.images = product[p].images
      /\ r.margin = product[p].margin /\ r.approvedBy = product[p].approvedBy
      /\ r.selling = product[p].selling /\ r.final = product[p].final
      /\ r.primary = product[p].primary
  BY <1>1 DEF ProductRows
<1>5. new \in SUBSET Photos /\ (added # {}) \in BOOLEAN
  BY <1>4 DEF ProductRows
<1> HIDE DEF r, new
<1>6. Sound(r) /\ Offer(r)
  BY <1>1, <1>4 DEF Sound, Offer, HasImage
<1> QED BY <1>1, <1>3, <1>4, <1>5, <1>6, ImagesKeep

\* The admin site replaces the file of an image.
LEMMA AdminReplaceKeeps ==
    ASSUME IInv, NEW p \in Products, NEW s \in Staff, AdminReplaceImage(p, s)
    PROVE  IInv'
<1> DEFINE r == product[p]
<1>1. Exists(p) /\ Sound(r) /\ Offer(r) /\ r.images \in SUBSET Photos
  BY DEF AdminReplaceImage, Exists, IInv, Sound, ProductRows
<1>2. PICK old \in r.images, f \in Photos :
        MutateImages(p, r, (r.images \ {old}) \cup {f}, FALSE,
                     IF r.primary = old THEN f ELSE NoPhoto, s, FALSE)
  BY DEF AdminReplaceImage
<1>3. (r.images \ {old}) \cup {f} \in SUBSET Photos
  BY <1>1
<1> QED BY <1>1, <1>2, <1>3, ImagesKeep

\* Photos of several products are deleted at once: what loses one leaves the
\* shop, the others stay as they are.
LEMMA AdminDeleteImagesKeeps ==
    ASSUME IInv, NEW s \in Staff, AdminDeleteImages(s)
    PROVE  IInv'
<1>0. PICK files : files \in SUBSET Photos /\
        LET hit == {p \in Products : product[p] # NoProduct /\ product[p].images \cap files # {}}
            left(p) == product[p].images \ files
            after(p, f) == [AfterImages(product[p], left(p), FALSE, s) EXCEPT !.images = left(p), !.primary = f]
        IN  /\ \E primary \in [hit -> Photos \cup {NoPhoto}] :
                  /\ \A p \in hit : primary[p] \in Primaries(product[p], left(p), NoPhoto)
                  /\ product' = [p \in Products |->
                                    IF p \in hit THEN after(p, primary[p]) ELSE product[p]]
                  /\ statusLog' = [p \in Products |->
                                    IF p \in hit /\ product[p].status = "APPROVED"
                                    THEN "PENDING" ELSE statusLog[p]]
            /\ UNCHANGED <<shopOpen, priceLog, unreviewed>>
  BY Zenon DEF AdminDeleteImages
<1> DEFINE hit == {p \in Products : product[p] # NoProduct /\ product[p].images \cap files # {}}
<1>1. PICK primary :
        /\ \A p \in hit : primary[p] \in Primaries(product[p], product[p].images \ files, NoPhoto)
        /\ product' = [p \in Products |->
              IF p \in hit
              THEN [AfterImages(product[p], product[p].images \ files, FALSE, s)
                      EXCEPT !.images = product[p].images \ files, !.primary = primary[p]]
              ELSE product[p]]
        /\ statusLog' = [p \in Products |-> IF p \in hit /\ product[p].status = "APPROVED"
                                            THEN "PENDING" ELSE statusLog[p]]
        /\ UNCHANGED <<shopOpen, priceLog, unreviewed>>
  BY <1>0
<1>h. \A p \in hit : p \in Products /\ Exists(p)
  BY DEF Exists
<1> HIDE DEF hit
<1>2. ASSUME NEW p \in hit
      PROVE  /\ p \in Products /\ Exists(p) /\ Sound(product'[p]) /\ Offer(product'[p])
             /\ Prices(product'[p]) = Prices(product[p])
             /\ product[p].status = "APPROVED" => product'[p].status = "PENDING"
             /\ product[p].status # "APPROVED" => product'[p].status = product[p].status
  <2> DEFINE r == product[p]
             new == r.images \ files
             f == primary[p]
             row == Pictured(r, new, FALSE, s, f)
  <2>1. p \in Products /\ Exists(p) /\ Sound(r) /\ new \in SUBSET Photos
    BY <1>h DEF IInv, Sound, ProductRows
  <2>2. product'[p] = row
    BY <1>1, <2>1 DEF Pictured
  <2>3. f \in Primaries(r, new, NoPhoto) /\ s \in Staff \cup {NoUser}
    BY <1>1
  <2>4. /\ Sound(row) /\ Offer(row) /\ Prices(row) = Prices(r)
        /\ r.status = "APPROVED" => row.status = "PENDING"
        /\ row.status = r.status \/ r.status = "APPROVED"
    <3>1. PICK none \in BOOLEAN : none = FALSE
      OBVIOUS
    <3>2. row = Pictured(r, new, none, s, f)
      BY <3>1
    <3> HIDE DEF r, new, f, row
    <3>3. /\ Sound(row) /\ Offer(row) /\ Prices(row) = Prices(r)
          /\ r.status = "APPROVED" => row.status = "PENDING"
          /\ row.status = r.status \/ r.status = "APPROVED" \/ none
      BY <2>1, <2>3, <3>2, ImagesRow
    <3> QED BY <3>1, <3>3
  <2> HIDE DEF row
  <2> QED BY <2>1, <2>2, <2>4
<1>3. ASSUME NEW p \in Products, p \notin hit
      PROVE  product'[p] = product[p] /\ statusLog'[p] = statusLog[p]
  BY <1>1, <1>3
<1>4. TypeOK'
  <2>1. product' \in [Products -> ProductRows \cup {NoProduct}]
    <3>1. ASSUME NEW p \in Products PROVE product'[p] \in ProductRows \cup {NoProduct}
      BY <1>2, <1>3 DEF IInv, TypeOK, Sound
    <3>2. product' = [p \in Products |-> product'[p]]
      BY <1>1
    <3> QED BY <3>1, <3>2
  <2>2. statusLog' \in [Products -> Statuses \cup {""}]
    BY <1>1 DEF IInv, TypeOK, Statuses
  <2>3. shopOpen' \in BOOLEAN /\ unreviewed' \in [Products -> BOOLEAN]
    BY <1>1 DEF IInv, TypeOK
  <2> QED BY <2>1, <2>2, <2>3 DEF TypeOK
<1>5. ASSUME NEW p \in Products, Exists(p)'
      PROVE  /\ Sound(product'[p]) /\ Offer(product'[p])
             /\ statusLog'[p] = product'[p].status /\ priceLog'[p] = Prices(product'[p])
             /\ product'[p].status = "APPROVED" => ~unreviewed'[p]
  <2>0. priceLog' = priceLog /\ unreviewed' = unreviewed
    BY <1>1
  <2>1. CASE p \in hit
    <3>1. /\ product[p].status = statusLog[p] /\ priceLog[p] = Prices(product[p])
          /\ product[p].status = "APPROVED" => ~unreviewed[p]
      BY <1>2, <2>1 DEF IInv, Logged
    <3>2. statusLog'[p] = IF product[p].status = "APPROVED" THEN "PENDING" ELSE statusLog[p]
      BY <1>1, <2>1
    <3>3. statusLog'[p] = product'[p].status
      BY <1>2, <2>1, <3>1, <3>2
    <3>4. product'[p].status # "APPROVED"
      BY <1>2, <2>1, <3>1, <3>2 
    <3> QED BY <1>2, <2>0, <2>1, <3>1, <3>3, <3>4
  <2>2. CASE p \notin hit
    BY <1>3, <1>5, <2>0, <2>2 DEF IInv, Exists, Logged
  <2> QED BY <2>1, <2>2
<1> QED
  BY <1>1, <1>4, <1>5 DEF IInv, Exists, Logged

\* A product goes with its photos and the rows of both histories.
LEMMA AdminDeleteProductKeeps ==
    ASSUME IInv, NEW p \in Products, AdminDeleteProduct(p)
    PROVE  IInv'
<1>1. TypeOK'
  <2>1. product' \in [Products -> ProductRows \cup {NoProduct}]
    BY DEF IInv, TypeOK, AdminDeleteProduct
  <2>2. statusLog' \in [Products -> Statuses \cup {""}]
    BY DEF IInv, TypeOK, AdminDeleteProduct
  <2>3. unreviewed' \in [Products -> BOOLEAN]
    BY Zenon DEF IInv, TypeOK, AdminDeleteProduct
  <2> QED BY <2>1, <2>2, <2>3 DEF IInv, TypeOK, AdminDeleteProduct
<1>2. ASSUME NEW q \in Products, Exists(q)'
      PROVE  /\ q # p /\ Exists(q)
             /\ product'[q] = product[q] /\ statusLog'[q] = statusLog[q]
             /\ priceLog'[q] = priceLog[q] /\ unreviewed'[q] = unreviewed[q]
  BY <1>2 DEF IInv, TypeOK, AdminDeleteProduct, Exists
<1>3. priceLog' = [q \in Products |-> priceLog'[q]] /\ DOMAIN priceLog' = Products
  BY DEF IInv, AdminDeleteProduct
<1> QED
  BY <1>1, <1>2, <1>3 DEF IInv, Exists, Logged

-----------------------------------------------------------------------------
(* Every step keeps the invariant *)

LEMMA InitIInv == Init => IInv
  BY DEF Init, IInv, TypeOK, Exists

LEMMA StutterIInv == IInv /\ UNCHANGED vars => IInv'
  BY DEF vars, IInv, TypeOK, Exists, Logged

LEMMA ManagementKeeps ==
    ASSUME IInv, NEW p \in Products, NEW s \in Staff, ManagementStep(p, s)
    PROVE  IInv'
<1>1. CASE ManagementCreate(p, s)
  BY <1>1, CreateKeeps DEF ManagementCreate
<1>2. CASE ManagementEdit(p, s)
  BY <1>2, UpdateKeeps DEF ManagementEdit
<1>3. CASE SetPricing(p, s)
  BY <1>3, PricingKeeps DEF SetPricing
<1>4. CASE ChangeStatus(p, s)
  <2>1. PICK to \in Statuses : /\ PermissionForTransition(to) \in Can[s]
                               /\ RecordStatusChange(p, to, s, FALSE)
    BY <1>4 DEF ChangeStatus
  <2>2. to = "APPROVED" => "approve" \in Can[s]
    BY <2>1 DEF PermissionForTransition
  <2> QED BY <2>1, <2>2, RecordKeeps
<1>5. CASE ManageImages(p, s)
  BY <1>5, PhotoPagesKeep DEF ManageImages, Exists
<1>6. CASE AdminReplaceImage(p, s)
  BY <1>6, AdminReplaceKeeps
<1>7. CASE AdminSaveProduct(p, s)
  BY <1>7, AdminSaveKeeps
<1> QED
  BY <1>1, <1>2, <1>3, <1>4, <1>5, <1>6, <1>7 DEF ManagementStep

LEMMA StoreKeeps ==
    ASSUME IInv, NEW p \in Products, StoreStep(p)
    PROVE  IInv'
<1>1. CASE StoreCreate(p)
  BY <1>1, CreateKeeps DEF StoreCreate
<1>2. CASE StoreEdit(p)
  BY <1>2, UpdateKeeps DEF StoreEdit
<1>3. CASE StoreSubmit(p)
  <2>1. RecordStatusChange(p, "PENDING", NoUser, TRUE) /\ "PENDING" \in Statuses
    BY <1>3 DEF StoreSubmit, Statuses
  <2> QED BY <2>1, RecordKeeps
<1>4. CASE StoreImages(p)
  BY <1>4, PhotoPagesKeep DEF StoreImages, Exists
<1> QED
  BY <1>1, <1>2, <1>3, <1>4 DEF StoreStep

LEMMA NextIInv == IInv /\ [Next]_vars => IInv'
<1> SUFFICES ASSUME IInv, [Next]_vars PROVE IInv'
  OBVIOUS
<1>1. ASSUME NEW p \in Products, StoreStep(p) PROVE IInv'
  BY <1>1, StoreKeeps
<1>2. ASSUME NEW p \in Products, AdminDeleteProduct(p) PROVE IInv'
  BY <1>2, AdminDeleteProductKeeps
<1>3. ASSUME NEW p \in Products, LoadWaitingProduct(p) PROVE IInv'
  BY <1>3, CreateKeeps DEF LoadWaitingProduct
<1>4. ASSUME NEW p \in Products, NEW s \in Staff, ManagementStep(p, s) PROVE IInv'
  BY <1>4, ManagementKeeps
<1>5. ASSUME NEW s \in Staff, AdminDeleteImages(s) PROVE IInv'
  BY <1>5, AdminDeleteImagesKeeps
<1>6. CASE SwitchShop
  BY <1>6 DEF SwitchShop, IInv, TypeOK, Exists, Logged
<1>7. CASE UNCHANGED vars
  BY <1>7, StutterIInv
<1> QED
  BY <1>1, <1>2, <1>3, <1>4, <1>5, <1>6, <1>7 DEF Next

LEMMA Inductive == Spec => []IInv
  BY InitIInv, NextIInv, PTL DEF Spec

-----------------------------------------------------------------------------
(* The photos of all products *)

Album(p) == IF Exists(p) THEN product[p].images ELSE {}

Albums ==
    /\ \A p \in Products : Cardinality(Album(p)) <= MaxImages
    /\ \A p, q \in Products : p # q => Album(p) \cap Album(q) = {}

\* A step in which no product but p gains photos, and p only files that no
\* product uses, and not too many.
Gains(p) ==
    /\ \A q \in Products \ {p} : Album(q)' \subseteq Album(q)
    /\ Album(p)' \subseteq Album(p) \cup {f \in Photos : FreshPhoto(f)}
    /\ Cardinality(Album(p)') <= MaxImages

\* A step in which no product gains any.
Shrinks == \A q \in Products : Album(q)' \subseteq Album(q)

LEMMA AlbumOfPhotos ==
    ASSUME IInv, NEW p \in Products
    PROVE  Album(p) \subseteq Photos
  BY DEF IInv, Sound, Album, ProductRows

\* Fewer photos of a product are not more than before.
LEMMA FewerPhotos ==
    ASSUME NEW S, NEW T, T \subseteq Photos, S \subseteq T, Cardinality(T) <= MaxImages
    PROVE  Cardinality(S) <= MaxImages
<1>1. IsFiniteSet(T)
  BY PhotosAssumption, FS_Subset
<1>2. Cardinality(S) <= Cardinality(T) /\ IsFiniteSet(S)
  BY <1>1, FS_Subset
<1>3. Cardinality(S) \in Nat /\ Cardinality(T) \in Nat
  BY <1>1, <1>2, FS_CardinalityType
<1> QED BY <1>2, <1>3, PhotosAssumption

LEMMA ShrinkingKeeps ==
    ASSUME IInv, Albums, Shrinks
    PROVE  Albums'
<1>1. ASSUME NEW p \in Products PROVE Cardinality(Album(p)') <= MaxImages
  BY AlbumOfPhotos, FewerPhotos DEF Albums, Shrinks
<1>2. ASSUME NEW p \in Products, NEW q \in Products, p # q
      PROVE  Album(p)' \cap Album(q)' = {}
  BY <1>2 DEF Albums, Shrinks
<1> QED BY <1>1, <1>2 DEF Albums

LEMMA GainingKeeps ==
    ASSUME IInv, Albums, NEW p \in Products, Gains(p)
    PROVE  Albums'
<1>1. ASSUME NEW q \in Products PROVE Cardinality(Album(q)') <= MaxImages
  BY AlbumOfPhotos, FewerPhotos DEF Albums, Gains
<1>2. ASSUME NEW q \in Products, NEW f \in Photos, FreshPhoto(f) PROVE f \notin Album(q)
  BY <1>2 DEF FreshPhoto, Album, Exists
<1>3. ASSUME NEW q \in Products, q # p PROVE Album(p)' \cap Album(q)' = {}
  BY <1>2, <1>3 DEF Albums, Gains
<1>4. ASSUME NEW a \in Products, NEW b \in Products, a # b
      PROVE  Album(a)' \cap Album(b)' = {}
  BY <1>3, <1>4 DEF Albums, Gains
<1> QED BY <1>1, <1>4 DEF Albums

\* Saving a row gives its product the photos of the row.
LEMMA SavedAlbum ==
    ASSUME IInv, NEW p \in Products, NEW r, r \in ProductRows, product' = [product EXCEPT ![p] = r]
    PROVE  /\ Album(p)' = r.images
           /\ \A q \in Products \ {p} : Album(q)' = Album(q)
<1>1. product'[p] = r /\ \A q \in Products \ {p} : product'[q] = product[q]
  BY DEF IInv, TypeOK
<1> QED BY <1>1, NoProductAssumption DEF Album, Exists

LEMMA SavedKeepsPhotos ==
    ASSUME IInv, NEW p \in Products, Exists(p), NEW r,
           r.images = product[p].images, product' = [product EXCEPT ![p] = r]
    PROVE  Shrinks
<1>1. product'[p] = r /\ \A q \in Products \ {p} : product'[q] = product[q]
  BY DEF IInv, TypeOK
<1> QED BY <1>1 DEF Shrinks, Album, Exists

\* Neither a change of status, nor an edit, nor a new price touches photos.
LEMMA RecordLeavesPhotos ==
    ASSUME IInv, NEW p \in Products, NEW to \in Statuses, NEW by \in Staff \cup {NoUser},
           NEW byStore, RecordStatusChange(p, to, by, byStore)
    PROVE  Shrinks
<1>1. Exists(p) /\ Sound(product[p])
  BY DEF RecordStatusChange, Exists, IInv
<1> DEFINE w == WithStatus(product[p], to, by)
<1>2. w.images = product[p].images
  BY <1>1, WithStatusSound
<1>3. product' = [product EXCEPT ![p] = w]
  BY DEF RecordStatusChange, Save
<1> HIDE DEF w
<1> QED BY <1>1, <1>2, <1>3, SavedKeepsPhotos

LEMMA UpdateLeavesPhotos ==
    ASSUME IInv, NEW p \in Products, NEW content, NEW storePrice, NEW byStore,
           UpdateProduct(p, content, storePrice, byStore)
    PROVE  Shrinks
<1> DEFINE r == product[p]
           edited == [r EXCEPT !.content = content, !.storePrice = storePrice]
           priced == AppliedPrices(storePrice, r.margin, r.discount)
           frozen == [edited EXCEPT !.status = "PENDING"]
           row == [edited EXCEPT !.selling = priced.selling, !.final = priced.final]
<1>1. Exists(p) /\ r \in ProductRows
  BY DEF UpdateProduct, Exists, IInv, Sound
<1>2. product' = [product EXCEPT ![p] = frozen] \/ product' = [product EXCEPT ![p] = row]
  BY DEF UpdateProduct, Save
<1>3. edited.images = r.images /\ frozen.images = edited.images
  BY <1>1 DEF ProductRows
<1>4. row.images = r.images
  <2> HIDE DEF priced
  <2> QED BY <1>1 DEF ProductRows
<1> HIDE DEF frozen, row, edited
<1> QED BY <1>1, <1>2, <1>3, <1>4, SavedKeepsPhotos

LEMMA PricingLeavesPhotos ==
    ASSUME IInv, NEW p \in Products, NEW margin, NEW discount, ApplyAdminPricing(p, margin, discount)
    PROVE  Shrinks
<1> DEFINE r == product[p]
           priced == CalculatePrices(r.storePrice, margin, discount)
           row == [r EXCEPT !.margin = margin, !.discount = discount,
                            !.selling = priced.selling, !.final = priced.final]
<1>1. Exists(p) /\ r \in ProductRows
  BY DEF ApplyAdminPricing, Exists, IInv, Sound
<1>2. product' = [product EXCEPT ![p] = row]
  BY DEF ApplyAdminPricing, Save
<1>3. row.images = r.images
  <2> HIDE DEF priced
  <2> QED BY <1>1 DEF ProductRows
<1> HIDE DEF row
<1> QED BY <1>1, <1>2, <1>3, SavedKeepsPhotos

\* mutate_product_images: the product gets the new set, which is not too big.
LEMMA ImagesGain ==
    ASSUME IInv, NEW p \in Products, Exists(p), NEW r, Sound(r),
           NEW new \in SUBSET Photos, NEW added \in BOOLEAN, NEW chosen,
           NEW by \in Staff \cup {NoUser}, NEW byStore,
           MutateImages(p, r, new, added, chosen, by, byStore),
           new \subseteq product[p].images \cup {f \in Photos : FreshPhoto(f)}
    PROVE  Gains(p)
<1>1. PICK f \in Primaries(r, new, chosen) :
        product' = [product EXCEPT ![p] =
                      [IF new = r.images THEN r ELSE AfterImages(r, new, added, by)
                         EXCEPT !.images = new, !.primary = f]]
  BY DEF MutateImages, Save
<1> DEFINE row == [IF new = r.images THEN r ELSE AfterImages(r, new, added, by)
                     EXCEPT !.images = new, !.primary = f]
<1>2. row \in ProductRows /\ row.images = new
  <2>1. CASE new = r.images
    <3>1. r \in ProductRows /\ f \in Photos \cup {NoPhoto}
      BY PrimaryInside DEF Sound
    <3> QED BY <2>1, <3>1 DEF ProductRows
  <2>2. CASE new # r.images
    <3>1. row = Pictured(r, new, added, by, f)
      BY <2>2 DEF Pictured
    <3> HIDE DEF row
    <3> QED BY <3>1, ImagesRow DEF Sound
  <2> QED BY <2>1, <2>2
<1>3. Cardinality(new) <= MaxImages
  BY DEF MutateImages, ImagesAllowed, FewEnough
<1>4. product' = [product EXCEPT ![p] = row]
  BY <1>1
<1> HIDE DEF row
<1>5. /\ Album(p)' = new
      /\ \A q \in Products \ {p} : Album(q)' = Album(q)
  BY <1>2, <1>4, SavedAlbum
<1>6. Album(p) = product[p].images
  BY DEF Album
<1> QED BY <1>3, <1>5, <1>6 DEF Gains

\* create_product: files of its own, and not too many.
LEMMA CreateGains ==
    ASSUME IInv, NEW p \in Products, NEW content \in Contents, NEW storePrice \in StorePrices,
           NEW status \in {"DRAFT", "PENDING"}, NEW images \in SUBSET {f \in Photos : FreshPhoto(f)},
           NEW autoPublish \in BOOLEAN, NEW byStore,
           CreateProduct(p, content, storePrice, status, images, autoPublish, byStore)
    PROVE  Gains(p)
<1>1. PICK f \in IF images = {} THEN {NoPhoto} ELSE images :
        product' = [product EXCEPT ![p] =
          [status |-> status, content |-> content, storePrice |-> storePrice,
           margin |-> Unset, discount |-> Unset, selling |-> NoPrice, final |-> NoPrice,
           images |-> images, primary |-> f, approvedBy |-> NoUser,
           autoPublish |-> autoPublish]]
  BY DEF CreateProduct
<1> DEFINE row ==
          [status |-> status, content |-> content, storePrice |-> storePrice,
           margin |-> Unset, discount |-> Unset, selling |-> NoPrice, final |-> NoPrice,
           images |-> images, primary |-> f, approvedBy |-> NoUser,
           autoPublish |-> autoPublish]
<1>2. f \in Photos \cup {NoPhoto}
  BY <1>1
<1>3. row \in ProductRows /\ row.images = images
  BY <1>2 DEF ProductRows, Statuses
<1>4. product' = [product EXCEPT ![p] = row]
  BY <1>1
<1> HIDE DEF row
<1>5. /\ Album(p)' = images
      /\ \A q \in Products \ {p} : Album(q)' = Album(q)
  BY <1>3, <1>4, SavedAlbum
<1>6. Cardinality(images) <= MaxImages
  BY DEF CreateProduct, FewEnough
<1> QED BY <1>5, <1>6 DEF Gains

\* The photo pages of management and of the store.
LEMMA PhotoPagesGain ==
    ASSUME IInv, NEW p \in Products, Exists(p), NEW by \in Staff \cup {NoUser}, NEW byStore,
           AddImage(p, by, byStore) \/ DeleteImage(p, by, byStore) \/ SetPrimaryImage(p, byStore)
    PROVE  Gains(p)
<1> DEFINE r == product[p]
<1>1. Sound(r) /\ r.images \in SUBSET Photos
  BY DEF IInv, Sound, ProductRows
<1>2. CASE AddImage(p, by, byStore)
  <2>1. PICK f \in {f \in Photos : FreshPhoto(f)}, chosen \in Photos \cup {NoPhoto} :
          MutateImages(p, r, r.images \cup {f}, TRUE, chosen, by, byStore)
    BY <1>2 DEF AddImage
  <2> QED BY <1>1, <2>1, ImagesGain
<1>3. CASE DeleteImage(p, by, byStore)
  <2>1. PICK f \in r.images : MutateImages(p, r, r.images \ {f}, FALSE, NoPhoto, by, byStore)
    BY <1>3 DEF DeleteImage
  <2> QED BY <1>1, <2>1, ImagesGain
<1>4. CASE SetPrimaryImage(p, byStore)
  <2>1. PICK f \in r.images : MutateImages(p, r, r.images, FALSE, f, NoUser, byStore)
    BY <1>4 DEF SetPrimaryImage
  <2> QED BY <1>1, <2>1, ImagesGain
<1> QED BY <1>2, <1>3, <1>4

\* The admin site saves a product with a batch of photos, or replaces a file.
LEMMA AdminSaveGains ==
    ASSUME IInv, NEW p \in Products, NEW s \in Staff, AdminSaveProduct(p, s)
    PROVE  Gains(p)
<1>1. Exists(p) /\ Sound(product[p]) /\ product[p] \in ProductRows
  BY DEF AdminSaveProduct, Exists, IInv, Sound
<1>2. PICK c \in Contents, removed \in SUBSET product[p].images,
           added \in SUBSET {f \in Photos : FreshPhoto(f)} :
        LET r == [product[p] EXCEPT !.content = c]
            new == (r.images \ removed) \cup added
        IN  \E chosen : MutateImages(p, r, new, added # {}, chosen, s, FALSE)
  BY DEF AdminSaveProduct
<1> DEFINE r == [product[p] EXCEPT !.content = c]
           new == (r.images \ removed) \cup added
<1>3. PICK chosen : MutateImages(p, r, new, added # {}, chosen, s, FALSE)
  BY <1>2
<1>4. /\ r \in ProductRows /\ r.images = product[p].images /\ r.primary = product[p].primary
      /\ r.margin = product[p].margin /\ r.selling = product[p].selling /\ r.final = product[p].final
  BY <1>1 DEF ProductRows
<1>5. /\ new \in SUBSET Photos /\ (added # {}) \in BOOLEAN
      /\ new \subseteq product[p].images \cup {f \in Photos : FreshPhoto(f)}
  BY <1>4 DEF ProductRows
<1> HIDE DEF r, new
<1>6. Sound(r)
  BY <1>1, <1>4 DEF Sound
<1> QED BY <1>1, <1>3, <1>5, <1>6, ImagesGain

LEMMA AdminReplaceGains ==
    ASSUME IInv, NEW p \in Products, NEW s \in Staff, AdminReplaceImage(p, s)
    PROVE  Gains(p)
<1> DEFINE r == product[p]
<1>1. Exists(p) /\ Sound(r) /\ r.images \in SUBSET Photos
  BY DEF AdminReplaceImage, Exists, IInv, Sound, ProductRows
<1>2. PICK old \in r.images, f \in {f \in Photos : FreshPhoto(f)} :
        MutateImages(p, r, (r.images \ {old}) \cup {f}, FALSE,
                     IF r.primary = old THEN f ELSE NoPhoto, s, FALSE)
  BY DEF AdminReplaceImage
<1>3. /\ (r.images \ {old}) \cup {f} \in SUBSET Photos
      /\ (r.images \ {old}) \cup {f} \subseteq product[p].images \cup {g \in Photos : FreshPhoto(g)}
  BY <1>1
<1> QED BY <1>1, <1>2, <1>3, ImagesGain

\* The admin site deletes photos of several products, or a product with its
\* photos.
LEMMA AdminDeleteShrinks ==
    ASSUME IInv,
           \/ \E s \in Staff : AdminDeleteImages(s)
           \/ \E p \in Products : AdminDeleteProduct(p)
    PROVE  Shrinks
<1>1. ASSUME NEW p \in Products, AdminDeleteProduct(p) PROVE Shrinks
  <2>1. /\ product'[p] = NoProduct
        /\ \A q \in Products \ {p} : product'[q] = product[q]
    BY <1>1 DEF AdminDeleteProduct, IInv, TypeOK
  <2> QED BY <2>1 DEF Shrinks, Album, Exists
<1>2. ASSUME NEW s \in Staff, AdminDeleteImages(s) PROVE Shrinks
  <2>0. PICK files : files \in SUBSET Photos /\
          LET hit == {p \in Products : product[p] # NoProduct /\ product[p].images \cap files # {}}
              left(p) == product[p].images \ files
              after(p, f) == [AfterImages(product[p], left(p), FALSE, s) EXCEPT !.images = left(p), !.primary = f]
          IN  /\ \E primary \in [hit -> Photos \cup {NoPhoto}] :
                    /\ \A p \in hit : primary[p] \in Primaries(product[p], left(p), NoPhoto)
                    /\ product' = [p \in Products |->
                                      IF p \in hit THEN after(p, primary[p]) ELSE product[p]]
                    /\ statusLog' = [p \in Products |->
                                      IF p \in hit /\ product[p].status = "APPROVED"
                                      THEN "PENDING" ELSE statusLog[p]]
              /\ UNCHANGED <<shopOpen, priceLog, unreviewed>>
    BY <1>2, Zenon DEF AdminDeleteImages
  <2> DEFINE hit == {p \in Products : product[p] # NoProduct /\ product[p].images \cap files # {}}
  <2>h. \A p \in hit : p \in Products /\ Exists(p)
    BY DEF Exists
  <2>1. PICK primary :
          /\ \A p \in hit : primary[p] \in Primaries(product[p], product[p].images \ files, NoPhoto)
          /\ product' = [p \in Products |->
                IF p \in hit
                THEN [AfterImages(product[p], product[p].images \ files, FALSE, s)
                        EXCEPT !.images = product[p].images \ files, !.primary = primary[p]]
                ELSE product[p]]
    BY <2>0
  <2> HIDE DEF hit
  <2>2. ASSUME NEW p \in hit PROVE product'[p].images = product[p].images \ files /\ Exists(p)
    <3> DEFINE r == product[p]
               new == r.images \ files
               f == primary[p]
               row == Pictured(r, new, FALSE, s, f)
    <3>1. p \in Products /\ Exists(p) /\ Sound(r) /\ new \in SUBSET Photos
      BY <2>h DEF IInv, Sound, ProductRows
    <3>2. product'[p] = row
      BY <2>1, <3>1 DEF Pictured
    <3>3. f \in Primaries(r, new, NoPhoto) /\ s \in Staff \cup {NoUser} /\ FALSE \in BOOLEAN
      BY <2>1, <1>2
    <3>4. row.images = new
      <4>1. PICK none \in BOOLEAN : none = FALSE
        OBVIOUS
      <4>2. row = Pictured(r, new, none, s, f)
        BY <4>1
      <4> HIDE DEF r, new, f, row
      <4> QED BY <3>1, <3>3, <4>2, ImagesRow
    <3> QED BY <3>1, <3>2, <3>4
  <2>3. ASSUME NEW p \in Products, p \notin hit PROVE product'[p] = product[p]
    BY <2>1, <2>3
  <2> QED BY <2>2, <2>3 DEF Shrinks, Album, Exists
<1> QED BY <1>1, <1>2

\* What a step does to the photos of all products.
LEMMA NextPhotos ==
    ASSUME IInv, [Next]_vars
    PROVE  Shrinks \/ \E p \in Products : Gains(p)
<1>0. \A p \in Products : Exists(p) => Sound(product[p])
  BY DEF IInv
<1>1. ASSUME NEW p \in Products, StoreStep(p) PROVE Shrinks \/ Gains(p)
  <2>1. CASE StoreCreate(p)
    BY <2>1, CreateGains DEF StoreCreate
  <2>2. CASE StoreEdit(p)
    BY <2>2, UpdateLeavesPhotos DEF StoreEdit
  <2>3. CASE StoreSubmit(p)
    <3>1. RecordStatusChange(p, "PENDING", NoUser, TRUE) /\ "PENDING" \in Statuses
      BY <2>3 DEF StoreSubmit, Statuses
    <3> QED BY <3>1, RecordLeavesPhotos
  <2>4. CASE StoreImages(p)
    BY <2>4, PhotoPagesGain DEF StoreImages, Exists
  <2> QED BY <1>1, <2>1, <2>2, <2>3, <2>4 DEF StoreStep
<1>2. ASSUME NEW p \in Products, NEW s \in Staff, ManagementStep(p, s) PROVE Shrinks \/ Gains(p)
  <2>1. CASE ManagementCreate(p, s)
    BY <2>1, CreateGains DEF ManagementCreate
  <2>2. CASE ManagementEdit(p, s)
    BY <2>2, UpdateLeavesPhotos DEF ManagementEdit
  <2>3. CASE SetPricing(p, s)
    BY <2>3, PricingLeavesPhotos DEF SetPricing
  <2>4. CASE ChangeStatus(p, s)
    BY <2>4, RecordLeavesPhotos DEF ChangeStatus
  <2>5. CASE ManageImages(p, s)
    BY <2>5, PhotoPagesGain DEF ManageImages, Exists
  <2>6. CASE AdminReplaceImage(p, s)
    BY <2>6, AdminReplaceGains
  <2>7. CASE AdminSaveProduct(p, s)
    BY <2>7, AdminSaveGains
  <2> QED BY <1>2, <2>1, <2>2, <2>3, <2>4, <2>5, <2>6, <2>7 DEF ManagementStep
<1>3. ASSUME NEW p \in Products, LoadWaitingProduct(p) PROVE Gains(p)
  BY <1>3, CreateGains DEF LoadWaitingProduct
<1>4. CASE product' = product
  BY <1>4 DEF Shrinks, Album, Exists
<1> QED
  BY <1>1, <1>2, <1>3, <1>4, AdminDeleteShrinks DEF Next, vars, SwitchShop

LEMMA InitAlbums == Init => Albums
<1>1. Cardinality({}) = 0 /\ 0 <= MaxImages
  BY FS_EmptySet, PhotosAssumption
<1> QED BY <1>1 DEF Init, Albums, Album, Exists

LEMMA NextAlbums == IInv /\ Albums /\ [Next]_vars => Albums'
  BY NextPhotos, ShrinkingKeeps, GainingKeeps

-----------------------------------------------------------------------------
(* The theorems *)

\* Every edit, review, repricing and change of photos leaves a well-formed
\* catalogue; no price is negative.
THEOREM TypeCorrect == Spec => []TypeOK
<1>1. IInv => TypeOK
  BY DEF IInv
<1> QED BY <1>1, Inductive, PTL

\* What customers can buy has a photo and a price above zero, for every
\* margin, discount and price a store asks.
THEOREM OffersComplete == Spec => []PublishedComplete
<1>1. IInv => PublishedComplete
  BY DEF IInv, PublishedComplete, Published, Exists, Sound, Offer
<1> QED BY <1>1, Inductive, PTL

\* Customers see no change of a store that no manager has decided on.
THEOREM OffersReviewed == Spec => []PublishedReviewed
<1>1. IInv => PublishedReviewed
  BY DEF IInv, PublishedReviewed, Published
<1> QED BY <1>1, Inductive, PTL

\* Whoever approved what customers see may approve.
THEOREM OffersApproved == Spec => []PublishedByApprover
<1>1. IInv => PublishedByApprover
  BY DEF IInv, PublishedByApprover, Published, Offer
<1> QED BY <1>1, Inductive, PTL

\* The histories of status and prices end with what the product is.
THEOREM HistoriesCurrent == Spec => []HistoryCurrent
<1>1. IInv => HistoryCurrent
  BY DEF IInv, HistoryCurrent, Logged
<1> QED BY <1>1, Inductive, PTL

\* Every product has at most MaxImages photos with one of them primary, and no
\* file belongs to two products, for every batch that the portals and the
\* admin site can make of additions, replacements and deletions.
THEOREM PhotosAreConsistent == Spec => []PhotosConsistent
<1>1. Spec => []Albums
  BY Inductive, InitAlbums, NextAlbums, PTL DEF Spec
<1>2. IInv /\ Albums => PhotosConsistent
  BY DEF IInv, Albums, Album, Sound, PhotosConsistent
<1> QED BY <1>1, <1>2, Inductive, PTL
=============================================================================
