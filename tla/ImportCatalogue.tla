---------------------------- MODULE ImportCatalogue ----------------------------
(***************************************************************************)
(* What the photo import and the bulk import share: the products of the    *)
(* stores, which both only add to, each time under the lock of the Store   *)
(* row.  A product is known by its store and SKU (unique_sku_per_store).   *)
(* An imported product cannot be deleted (PhotoImportItem.product is       *)
(* protected); what is done to it later is the business of module          *)
(* ProductCatalogue.                                                       *)
(***************************************************************************)
EXTENDS Integers, FiniteSets

CONSTANTS
    Stores,
    Skus,           \* stock-keeping units of imported products
    Names,          \* what products are called
    Files,          \* stored images
    None            \* no product, store, item, ...

ProductRows == [name : Names, images : SUBSET Files, published : BOOLEAN, stock : BOOLEAN]

ASSUME ProductsAssumption == None \notin ProductRows

VARIABLES
    product,        \* product[<<store, sku>>]: a record with name and images, or None
    storeLock       \* who holds the lock of a Store row beyond one step, or None

InCatalogue(s, sku) == product[<<s, sku>>] # None

\* create_product with the photos of the import, as far as imports look at it.
Added(s, sku, name, images, published, stock) ==
    [product EXCEPT ![<<s, sku>>] =
        [name |-> name, images |-> images, published |-> published, stock |-> stock]]

CatalogueInit ==
    /\ product = [key \in Stores \X Skus |-> None]
    /\ storeLock = [s \in Stores |-> None]
=============================================================================
