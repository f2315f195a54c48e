# Zuvi-Web in TLA+

Zuvi-Web is a Django shop for several stores: customers fill one cart with the
products of many stores, pay cash on delivery, and each store fulfils its part
of the order. The shop runs on PostgreSQL at READ COMMITTED behind synchronous
gunicorn workers, so everything interesting happens between requests: what a
request reads before it holds a lock, what it decides under one, and what is
left when it dies.

This directory models that behaviour, checks it with TLC on small instances and
proves the central invariants with TLAPS for instances of every size.

## 1. Inventory of the system

| Part (code) | State | Operations | What is hard | What makes it correct |
|---|---|---|---|---|
| Order life cycle (`orders/status.py`, `store_status.py`, `order_status_sync.py`, `cancellation.py`, `management_status.py`) | Order (status, payment, delivery and collection times, payable total), StoreOrders, OrderItems | store transitions and rejection; cancellation by customer or management; management status and payment changes; reversals | the overall status is derived by some paths and set by others; any sequence of three kinds of actors; cash recorded on orders that change later | order, parts, payment, amounts and stock agree after every sequence |
| Stock and ledger (`inventory/services.py`, `models.py`) | Product.stock_quantity, InventoryTransaction, PurchaseEntry with lines | manual movements, opening stock, order deduct/restore, purchases, the opening-stock command | lookups without locks, several products in one transaction, repeated calls | the ledger explains every balance; once-only references; all or nothing |
| Purchase form (`inventory/forms.py`, `views.py`) | the token in the session | open, send, send again | two requests at once, a stored session that is old | one page, one purchase |
| Cart and checkout (`cart/services.py`, `orders/checkout.py`, `services.py`, `views.py`) | CartItems, the session's checkout token, the new order graph | add, change, remove, clear; preview, place | double submission, a retry after a crash, prices and stock changing between statements | one order per token, what is ordered is what is offered, nothing lost |
| Row locks (all services above) | PostgreSQL row locks | `select_for_update` in every service | circles of waiting services | no circle of waiting services where the code says so |
| Catalogue (`catalog/status.py`, `services.py`, `pricing.py`) | Product status, prices and frozen prices, ProductStatusHistory | create, edit, review, price, deactivate | an edit that needs a second review while the first is pending | nothing is sold at a price nobody reviewed |
| Product images (`catalog/services.py`, `validators.py`) | ProductImage rows, one primary | batches of additions, updates, deletions | limits over a batch | 1..5 images while approved, exactly one primary |
| Imports (`catalog/photo_import.py`, `bulk_import.py`) | PhotoImportItem, Product | import an item, dry run, publish | reruns after a partial failure, two runs at once | one product per source fingerprint |
| Stores (`stores/services.py`, `status.py`, `views.py`) | Store.status, StoreUsers | status transitions, users, primary transfer | decisions on unlocked rows, full saves of old reads | one primary user |
| Customers (`customers/services.py`, `views.py`) | User, Customer, CustomerAddress | register, edit, (de)activate, address book | full saves of old reads, unlocked "first address" | one default address while there are any |
| Google sign-in (`customers/authentication.py`) | session state, CustomerGoogleIdentity | start, callback | late or repeated callback | one use of a state, no take-over of an account |
| Management accounts, audit log (`accounts/`) | users, permissions, AdminAuditLog | create, edit, toggle | - | the log only grows |
| Pickup locations, portals, search, locations, configuration | tables that are read, forms, templates | queries and forms | - | - |

How they interact: checkout reads cart, catalogue, stores and addresses and
writes orders; it deducts stock through the ledger with one immutable reference
per order item, and every rejection or cancellation gives stock back through
the ledger with another. Stores and managers act on orders, products and stores
through portals of their own. All of it meets in the rows of one database:
there are no queues, timers or background workers, except the management
commands `initialize_opening_stock` and `stage_photo_catalogue`. The bulk import
page is a small client of its own: it sends one request per row and goes on. The only state outside the database
transaction is the session, loaded and saved whole by each request.

## 2. Modules

| Module | Models | Composes |
|---|---|---|
| `OrderContract` | what an order promises, whoever acts on it: parts may be dropped while it is open, cash is taken only for a delivered order | - |
| `OrderLifecycle` | orders after checkout, one action per service of `orders/`, grouped by the portal that calls it | instantiates `OrderContract` under a refinement mapping |
| `StockJournal` | what the inventory promises its readers: whole movements and whole purchases, one after the other | - |
| `StockLedger` | `inventory/services.py`: movements, order stock, purchases line by line, the opening-stock command step by step | instantiates `StockJournal` |
| `Checkout` | carts and `create_order_from_cart`, statement by statement, against the other portals | - |
| `RowLocks` | the lock sequences of the services and PostgreSQL's waiting and deadlock detection | - |
| `Pricing` | margins, discounts and rounding as operators | - |
| `ProductCatalogue` | the life of a product, its prices and photos, through both portals and the admin site | extends `Pricing` |
| `ImportCatalogue` | what both imports share: products by store and SKU, and the store's lock | - |
| `PhotoImport` | the photo workspace and the staging command | extends `ImportCatalogue` |
| `BulkImport` | the bulk import's page and the requests it sends | extends `ImportCatalogue` |
| `Imports` | both at work on one catalogue | extends the two |
| `CustomerAccounts` | registration, sign-in by password and Google, the forms that save an account | - |
| `AddressBook` | one customer's addresses and their default | - |
| `StoreTeam` | a store's status and its users | - |
| `PurchaseForm` | the one-time token of the purchase form | - |
| `Portals` | the four above, side by side | extends them |
| `...Proofs` | the theorems of `OrderLifecycle`, `StockLedger`, `Checkout`, `RowLocks`, `Pricing`, `ProductCatalogue`, `Portals` and `Imports` | extend the modules |
| `MC...` | instances for TLC | extend the modules |

`PROJECT.json` maps each definition to the lines it translates.

### State and actions

**OrderLifecycle.** Every service opens a transaction by locking the Order row,
so services on one order are serialised and each is one action, its trailing
`sync_order_status_from_store_orders`, recalculated totals and restored stock
included. The one decision made before the lock, `_require_active_store` on the
store object of the request, is its own action `CheckStoreActive`; the
transition follows at any time later. A payable total is modelled as the set of
StoreOrders it sums, the stock ledger as the set of its unique references.
Refused calls change nothing and have no action.

**StockLedger.** A movement of one product runs wholly under the product's lock
and is one action on `account` (balance and rows). A purchase moves several
products: each line is a step on `draft`, what its transaction sees, and
`holder` says whose transaction has locked the product; commit copies, rollback
forgets. The lookup of an order reference and the opening-stock command's list,
check, conversion and verification are separate steps because no lock spans
them. Quantities are integers (thousandths in the code) and the limit of the
column is `MaxQuantity`.

**Checkout.** Each statement of `create_order_from_cart` is an action, since at
READ COMMITTED each sees what is committed when it starts: the token lookup
before the lock, the locked cart, the second lookup, validation under the locks
of products and stores, the fulfilment checks, and the order with its stock
deductions, the deletion of the cart's lines and the commit. The session's
token is cleared afterwards, outside the transaction, by a request that stores
the whole session it loaded. So do other pages (`locations/views.py:77` and 92,
`customers/authentication.py:83`), and any of them may put back an older token
(`StoreSession`): `issued` are the tokens a customer's session has ever held. A
worker may be lost at every step. A locked row is a row some request at the right step has read:
there is no separate lock state. Services of one product, cart line or store
are one action each and wait for the locks.

**RowLocks.** A service is the sequence of its locks; a request takes them one
at a time, keeps them until it commits, and waits for conflicting ones. Tables
joined by `select_related` are locked too, in the order of the joins, and
foreign keys in share mode: the order graph is locked item by item as OrderItem,
StoreOrder, Store, Product. The
detector ends one request of a circle. Whether a service is allowed to do its
work is not the question here, so it always takes all its locks. A set of
requests has no circle (`NoCircle`) if among any of them that wait there is one
that waits for none of the others.

**ProductCatalogue.** Every service locks the Product row and decides again
under it, so each is one action; what a page showed before is an arbitrary
argument. The reviewed fields other than the store's price are one abstract
content; `unreviewed` is a history variable: a store changed what customers
see, and no manager has decided since. Prices are paise and are computed, with
the code's rounding and its refusals, by `Pricing`. The admin site's forms save
products and images by other paths and have actions of their own.

**PhotoImport, BulkImport.** Each workspace request locks its item and is one
action, except an upload: it looks for its photo in the whole batch, of which
it has locked one item, so the look and the commit are two. Files are state of
their own (`stored`), since storage takes no part in transactions: the file of a
removed photo is `doomed` when the row's deletion commits, and deleted some time
later, or never (`DeleteFile`). An item's
fingerprint is the set of its pictures, and so is the SKU made from it. A page
of the bulk import has a row index, a shown result per row and one request at a
time; a worker's check and its commit are two steps under the store's lock, and
an answer may be lost at any time while the worker goes on. An answer of status
200 whose body cannot be read (it is cut, or it is the login page) is shown as
"Duplicate of undefined", whatever has become of the row.

**Portals.** A request that reads an object, shows a form or asks Google, and
saves later, has a step for each; the profile form, the store form and the form
of a store user save every column they read, the switches one column. A new
address is five steps, because nothing is locked before it decides whether it
is the first; the other services of the address book lock the Customer and are
one each. A purchase page is known by its token; `kept` is the stored session,
which a request loads before and stores after its work; the other pages of the
session that change it store their whole copy too (`OtherBegins`,
`OtherAnswered`). These four components
share no row that a decision of another one reads, so in a behaviour of
`Portals` one of them is at work and the others have not begun.

## 3. Runs

| Run | Instance | Shows |
|---|---|---|
| `orders` | two orders, one over two stores, compete for one product | every mix of portal actions, rejections, cancellations, completion, reversal and payment: `CancelledTogether`, `DeliveredTogether`, `CollectedOnlyWhenDelivered`, `PayableMatchesChargeable`, `StockHeldByChargeable`, `StockConserved`, `FinalStatesStay`, `CollectedAmountIsFixed`, and the refinement `KeepsContract` |
| `order_suspended_store` | one order over three stores | violated: see findings |
| `ledger` | two products, two racing callers, two purchases in opposite order, one run of the command | `TypeOK` (no balance out of range), `LedgerExplainsBalance`, `ReferenceOnce`, `OpeningOnce`, `PurchaseAllOrNothing`, and the refinement `KeepsJournal` |
| `ledger_opening_history` | two products, two runs of the command | violated: see findings |
| `checkout` | two requests of one customer or two, two tokens, two units (503,796) | `OneOrderPerToken`, `OrderedOnce`, `RetryAnswered`, `OrderedAsOffered`, `TypeOK` (no negative stock) |
| `checkout_lost_line` | one request, two products | violated: see findings |
| `locks` | eleven services of the shop at once, two orders from the same two stores (133,968 states) | `OrderServicesNeverDeadlock`, although other circles do occur |
| `locks_rejection` | a store's rejection in one order next to the cancellation of another one | violated: see findings |
| `catalogue` | two products, three photos, an editor and an approver (82,410) | `PublishedComplete`, `PublishedReviewed`, `PublishedByApprover`, `PhotosConsistent`, `HistoryCurrent`, `TypeOK` |
| `catalogue_frozen_prices` | one product, three prices | violated: see findings |
| `imports` | two photo items of two pictures over two stores; a manifest of three rows, two of one name, one without image, two workers (438,945) | `FilesKept`, `ImportedInBatchStore`, `ImportedReviewed`, `NamesOnce`, `ReportsTrue`, and the liveness `RunsEnd` |
| `portals` | two browsers, two Google accounts; a store with two users and two managers; three addresses from two tabs; three purchase pages (661,336 up to symmetry) | `OwnAccountOnly`, `OnePrimary`, `RecordedOnce`, `DefaultKept` |

Each property has a mutant in its module: a variation of one definition, of the
kind a plausible bug would be, under which the run fails.

### Bounds, and why they are enough

- Orders and StoreOrders: the derived status depends on the *set* of StoreOrder
  statuses; two parts of one order next to another order that wants the same
  stock give the mixes in which they disturb each other, and the theorems below
  hold for any number.
- `MaxRows` (ledger rows per product) and `MaxQuantity`: deduction, restoration
  and an opening row of one product fit; the balance starts next to both ends of
  its range.
- `MaxTokens`, `MaxLines`, `MaxStock`: two tokens for two tabs; two lines so
  that one can be ordered and another arrive late; two units so that rivals with
  quantities 1 and 2 fit alone and not together.
- Catalogue: `MaxImages` is 2 with three photos, so the limit is met and passed;
  of the two discounts one can be combined with either store price, the other
  with none. That an edit is refused when its price no longer fits the margin is
  left to the proofs, and to `catalogue_frozen_prices`, where one of three store
  prices does not fit. There is one value of the reviewed content, so an edit of
  nothing but the content changes nothing in the run: that such an edit asks for
  a new review is covered by the theorem `OffersReviewed` alone.
- Imports: groups start as both pictures and get smaller by splitting, and two
  items may be of one group; `MaxListing` 1 of `MaxStaged` 2 photos, so a listing can be too long;
  the third row has no image, so the page also skips at the end of a run.
  Workspace and pages are used in different stores of one behaviour
  (`WorkspaceUntouched`, `PagesUntouched`): what one leaves is to the other a
  product with a name, which rows of the same manifest leave as well.
- Portals: `MaxFlows` 2 sign-ins with Google from two browsers; `MaxAddresses` 3,
  for a default, a replacement and an overtaken newcomer; two users of the store,
  since a step reads one of them and treats all others alike; `MaxForms` 3 for a page,
  the one that replaces it and the one after a refusal; `MaxPurchases` 2 so that a
  page can be recorded twice.
- Symmetry sets permute what nothing tells apart (requests, callers, customers,
  photos, products of the catalogue, browsers, workers, accounts); the run with
  liveness uses none. The `VIEW` of `checkout` takes two states for one that
  differ only in the prices and quantities of orders already placed or in how a
  request ended: no guard reads either, the values of the invariants are part of
  the view, and TLC evaluates the action properties on every step.
- `ledger` and `imports` switch deadlock checking off because the system may
  really be done: all purchases settled and `MaxRows` reached; every item
  imported and the page at rest.

### Fairness

Only `imports` checks liveness. (That a request which waits for a lock ends is
the work of PostgreSQL's deadlock detector, whatever the services do; it is no
property of this code.)

`imports` assumes weak fairness of a running page's next step and of a worker's.
A page's step is a callback in its script, or the end of its connection, which
comes at the latest with gunicorn's timeout; a worker finishes its request, or
fails and ends it. Nobody has to press a button, and nothing is assumed of users
or of crashes anywhere.

## 4. Findings

- **A line added during a checkout is lost** (`checkout_lost_line`,
  `orders/checkout.py:429`). The cart is cleared with a fresh
  `CartItem.objects.filter(cart=cart).delete()`. A line another tab added after
  the lines were locked is deleted unordered, against the docstring's "Revalidate
  every cart line" and "Clear CartItems only after every prior step succeeds".
- **A rejection can deadlock with a cancellation of another order**
  (`locks_rejection`, `orders/store_status.py:88`). `transition_store_order` locks
  its StoreOrder with `select_related("order", "store")`, hence the row of its own
  Store, before `reject_store_order` locks the order graph with the other Stores
  of the order; a cancellation locks the Stores in the order of its items. Where
  two orders are from the same two stores, each can have the Store the other one
  wants. "Lock Order first, then StoreOrders / items / products, to keep lock
  order consistent with cancel paths and avoid deadlocks" does not extend to the
  Stores. PostgreSQL ends one of the two. Two cancellations whose items name the
  stores in different orders can meet in the same way. What does hold, and is
  proved, is `OrderServicesNeverDeadlock`: accepting, processing and managing
  orders is free of circles, also with all cancellations and rejections of one
  order.
- **A suspended store can still process** (`order_suspended_store`,
  `orders/store_status.py:79`). The status is tested on the object read before
  the lock and never again.
- **Opening stock behind existing history** (`ledger_opening_history`,
  `inventory/services.py:453`). The check "under the conversion lock path" takes
  no lock; a movement in between is followed by an OPENING row from zero.
- **Frozen prices thaw on the second edit** (`catalogue_frozen_prices`,
  `catalog/services.py:505`). A store's edit of an approved product sends it back
  to review and keeps its prices, "Keep previously approved selling/final/margin
  until admin re-reviews"; the same form saved once more, while the product is
  pending, computes them from the new store price.

Three other behaviours are stated as exceptions inside properties: a purchase
page is recorded twice when another request had its token in a copy of the
session while it was recorded, or when the recording worker died before its
response (`RecordedOnce`; `inventory/forms.py:26` says "A successful consume
clears the session key so a replay cannot re-create stock.", which is so in the
other cases only); a new address that was decided not to be the default
arrives in a book whose addresses were all deactivated meanwhile, and the book
has no default (`DefaultKept`); and a review decides on what the product is, not
on what the reviewer's page showed (`PublishedReviewed`).

Some behaviours are in the models and no property forbids them, because nothing
in the code promises otherwise: a form that saves every column brings back what
was switched off after it had read it, also the status of a store (the comment
at `stores/admin.py:89`, "Status changes must go through management portal
(validate + history + audit).", is about the admin site); two managers' status
changes of a store, each legal, follow each other illegally; the import page
counts a row whose answer it cannot read as a duplicate; purchases, and two
changes of one address book, can deadlock.

## 5. Proofs

TLAPS proves, for all values of the constants under the assumptions of the
modules:

- `OrderLifecycleProofs`: `Invariance`, and from it `TypeCorrect`,
  `CancellationAgrees`, `DeliveryAgrees`, `CollectionAgrees`, `PayableAgrees`,
  `StockAgrees`, `StockIsConserved`, `FinalStatesAreFinal`, `CollectionsAreKept`
  and the refinement `ImplementsContract`. The assumptions (`RowsAssumption`,
  `NonEmptyAssumption`, `OneLinePerProductAssumption`, `FiniteItemsAssumption`) are
  foreign keys, "a StoreOrder has an item", the unique constraint of cart lines
  and that a table is finite.
- `StockLedgerProofs`: `Invariance`, and from it `TypeCorrect`,
  `LedgerIsBalanced`, `OpeningIsOnce`, `ReferenceIsOnce`, `PurchaseIsAtomic`,
  `LedgerIsKept` and the refinement `ImplementsJournal`. The assumptions say that
  limits are naturals, initial balances fit, purchase lines are positive, and
  markers such as `Nobody` are not products or purchases.
- `CheckoutProofs`: `Invariance`, and from it `TypeCorrect`, `TokenOrdersOnce`,
  `LinesOrderedOnce`, `OrdersMatchOffers`, `RetriesAreAnswered`. The one
  assumption says that prices, quantities and limits are naturals, that initial
  stock fits, and that the marker for "no customer" is none.
- `RowLocksProofs`: `OrderServicesAreDeadlockFree`. Assumed
  (`ServicesAssumption`) are the kinds of services, foreign keys between orders,
  StoreOrders and items, and that carts and purchases list products.
- `PricingProofs`: `RoundsToNearest`, what rounding half up means.
- `ProductCatalogueProofs`: `TypeCorrect`, `OffersComplete`, `OffersReviewed`,
  `OffersApproved`, `PhotosAreConsistent`, `HistoriesCurrent`. Assumed are rights as sets, positive
  store prices, finitely many photos and markers that are none of the values.
- `PortalsProofs`: `Invariance`, `GoogleAccountsAreOwn`, `OnePrimaryUser`,
  `FormsRecordOnce`, `DefaultsKept`. Assumed are markers that
  are none of the values, natural bounds, and that every Google account has a
  verified address.
- `ImportsProofs`: `Invariance`, `FilesAreKept`, `ItemsInOneStore`,
  `ImportsReviewed`, `NamesAreUnique`, `PagesTellTheTruth`. Assumed are forms and
  folders of their types, rows with different SKUs (`RowsAssumption`), and that no
  row has the SKU of a photo group (`SkusAssumption`: the prefixes differ).

The inductive invariant of orders (`IInv`) is the conjunction of the state
properties and `RowsTogether`: none is inductive alone, because each service
decides on the strength of what the others left: cancellation relies on the
derived status being right, the amounts on the item flags, restoration on
stock being held exactly for charged items. The proof has one step per action;
lemmas state what the shared helpers (status sync, stock restoration, the
amounts) do.

The inductive invariant of the ledger says of each product that the committed
account and the draft of an open transaction are both *sound* (explained row by
row, one opening, one row per reference), that the draft extends the account,
and equals it where no one holds the product. Committing a purchase replaces
account by draft, so soundness has to be carried through the open transaction;
and a reference found missing may be recorded only because the draft of a
locked product has the account's references too.

The inductive invariant of checkout makes explicit what the locks are for. No
two requests have locked one product, nor lines of one customer (`LocksApart`);
what a request has locked is in its customer's cart as it was read
(`LocksHold`); a token is in the hands of the one customer it was issued to,
however often old sessions put it back (`TokensOwned`). Hence a request past the second lookup works for a token no
order has (`TokensFresh`): a rival with its token would be the same customer's,
and would hold that customer's lines. This is why no check after the second
lookup can refuse a request whose token has an order (`RetriesAreAnswered`), and
whoever goes on to its answer has one (`AnswersReady`). And what validation read is still so when
the order commits (`ItemsChecked`), since whoever changes a product or a store
has to wait. Each action is shown to preserve all of it; the actions that only
move one request on share the lemmas `GoingOnKeeps` and `EndingKeeps`, those
that change one cart `CartKeeps`.

The invariant of the catalogue speaks of one product at a time. `Sound` is true
of a row whatever its status, and says above all that a product with a margin
has positive prices: approval asks for a margin, nothing takes it away later,
and each recalculation either gives positive prices or is refused. `Offer` is
what an approved one keeps. One lemma, `SaveKeeps`, shows the invariant of
everything that saves one row, one lemma per service that its row qualifies.

The invariant of the portals is one per component. Accounts: whoever is signed
in, or about to be, with Google is in the account made for that identity
(`OwnSessions`, `OwnLogins`), which no form changes. Team: whoever is about to
add a primary user has demoted, in rows it has locked, every primary there is,
or the unique constraint refuses. Form: while a request has taken the token of an unexcused page, no other request
has it, in whatever copy of the session, and once the page is recorded nobody
can put its token back but the recording request (`OneTaker`).
Address book: at most one creation that will be the default waits for its
commit, having demoted every default that exists (`OnePending`, `Demotions`).

The invariant of the imports falls into two. `PInv` says of the workspace that
the photos of every product and item are in storage and their files not among
those still to be deleted (`FilesThere`), that a product shows photos
of imported items only, which cannot be removed, that every imported item is in
the batch's store, and that a verified item was looked at. `CInv` says of pages
and workers that a worker which found no product of its name holds the store and
there is still none (`Holding`, `StillFound`), and that a page's live request is
for its current row and store (`Waiting`). Each side's steps preserve its own
half; of the other half they only have to show that the catalogue grows
(`RowsAside`, `PhotosAside`).

The rest of this section is about what those invariants do not give.

*Sums and cardinalities.* `StockIsConserved` compares a stock with the sum of a
fold over a set of items. Lemmas show what the fold does when one item more is
summed; then every service that takes units, gives them back or moves items
between states changes both sides by as much. `PhotosAreConsistent` counts a set
that a batch shrinks or grows file by file: every change of an album is one of
`Gains`, `Shrinks` or none, and the library's theorems on finite sets count the
rest. The photos of other products are what makes this more than a property of
one row: a new photo belongs to no album (`Albums`).

*Purchases in the middle.* `PurchaseIsAtomic` follows from what the draft of an
open transaction owes (`Booked`): of each product exactly the lines moved so far,
at increasing places of the ledger, so that commit leaves all lines and rollback
none, and no other movement, ahead of it or behind, takes their place.

*The journal.* `ImplementsJournal` hides transactions, locks, callers and the
command, and shows that account and purchase status alone behave as
`StockJournal` says: each step adds one row to one product, which is a movement,
or all rows of one purchase, each from the balance the row before it left;
nothing is ever taken back. `Open` adds what the invariants above leave out: the
rows only an open transaction sees are purchase rows of its own, and its entry
can still be confirmed. Then the commit adds the lines of its purchase
(`Progress`) and nothing else, and it continues the account because the draft is
sound (`DraftContinues`). `LedgerAppendOnly` is a part of this, so no run checks
it on its own.

*Circles.* The invariant of `RowLocks` says that a request has the locks of a
first part of its sequence and the rest ahead (`Has`), and that no two requests
have conflicting locks (`LocksApart`). `OrderServicesAreDeadlockFree` gives each
request a rank such that it waits for lower ranks only. The lock of the Order
comes first in every service of orders, so a request that has a lock waits
neither for an Order nor for a StoreOrder: whoever had it would be at work on
the same order (`OrderLocksOut`). For the others there are two arguments. A
transition, a change of a quantity and an addition each take one lock of a table
at a time, in one order of the tables (`Climbs`); changes of quantities and
additions differ in where the CartItem comes, so each kind goes with the
transitions and managements, but not both. Cancellations and rejections of one
order are serialised by its lock, so among them only one has locks at all; it,
or the one other service, may wait for any transition, but of that it can only
want the Store, which is the last thing a transition takes.

No prover here can use an induction theorem whose parameter is an operator. The
lemmas about flattened sequences and folds instead take the least
counterexample, or a minimal one in the ordering of strict subsets, which is
well founded by theorems of the library.

Only model-checked: the liveness `RunsEnd`, which rests on fairness.

## 6. What could follow

- The category tree with two managers at once, and the depth limit, once the
  project decides what the tree promises.
- A version in the review form, which would make "approved as shown" a property.
- Email verification and password change of `CustomerAccounts`, whose state is
  in signed links and the session.

## 7. Not modelled, and why

- *Presentation*: search and its synonyms, public pages, the cart page's script,
  forms' layout, exports, portals' lists and detail pages: they read, and no
  decision rests on what they showed.
- *Formats*: pixels of images, manifests, sizes and units, e-mail addresses,
  phone numbers, text recognition, retailer prices found on other sites: pure
  conversions without a protocol.
- *Permissions*: a test before each view, taken as passed; where the right
  matters to a property (who approves) it is in the model.
- *Histories and the audit log*: written in the transaction they describe and
  read by no decision; the two product histories, which are shown to managers,
  are in `ProductCatalogue`.
- *Categories, brands, tags, locations, pickup locations, management accounts,
  delivery areas*: one row, one form, no protocol between requests that the code
  promises anything about. Addresses, pickup and fees of a checkout are one
  check that may fail.
- *Random numbers* of orders and ledger rows: retried on collision, not
  distinguished.
- *Database failures* other than lost workers and deadlocks: they roll back like
  these.
- *Tests, settings, static files, deployment*: what they decide (ATOMIC blocks on
  PostgreSQL at READ COMMITTED, synchronous workers with a timeout) is assumed.
