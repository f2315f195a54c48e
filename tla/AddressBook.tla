------------------------------ MODULE AddressBook ------------------------------
(***************************************************************************)
(* The delivery addresses of one customer.  At most one active address is  *)
(* the default: save() clears the others in its transaction, and a partial *)
(* unique index has the last word.                                         *)
(*                                                                         *)
(* Editing, choosing and deactivating an address lock it together with its *)
(* Customer row (SELECT ... FOR UPDATE with select_related), so one of     *)
(* them runs at a time, no new address commits meanwhile (its foreign key  *)
(* needs the Customer row), and each is one action.  A new address takes   *)
(* no lock before it decides, and is several steps.  Transactions that     *)
(* wait for each other in a circle lose one of them: it fails, see module  *)
(* RowLocks.                                                               *)
(*                                                                         *)
(* Left out: what an address says.                                         *)
(***************************************************************************)
EXTENDS Integers, FiniteSets

CONSTANTS
    MaxAddresses,   \* bound: addresses ever created
    Tabs,           \* requests for a new address
    NoRow

AddressRows == [active : BOOLEAN, default : BOOLEAN]

ASSUME BookAssumption == MaxAddresses \in Nat /\ NoRow \notin AddressRows

Addresses == 1..MaxAddresses    \* in the order of their creation

VARIABLES
    address,        \* the committed rows
    creation        \* what each request for a new address does

bookVars == <<address, creation>>

BookInit ==
    /\ address = [a \in Addresses |-> NoRow]
    /\ creation = [t \in Tabs |-> NoRow]

Active == {a \in Addresses : address[a] # NoRow /\ address[a].active}
Defaults == {a \in Active : address[a].default}

Creating(t, step) == creation[t] # NoRow /\ creation[t].step = step
Past(t) == Creating(t, "insert") \/ Creating(t, "commit")

\* Rows whose update a creation has not committed yet.
Held == UNION {creation[t].demoted : t \in {u \in Tabs : Past(u)}}

\* A default address is inserted and not committed: the index makes others wait.
DefaultPending == \E t \in Tabs : Creating(t, "commit") /\ creation[t].default

-----------------------------------------------------------------------------
(* A new address *)

\* Mutant: every new address takes what was asked for.
IsDefaultAsWanted(others, want) == want

\* _resolve_is_default_for_customer
IsDefault(others, want) == others = {} \/ want

\* create_customer_delivery_address looks at the active addresses.
CreateBegins(t, want) ==
    /\ creation[t] = NoRow
    /\ creation' = [creation EXCEPT ![t] =
          [step |-> "decided", default |-> IsDefault(Active, want), seen |-> Active,
           demoted |-> {}, row |-> 0]]
    /\ UNCHANGED address

\* save() of a default address: the UPDATE sees the present defaults ...
DemotionBegins(t) ==
    /\ Creating(t, "decided")
    /\ creation' = [creation EXCEPT
          ![t].step = IF creation[t].default THEN "demote" ELSE "insert",
          ![t].demoted = IF creation[t].default THEN Defaults ELSE {}]
    /\ UNCHANGED address

\* ... waits for their rows, and changes those that are defaults still.
Demotes(t) ==
    /\ Creating(t, "demote")
    /\ creation[t].demoted \cap Held = {}
    /\ creation' = [creation EXCEPT ![t].step = "insert", ![t].demoted = @ \cap Defaults]
    /\ UNCHANGED address

\* Mutant: there is no index.
NoConflict(t) == TRUE

\* The unique index: another transaction that has touched a default address
\* comes to its end first, and then none may be left.
IndexFree(t) == Defaults \subseteq creation[t].demoted /\ ~DefaultPending

Taken == {a \in Addresses : address[a] # NoRow \/ \E t \in Tabs : Creating(t, "commit") /\ creation[t].row = a}

\* The INSERT; addresses are numbered as they are inserted.
Inserts(t, a) ==
    /\ Creating(t, "insert")
    /\ creation[t].default => IndexFree(t)
    /\ a = 1 \/ a - 1 \in Taken
    /\ \A b \in Taken : b < a
    /\ creation' = [creation EXCEPT ![t].step = "commit", ![t].row = a]
    /\ UNCHANGED address

CreateCommits(t) ==
    /\ Creating(t, "commit")
    /\ address' = [a \in Addresses |->
          IF a = creation[t].row THEN [active |-> TRUE, default |-> creation[t].default]
          ELSE IF a \in creation[t].demoted THEN [address[a] EXCEPT !.default = FALSE]
          ELSE address[a]]
    /\ creation' = [creation EXCEPT ![t] = NoRow]

\* Refused by the index, ended by the database, or lost with its worker.
CreateFails(t) ==
    /\ creation[t] # NoRow
    /\ creation' = [creation EXCEPT ![t] = NoRow]
    /\ UNCHANGED address

-----------------------------------------------------------------------------
(* Changes of an address *)

\* Mutant: the address itself is promoted.
ReplacementsAny(a) == {b \in Active : \A c \in Active : c <= b}

\* The newest other active address is promoted when one has lost the default.
Replacements(a) == {b \in Active \ {a} : \A c \in Active \ {a} : c <= b}

\* save() of these defaults, with the other ones cleared.
WithDefault(chosen) ==
    [b \in Addresses |-> IF b \in Active THEN [address[b] EXCEPT !.default = b \in chosen] ELSE address[b]]

\* The rows that are written to make these the default are free, and the index is.
CanSave(a, chosen) ==
    /\ a \notin Held
    /\ chosen # {} => (Defaults \cup chosen) \cap Held = {} /\ ~DefaultPending

\* set_customer_address_as_default
SetDefault(a) ==
    /\ a \in Active /\ CanSave(a, {a})
    /\ address' = WithDefault({a})
    /\ UNCHANGED creation

\* update_customer_delivery_address: the default kept, taken or passed on.
UpdateAddress(a, want) ==
    LET chosen == IF IsDefault(Active \ {a}, want) THEN {a}
                  ELSE IF address[a].default THEN Replacements(a)
                  ELSE Defaults
    IN  /\ a \in Active /\ CanSave(a, chosen \ Defaults)
        /\ address' = WithDefault(chosen)
        /\ UNCHANGED creation

\* deactivate_customer_address
Deactivate(a) ==
    LET chosen == IF address[a].default THEN Replacements(a) ELSE Defaults
    IN  /\ a \in Active /\ CanSave(a, chosen \ Defaults)
        /\ address' = [WithDefault(chosen) EXCEPT ![a] = [active |-> FALSE, default |-> FALSE]]
        /\ UNCHANGED creation

-----------------------------------------------------------------------------
(* Next and properties *)

BookNext ==
    \/ \E t \in Tabs :
         \/ \E want \in BOOLEAN : CreateBegins(t, want)
         \/ DemotionBegins(t) \/ Demotes(t) \/ CreateCommits(t) \/ CreateFails(t)
         \/ \E a \in Addresses : Inserts(t, a)
    \/ \E a \in Addresses :
         \/ SetDefault(a) \/ Deactivate(a)
         \/ \E want \in BOOLEAN : UpdateAddress(a, want)

Settled == Active # {} => Defaults # {}

\* The addresses a creation saw when it decided not to be the default are gone.
Overtaken(t) ==
    /\ Creating(t, "commit") /\ ~creation[t].default
    /\ creation[t].seen # {} /\ creation[t].seen \cap Active = {}

\* A customer never has two default addresses, and a customer with addresses
\* keeps a default one through every service of the portals, except that a new
\* address may arrive when all those it was decided against were deactivated
\* meanwhile (CustomerAddress.save, _resolve_is_default_for_customer, the
\* replacements).  The forms of the admin site, which can clear or delete a
\* default address, are not modelled.
DefaultKept ==
    [][ /\ Cardinality(Defaults') <= 1
        /\ Settled => Settled' \/ \E t \in Tabs : Overtaken(t) /\ creation'[t] = NoRow ]_bookVars
=============================================================================
