-------------------------------- MODULE Portals --------------------------------
(***************************************************************************)
(* What the pages of the portals keep between their requests: customers    *)
(* and their sign-in, the address book of one customer, the users of one   *)
(* store, and the purchase form of one session.                            *)
(***************************************************************************)
EXTENDS CustomerAccounts, AddressBook, StoreTeam, PurchaseForm

vars == <<accountVars, bookVars, teamVars, formVars>>

Init == AccountsInit /\ BookInit /\ TeamInit /\ FormInit

\* Bound: one of the four parts is at work, the other ones have not begun.
\* They share no row that a decision of another part reads.
TeamIdle == TeamInit /\ store = [status |-> "PENDING", active |-> TRUE] /\ Team = {}

Next ==
    \/ /\ BookInit /\ TeamIdle /\ FormInit
       /\ AccountsNext
       /\ UNCHANGED <<bookVars, teamVars, formVars>>
    \/ /\ AccountsInit /\ TeamIdle /\ FormInit
       /\ BookNext
       /\ UNCHANGED <<accountVars, teamVars, formVars>>
    \/ /\ AccountsInit /\ BookInit /\ FormInit
       /\ TeamNext
       /\ UNCHANGED <<accountVars, bookVars, formVars>>
    \/ /\ AccountsInit /\ BookInit /\ TeamIdle
       /\ FormNext
       /\ UNCHANGED <<accountVars, bookVars, teamVars>>

Spec == Init /\ [][Next]_vars

-----------------------------------------------------------------------------
(* Properties; DefaultKept is with the address book *)

\* A browser is signed in with a Google account only to the customer account
\* that was made for it, never to one that has its e-mail address, and nobody
\* has two: whatever is begun twice, sent twice, registered or renamed
\* meanwhile (google_callback, update_customer_profile).
OwnAccountOnly ==
    /\ \A b \in Browsers : session[b].account # None =>
          user[session[b].account].google = session[b].as
    /\ \A u, v \in Registered : u # v =>
          user[u].mail # user[v].mail /\ (user[u].google # None => user[u].google # user[v].google)

\* A store has one primary user at most, also when its first users are added
\* at once, where there is no row to lock, and when the role is transferred
\* meanwhile (create_additional_store_user, transfer_store_user_primary).
OnePrimary == Cardinality(Primaries) <= 1

\* A page of the purchase form becomes one purchase, in whatever tab it is sent
\* again and whatever other pages of the session are opened and sent meanwhile.
\* A second purchase takes another request of any kind that has loaded the
\* session with its token while the first one was at work, or a worker that is
\* stopped between the purchase and its response
\* (consume_purchase_submission_token).
RecordedOnce == \A f \in Sheets : recorded[f] > 1 => f \in excused
=============================================================================
