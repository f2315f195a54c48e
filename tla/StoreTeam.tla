------------------------------- MODULE StoreTeam -------------------------------
(***************************************************************************)
(* A store in the management portal: its status and its users, of whom one *)
(* at most is the primary user.  Every request reads the store or the user *)
(* when it begins and writes later, a column or all of them; only adding a *)
(* user and transferring the primary role lock the users of the store,     *)
(* those that exist.                                                       *)
(*                                                                         *)
(* Left out: contact data, rights and passwords of the users, the history  *)
(* of the status and the audit log, which no decision reads.               *)
(***************************************************************************)
EXTENDS FiniteSets

CONSTANTS
    Members,        \* accounts of store users
    Managers,       \* requests at work
    Nil

MemberRows == [primary : BOOLEAN, active : BOOLEAN]

ASSUME NilAssumption == Nil \notin MemberRows

VARIABLES
    store,          \* its status and whether it is active
    member,         \* the memberships, or Nil
    task            \* what each request does

teamVars == <<store, member, task>>

Statuses == {"PENDING", "ACTIVE", "SUSPENDED", "REJECTED"}

AllowedStatusTransitions ==
    {<<"PENDING", "ACTIVE">>, <<"PENDING", "REJECTED">>, <<"REJECTED", "PENDING">>,
     <<"ACTIVE", "SUSPENDED">>, <<"SUSPENDED", "ACTIVE">>}

\* create_store, with a primary user or without.
TeamInit ==
    /\ store \in [status : {"PENDING", "ACTIVE"}, active : BOOLEAN]
    /\ \E users \in {{}} \cup {{m} : m \in Members} :
          member = [m \in Members |-> IF m \in users THEN [primary |-> TRUE, active |-> TRUE] ELSE Nil]
    /\ task = [w \in Managers |-> Nil]

Team == {m \in Members : member[m] # Nil}
Primaries == {m \in Team : member[m].primary}

At(w, step) == task[w] # Nil /\ task[w].step = step

\* The rows that requests for a new user have locked.
LockedRows == UNION {task[w].rows : w \in {v \in Managers : At(v, "locked") \/ At(v, "demoted")}}

Ends(w) == task' = [task EXCEPT ![w] = Nil]

-----------------------------------------------------------------------------
(* The store *)

\* store_change_status_view: the transition is checked against what was read.
StatusBegins(w, new) ==
    /\ task[w] = Nil
    /\ <<store.status, new>> \in AllowedStatusTransitions
    /\ task' = [task EXCEPT ![w] = [step |-> "status", read |-> store, new |-> new]]
    /\ UNCHANGED <<store, member>>

\* record_status_change saves this column.
StatusSaved(w) ==
    /\ At(w, "status")
    /\ store' = [store EXCEPT !.status = task[w].new]
    /\ Ends(w) /\ UNCHANGED member

\* store_edit_view, with its box "is active".
StoreEditBegins(w, active) ==
    /\ task[w] = Nil
    /\ task' = [task EXCEPT ![w] = [step |-> "store", read |-> store, new |-> active]]
    /\ UNCHANGED <<store, member>>

\* The form saves every column of the store.
StoreEditSaved(w) ==
    /\ At(w, "store")
    /\ store' = [task[w].read EXCEPT !.active = task[w].new]
    /\ Ends(w) /\ UNCHANGED member

-----------------------------------------------------------------------------
(* Its users *)

\* create_additional_store_user locks the users of the store.
AddBegins(w, m, primary) ==
    /\ task[w] = Nil
    /\ m \notin Team /\ LockedRows = {}
    /\ \A v \in Managers : ~(At(v, "locked") /\ task[v].member = m) /\ ~(At(v, "demoted") /\ task[v].member = m)
    /\ task' = [task EXCEPT ![w] =
          [step |-> "locked", rows |-> Team, member |-> m, primary |-> primary]]
    /\ UNCHANGED <<store, member>>

\* It takes the primary role from whoever has it by now.
AddDemotes(w) ==
    /\ At(w, "locked")
    /\ task[w].primary => Primaries \cap (LockedRows \ task[w].rows) = {}
    /\ task' = [task EXCEPT ![w].step = "demoted",
          ![w].rows = IF task[w].primary THEN @ \cup Primaries ELSE @]
    /\ UNCHANGED <<store, member>>

\* Mutant: nothing but the code looks for another primary user.
PrimaryFreeUnchecked(w) == TRUE

\* The unique index of primary users.
PrimaryFree(w) == Primaries \subseteq task[w].rows

\* The new user is inserted, and the transaction commits.
AddCommits(w) ==
    /\ At(w, "demoted")
    /\ task[w].primary => PrimaryFree(w)
    /\ member' = [m \in Members |->
          IF m = task[w].member THEN [primary |-> task[w].primary, active |-> TRUE]
          ELSE IF task[w].primary /\ m \in task[w].rows THEN [member[m] EXCEPT !.primary = FALSE]
          ELSE member[m]]
    /\ Ends(w) /\ UNCHANGED store

\* store_user_edit_view, with its box "primary", and store_user_toggle_status_view
MemberBegins(w, step, m, primary) ==
    /\ task[w] = Nil
    /\ m \in Team
    /\ task' = [task EXCEPT ![w] = [step |-> step, read |-> member[m], member |-> m, primary |-> primary]]
    /\ UNCHANGED <<store, member>>

\* transfer_store_user_primary locks all users and demotes the others; then,
\* or without it, the form saves every column of the membership.
MemberEditSaved(w) ==
    LET m == task[w].member
        mine == [task[w].read EXCEPT !.primary = task[w].primary]
    IN  /\ At(w, "member")
        /\ IF task[w].primary THEN LockedRows = {} ELSE m \notin LockedRows
        /\ member' = [n \in Members |->
              IF n = m THEN mine
              ELSE IF n \in Team /\ task[w].primary THEN [member[n] EXCEPT !.primary = FALSE]
              ELSE member[n]]
        /\ Ends(w) /\ UNCHANGED store

MemberToggled(w) ==
    LET m == task[w].member
    IN  /\ At(w, "toggle") /\ m \notin LockedRows
        /\ member' = [member EXCEPT ![m].active = ~task[w].read.active]
        /\ Ends(w) /\ UNCHANGED store

\* Refused by an index ("because of a concurrent primary assignment"), or lost.
TaskFails(w) ==
    /\ task[w] # Nil
    /\ Ends(w) /\ UNCHANGED <<store, member>>

TeamNext ==
    \E w \in Managers :
        \/ \E new \in Statuses : StatusBegins(w, new)
        \/ StatusSaved(w)
        \/ \E active \in BOOLEAN : StoreEditBegins(w, active)
        \/ StoreEditSaved(w)
        \/ \E m \in Members, primary \in BOOLEAN :
             AddBegins(w, m, primary) \/ MemberBegins(w, "member", m, primary)
        \/ AddDemotes(w) \/ AddCommits(w)
        \/ \E m \in Members : MemberBegins(w, "toggle", m, FALSE)
        \/ MemberEditSaved(w) \/ MemberToggled(w) \/ TaskFails(w)
=============================================================================
