--------------------------- MODULE OrderContract ----------------------------
(***************************************************************************)
(* What an order promises, whoever acts on it: to the customer, which      *)
(* parts will be delivered and paid for; to the shop, when cash may be     *)
(* taken.  Parts may be dropped while the order is open, never after its   *)
(* delivery; an order that lost all its parts is void for good; cash is    *)
(* taken for a delivered order only, and the parts it was taken for stay.  *)
(***************************************************************************)
CONSTANTS Orders, Parts, PartsOf(_)

VARIABLES
    phase,  \* "none", "open", "delivered", "paid" or "void"
    parts   \* the parts of an order still to be fulfilled and paid for

vars == <<phase, parts>>

Init ==
    /\ phase = [o \in Orders |-> "none"]
    /\ parts = [o \in Orders |-> {}]

Place(o) ==
    /\ phase[o] = "none"
    /\ phase' = [phase EXCEPT ![o] = "open"]
    /\ parts' = [parts EXCEPT ![o] = PartsOf(o)]

\* Some parts are rejected or cancelled; the last one takes the order along.
Drop(o, left) ==
    /\ phase[o] = "open"
    /\ left \subseteq parts[o]
    /\ phase' = [phase EXCEPT ![o] = IF left = {} THEN "void" ELSE "open"]
    /\ parts' = [parts EXCEPT ![o] = left]

\* Delivery, collection and the correction of either.
Move(o, from, to) ==
    /\ <<from, to>> \in {<<"open", "delivered">>, <<"delivered", "open">>,
                         <<"delivered", "paid">>, <<"paid", "delivered">>}
    /\ phase[o] = from
    /\ phase' = [phase EXCEPT ![o] = to]
    /\ UNCHANGED parts

Next ==
    \E o \in Orders :
        \/ Place(o)
        \/ \E left \in SUBSET Parts : Drop(o, left)
        \/ \E from, to \in {"open", "delivered", "paid"} : Move(o, from, to)

Spec == Init /\ [][Next]_vars
=============================================================================
