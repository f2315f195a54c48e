-------------------------- MODULE MCProductCatalogue --------------------------
(***************************************************************************)
(* Model-checking instances of ProductCatalogue.                           *)
(***************************************************************************)
EXTENDS ProductCatalogue, TLC

CONSTANTS p1, p2, f1, f2, f3, editor, approver, c1

\* An editor who may only edit, and a manager who may do everything.
MCCan == [s \in Staff |-> IF s = editor THEN {"change"} ELSE Permissions]

HalfMargin == [type |-> "PERCENTAGE", value |-> 5000]
HundredOff == [type |-> "FIXED", value |-> 100]

\* Nobody in management but a reviewer who edits nothing.
ReviewerCan == [s \in Staff |-> {"price", "approve"}]

Added95 == [type |-> "FIXED", value |-> 95]
TwoHundredOff == [type |-> "FIXED", value |-> 200]

\* With the first discount either store price can be sold, with the second none.
MCMargins == {Added95}
MCDiscounts == {HundredOff, TwoHundredOff}

\* This one fits the two higher store prices of three.
FrozenMargins == {HalfMargin}
FrozenDiscounts == {HundredOff}

PhotoSymmetry == Permutations(Photos) \cup Permutations(Products)
=============================================================================
