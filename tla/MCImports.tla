------------------------------- MODULE MCImports -------------------------------
(* A small instance: groups of two pictures, which may be split, and a        *)
(* manifest with two rows of one name and one without an image.              *)
EXTENDS Imports

CONSTANTS s1, s2, k1, k2, d1, d2, np1, np2, np3, soap, oil

MCFolders == {{d1, d2}}
MCSkus == {{d1}, {d2}, {d1, d2}, np1, np2, np3}
MCRowSku == <<np1, np2, np3>>
MCRowName == <<soap, soap, oil>>

Manual == [identity |-> TRUE, offersVerified |-> FALSE, offers |-> "none",
           policy |-> "manual", stock |-> TRUE, name |-> soap]
Averaged == [identity |-> TRUE, offersVerified |-> TRUE, offers |-> "valid",
             policy |-> "retail_mean", stock |-> FALSE, name |-> soap]
MCDetailsForms == {Manual, Averaged}
=============================================================================
