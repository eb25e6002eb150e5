------------------------------ MODULE MCRepRead ------------------------------
(***************************************************************************)
(* Instances of RepRead for TLC.                                           *)
(***************************************************************************)
EXTENDS RepRead

CONSTANTS r1, r2, r3, r4

Listing(name) == [name |-> name, status |-> "OTHER"]

(* Three or four Reps in the order of their names, the last soft-deleted   *)
(* or not there at all; two of them may have the same name.                *)
Directories ==
    {[r \in RepIds |->
        CASE r = r1 -> Listing(1)
          [] r = r2 -> Listing(second)
          [] r = r3 -> Listing(3)
          [] OTHER  -> last] :
        second \in {2, 3},
        last \in {Null, Listing(4), [name |-> 4, status |-> "SOFT_DELETED"]}}
=============================================================================
