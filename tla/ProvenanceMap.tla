--------------------------- MODULE ProvenanceMap ---------------------------
(***************************************************************************)
(* Where memory came from, as the harness promises to know it: every       *)
(* address belongs to the last thing that was noted about it, and to       *)
(* nothing else.                                                           *)
(***************************************************************************)
EXTENDS Integers

CONSTANTS
    Address,     \* the addresses that are asked for
    None         \* no record

VARIABLE owner   \* owner[v]: the record that answers for address v

Covers(r, v) == r.vaddr <= v /\ v < r.vaddr + r.size

Init == owner = [v \in Address |-> None]

(* A record takes over every address of its block. *)
Note(r) == owner' = [v \in Address |-> IF Covers(r, v) THEN r ELSE owner[v]]

(* The record that is noted answers for some address from then on. *)
Next ==
    \E v \in Address :
        /\ owner'[v] # None
        /\ Covers(owner'[v], v)
        /\ Note(owner'[v])

Spec == Init /\ [][Next]_owner
=============================================================================
