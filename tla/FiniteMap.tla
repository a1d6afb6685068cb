------------------------------ MODULE FiniteMap ------------------------------
(***************************************************************************)
(* What pt_table promises the list of contexts: a map from GUIDs to        *)
(* pointers.                                                               *)
(***************************************************************************)
CONSTANTS Ids, Ptrs

VARIABLE pairs  \* the map, as a set of <<id, pointer>>

Keys == {pair[1] : pair \in pairs}

Init == pairs = {}

Put(id, ptr) == id \notin Keys /\ pairs' = pairs \cup {<<id, ptr>>}

Remove(id) == pairs' = {pair \in pairs : pair[1] # id}

Next ==
    \/ \E id \in Ids : Remove(id) \/ \E ptr \in Ptrs : Put(id, ptr)
    \/ pairs' = {}

Spec == Init /\ [][Next]_pairs

=============================================================================
