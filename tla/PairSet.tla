------------------------------ MODULE PairSet ------------------------------
(***************************************************************************)
(* What a TwoWaySet promises: it is a set of pairs.  Removing a value      *)
(* removes its pairs and returns the values that are left without one.     *)
(***************************************************************************)
CONSTANTS Firsts, Seconds

VARIABLES
    pairs,      \* the set
    returned    \* what the last operation returned

Init == pairs = {} /\ returned = {}

Add(first, second) ==
    /\ pairs' = pairs \cup {<<first, second>>}
    /\ returned' = {}

RemoveFirst(first) ==
    /\ pairs' = {pair \in pairs : pair[1] # first}
    /\ returned' = {second \in Seconds :
            <<first, second>> \in pairs /\ \A f \in Firsts : <<f, second>> \notin pairs'}

RemoveSecond(second) ==
    /\ pairs' = {pair \in pairs : pair[2] # second}
    /\ returned' = {first \in Firsts :
            <<first, second>> \in pairs /\ \A s \in Seconds : <<first, s>> \notin pairs'}

Next ==
    \/ \E first \in Firsts, second \in Seconds : Add(first, second)
    \/ \E first \in Firsts : RemoveFirst(first)
    \/ \E second \in Seconds : RemoveSecond(second)

Spec == Init /\ [][Next]_<<pairs, returned>>
=============================================================================
