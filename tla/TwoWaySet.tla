----------------------------- MODULE TwoWaySet -----------------------------
(***************************************************************************)
(* Common/Collections/Generic/TwoWaySet: a set of pairs kept as two        *)
(* dictionaries, from each first value to the set of its seconds and from  *)
(* each second to the set of its firsts.  PublisherRepository keeps topics *)
(* and their publishers in one: what Remove returns for a publisher are    *)
(* the topics that have become stale.                                      *)
(*                                                                         *)
(* A dictionary is a function whose domain is the set of its keys.         *)
(***************************************************************************)
EXTENDS Functions

CONSTANTS Firsts, Seconds

VARIABLES
    firstToSeconds,
    secondToFirsts,
    returned         \* what the last operation returned, {} for null

vars == <<firstToSeconds, secondToFirsts, returned>>

TypeOK ==
    /\ DOMAIN firstToSeconds \subseteq Firsts
    /\ DOMAIN secondToFirsts \subseteq Seconds
    /\ firstToSeconds \in [DOMAIN firstToSeconds -> SUBSET Seconds]
    /\ secondToFirsts \in [DOMAIN secondToFirsts -> SUBSET Firsts]

Init ==
    /\ firstToSeconds = [first \in {} |-> {}]
    /\ secondToFirsts = [second \in {} |-> {}]
    /\ returned = {}

ContainsKey(dictionary, key) == key \in DOMAIN dictionary

\* TryGetValue, or the new set that Add makes.
ValuesOf(dictionary, key) == IF ContainsKey(dictionary, key) THEN dictionary[key] ELSE {}

\* The set that is found is not the one that is added to.
AddTo_Fresh(dictionary, key, value) ==
    [k \in DOMAIN dictionary \cup {key} |-> IF k = key THEN {value} ELSE dictionary[k]]
AddTo(dictionary, key, value) ==
    [k \in DOMAIN dictionary \cup {key} |->
        IF k = key THEN ValuesOf(dictionary, key) \cup {value} ELSE dictionary[k]]

\* The keys of a dictionary whose only value is the given one.
Orphans_Fewer(dictionary, keys, value) ==
    {k \in keys : dictionary[k] = {}}
Orphans(dictionary, keys, value) == {k \in keys : dictionary[k] \ {value} = {}}

\* A value is taken out of the sets of the given keys; a set that is left
\* empty goes with its key.
TakeFrom_Kept(dictionary, keys, value) ==
    [k \in DOMAIN dictionary |-> IF k \in keys THEN dictionary[k] \ {value} ELSE dictionary[k]]
TakeFrom(dictionary, keys, value) ==
    [k \in DOMAIN dictionary \ Orphans(dictionary, keys, value) |->
        IF k \in keys THEN dictionary[k] \ {value} ELSE dictionary[k]]

Add(first, second) ==
    /\ firstToSeconds' = AddTo(firstToSeconds, first, second)
    /\ secondToFirsts' = AddTo(secondToFirsts, second, first)
    /\ returned' = {}

RemoveFirst(first) ==
    \/ /\ ~ContainsKey(firstToSeconds, first)
       /\ returned' = {}
       /\ UNCHANGED <<firstToSeconds, secondToFirsts>>
    \/ /\ ContainsKey(firstToSeconds, first)
       /\ secondToFirsts' = TakeFrom(secondToFirsts, firstToSeconds[first], first)
       /\ firstToSeconds' = Restrict(firstToSeconds, DOMAIN firstToSeconds \ {first})
       /\ returned' = Orphans(secondToFirsts, firstToSeconds[first], first)

RemoveSecond(second) ==
    \/ /\ ~ContainsKey(secondToFirsts, second)
       /\ returned' = {}
       /\ UNCHANGED <<firstToSeconds, secondToFirsts>>
    \/ /\ ContainsKey(secondToFirsts, second)
       /\ firstToSeconds' = TakeFrom(firstToSeconds, secondToFirsts[second], second)
       /\ secondToFirsts' = Restrict(secondToFirsts, DOMAIN secondToFirsts \ {second})
       /\ returned' = Orphans(firstToSeconds, secondToFirsts[second], second)

Next ==
    \/ \E first \in Firsts, second \in Seconds : Add(first, second)
    \/ \E first \in Firsts : RemoveFirst(first)
    \/ \E second \in Seconds : RemoveSecond(second)

Spec == Init /\ [][Next]_vars

-----------------------------------------------------------------------------
(* Properties.                                                             *)

\* "the first is the key to the second, and the second is the key to the
\* first": each pair is in both dictionaries or in neither.
Mirrored ==
    \A first \in Firsts, second \in Seconds :
        second \in ValuesOf(firstToSeconds, first) <=> first \in ValuesOf(secondToFirsts, second)

\* Add and Remove keep no key without a value.  The indexers of Remove
\* (_secondToFirsts[second]) rely on it: with Mirrored, every value of a set
\* is a key of the other dictionary.
NoEmptySets ==
    /\ \A first \in DOMAIN firstToSeconds : firstToSeconds[first] # {}
    /\ \A second \in DOMAIN secondToFirsts : secondToFirsts[second] # {}

\* The dictionaries implement a set of pairs.
Pairs == {pair \in Firsts \X Seconds : pair[2] \in ValuesOf(firstToSeconds, pair[1])}
SetOfPairs == INSTANCE PairSet WITH pairs <- Pairs
ImplementsPairSet == SetOfPairs!Spec
=============================================================================
