-------------------------- MODULE TwoWaySetProofs --------------------------
(***************************************************************************)
(* The two dictionaries of TwoWaySet implement a set of pairs, for any     *)
(* sets of values.                                                         *)
(***************************************************************************)
EXTENDS TwoWaySet, TLAPS

Inv == TypeOK /\ Mirrored /\ NoEmptySets

\* Remove(first), whether or not the key is there: it has no values left, it
\* is no longer a value of any key, and the keys it was the last value of are
\* returned.
LEMMA RemoveFirstValues ==
    ASSUME Inv, NEW first \in Firsts, RemoveFirst(first)
    PROVE  /\ TypeOK' /\ NoEmptySets'
           /\ \A x \in Firsts : ValuesOf(firstToSeconds', x) =
                    IF x = first THEN {} ELSE ValuesOf(firstToSeconds, x)
           /\ \A y \in Seconds : ValuesOf(secondToFirsts', y) = ValuesOf(secondToFirsts, y) \ {first}
           /\ returned' = {y \in Seconds :
                    first \in ValuesOf(secondToFirsts, y) /\ ValuesOf(secondToFirsts', y) = {}}
<1>1. ASSUME NEW y \in Seconds
      PROVE  y \in ValuesOf(firstToSeconds, first) <=> first \in ValuesOf(secondToFirsts, y)
  BY DEF Inv, Mirrored
<1>2. CASE ~ContainsKey(firstToSeconds, first)
  <2>1. UNCHANGED <<firstToSeconds, secondToFirsts>> /\ returned' = {}
    BY <1>2 DEF RemoveFirst
  <2>2. ValuesOf(firstToSeconds, first) = {}
    BY <1>2 DEF ValuesOf
  <2> QED
    BY <1>1, <2>1, <2>2 DEF Inv, TypeOK, NoEmptySets
<1>3. CASE ContainsKey(firstToSeconds, first)
  <2> DEFINE keys == firstToSeconds[first]
  <2>1. /\ secondToFirsts' = TakeFrom(secondToFirsts, keys, first)
        /\ firstToSeconds' = Restrict(firstToSeconds, DOMAIN firstToSeconds \ {first})
        /\ returned' = Orphans(secondToFirsts, keys, first)
    BY <1>3 DEF RemoveFirst
  <2>2. keys = ValuesOf(firstToSeconds, first) /\ keys \subseteq Seconds
    BY <1>3 DEF ValuesOf, ContainsKey, Inv, TypeOK
  <2>3. keys \subseteq DOMAIN secondToFirsts
    BY <1>1, <2>2 DEF ValuesOf, ContainsKey
  <2>4. \A x \in Firsts : ValuesOf(firstToSeconds', x) =
            IF x = first THEN {} ELSE ValuesOf(firstToSeconds, x)
    BY <2>1 DEF Restrict, ValuesOf, ContainsKey
  <2>5. \A y \in Seconds : ValuesOf(secondToFirsts', y) = ValuesOf(secondToFirsts, y) \ {first}
    <3> SUFFICES ASSUME NEW y \in Seconds
                 PROVE  ValuesOf(secondToFirsts', y) = ValuesOf(secondToFirsts, y) \ {first}
      OBVIOUS
    <3>1. CASE y \in Orphans(secondToFirsts, keys, first)
      <4>1. secondToFirsts[y] \ {first} = {} /\ y \in DOMAIN secondToFirsts /\ y \notin DOMAIN secondToFirsts'
        BY <2>1, <2>3, <3>1 DEF Orphans, TakeFrom
      <4> QED
        BY <4>1 DEF ValuesOf, ContainsKey
    <3>2. CASE y \notin Orphans(secondToFirsts, keys, first)
      <4>1. y \in DOMAIN secondToFirsts' <=> y \in DOMAIN secondToFirsts
        BY <2>1, <3>2 DEF TakeFrom
      <4>2. CASE y \in DOMAIN secondToFirsts
        BY <1>1, <2>1, <2>2, <3>2, <4>2 DEF TakeFrom, ValuesOf, ContainsKey
      <4>3. CASE y \notin DOMAIN secondToFirsts
        BY <4>1, <4>3 DEF ValuesOf, ContainsKey
      <4> QED
        BY <4>2, <4>3
    <3> QED
      BY <3>1, <3>2
  <2>6. TypeOK' /\ NoEmptySets'
    <3>1. /\ DOMAIN firstToSeconds' = DOMAIN firstToSeconds \ {first}
          /\ \A x \in DOMAIN firstToSeconds' : firstToSeconds'[x] = firstToSeconds[x]
          /\ firstToSeconds' = [x \in DOMAIN firstToSeconds' |-> firstToSeconds[x]]
      BY <2>1 DEF Restrict
    <3>2. /\ DOMAIN secondToFirsts' = DOMAIN secondToFirsts \ Orphans(secondToFirsts, keys, first)
          /\ \A y \in DOMAIN secondToFirsts' : secondToFirsts'[y] =
                IF y \in keys THEN secondToFirsts[y] \ {first} ELSE secondToFirsts[y]
          /\ secondToFirsts' = [y \in DOMAIN secondToFirsts' |-> secondToFirsts'[y]]
      BY <2>1 DEF TakeFrom
    <3>3. /\ \A x \in DOMAIN firstToSeconds : firstToSeconds[x] \in (SUBSET Seconds) \ {{}}
          /\ \A y \in DOMAIN secondToFirsts : secondToFirsts[y] \in (SUBSET Firsts) \ {{}}
          /\ DOMAIN firstToSeconds \subseteq Firsts /\ DOMAIN secondToFirsts \subseteq Seconds
      BY DEF Inv, TypeOK, NoEmptySets
    <3>4. \A x \in DOMAIN firstToSeconds' : firstToSeconds'[x] \in (SUBSET Seconds) \ {{}}
      BY <3>1, <3>3
    <3>5. \A y \in DOMAIN secondToFirsts' : secondToFirsts'[y] \in (SUBSET Firsts) \ {{}}
      BY <3>2, <3>3 DEF Orphans
    <3> QED
      BY <3>1, <3>2, <3>3, <3>4, <3>5 DEF TypeOK, NoEmptySets
  <2>7. returned' = {y \in Seconds :
            first \in ValuesOf(secondToFirsts, y) /\ ValuesOf(secondToFirsts', y) = {}}
    <3>1. \A y \in keys : secondToFirsts[y] = ValuesOf(secondToFirsts, y)
      BY <2>3 DEF ValuesOf, ContainsKey
    <3> QED
      BY <1>1, <2>1, <2>2, <2>5, <3>1 DEF Orphans
  <2> QED
    BY <2>4, <2>5, <2>6, <2>7
<1> QED
  BY <1>2, <1>3

\* Remove(second), whether or not the key is there: it has no values left, it
\* is no longer a value of any key, and the keys it was the last value of are
\* returned.
LEMMA RemoveSecondValues ==
    ASSUME Inv, NEW second \in Seconds, RemoveSecond(second)
    PROVE  /\ TypeOK' /\ NoEmptySets'
           /\ \A x \in Seconds : ValuesOf(secondToFirsts', x) =
                    IF x = second THEN {} ELSE ValuesOf(secondToFirsts, x)
           /\ \A y \in Firsts : ValuesOf(firstToSeconds', y) = ValuesOf(firstToSeconds, y) \ {second}
           /\ returned' = {y \in Firsts :
                    second \in ValuesOf(firstToSeconds, y) /\ ValuesOf(firstToSeconds', y) = {}}
<1>1. ASSUME NEW y \in Firsts
      PROVE  y \in ValuesOf(secondToFirsts, second) <=> second \in ValuesOf(firstToSeconds, y)
  BY DEF Inv, Mirrored
<1>2. CASE ~ContainsKey(secondToFirsts, second)
  <2>1. UNCHANGED <<firstToSeconds, secondToFirsts>> /\ returned' = {}
    BY <1>2 DEF RemoveSecond
  <2>2. ValuesOf(secondToFirsts, second) = {}
    BY <1>2 DEF ValuesOf
  <2> QED
    BY <1>1, <2>1, <2>2 DEF Inv, TypeOK, NoEmptySets
<1>3. CASE ContainsKey(secondToFirsts, second)
  <2> DEFINE keys == secondToFirsts[second]
  <2>1. /\ firstToSeconds' = TakeFrom(firstToSeconds, keys, second)
        /\ secondToFirsts' = Restrict(secondToFirsts, DOMAIN secondToFirsts \ {second})
        /\ returned' = Orphans(firstToSeconds, keys, second)
    BY <1>3 DEF RemoveSecond
  <2>2. keys = ValuesOf(secondToFirsts, second) /\ keys \subseteq Firsts
    BY <1>3 DEF ValuesOf, ContainsKey, Inv, TypeOK
  <2>3. keys \subseteq DOMAIN firstToSeconds
    BY <1>1, <2>2 DEF ValuesOf, ContainsKey
  <2>4. \A x \in Seconds : ValuesOf(secondToFirsts', x) =
            IF x = second THEN {} ELSE ValuesOf(secondToFirsts, x)
    BY <2>1 DEF Restrict, ValuesOf, ContainsKey
  <2>5. \A y \in Firsts : ValuesOf(firstToSeconds', y) = ValuesOf(firstToSeconds, y) \ {second}
    <3> SUFFICES ASSUME NEW y \in Firsts
                 PROVE  ValuesOf(firstToSeconds', y) = ValuesOf(firstToSeconds, y) \ {second}
      OBVIOUS
    <3>1. CASE y \in Orphans(firstToSeconds, keys, second)
      <4>1. firstToSeconds[y] \ {second} = {} /\ y \in DOMAIN firstToSeconds /\ y \notin DOMAIN firstToSeconds'
        BY <2>1, <2>3, <3>1 DEF Orphans, TakeFrom
      <4> QED
        BY <4>1 DEF ValuesOf, ContainsKey
    <3>2. CASE y \notin Orphans(firstToSeconds, keys, second)
      <4>1. y \in DOMAIN firstToSeconds' <=> y \in DOMAIN firstToSeconds
        BY <2>1, <3>2 DEF TakeFrom
      <4>2. CASE y \in DOMAIN firstToSeconds
        BY <1>1, <2>1, <2>2, <3>2, <4>2 DEF TakeFrom, ValuesOf, ContainsKey
      <4>3. CASE y \notin DOMAIN firstToSeconds
        BY <4>1, <4>3 DEF ValuesOf, ContainsKey
      <4> QED
        BY <4>2, <4>3
    <3> QED
      BY <3>1, <3>2
  <2>6. TypeOK' /\ NoEmptySets'
    <3>1. /\ DOMAIN secondToFirsts' = DOMAIN secondToFirsts \ {second}
          /\ \A x \in DOMAIN secondToFirsts' : secondToFirsts'[x] = secondToFirsts[x]
          /\ secondToFirsts' = [x \in DOMAIN secondToFirsts' |-> secondToFirsts[x]]
      BY <2>1 DEF Restrict
    <3>2. /\ DOMAIN firstToSeconds' = DOMAIN firstToSeconds \ Orphans(firstToSeconds, keys, second)
          /\ \A y \in DOMAIN firstToSeconds' : firstToSeconds'[y] =
                IF y \in keys THEN firstToSeconds[y] \ {second} ELSE firstToSeconds[y]
          /\ firstToSeconds' = [y \in DOMAIN firstToSeconds' |-> firstToSeconds'[y]]
      BY <2>1 DEF TakeFrom
    <3>3. /\ \A x \in DOMAIN secondToFirsts : secondToFirsts[x] \in (SUBSET Firsts) \ {{}}
          /\ \A y \in DOMAIN firstToSeconds : firstToSeconds[y] \in (SUBSET Seconds) \ {{}}
          /\ DOMAIN secondToFirsts \subseteq Seconds /\ DOMAIN firstToSeconds \subseteq Firsts
      BY DEF Inv, TypeOK, NoEmptySets
    <3>4. \A x \in DOMAIN secondToFirsts' : secondToFirsts'[x] \in (SUBSET Firsts) \ {{}}
      BY <3>1, <3>3
    <3>5. \A y \in DOMAIN firstToSeconds' : firstToSeconds'[y] \in (SUBSET Seconds) \ {{}}
      BY <3>2, <3>3 DEF Orphans
    <3> QED
      BY <3>1, <3>2, <3>3, <3>4, <3>5 DEF TypeOK, NoEmptySets
  <2>7. returned' = {y \in Firsts :
            second \in ValuesOf(firstToSeconds, y) /\ ValuesOf(firstToSeconds', y) = {}}
    <3>1. \A y \in keys : firstToSeconds[y] = ValuesOf(firstToSeconds, y)
      BY <2>3 DEF ValuesOf, ContainsKey
    <3> QED
      BY <1>1, <2>1, <2>2, <2>5, <3>1 DEF Orphans
  <2> QED
    BY <2>4, <2>5, <2>6, <2>7
<1> QED
  BY <1>2, <1>3

LEMMA AddValues ==
    ASSUME Inv, NEW first \in Firsts, NEW second \in Seconds, Add(first, second)
    PROVE  /\ TypeOK' /\ NoEmptySets'
           /\ \A x \in Firsts : ValuesOf(firstToSeconds', x) =
                IF x = first THEN ValuesOf(firstToSeconds, x) \cup {second}
                             ELSE ValuesOf(firstToSeconds, x)
           /\ \A y \in Seconds : ValuesOf(secondToFirsts', y) =
                IF y = second THEN ValuesOf(secondToFirsts, y) \cup {first}
                              ELSE ValuesOf(secondToFirsts, y)
<1>1. /\ firstToSeconds' = AddTo(firstToSeconds, first, second)
      /\ secondToFirsts' = AddTo(secondToFirsts, second, first)
  BY DEF Add
<1>2. /\ \A x \in DOMAIN firstToSeconds : firstToSeconds[x] \in (SUBSET Seconds) \ {{}}
      /\ \A y \in DOMAIN secondToFirsts : secondToFirsts[y] \in (SUBSET Firsts) \ {{}}
      /\ DOMAIN firstToSeconds \subseteq Firsts /\ DOMAIN secondToFirsts \subseteq Seconds
  BY DEF Inv, TypeOK, NoEmptySets
<1>3. /\ DOMAIN firstToSeconds' \subseteq Firsts
      /\ firstToSeconds' \in [DOMAIN firstToSeconds' -> SUBSET Seconds]
      /\ \A x \in DOMAIN firstToSeconds' : firstToSeconds'[x] # {}
  BY <1>1, <1>2 DEF AddTo, ValuesOf, ContainsKey
<1>4. /\ DOMAIN secondToFirsts' \subseteq Seconds
      /\ secondToFirsts' \in [DOMAIN secondToFirsts' -> SUBSET Firsts]
      /\ \A y \in DOMAIN secondToFirsts' : secondToFirsts'[y] # {}
  BY <1>1, <1>2 DEF AddTo, ValuesOf, ContainsKey
<1>5. \A x \in Firsts : ValuesOf(firstToSeconds', x) =
        IF x = first THEN ValuesOf(firstToSeconds, x) \cup {second}
                     ELSE ValuesOf(firstToSeconds, x)
  BY <1>1 DEF AddTo, ValuesOf, ContainsKey
<1>6. \A y \in Seconds : ValuesOf(secondToFirsts', y) =
        IF y = second THEN ValuesOf(secondToFirsts, y) \cup {first}
                      ELSE ValuesOf(secondToFirsts, y)
  BY <1>1 DEF AddTo, ValuesOf, ContainsKey
<1> QED
  BY <1>3, <1>4, <1>5, <1>6 DEF TypeOK, NoEmptySets

LEMMA InvInit == Init => Inv
BY DEF Init, Inv, TypeOK, Mirrored, NoEmptySets, ValuesOf, ContainsKey

LEMMA InvStep == Inv /\ [Next]_vars => Inv'
<1> SUFFICES ASSUME Inv, [Next]_vars PROVE Inv'
  OBVIOUS
<1>1. ASSUME NEW first \in Firsts, NEW second \in Seconds, Add(first, second) PROVE Inv'
  BY <1>1, AddValues DEF Inv, Mirrored
<1>2. ASSUME NEW first \in Firsts, RemoveFirst(first) PROVE Inv'
  BY <1>2, RemoveFirstValues DEF Inv, Mirrored
<1>3. ASSUME NEW second \in Seconds, RemoveSecond(second) PROVE Inv'
  BY <1>3, RemoveSecondValues DEF Inv, Mirrored
<1>4. ASSUME UNCHANGED vars PROVE Inv'
  BY <1>4 DEF vars, Inv, TypeOK, Mirrored, NoEmptySets, ValuesOf, ContainsKey
<1> QED
  BY <1>1, <1>2, <1>3, <1>4 DEF Next

LEMMA InvHolds == Spec => []Inv
BY InvInit, InvStep, PTL DEF Spec

\* Each pair is in both dictionaries or in neither, after any sequence of Add
\* and Remove.
THEOREM MirroredHolds == Spec => []Mirrored
<1>1. Inv => Mirrored
  BY DEF Inv
<1> QED
  BY <1>1, InvHolds, PTL

\* No key of either dictionary is left without a value.
THEOREM NoEmptySetsHolds == Spec => []NoEmptySets
<1>1. Inv => NoEmptySets
  BY DEF Inv
<1> QED
  BY <1>1, InvHolds, PTL

\* Every step of the dictionaries is the step of a set of pairs, and Remove
\* returns what the set of pairs does: for a publisher, the stale topics.
THEOREM ImplementsPairSetHolds == Spec => ImplementsPairSet
<1>1. Init => SetOfPairs!Init
  BY DEF Init, SetOfPairs!Init, Pairs, ValuesOf, ContainsKey
<1>2. Inv /\ [Next]_vars => [SetOfPairs!Next]_<<Pairs, returned>>
  <2> SUFFICES ASSUME Inv, [Next]_vars PROVE [SetOfPairs!Next]_<<Pairs, returned>>
    OBVIOUS
  <2>1. ASSUME NEW first \in Firsts, NEW second \in Seconds
        PROVE  /\ <<first, second>> \in Pairs <=> second \in ValuesOf(firstToSeconds, first)
               /\ <<first, second>> \in Pairs' <=> second \in ValuesOf(firstToSeconds', first)
               /\ second \in ValuesOf(firstToSeconds, first)
                    <=> first \in ValuesOf(secondToFirsts, second)
    BY DEF Pairs, Inv, Mirrored
  <2>2. Pairs \subseteq Firsts \X Seconds /\ Pairs' \subseteq Firsts \X Seconds
    BY DEF Pairs
  <2>3. ASSUME NEW first \in Firsts, NEW second \in Seconds, Add(first, second)
        PROVE  SetOfPairs!Add(first, second)
    <3>1. returned' = {}
      BY <2>3 DEF Add
    <3>2. Pairs' = Pairs \cup {<<first, second>>}
      BY <2>1, <2>2, <2>3, AddValues
    <3> QED
      BY <3>1, <3>2 DEF SetOfPairs!Add
  <2>4. ASSUME NEW first \in Firsts, RemoveFirst(first) PROVE SetOfPairs!RemoveFirst(first)
    <3>1. Pairs' = {pair \in Pairs : pair[1] # first}
      BY <2>1, <2>2, <2>4, RemoveFirstValues
    <3>2. returned' = {y \in Seconds :
            first \in ValuesOf(secondToFirsts, y) /\ ValuesOf(secondToFirsts', y) = {}}
      BY <2>4, RemoveFirstValues
    <3>3. ASSUME NEW y \in Seconds
          PROVE  ValuesOf(secondToFirsts', y) = {} <=> \A f \in Firsts : <<f, y>> \notin Pairs'
      <4>1. Mirrored' /\ TypeOK'
        BY InvStep DEF Inv
      <4>2. ValuesOf(secondToFirsts', y) \subseteq Firsts
        BY <4>1 DEF TypeOK, ValuesOf, ContainsKey
      <4> QED
        BY <2>1, <4>1, <4>2 DEF Mirrored
    <3> QED
      BY <2>1, <3>1, <3>2, <3>3 DEF SetOfPairs!RemoveFirst
  <2>5. ASSUME NEW second \in Seconds, RemoveSecond(second)
        PROVE  SetOfPairs!RemoveSecond(second)
    <3>1. Pairs' = {pair \in Pairs : pair[2] # second}
      BY <2>1, <2>2, <2>5, RemoveSecondValues
    <3>2. returned' = {x \in Firsts :
            second \in ValuesOf(firstToSeconds, x) /\ ValuesOf(firstToSeconds', x) = {}}
      BY <2>5, RemoveSecondValues
    <3>3. ASSUME NEW x \in Firsts
          PROVE  ValuesOf(firstToSeconds', x) = {} <=> \A s \in Seconds : <<x, s>> \notin Pairs'
      <4>1. TypeOK'
        BY InvStep DEF Inv
      <4>2. ValuesOf(firstToSeconds', x) \subseteq Seconds
        BY <4>1 DEF TypeOK, ValuesOf, ContainsKey
      <4> QED
        BY <2>1, <4>2
    <3> QED
      BY <2>1, <3>1, <3>2, <3>3 DEF SetOfPairs!RemoveSecond
  <2>6. ASSUME UNCHANGED vars PROVE UNCHANGED <<Pairs, returned>>
    BY <2>6 DEF vars, Pairs, ValuesOf, ContainsKey
  <2> QED
    BY <2>3, <2>4, <2>5, <2>6 DEF Next, SetOfPairs!Next
<1> QED
  BY <1>1, <1>2, InvHolds, PTL DEF Spec, ImplementsPairSet, SetOfPairs!Spec
=============================================================================
