CONSTANTS
    Firsts = {t1, t2, t3}
    Seconds = {p1, p2, p3}
SPECIFICATION Spec
INVARIANTS
    Mirrored
    NoEmptySets
PROPERTIES
    ImplementsPairSet
