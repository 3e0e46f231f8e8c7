SPECIFICATION Spec
CONSTANTS
    t1 = t1
    t2 = t2
    k1 = k1
    k2 = k2
    k3 = k3
    k4 = k4
    a = a
    b = b
    c = c
    Threads = {t1, t2}
    Namespaces = {a, b, c}
    Knowledge = {k1, k2, k3, k4}
    Roots = {1, 2}
    Plans = {"fast", "base"}
    BaseWeight <- MCBaseWeight
    MaxEntries = 2
    MaxWeight = 2
    MaxClock = 5
    NoKnowledge = NoKnowledge
INVARIANTS
    WithinLimits
    AnswersAgree
PROPERTIES
    EvictionIsLRU
    RecencyIsEarned
SYMMETRY MCSymmetry
CHECK_DEADLOCK FALSE
