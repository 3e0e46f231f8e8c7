SPECIFICATION FairSpec
CONSTANTS
    Threads = {t1, t2, t3}
    Flights = {f1, f2, f3}
    Keys = {"j", "k"}
    Bounds = {"three", "unreachable"}
    Bound <- MCBound
    Budget = 1
    TrialBudget = 1
    NoFlight = NoFlight
    NoAnswer = NoAnswer
INVARIANTS
    OneLeader
    AnswersAreBounds
    SleepersHaveLeader
PROPERTIES
    EveryLookupEnds
CHECK_DEADLOCK FALSE
