CONSTANTS
    Logical = {"a", "b", "c", "d"}
    Physical = {1, 2, 3, 4, 5}
    Edges <- Line
    Program <- Structured
    Main = "main"
    Layouts <- Placed
    AttemptLimit = 2

SPECIFICATION FairSpec

INVARIANTS
    TypeOK
    RoutedOnceInOrder
    OperandsInPlace

PROPERTIES
    BodiesAreNeutral
    RoutingEnds

CHECK_DEADLOCK FALSE
