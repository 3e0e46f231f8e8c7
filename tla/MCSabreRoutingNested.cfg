CONSTANTS
    Logical = {"a", "b", "c", "d"}
    Physical = {1, 2, 3, 4, 5}
    Edges <- Line
    Program <- Nested
    Main = "main"
    Layouts <- Placed
    AttemptLimit = 2

SPECIFICATION FairSpec

PROPERTIES
    BodiesAreNeutral

CHECK_DEADLOCK FALSE
