SPECIFICATION SearchSpec
CONSTANTS
    Place <- MCPlace
    Window = {1, 2, 3}
    NoPlace = NoPlace
    Query <- ThreeRequired
    Lists <- MCLists
    Modes = {"place"}
INVARIANT RequiredMeansRequired
CHECK_DEADLOCK FALSE
