SPECIFICATION SearchSpec
CONSTANTS
    Place <- MCPlace
    Window = {1, 2, 3}
    NoPlace = NoPlace
    Query <- MCQuery
    Lists <- MCLists
    Modes = {"place", "page", "document"}
INVARIANTS
    MergeTypeOK
    SearchTypeOK
    ResultIsExact
    ResultIsSound
    OrderedDocumentsAreFound
    PhrasesAreSound
    PhrasesAreFound
    AndPagesAreExact
    CriteriaAreExact
    EachShownOnce
    HighlightsAreHits
PROPERTIES
    EverySearchEnds
CHECK_DEADLOCK FALSE
