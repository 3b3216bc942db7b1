SPECIFICATION Spec
CONSTANTS
    Elem <- MCElem
    Root = "text"
    NoteElem = {"note"}
    NliElem = {"nli"}
    Breaker <- MCBreaker
    Items <- MCItems
    Piece = {"a"}
    Chunk <- MCChunk
    NeedDecorate = 2
    Usages = {"content", "plain", "meta", "batch"}
    MaxDoc = 2
    MaxEvent = 6
INVARIANTS
    TypeOK
    IdleDecoratorIsEmpty
    PagesAreDocuments
    EntriesLeadToTheirPage
    ShownWordsAreIndexed
CHECK_DEADLOCK FALSE
