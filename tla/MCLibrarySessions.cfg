SPECIFICATION Spec
CONSTANTS
    f1 = f1
    meta = meta
    a = a
    b = b
    oldTitle = oldTitle
    newTitle = newTitle
    NoCol = NoCol
    File <- OneFile
    NdxName <- OneIndex
    MetaName <- meta
    Content <- FileContent
    Pages <- FilePages
    MaxDoc = 1
    ColId <- TwoCols
    Title <- TwoTitles
    MaxCol = 2
    Faults = {"kill"}
INVARIANTS TypeOK LibraryAgrees
PROPERTY ImplementsShelf
CHECK_DEADLOCK FALSE
