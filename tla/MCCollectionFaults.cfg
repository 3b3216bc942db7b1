SPECIFICATION Spec
CONSTANTS
    f1 = f1
    f2 = f2
    f3 = f3
    author = author
    title = title
    meta = meta
    File <- TwoFiles
    NdxName <- TwoIndexes
    MetaName <- meta
    Content <- FileContent
    Pages <- FilePages
    MaxDoc = 2
    Faults = {"parse", "kill"}
INVARIANTS TypeOK MapsAgree IndexedMeansStored
CHECK_DEADLOCK FALSE
