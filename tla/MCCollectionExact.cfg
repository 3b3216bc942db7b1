SPECIFICATION Spec
CONSTANTS
    f1 = f1
    f2 = f2
    f3 = f3
    author = author
    title = title
    meta = meta
    File <- ThreeFiles
    NdxName <- ThreeIndexes
    MetaName <- meta
    Content <- FileContent
    Pages <- FilePages
    MaxDoc = 3
    Faults = {}
INVARIANT NdxMapIsExact
PROPERTY ImplementsCatalog
CHECK_DEADLOCK FALSE
