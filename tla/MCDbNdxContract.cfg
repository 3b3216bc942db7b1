SPECIFICATION Spec
CONSTANTS
    w1 = w1
    w2 = w2
    Word <- TwoWords
    CollationKey <- OwnKeys
    Doc <- Docs3
    Pos <- OnePos
    Batch <- FewForSecond
    BlobSize = 2
    HasBlob = TRUE
    Faults = {"rewrite"}
    NoRecord = NoRecord
INVARIANTS HeaderIsExact WalkLeavesNoEntry
PROPERTIES ImplementsWordIndex OperationsAreExact
CHECK_DEADLOCK FALSE
