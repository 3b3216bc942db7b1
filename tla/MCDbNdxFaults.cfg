SPECIFICATION Spec
CONSTANTS
    w1 = w1
    w2 = w2
    Word <- TwoWords
    CollationKey <- OwnKeys
    Doc <- Docs2
    Pos <- OnePos
    Batch <- AnyEntries
    BlobSize = 1
    HasBlob = TRUE
    Faults = {"append", "rewrite", "header"}
    NoRecord = NoRecord
INVARIANTS TypeOK HeaderNamesStoredBlobs
CHECK_DEADLOCK FALSE
