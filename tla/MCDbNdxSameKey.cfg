SPECIFICATION Spec
CONSTANTS
    w1 = w1
    w2 = w2
    Word <- TwoWords
    CollationKey <- SameKey
    Doc <- Docs2
    Pos <- TwoPos
    Batch <- AnyEntries
    BlobSize = 2
    HasBlob = TRUE
    Faults = {}
    NoRecord = NoRecord
PROPERTY AddKeepsEntries
CHECK_DEADLOCK FALSE
