SPECIFICATION ServedSpec
CONSTANTS
    Word <- MCWord
    Size <- MCSize
    MaxLong = 8
INVARIANTS TypeOK HalvesAreLeft PlaceIsFound SizeIsShown
PROPERTIES PagesMeet EveryRequestEnds
