\* Lists of up to four records, pages of one or two, up to three pages.
SPECIFICATION FairSpec
CONSTANTS
    MaxRecords = 4
    MaxLimit = 2
    MaxMaxPages = 3
PROPERTIES
    LoopEnds
    ImplementsReading
CHECK_DEADLOCK FALSE
