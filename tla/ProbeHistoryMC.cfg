CONSTANTS
    Half = 64
    MicrosPerMilli = 2
    MillisPerDay = 5
    MicrosPerDay = 10
    Trade <- MCTrade
    Msgs <- MCMsgs
    Event <- MCEvent
    Undecodable = {}
    MaxFailures = 1

SPECIFICATION Spec

INVARIANTS
    EachTradeOnce
    PruningLossless
    OpensOwnPartitions
    FiledUnderItsDay

PROPERTIES
    FlushedIsStored
    FilesAreALedger
