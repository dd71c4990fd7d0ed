CONSTANTS
    m1 = m1
    m2 = m2
    m3 = m3
    m4 = m4
    m5 = m5
    Msgs <- MCMsgs
    Undecodable = {}
    Event <- MCEvent
    MicrosPerDay = 10
    MaxRecords = 3
    MaxBytes = 5
    Dedup = TRUE
    PayloadBytes <- MCPayloadBytes
    MaxHandles = 5

SPECIFICATION Spec

INVARIANTS
    NoHandleLost
    WithinPolicy
    TimerFollowsRows

PROPERTIES
    AgeOnlyGrows

