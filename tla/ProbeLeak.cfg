CONSTANTS
    m1 = m1
    m2 = m2
    m3 = m3
    m4 = m4
    m5 = m5
    Msgs = {m1, m3}
    Undecodable = {}
    Event <- MCEvent
    MicrosPerDay = 10
    MaxRecords = 2
    MaxBytes = 100
    Dedup = TRUE
    PayloadBytes <- MCPayloadBytes
    FetchBatch = 1
    CommitRetries = 2
    FaultKinds = {"probe"}
    MaxFaults = 1

SPECIFICATION FairSpec

PROPERTIES
    FailedBatchIsRewritten
