CONSTANTS
    m1 = m1
    m2 = m2
    m3 = m3
    m4 = m4
    m5 = m5
    Msgs = {m1, m2, m3, m4, m5}
    Undecodable = {m4, m5}
    Event <- MCEvent
    MicrosPerDay = 10
    MaxRecords = 2
    MaxBytes = 100
    Dedup = TRUE
    PayloadBytes <- MCPayloadBytes
    FetchBatch = 2
    CommitRetries = 2
    FaultKinds = {"catalog", "write", "ack", "fetch", "stop", "crash"}
    MaxFaults = 2

SPECIFICATION FairSpec

INVARIANTS
    HeldOnce
    NoDeliveryForgotten

PROPERTIES
    EverythingSettles
