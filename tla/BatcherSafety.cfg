CONSTANTS
    m1 = m1
    m2 = m2
    m3 = m3
    m4 = m4
    m5 = m5
    Msgs = {m1, m2, m3, m4}
    Undecodable = {m4}
    Event <- MCEvent
    MicrosPerDay = 10
    MaxRecords = 2
    MaxBytes = 100
    Dedup = TRUE
    PayloadBytes <- MCPayloadBytes
    FetchBatch = 1
    CommitRetries = 2
    FaultKinds = {"catalog", "probe", "write", "ack", "fetch", "early", "stop", "crash"}
    MaxFaults = 3

SPECIFICATION Spec

INVARIANTS
    TypeOK
    AckedIsStored
    StoredOnce
    FlushCoversHandles
    NoLossInv
    OnceInv

PROPERTIES
    ImplementsLedger
