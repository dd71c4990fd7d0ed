CONSTANTS
    s1 = s1
    s2 = s2
    s3 = s3
    s4 = s4
    s5 = s5
    s6 = s6
    s7 = s7
    s8 = s8
    p1 = p1
    l1 = l1
    l2 = l2
    l5 = l5
    Rows = {s1, s2, s3, s4, s5, s6, s7, s8, p1, l1, l2}
    ChunkRows = 2
    Row <- MCRow
    Source = {s1, s2, s3, s4, s5, s6, s7, s8}
    Existing = {p1}
    Live = {l1, l2}
    Windows <- MCWindows
    Margin = 1
    MaxFailures = 3

SPECIFICATION FairSpec

INVARIANTS
    BackfillInv
    NoDuplicates
    WrittenIsVisible
    GoodRunIsComplete
    OnlyComplete

PROPERTIES
    ImplementsGapFill
    Converges
