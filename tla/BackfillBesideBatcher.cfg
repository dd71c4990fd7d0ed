CONSTANTS
    s1 = s1
    s2 = s2
    s3 = s3
    s4 = s4
    s5 = s5
    s6 = s6
    s7 = s7
    s8 = s8
    p1 = p1
    l1 = l1
    l2 = l2
    l5 = l5
    Rows = {s1, s2, s5, l5}
    ChunkRows = 2
    Row <- MCRow
    Source = {s1, s2, s5}
    Existing = {}
    Live = {l5}
    Windows <- MCWindows
    Margin = 1
    MaxFailures = 0

SPECIFICATION Spec

INVARIANTS
    NoDuplicates
