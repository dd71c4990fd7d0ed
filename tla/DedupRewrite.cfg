CONSTANTS
    d1 = d1
    d2 = d2
    d3 = d3
    d4 = d4
    d5 = d5
    d6 = d6
    Rows = {d1, d2, d3, d4, d5, d6}
    ChunkRows = 2
    Row <- MCRow
    Source = {d1, d2, d3, d4, d5, d6}
    Windows <- MCWindows
    FreshTarget = TRUE
    RunsOnce = TRUE
    MaxFailures = 2

SPECIFICATION Spec

INVARIANTS
    RewriteConverges
    RunAddsUp
    AuditPredictsRewrite
    RewriteInv
