CONSTANTS
    Envs <- MCEnvs
    MaxOperations = 2
    MaxFailures = 2

SPECIFICATION FairSpec

INVARIANTS
    TypeOK
    ReconciledConsumer
    ConsumerFitsPolicy

PROPERTIES
    ComesUp
