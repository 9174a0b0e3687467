\* One request at a time, every operation, storage and network failures and
\* crashes anywhere.
SPECIFICATION Spec
CONSTANTS
    Text <- MCText
    RenewMargin = 1
    Nil = Nil
    Procs = {p1}
    Ops <- ClientOps
    Writes <- MCWrites
    Imports <- SerialImports
    Skews <- SkewSet
    TokenLife = 2
    MaxTime = 3
    UsesBound = 4
    Faults = TRUE
INVARIANTS
    TypeOK
    QuotaRespected
    NoOrphans
    ReportsKeepPromise
PROPERTIES
    ImplementsLedger
    ImportedKeysFixed
    UpdatesOnlyUpdate
