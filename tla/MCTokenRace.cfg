\* Two requests at a time on one role, each running fairly, with the stored
\* token under contention, failures and crashes.
SPECIFICATION FairSpec
CONSTANTS
    Text <- MCText
    RenewMargin = 1
    Nil = Nil
    Procs = {p1, p2}
    Ops <- TokenOps
    Writes <- OneWrite
    Imports <- QuotaImports
    Skews <- SkewSet
    TokenLife = 2
    MaxTime = 2
    UsesBound = 0
    Faults = TRUE
INVARIANTS
    CallsCarryToken
PROPERTIES
    RequestsComplete
