\* Two requests at a time for a role granted one use.
SPECIFICATION Spec
CONSTANTS
    Text <- MCText
    RenewMargin = 1
    Nil = Nil
    Procs = {p1, p2}
    Ops <- QuotaOps
    Writes <- OneWrite
    Imports <- QuotaImports
    Skews <- SkewSet
    TokenLife = 2
    MaxTime = 1
    UsesBound = 2
    Faults = FALSE
INVARIANTS
    QuotaRespected
