\* Two requests at a time on one role, with the usage entry under contention.
SPECIFICATION Spec
CONSTANTS
    Text <- MCText
    RenewMargin = 1
    Nil = Nil
    Procs = {p1, p2}
    Ops <- RacingOps
    Writes <- OneWrite
    Imports <- ConcurrentImports
    Skews <- SkewSet
    TokenLife = 2
    MaxTime = 1
    UsesBound = 0
    Faults = FALSE
SYMMETRY Slots
INVARIANTS
    StoredWithinGrant
