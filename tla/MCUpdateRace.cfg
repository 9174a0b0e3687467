\* Two role writes at once that supply different fields.
SPECIFICATION Spec
CONSTANTS
    Text <- MCText
    RenewMargin = 1
    Nil = Nil
    Procs = {p1, p2}
    Ops <- UpdateOps
    Writes <- RacingWrites
    Imports <- QuotaImports
    Skews <- SkewSet
    TokenLife = 2
    MaxTime = 1
    UsesBound = 0
    Faults = FALSE
PROPERTIES
    UpdatesOnlyUpdate
