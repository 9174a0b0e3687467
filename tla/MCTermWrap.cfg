SPECIFICATION Spec
CONSTANTS
    p1 = p1
    p2 = p2
    Nil = Nil
    Text <- MCText
    RenewMargin = 1
    Day = 1
    DurationBound = 100
    MaxInt = 2000
    Roles <- TwoRoles
    Engines <- MCEngines
    EngineOf <- TwoEngineOf
    Labels = {l1}
    Procs <- OneRequest
    Writes <- SeedWrites
    Asked <- LongTerm
    CertLife = 1
    Second = 1000
    Start = 10
    MaxTime = 10
    MaxKeys = 1
    MaxBorn = 1
    MaxMessages = 1
    UsesBound = 3
    MaxImports = 1
    Faults = FALSE
INVARIANTS
    TermsOfAnyLength
