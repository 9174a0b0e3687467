SPECIFICATION Spec
CONSTANTS
    p1 = p1
    p2 = p2
    Nil = Nil
    Text <- MCText
    RenewMargin = 1
    Day = 1
    DurationBound = 100
    MaxInt = 2000
    Roles <- TwoRoles
    Engines <- MCEngines
    EngineOf <- TwoEngineOf
    Labels = {l1, l2}
    Procs <- OneRequest
    Writes <- SeedWrites
    Asked <- OneTerm
    CertLife = 1
    Second = 1000
    Start = 10
    MaxTime = 10
    MaxKeys = 2
    MaxBorn = 2
    MaxMessages = 1
    UsesBound = 1
    MaxImports = 2
    Faults = TRUE
INVARIANTS
    TypeOK
    ImportsAreAddressed
    CertificatesServe
