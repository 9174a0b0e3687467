\* One request at a time; the credentials are replaced while a token is stored.
SPECIFICATION Spec
CONSTANTS
    Text <- MCText
    RenewMargin = 1
    Nil = Nil
    Procs = {p1}
    Ops <- CredentialOps
    Writes <- MCWrites
    Imports <- QuotaImports
    Skews <- SkewSet
    TokenLife = 2
    MaxTime = 1
    UsesBound = 0
    Faults = FALSE
INVARIANTS
    V3CallsUseRoleCredentials
