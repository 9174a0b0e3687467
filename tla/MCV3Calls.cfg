SPECIFICATION Spec
CONSTANTS
    p1 = p1
    p2 = p2
    Procs <- OneRequest
    Requests <- AllRequests
    Elsewhere = TRUE
    Faults = TRUE
INVARIANTS
    AnswersTellEffects
    CLIChangesPermitted
