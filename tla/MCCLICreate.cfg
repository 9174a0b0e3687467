SPECIFICATION Spec
CONSTANTS
    p1 = p1
    p2 = p2
    Procs <- OneRequest
    Requests <- CLIWrites
    Elsewhere = FALSE
    Faults = FALSE
INVARIANTS
    CLIWritesCreate
