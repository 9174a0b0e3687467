SPECIFICATION Spec
CONSTANTS
    p1 = p1
    p2 = p2
    Procs <- OneRequest
    Requests <- Proxied
    Elsewhere = FALSE
    Faults = TRUE
INVARIANTS
    ProxyPassesAnswers
