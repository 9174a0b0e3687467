SPECIFICATION Spec
CONSTANTS
    p1 = p1
    p2 = p2
    k1 = k1
    k2 = k2
    Nil = Nil
    RandomLabel = RandomLabel
    ConfigText <- MCText
    ProxyURLs <- OneProxy
    ParseDuration <- Durations
    HexBytes <- Hex
    Certificates <- Pem
    Procs <- OneRequest
    Roles <- OneRole
    Keys <- OneKey
    Settings <- None
    Pins <- MCPins
    Pinned <- None
    Ops <- Keeping
    httpIdle = 1
    MaxTime = 4
    MaxClients = 2
    Faults = FALSE
PROPERTIES
    ActiveClientsKept
