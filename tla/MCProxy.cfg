SPECIFICATION Spec
CONSTANTS
    p1 = p1
    p2 = p2
    k1 = k1
    k2 = k2
    Nil = Nil
    RandomLabel = RandomLabel
    ConfigText <- MCText
    ProxyURLs <- OneProxy
    ParseDuration <- Durations
    HexBytes <- Hex
    Certificates <- Pem
    Procs <- OneRequest
    Roles <- OneRole
    Keys <- OneKey
    Settings <- ProxySetting
    Pins <- MCPins
    Pinned <- None
    Ops <- AllOps
    httpIdle = 1
    MaxTime = 1
    MaxClients = 2
    Faults = FALSE
INVARIANTS
    V3CallsUseProxy
