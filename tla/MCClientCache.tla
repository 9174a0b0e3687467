--------------------------- MODULE MCClientCache ---------------------------
(***************************************************************************)
(* Instances of ClientCache for TLC: one role, so one client per map, and  *)
(* one or two requests at a time.                                          *)
(***************************************************************************)
EXTENDS ClientCache, TLC

CONSTANTS p1, p2, k1, k2

OneRequest == {p1}
TwoRequests == {p1, p2}
Slotted == Permutations(TwoRequests)

OneRole == {"role"}
OneKey == {k1}
TwoKeys == {k1, k2}
MCText ==
    {"", "-", "default", "system", "custom", "insecure", "other", "host",
     "http://proxy", "0.5ms", "12", "pem", "cn", "4d:41", "zz"}
OneProxy == {"http://proxy"}
Durations == [t \in {"0.5ms"} |-> 500]
Hex == [t \in {"4d:41"} |-> "4d:41"]
Pem == {"pem"}

\* Writes of config, the last three of which are errors in one field.
MCSettings ==
    {[TLSPinning |-> "custom"],
     [TLSPinning |-> "system", TLSCerts |-> ""],
     [TLSPinning |-> "insecure", CLIWriteEnabled |-> TRUE],
     [TLSCerts |-> "pem", ProxyServer |-> "http://proxy", NetworkLatency |-> "0.5ms"],
     [TLSPinning |-> "other"],
     [TLSPinning |-> "default", ProxyServer |-> "host"],
     [CLIWriteEnabled |-> TRUE, NetworkLatency |-> "12"]}

OneSetting == {[OAEPLabel |-> "cn"]}
ProxySetting == {[ProxyServer |-> "http://proxy"]}
MCPins == {[CommonName |-> "cn"], [SerialNumber |-> "zz"]}
Leaf == {"LeafCertPin"}
None == {}

AllOps == {"call", "token", "configure", "housekeep", "write"}
NoTokens == {"call", "configure", "housekeep"}
CallsOnly == {"call", "write"}
Keeping == {"call", "housekeep"}
=============================================================================
