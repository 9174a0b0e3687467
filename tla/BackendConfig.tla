--------------------------- MODULE BackendConfig ---------------------------
(***************************************************************************)
(* The configuration of the engine (src/mashery/data_structs.go), how a    *)
(* write of config and of config/certs/<type> changes it                   *)
(* (transformers_backendConfig_parser.go), the TLS settings it comes to,   *)
(* and what a read of config says of it (path_config.go).                  *)
(*                                                                         *)
(* Texts are told apart by what the parsers of the Go library and of the   *)
(* client library make of them, which the constants below say.             *)
(***************************************************************************)
EXTENDS Integers

CONSTANTS
    ConfigText,     \* the texts of a request; "" is the empty one, "-" stands for no CA
    ProxyURLs,      \* those that are URLs with a host name
    ParseDuration,  \* those that are durations, with the microseconds they come to
    HexBytes,       \* those that are hexadecimal, with the bytes they come to
    Certificates,   \* those that hold PEM certificates
    RandomLabel,    \* the OAEP label made up when the engine is mounted
    Nil             \* nothing: no TLS settings, no client, no helper

ASSUME ConfigTextAssumption ==
    /\ {"", "-", "default", "system", "custom", "insecure"} \subseteq ConfigText
    /\ ProxyURLs \subseteq ConfigText \ {""}
    /\ DOMAIN ParseDuration \subseteq ConfigText \ {""}
    /\ \A t \in DOMAIN ParseDuration : ParseDuration[t] \in Int
    /\ DOMAIN HexBytes \subseteq ConfigText
    /\ \A t \in DOMAIN HexBytes : HexBytes[t] \in ConfigText
    /\ Certificates \subseteq ConfigText \ {"", "-"}

Pinnings == {"default", "system", "custom", "insecure"}
Chain == {"LeafCertPin", "IssuerCertPin", "RootCertPin"}

TLSCertChainPin ==
    [CommonName : ConfigText, SerialNumber : ConfigText, Fingerprint : ConfigText]

BackendConfiguration ==
    [OAEPLabel : ConfigText \cup {RandomLabel}, ProxyServer : ConfigText,
     ProxyServerAuth : ConfigText, ProxyServerCreds : ConfigText, TLSCerts : ConfigText,
     CLIWriteEnabled : BOOLEAN, NetworkLatency : Int, TLSPinning : Pinnings,
     LeafCertPin : TLSCertChainPin, IssuerCertPin : TLSCertChainPin,
     RootCertPin : TLSCertChainPin]

EmptyPin == [CommonName |-> "", SerialNumber |-> "", Fingerprint |-> ""]

defaultLatency == 147

DefaultBackendConfiguration ==
    [OAEPLabel |-> RandomLabel, ProxyServer |-> "", ProxyServerAuth |-> "",
     ProxyServerCreds |-> "", TLSCerts |-> "", CLIWriteEnabled |-> FALSE,
     NetworkLatency |-> defaultLatency, TLSPinning |-> "default",
     LeafCertPin |-> EmptyPin, IssuerCertPin |-> EmptyPin, RootCertPin |-> EmptyPin]

(***************************************************************************)
(* Requests: the fields supplied, by the names of what they set.  The      *)
(* certificates of the chain are each set and reset by requests of their   *)
(* own, which supply a pin's fields.                                       *)
(***************************************************************************)
ConfigFields ==
    {"OAEPLabel", "ProxyServer", "ProxyServerAuth", "ProxyServerCreds", "TLSCerts",
     "CLIWriteEnabled", "NetworkLatency", "TLSPinning"}
PinFields == {"CommonName", "SerialNumber", "Fingerprint"}

Supplied(d, f, values) == f \in DOMAIN d => d[f] \in values

\* The requests the parsers make no error of.
parsesBackEndConfiguration(d) ==
    /\ Supplied(d, "ProxyServer", ProxyURLs)
    /\ Supplied(d, "TLSPinning", Pinnings)
    /\ Supplied(d, "NetworkLatency", DOMAIN ParseDuration)

parsesCertificatePin(d) ==
    Supplied(d, "SerialNumber", DOMAIN HexBytes) /\ Supplied(d, "Fingerprint", DOMAIN HexBytes)

\* An empty string leaves what there was.
copyStringFieldIfDefined(d, f, dest) ==
    IF f \in DOMAIN d /\ d[f] # "" THEN d[f] ELSE dest

copyBooleanFieldIfDefined(d, f, dest) == IF f \in DOMAIN d THEN d[f] ELSE dest

consumeStringFieldIfDefined(d, f, dest) == IF f \in DOMAIN d THEN HexBytes[d[f]] ELSE dest

\* The whole milliseconds in a number of microseconds.
Milliseconds(us) == IF us >= 0 THEN us \div 1000 ELSE -((-us) \div 1000)

Assigned(d, f, be) ==
    IF f \notin DOMAIN d THEN be[f]
    ELSE CASE f \in {"ProxyServerAuth", "ProxyServerCreds", "TLSCerts"} ->
                 copyStringFieldIfDefined(d, f, be[f])
           [] f = "CLIWriteEnabled" -> copyBooleanFieldIfDefined(d, f, be[f])
           [] f = "NetworkLatency" -> Milliseconds(ParseDuration[d[f]])
           [] OTHER -> d[f]

\* Slip: the request is parsed onto a new configuration.
ParseOntoDefault(d, be) ==
    [f \in DOMAIN be |-> Assigned(d, f, DefaultBackendConfiguration)]

parseBackEndConfiguration(d, be) == [f \in DOMAIN be |-> Assigned(d, f, be)]

parseCertificatePin(d, pin) ==
    [f \in PinFields |->
        IF f = "CommonName" THEN copyStringFieldIfDefined(d, f, pin[f])
        ELSE consumeStringFieldIfDefined(d, f, pin[f])]

resetCertificatePin == EmptyPin

(***************************************************************************)
(* The TLS settings of the connections: whether the certificates are       *)
(* looked at, what is pinned, and the CAs; Nil leaves all to the system.   *)
(***************************************************************************)
IsEmpty(pin) == pin = EmptyPin

\* Slip: the pins are not looked at.
DesiredTLSPinning(c) == c.TLSPinning

EffectiveTLSPinning(c) ==
    IF c.TLSPinning = "custom" /\ \A x \in Chain : IsEmpty(c[x]) THEN "default"
    ELSE c.TLSPinning

EffectiveNetworkLatency(c) == IF c.NetworkLatency > 0 THEN c.NetworkLatency ELSE defaultLatency

\* The pin of *.mashery.com and its issuer (external).
MasheryPin == [CommonName |-> "*.mashery.com", SerialNumber |-> "", Fingerprint |-> ""]

TLSConfig(skip, pins) == [InsecureSkipVerify |-> skip, pins |-> pins, RootCAs |-> "system"]

TLSConfigs ==
    [InsecureSkipVerify : BOOLEAN, pins : SUBSET (TLSCertChainPin \cup {MasheryPin}),
     RootCAs : {"system", "none"} \cup Certificates]

TLSSettings == {Nil} \cup TLSConfigs

ASSUME NoTLSAssumption == Nil \notin TLSConfigs

decorateCertificatePinning(c) ==
    CASE EffectiveTLSPinning(c) = "default" -> TLSConfig(FALSE, {MasheryPin})
      [] EffectiveTLSPinning(c) = "insecure" -> TLSConfig(TRUE, {})
      [] EffectiveTLSPinning(c) = "system" -> Nil
      [] EffectiveTLSPinning(c) = "custom" ->
             TLSConfig(FALSE, {c[x] : x \in {y \in Chain : ~IsEmpty(c[y])}})

\* The pool of a text without certificates is empty.
decorateRootCACerts(c, config) ==
    LET pool == IF c.TLSCerts \in Certificates THEN c.TLSCerts ELSE "none"
        base == IF config = Nil THEN TLSConfig(FALSE, {}) ELSE config
    IN  IF c.TLSCerts \in {"", "-"} THEN config ELSE [base EXCEPT !.RootCAs = pool]

EffectiveTLSConfiguration(c) == decorateRootCACerts(c, decorateCertificatePinning(c))

(***************************************************************************)
(* What a read of the configuration answers of the TLS settings.           *)
(***************************************************************************)
formatRootCA(c) ==
    CASE c.TLSCerts \in {"", "-"} -> "use system"
      [] c.TLSCerts \in Certificates -> "custom root CA certificates"
      [] OTHER -> "CAN NOT BE PARSED!"

readConfiguration(c) ==
    [effective |-> EffectiveTLSPinning(c), desired |-> c.TLSPinning,
     net_latency |-> EffectiveNetworkLatency(c), root_ca |-> formatRootCA(c),
     pins |-> {c[x] : x \in {y \in Chain : ~IsEmpty(c[y])}}]
=============================================================================
