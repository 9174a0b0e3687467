------------------------- MODULE ClientCacheProofs -------------------------
(***************************************************************************)
(* Theorems about the clients of one plugin process, for any number of     *)
(* roles, requests and clients and any configuration texts.  That a client *)
(* found in the cache is open holds whatever runs at the same time, since  *)
(* no step of a loop can be ordered otherwise; what relates the memory to  *)
(* the storage and the connections to the memory, and that no client is    *)
(* lost, holds while requests do not overlap (OneAtATime): none of it is   *)
(* locked, and two updates, or two calls that build a client, break it.    *)
(***************************************************************************)
EXTENDS ClientCache, FiniteSetTheorems, TLAPS

-----------------------------------------------------------------------------
(***************************************************************************)
(* The configuration.                                                      *)
(***************************************************************************)

\* The engine is mounted with a well-formed configuration.
LEMMA DefaultTyped == DefaultBackendConfiguration \in BackendConfiguration
<1>1. EmptyPin \in TLSCertChainPin BY ConfigTextAssumption DEF EmptyPin, TLSCertChainPin
<1>2. "default" \in Pinnings /\ "" \in ConfigText
  BY ConfigTextAssumption DEF Pinnings
<1>3. defaultLatency \in Int BY DEF defaultLatency
<1> QED BY <1>1, <1>2, <1>3 DEF DefaultBackendConfiguration, BackendConfiguration

BackendFields ==
    {"OAEPLabel", "ProxyServer", "ProxyServerAuth", "ProxyServerCreds", "TLSCerts",
     "CLIWriteEnabled", "NetworkLatency", "TLSPinning",
     "LeafCertPin", "IssuerCertPin", "RootCertPin"}

\* A write of config that is no error leaves a well-formed configuration.
LEMMA SettingsTyped ==
    ASSUME NEW d \in Settings, parsesBackEndConfiguration(d), NEW be \in BackendConfiguration
    PROVE  parseBackEndConfiguration(d, be) \in BackendConfiguration
<1> DEFINE c == parseBackEndConfiguration(d, be)
<1>1. DOMAIN be = BackendFields BY DEF BackendConfiguration, BackendFields
<1>2. c = [f \in BackendFields |-> Assigned(d, f, be)]
  BY <1>1 DEF parseBackEndConfiguration
<1>3. /\ DOMAIN d \subseteq ConfigFields
      /\ \A f \in DOMAIN d : d[f] \in IF f = "CLIWriteEnabled" THEN BOOLEAN ELSE ConfigText
  BY CacheAssumption
<1>4. Assigned(d, "OAEPLabel", be) \in ConfigText \cup {RandomLabel}
  BY <1>3 DEF Assigned, BackendConfiguration
<1>5. Assigned(d, "ProxyServer", be) \in ConfigText
  BY <1>3 DEF Assigned, BackendConfiguration
<1>6. /\ Assigned(d, "ProxyServerAuth", be) \in ConfigText
      /\ Assigned(d, "ProxyServerCreds", be) \in ConfigText
      /\ Assigned(d, "TLSCerts", be) \in ConfigText
  BY <1>3 DEF Assigned, BackendConfiguration, copyStringFieldIfDefined
<1>7. Assigned(d, "CLIWriteEnabled", be) \in BOOLEAN
  BY <1>3 DEF Assigned, BackendConfiguration, copyBooleanFieldIfDefined
<1>8. Assigned(d, "NetworkLatency", be) \in Int
  <2>1. "NetworkLatency" \in DOMAIN d => ParseDuration[d["NetworkLatency"]] \in Int
    BY ConfigTextAssumption DEF parsesBackEndConfiguration, Supplied
  <2>2. \A us \in Int : Milliseconds(us) \in Int BY DEF Milliseconds
  <2>3. Assigned(d, "NetworkLatency", be) =
          IF "NetworkLatency" \in DOMAIN d THEN Milliseconds(ParseDuration[d["NetworkLatency"]])
          ELSE be["NetworkLatency"]
    <3>1. CASE "NetworkLatency" \notin DOMAIN d
      BY <3>1, Zenon DEF Assigned
    <3>2. CASE "NetworkLatency" \in DOMAIN d
      <4> DEFINE f == "NetworkLatency"
      <4>1. /\ f # "CLIWriteEnabled"
            /\ f \notin {"ProxyServerAuth", "ProxyServerCreds", "TLSCerts"}
        OBVIOUS
      <4>2. Assigned(d, f, be) = Milliseconds(ParseDuration[d[f]])
        BY <3>2, <4>1, Zenon DEF Assigned
      <4> QED BY <3>2, <4>2
    <3> QED BY <3>1, <3>2
  <2>4. be["NetworkLatency"] \in Int BY DEF BackendConfiguration
  <2> QED BY <2>1, <2>2, <2>3, <2>4
<1>9. Assigned(d, "TLSPinning", be) \in Pinnings
  BY DEF Assigned, BackendConfiguration, parsesBackEndConfiguration, Supplied
<1>10. /\ Assigned(d, "LeafCertPin", be) \in TLSCertChainPin
       /\ Assigned(d, "IssuerCertPin", be) \in TLSCertChainPin
       /\ Assigned(d, "RootCertPin", be) \in TLSCertChainPin
  BY <1>3 DEF Assigned, BackendConfiguration, ConfigFields
<1>11. c = [OAEPLabel |-> c.OAEPLabel, ProxyServer |-> c.ProxyServer,
            ProxyServerAuth |-> c.ProxyServerAuth, ProxyServerCreds |-> c.ProxyServerCreds,
            TLSCerts |-> c.TLSCerts, CLIWriteEnabled |-> c.CLIWriteEnabled,
            NetworkLatency |-> c.NetworkLatency, TLSPinning |-> c.TLSPinning,
            LeafCertPin |-> c.LeafCertPin, IssuerCertPin |-> c.IssuerCertPin,
            RootCertPin |-> c.RootCertPin]
  BY <1>2 DEF BackendFields
<1>12. \A f \in BackendFields : c[f] = Assigned(d, f, be) BY <1>2
<1> HIDE DEF c
<1>13. c \in BackendConfiguration
  BY <1>4, <1>5, <1>6, <1>7, <1>8, <1>9, <1>10, <1>11, <1>12
  DEF BackendConfiguration, BackendFields
<1> QED BY <1>13 DEF c

\* So does a write, or a reset, of the pin of one certificate.
LEMMA PinTyped ==
    ASSUME NEW be \in BackendConfiguration, NEW x \in Pinned
    PROVE  /\ \A d \in Pins : parsesCertificatePin(d) =>
                [be EXCEPT ![x] = parseCertificatePin(d, @)] \in BackendConfiguration
           /\ [be EXCEPT ![x] = resetCertificatePin] \in BackendConfiguration
<1>1. x \in Chain BY CacheAssumption
<1>2. ASSUME NEW pin \in TLSCertChainPin
      PROVE  [be EXCEPT ![x] = pin] \in BackendConfiguration
  BY <1>1, <1>2 DEF Chain, BackendConfiguration
<1>3. be[x] \in TLSCertChainPin BY <1>1 DEF Chain, BackendConfiguration
<1>4. ASSUME NEW d \in Pins, parsesCertificatePin(d), NEW pin \in TLSCertChainPin
      PROVE  parseCertificatePin(d, pin) \in TLSCertChainPin
  <2>1. \A f \in DOMAIN d : d[f] \in ConfigText BY CacheAssumption
  <2>2. \A t \in DOMAIN HexBytes : HexBytes[t] \in ConfigText BY ConfigTextAssumption
  <2> QED
    BY <1>4, <2>1, <2>2
    DEF parseCertificatePin, parsesCertificatePin, Supplied, PinFields, TLSCertChainPin,
        copyStringFieldIfDefined, consumeStringFieldIfDefined
<1>5. resetCertificatePin \in TLSCertChainPin
  BY ConfigTextAssumption DEF resetCertificatePin, EmptyPin, TLSCertChainPin
<1> QED BY <1>2, <1>3, <1>4, <1>5

\* A configuration comes to TLS settings, and so to a connection.
LEMMA ConnectionTyped ==
    ASSUME NEW c \in BackendConfiguration
    PROVE  /\ EffectiveTLSConfiguration(c) \in TLSSettings
           /\ Connection(c) \in Connections
<1>1. \A skip \in BOOLEAN, pins \in SUBSET (TLSCertChainPin \cup {MasheryPin}) :
         TLSConfig(skip, pins) \in TLSConfigs
  BY DEF TLSConfig, TLSConfigs
<1>2. EffectiveTLSPinning(c) \in Pinnings
  BY DEF EffectiveTLSPinning, BackendConfiguration, Pinnings
<1>3. {c[x] : x \in {y \in Chain : ~IsEmpty(c[y])}} \subseteq TLSCertChainPin
  BY DEF Chain, BackendConfiguration
<1>4. decorateCertificatePinning(c) \in TLSSettings
  BY <1>1, <1>2, <1>3 DEF decorateCertificatePinning, TLSSettings, Pinnings
<1>5. ASSUME NEW config \in TLSSettings PROVE decorateRootCACerts(c, config) \in TLSSettings
  <2>1. TLSConfig(FALSE, {}) \in TLSConfigs BY <1>1
  <2>2. ASSUME NEW base \in TLSConfigs, NEW pool \in {"none"} \cup Certificates
        PROVE  [base EXCEPT !.RootCAs = pool] \in TLSConfigs
    BY <2>2 DEF TLSConfigs
  <2> QED BY <2>1, <2>2 DEF decorateRootCACerts, TLSSettings
<1>6. EffectiveTLSConfiguration(c) \in TLSSettings
  BY <1>4, <1>5 DEF EffectiveTLSConfiguration
<1>7. Connection(c) \in Connections
  BY <1>6 DEF Connection, Connections, BackendConfiguration
<1> QED BY <1>6, <1>7

\* What a read of config says of the TLS settings is what the configuration
\* comes to (EffectiveTLSPinning, decorateRootCACerts, readConfiguration).
LEMMA SettingsAsReported ==
    ASSUME NEW c \in BackendConfiguration
    PROVE  LET t == EffectiveTLSConfiguration(c)
               report == readConfiguration(c)
           IN  /\ report.effective = "default" => t.pins = {MasheryPin}
               /\ report.effective = "custom" => t.pins = report.pins /\ t.pins # {}
               /\ t # Nil /\ t.InsecureSkipVerify <=> report.effective = "insecure"
               /\ report.root_ca = "use system" => t = Nil \/ t.RootCAs = "system"
<1> DEFINE t == EffectiveTLSConfiguration(c)
           pins == {c[x] : x \in {y \in Chain : ~IsEmpty(c[y])}}
           e == EffectiveTLSPinning(c)
           d == decorateCertificatePinning(c)
<1>1. e \in Pinnings /\ (e = "custom" => pins # {})
  BY DEF EffectiveTLSPinning, BackendConfiguration, Pinnings
<1>2. pins \subseteq TLSCertChainPin BY DEF Chain, BackendConfiguration
<1> HIDE DEF pins
<1>3. /\ e = "default" => d = TLSConfig(FALSE, {MasheryPin})
      /\ e = "insecure" => d = TLSConfig(TRUE, {})
      /\ e = "system" => d = Nil
      /\ e = "custom" => d = TLSConfig(FALSE, pins)
  BY DEF decorateCertificatePinning, pins
<1> HIDE DEF e, d
<1>4. ASSUME NEW skip \in BOOLEAN, NEW ps \in SUBSET (TLSCertChainPin \cup {MasheryPin}),
             d = TLSConfig(skip, ps)
      PROVE  /\ t # Nil /\ t.pins = ps /\ t.InsecureSkipVerify = skip
             /\ c.TLSCerts \in {"", "-"} => t.RootCAs = "system"
  <2>1. d \in TLSConfigs BY <1>4 DEF TLSConfig, TLSConfigs
  <2>2. d # Nil BY <2>1, NoTLSAssumption
  <2>3. \/ t = d
        \/ \E pool \in {"none"} \cup Certificates :
              t = [d EXCEPT !.RootCAs = pool] /\ c.TLSCerts \notin {"", "-"}
    BY <2>2 DEF EffectiveTLSConfiguration, decorateRootCACerts, d
  <2> HIDE DEF t
  <2>4. CASE t = d BY <1>4, <2>2, <2>4 DEF TLSConfig
  <2>5. CASE \E pool \in {"none"} \cup Certificates :
                t = [d EXCEPT !.RootCAs = pool] /\ c.TLSCerts \notin {"", "-"}
    <3>1. PICK pool \in {"none"} \cup Certificates :
             t = [d EXCEPT !.RootCAs = pool] /\ c.TLSCerts \notin {"", "-"}
      BY <2>5
    <3>2. t.pins = ps /\ t.InsecureSkipVerify = skip BY <1>4, <3>1 DEF TLSConfig
    <3>3. t \in TLSConfigs BY <2>1, <3>1 DEF TLSConfigs
    <3> QED BY <3>1, <3>2, <3>3, NoTLSAssumption
  <2> QED BY <2>3, <2>4, <2>5
<1>5. c.TLSCerts \in {"", "-"} <=> readConfiguration(c).root_ca = "use system"
  <2>1. Certificates \cap {"", "-"} = {} BY ConfigTextAssumption
  <2> QED BY <2>1 DEF readConfiguration, formatRootCA
<1>6. readConfiguration(c).effective = e /\ readConfiguration(c).pins = pins
  BY DEF readConfiguration, e, pins
<1>7. ASSUME NEW ps \in SUBSET (TLSCertChainPin \cup {MasheryPin}), NEW skip \in BOOLEAN,
             d = TLSConfig(skip, ps), skip <=> e = "insecure",
             e = "default" => ps = {MasheryPin}, e = "custom" => ps = pins
      PROVE  /\ e = "default" => t.pins = {MasheryPin}
             /\ e = "custom" => t.pins = pins /\ t.pins # {}
             /\ t # Nil /\ t.InsecureSkipVerify <=> e = "insecure"
             /\ c.TLSCerts \in {"", "-"} => t = Nil \/ t.RootCAs = "system"
  <2>1. /\ t # Nil /\ t.pins = ps /\ t.InsecureSkipVerify = skip
        /\ c.TLSCerts \in {"", "-"} => t.RootCAs = "system"
    BY <1>4, <1>7
  <2> HIDE DEF t
  <2> QED BY <1>1, <1>7, <2>1
<1> DEFINE Told == /\ e = "default" => t.pins = {MasheryPin}
                   /\ e = "custom" => t.pins = pins /\ t.pins # {}
                   /\ t # Nil /\ t.InsecureSkipVerify <=> e = "insecure"
                   /\ c.TLSCerts \in {"", "-"} => t = Nil \/ t.RootCAs = "system"
<1>8. ASSUME e = "system" PROVE Told
  <2>1. d = Nil BY <1>3, <1>8
  <2>2. t = Nil \/ (t.InsecureSkipVerify = FALSE /\ c.TLSCerts \notin {"", "-"})
    BY <2>1 DEF EffectiveTLSConfiguration, decorateRootCACerts, TLSConfig, d
  <2> HIDE DEF t
  <2> QED BY <1>8, <2>2
<1>9. ASSUME e # "system" PROVE Told
  <2>1. \E ps \in SUBSET (TLSCertChainPin \cup {MasheryPin}), skip \in BOOLEAN :
          /\ d = TLSConfig(skip, ps) /\ (skip <=> e = "insecure")
          /\ e = "default" => ps = {MasheryPin}
          /\ e = "custom" => ps = pins
    <3>1. {} \subseteq TLSCertChainPin \cup {MasheryPin} OBVIOUS
    <3> QED BY <1>1, <1>2, <1>3, <1>9, <3>1 DEF Pinnings
  <2> QED BY <1>7, <2>1
<1>10. Told BY <1>8, <1>9
<1> HIDE DEF t
<1> QED BY <1>5, <1>6, <1>10 DEF t

-----------------------------------------------------------------------------
(***************************************************************************)
(* Types.  A request that is to build a client has one of the MaxClients   *)
(* left, and one that leaves the Once has built the helper.                *)
(***************************************************************************)
Calls == {"lookup", "build", "insert", "call"}
InOnce == {"enterOnce", "buildHelper", "leaveOnce"}
Updates == {"saveConfig", "accept", "resetOnce"}
AtKey == {"test", "take", "remove", "close"}
Loops == {"range", "next"} \cup AtKey

Times == 0..MaxTime
Sweeps == Seq(Kinds)

Request ==
    [op : {"none", "call", "configure", "housekeep"},
     pc : {"idle"} \cup Calls \cup InOnce \cup Updates \cup Loops,
     kind : Kinds \cup {Nil}, slot : Slots \cup {Nil}, keys : Keys \cup {Nil},
     held : Client \cup {Nil}, draft : BackendConfiguration \cup {Nil},
     asked : SUBSET (ConfigFields \cup Chain), cutover : Times,
     rest : Sweeps, todo : SUBSET Slots, due : [Slots -> Client \cup {Nil}]]

\* The operations a request at r.pc can be of, and what it has by then.
Placed(r) ==
    /\ r.pc = "idle" => r = Idle
    /\ r.pc \in InOnce => r.op = "call" \/ (r.op = "none" /\ r.slot = Nil)
    /\ r.pc \in Calls => r.op = "call"
    /\ r.op = "call" => r.slot \in Slots /\ r.keys \in Keys /\ r.kind = r.slot[1]
    /\ r.pc \in {"insert", "call"} => r.held \in Client
    /\ r.pc \in Updates => r.op = "configure" /\ r.draft \in BackendConfiguration
    /\ r.pc \in Loops => r.op \in {"configure", "housekeep"}
    /\ r.pc = "test" => r.op = "housekeep"
    /\ r.pc \in AtKey => r.slot \in Slots

\* The calls that may still build a client.
Unbuilt == {p \in Procs : req[p].op = "call" /\ req[p].pc \in InOnce \cup {"lookup", "build"}}

TypeInv ==
    /\ TypeOK
    /\ req \in [Procs -> Request]
    /\ \A p \in Procs : Placed(req[p])
    /\ \A p \in Procs : At(p, "leaveOnce") => helper # Nil
    /\ \A s \in Slots : cache[s] # Nil => cache[s].id <= made
    /\ \A p \in Procs : req[p].held # Nil => req[p].held.id <= made
    /\ made + Cardinality(Unbuilt) <= MaxClients


\* A request starts with nothing.
LEMMA IdleTyped == Idle \in Request /\ Placed(Idle) /\ Idle.pc = "idle" /\ Idle.held = Nil
<1>1. <<>> \in Sweeps /\ 0 \in Times BY CacheAssumption DEF Sweeps, Times
<1>2. [s \in Slots |-> Nil] \in [Slots -> Client \cup {Nil}] OBVIOUS
<1> QED BY <1>1, <1>2 DEF Idle, Request, Placed, InOnce, Calls, Updates, Loops, AtKey

\* A step of a request is one of that request alone, and leaves it with what
\* its place asks for, but where the process dies of it.
LEMMA BeginPlaced ==
    ASSUME TypeInv, NEW p \in Procs, Begin(p)
    PROVE  /\ req' = [req EXCEPT ![p] = req'[p]]
           /\ req'[p] \in Request /\ Placed(req'[p])
           /\ At(p, "idle")
           /\ req'[p].held = Nil /\ ~At(p, "leaveOnce")'
           /\ p \in Unbuilt' => BeginCall(p) \/ p \in Unbuilt
           /\ UNCHANGED <<roleKeys, cfgEntry, memory, history, now>>
<1>1. req \in [Procs -> Request] /\ Placed(req[p]) BY DEF TypeInv
<1>2. TypeOK BY DEF TypeInv
<1>3. Idle \in Request /\ Idle.held = Nil BY IdleTyped
<1>4. At(p, "idle") /\ req[p] = Idle
  BY <1>1 DEF Begin, BeginToken, BeginCall, BeginHousekeeping, storeConfiguration, updateCert,
              resetCert, Change, At, Placed
<1>5. CASE BeginToken(p)
  <2>1. req' = [req EXCEPT ![p] = [Idle EXCEPT !.pc = "enterOnce"]]
    BY <1>1, <1>4, <1>5 DEF BeginToken
  <2>2. UNCHANGED <<roleKeys, cfgEntry, memory, history, now>> BY <1>5 DEF BeginToken
  <2>3. p \notin Unbuilt' BY <1>1, <1>4, <2>1 DEF Idle, Unbuilt
  <2> QED
    BY <1>1, <1>3, <1>4, <2>1, <2>2, <2>3
    DEF Request, Placed, Idle, At, InOnce, Calls, Updates, Loops, AtKey
<1>6. CASE BeginCall(p)
  <2>1. PICK s \in Slots, l \in {"lookup", "enterOnce"} :
           req' = [req EXCEPT ![p] = [Idle EXCEPT !.op = "call", !.pc = l, !.kind = s[1],
                                                  !.slot = s, !.keys = roleKeys[s[2]]]]
    BY <1>6 DEF BeginCall
  <2>2. s[1] \in Kinds /\ s[2] \in Roles BY DEF Slots
  <2>3. roleKeys[s[2]] \in Keys BY <1>2, <2>2 DEF TypeOK
  <2>4. UNCHANGED <<roleKeys, cfgEntry, memory, history, now>> BY <1>6 DEF BeginCall
  <2> DEFINE b == [Idle EXCEPT !.op = "call", !.pc = l, !.kind = s[1], !.slot = s,
                               !.keys = roleKeys[s[2]]]
  <2>5. /\ b.op = "call" /\ b.pc = l /\ b.kind = s[1] /\ b.slot = s /\ b.held = Nil
        /\ b.keys = roleKeys[s[2]]
    BY <1>3 DEF Idle
  <2>6. b \in Request BY <1>3, <2>1, <2>2, <2>3 DEF Request, Idle, InOnce, Calls
  <2>7. req' = [req EXCEPT ![p] = b] /\ req'[p] = b BY <1>1, <2>1
  <2> HIDE DEF b
  <2>8. Placed(b) BY <2>1, <2>3, <2>5 DEF Placed, InOnce, Calls, Updates, Loops, AtKey
  <2>9. ~At(p, "leaveOnce")' BY <2>5, <2>7 DEF At
  <2> QED BY <1>4, <1>6, <2>4, <2>5, <2>6, <2>7, <2>8, <2>9
<1>7. CASE BeginHousekeeping(p)
  <2>1. Sweep("housekeep") \in Sweeps BY DEF Sweep, Kinds, Sweeps
  <2>2. (IF now > httpIdle THEN now - httpIdle ELSE 0) \in Times
    BY <1>2, CacheAssumption DEF TypeOK, Times
  <2>3. PICK cut \in Times, rest \in Sweeps :
           req' = [req EXCEPT ![p] = [Idle EXCEPT !.op = "housekeep", !.pc = "range",
                                                  !.cutover = cut, !.rest = rest]]
    BY <1>1, <1>4, <1>7, <2>1, <2>2 DEF BeginHousekeeping
  <2>4. UNCHANGED <<roleKeys, cfgEntry, memory, history, now>> BY <1>7 DEF BeginHousekeeping
  <2>5. p \notin Unbuilt' BY <1>1, <1>4, <2>3 DEF Idle, Unbuilt
  <2>6. [Idle EXCEPT !.op = "housekeep", !.pc = "range", !.cutover = cut, !.rest = rest]
          \in Request
    BY <1>3 DEF Request, Loops, Idle
  <2>7. /\ req'[p] \in Request /\ req'[p].op = "housekeep" /\ req'[p].pc = "range"
        /\ req'[p].held = Nil /\ req' = [req EXCEPT ![p] = req'[p]]
    BY <1>1, <1>3, <2>3, <2>6 DEF Idle
  <2> QED
    BY <1>4, <2>4, <2>5, <2>7 DEF Placed, At, InOnce, Calls, Updates, Loops, AtKey
<1>8. ASSUME NEW fields \in SUBSET (ConfigFields \cup Chain), NEW draft \in BackendConfiguration,
             Change(p, fields, draft)
      PROVE  /\ req' = [req EXCEPT ![p] = req'[p]]
             /\ req'[p] \in Request /\ Placed(req'[p])
             /\ req'[p].held = Nil /\ ~At(p, "leaveOnce")'
             /\ p \notin Unbuilt'
             /\ UNCHANGED <<roleKeys, cfgEntry, memory, history, now>>
  BY <1>1, <1>3, <1>4, <1>8
  DEF Change, Request, Placed, Idle, At, InOnce, Calls, Updates, Loops, AtKey, Unbuilt
<1>9. cfgEntry \in BackendConfiguration BY <1>2 DEF TypeOK
<1>10. CASE storeConfiguration(p)
  <2>1. PICK d \in Settings : /\ parsesBackEndConfiguration(d)
                              /\ Change(p, DOMAIN d, parseBackEndConfiguration(d, cfgEntry))
    BY <1>10 DEF storeConfiguration
  <2>2. parseBackEndConfiguration(d, cfgEntry) \in BackendConfiguration
    BY <1>9, <2>1, SettingsTyped
  <2>3. DOMAIN d \subseteq ConfigFields BY CacheAssumption
  <2> QED BY <1>4, <1>8, <2>1, <2>2, <2>3
<1>11. CASE updateCert(p)
  <2>1. PICK x \in Pinned, d \in Pins :
           /\ parsesCertificatePin(d)
           /\ Change(p, {x}, [cfgEntry EXCEPT ![x] = parseCertificatePin(d, @)])
    BY <1>11 DEF updateCert
  <2>2. [cfgEntry EXCEPT ![x] = parseCertificatePin(d, @)] \in BackendConfiguration
    BY <1>9, <2>1, PinTyped
  <2>3. x \in Chain BY CacheAssumption
  <2> QED BY <1>4, <1>8, <2>1, <2>2, <2>3
<1>12. CASE resetCert(p)
  <2>1. PICK x \in Pinned : Change(p, {x}, [cfgEntry EXCEPT ![x] = resetCertificatePin])
    BY <1>12 DEF resetCert
  <2>2. [cfgEntry EXCEPT ![x] = resetCertificatePin] \in BackendConfiguration
    BY <1>9, PinTyped
  <2>3. x \in Chain BY CacheAssumption
  <2> QED BY <1>4, <1>8, <2>1, <2>2, <2>3
<1> QED BY <1>5, <1>6, <1>7, <1>10, <1>11, <1>12 DEF Begin

\* There is a client left for a call that is to build one, and what it builds
\* is one.
LEMMA BuildsClient ==
    ASSUME TypeInv, NEW p \in Procs, At(p, "build")
    PROVE  /\ NewClient(p) \in Client /\ NewClient(p).id = made + 1
           /\ made + 1 <= MaxClients
<1>1. p \in Unbuilt BY DEF TypeInv, Placed, At, Unbuilt, Calls
<1>2. IsFiniteSet(Unbuilt) /\ Cardinality(Unbuilt) \in Nat
  <2>1. IsFiniteSet(Procs) BY CacheAssumption
  <2>2. Unbuilt \subseteq Procs BY DEF Unbuilt
  <2> QED BY <2>1, <2>2, FS_Subset, FS_CardinalityType
<1>3. Cardinality(Unbuilt) # 0 BY <1>1, <1>2, FS_EmptySet
<1>4. made \in Nat /\ MaxClients \in Nat BY CacheAssumption DEF TypeInv, TypeOK
<1>5. made + 1 <= MaxClients BY <1>2, <1>3, <1>4 DEF TypeInv
<1>6. made + 1 \in 1..MaxClients BY <1>4, <1>5
<1>7. now \in 0..MaxTime BY CacheAssumption DEF TypeInv, TypeOK
<1>8. req[p].keys \in Keys BY DEF TypeInv, Placed, At, Calls
<1>9. EffectiveTLSConfiguration(cfg) \in TLSSettings /\ Nil \in TLSSettings
  BY ConnectionTyped DEF TypeInv, TypeOK, TLSSettings
<1>10. "" \in ConfigText BY ConfigTextAssumption
<1> QED BY <1>5, <1>6, <1>7, <1>8, <1>9, <1>10 DEF NewClient, Client

\* So does a step that goes on with a request.
LEMMA RunPlaced ==
    ASSUME TypeInv, NEW p \in Procs, Run(p), ~Die
    PROVE  /\ req' = [req EXCEPT ![p] = req'[p]]
           /\ req'[p] \in Request /\ Placed(req'[p])
<1>1. req \in [Procs -> Request] /\ Placed(req[p]) BY DEF TypeInv
<1>2. TypeOK BY DEF TypeInv
<1>3. Idle \in Request /\ Placed(Idle) BY IdleTyped
<1>4. cache \in [Slots -> Client \cup {Nil}] BY <1>2 DEF TypeOK
<1>5. ASSUME Finish(p)
      PROVE  /\ req' = [req EXCEPT ![p] = req'[p]]
             /\ req'[p] \in Request /\ Placed(req'[p])
  BY <1>1, <1>3, <1>5 DEF Finish
<1>6. ASSUME NEW l \in {"idle"} \cup Calls \cup InOnce \cup Updates \cup Loops, Step(p, l)
      PROVE  /\ req'[p] = [req[p] EXCEPT !.pc = l] /\ req'[p] \in Request
             /\ req' = [req EXCEPT ![p] = req'[p]]
  BY <1>1, <1>6 DEF Step, Request
<1>7. ASSUME HelperInHand(p), At(p, "enterOnce") \/ At(p, "leaveOnce")
      PROVE  /\ req' = [req EXCEPT ![p] = req'[p]]
             /\ req'[p] \in Request /\ Placed(req'[p])
  <2>1. CASE req[p].slot = Nil BY <1>5, <1>7, <2>1 DEF HelperInHand
  <2>2. CASE req[p].slot # Nil
    <3>1. Step(p, "lookup") BY <1>7, <2>2 DEF HelperInHand
    <3>2. "lookup" \in Calls BY DEF Calls
    <3>3. req[p].op = "call" BY <1>1, <1>7, <2>2 DEF Placed, At, InOnce
    <3> QED
      BY <1>1, <1>6, <3>1, <3>2, <3>3
      DEF Placed, At, InOnce, Calls, Updates, Loops, AtKey, Request
  <2> QED BY <2>1, <2>2
<1> DEFINE PCs == {"idle"} \cup Calls \cup InOnce \cup Updates \cup Loops
           r == req[p]
<1>8. r \in Request /\ Placed(r) BY <1>1
<1>9. ASSUME NEW l \in PCs, NEW h \in Client \cup {Nil},
             req' = [req EXCEPT ![p].pc = l, ![p].held = h]
      PROVE  /\ req'[p].pc = l /\ req'[p].held = h /\ req'[p].op = r.op
             /\ req'[p].slot = r.slot /\ req'[p].keys = r.keys /\ req'[p].kind = r.kind
             /\ req'[p] \in Request /\ req' = [req EXCEPT ![p] = req'[p]]
  <2> DEFINE r2 == [r EXCEPT !.pc = l, !.held = h]
  <2>1. r2 \in Request BY <1>8 DEF Request
  <2>2. /\ r2.pc = l /\ r2.held = h /\ r2.op = r.op
        /\ r2.slot = r.slot /\ r2.keys = r.keys /\ r2.kind = r.kind
    BY <1>8 DEF Request
  <2>3. req' = [req EXCEPT ![p] = r2] BY <1>1, <1>9
  <2> HIDE DEF r2
  <2> QED BY <1>1, <2>1, <2>2, <2>3
<1>10. r.slot \in Slots => cache[r.slot] \in Client \cup {Nil} BY <1>4
<1> HIDE DEF r, PCs
<1> USE DEF Placed, At, InOnce, Calls, Updates, Loops, AtKey
<1>11. /\ r = req[p]
       /\ {"call", "build", "insert", "remove", "next"} \subseteq PCs
  BY DEF r, PCs
<1>12. CASE EnterOnce(p)
  <2>1. CASE HelperInHand(p) BY <1>7, <1>12, <2>1 DEF EnterOnce
  <2>2. CASE Step(p, "buildHelper")
    <3>1. r.pc = "enterOnce" BY <1>11, <1>12 DEF EnterOnce
    <3> QED BY <1>6, <1>8, <1>11, <2>2, <3>1 DEF Request
  <2> QED BY <1>12, <2>1, <2>2 DEF EnterOnce
<1>13. CASE BuildHelper(p)
  <2>1. r.pc = "buildHelper" /\ Step(p, "leaveOnce") BY <1>11, <1>13 DEF BuildHelper
  <2> QED BY <1>6, <1>8, <1>11, <2>1 DEF Request
<1>14. CASE LeaveOnce(p) BY <1>7, <1>14 DEF LeaveOnce
<1>15. CASE Lookup(p)
  <2>1. /\ r.pc = "lookup" /\ r.slot \in Slots
        /\ req' = [req EXCEPT ![p].pc = IF cache[r.slot] # Nil THEN "call" ELSE "build",
                              ![p].held = cache[r.slot]]
    BY <1>8, <1>11, <1>15 DEF Lookup
  <2>2. CASE cache[r.slot] # Nil
    <3>1. req' = [req EXCEPT ![p].pc = "call", ![p].held = cache[r.slot]] BY <2>1, <2>2
    <3>2. /\ req'[p].pc = "call" /\ req'[p].held = cache[r.slot] /\ req'[p].op = r.op
          /\ req'[p].slot = r.slot /\ req'[p].keys = r.keys /\ req'[p].kind = r.kind
          /\ req'[p] \in Request /\ req' = [req EXCEPT ![p] = req'[p]]
      BY <1>9, <1>10, <1>11, <2>1, <3>1
    <3> QED BY <1>8, <1>10, <2>1, <2>2, <3>2
  <2>3. CASE cache[r.slot] = Nil
    <3>1. req' = [req EXCEPT ![p].pc = "build", ![p].held = Nil] BY <2>1, <2>3
    <3>2. /\ req'[p].pc = "build" /\ req'[p].held = Nil /\ req'[p].op = r.op
          /\ req'[p].slot = r.slot /\ req'[p].keys = r.keys /\ req'[p].kind = r.kind
          /\ req'[p] \in Request /\ req' = [req EXCEPT ![p] = req'[p]]
      BY <1>9, <1>11, <3>1
    <3> QED BY <1>8, <1>10, <2>1, <2>3, <3>2
  <2> QED BY <2>2, <2>3
<1>16. CASE Build(p)
  <2>1. r.pc = "build" /\ req' = [req EXCEPT ![p].pc = "insert", ![p].held = NewClient(p)]
    BY <1>11, <1>16 DEF Build
  <2>2. NewClient(p) \in Client BY <1>11, <2>1, BuildsClient
  <2>3. /\ req'[p].pc = "insert" /\ req'[p].held = NewClient(p) /\ req'[p].op = r.op
          /\ req'[p].slot = r.slot /\ req'[p].keys = r.keys /\ req'[p].kind = r.kind
          /\ req'[p] \in Request /\ req' = [req EXCEPT ![p] = req'[p]]
    BY <1>9, <1>11, <2>1, <2>2
  <2> QED BY <1>8, <2>1, <2>2, <2>3
<1>17. CASE Insert(p)
  <2>1. r.pc = "insert" /\ Step(p, "call") BY <1>11, <1>17 DEF Insert
  <2> QED BY <1>6, <1>8, <1>11, <2>1 DEF Request
<1>18. CASE Call(p) BY <1>5, <1>18 DEF Call
<1>19. CASE SaveConfig(p)
  <2>1. CASE Finish(p) BY <1>5, <2>1
  <2>2. CASE Step(p, "accept")
    <3>1. r.pc = "saveConfig" BY <1>11, <1>19 DEF SaveConfig
    <3> QED BY <1>6, <1>8, <1>11, <2>2, <3>1 DEF Request
  <2> QED BY <1>19, <2>1, <2>2 DEF SaveConfig
<1>20. CASE AcceptConfigurationUpdate(p)
  <2>1. r.pc = "accept" /\ Step(p, "resetOnce") BY <1>11, <1>20 DEF AcceptConfigurationUpdate
  <2> QED BY <1>6, <1>8, <1>11, <2>1 DEF Request
<1>21. CASE ResetOnce(p)
  <2>1. PICK rest \in Sweeps : req' = [req EXCEPT ![p].pc = "range", ![p].rest = rest]
    <3>1. Sweep("configure") \in Sweeps BY DEF Sweep, Kinds, Sweeps
    <3> QED BY <1>21, <3>1 DEF ResetOnce
  <2>2. [r EXCEPT !.pc = "range", !.rest = rest] \in Request BY <1>8 DEF Request
  <2>3. req' = [req EXCEPT ![p] = [r EXCEPT !.pc = "range", !.rest = rest]]
    BY <1>1, <1>11, <2>1
  <2>4. r.pc = "resetOnce" BY <1>11, <1>21 DEF ResetOnce
  <2> QED BY <1>1, <1>8, <2>2, <2>3, <2>4 DEF Request
<1>22. CASE RangeOver(p)
  <2>1. CASE req[p].rest = <<>> BY <1>5, <1>22, <2>1 DEF RangeOver
  <2>2. CASE req[p].rest # <<>>
    <3>1. PICK k \in Kinds, rest \in Sweeps, todo \in SUBSET Slots :
             req' = [req EXCEPT ![p].pc = "next", ![p].kind = k, ![p].rest = rest,
                                ![p].due = cache, ![p].todo = todo]
      <4>1. req[p].rest \in Seq(Kinds) BY <1>1 DEF Request, Sweeps
      <4>2. Head(req[p].rest) \in Kinds /\ Tail(req[p].rest) \in Sweeps
        BY <2>2, <4>1 DEF Sweeps
      <4>3. \A k : {s \in Slots : s[1] = k} \in SUBSET Slots OBVIOUS
      <4> QED BY <1>22, <2>2, <4>2, <4>3 DEF RangeOver
    <3> DEFINE r2 == [r EXCEPT !.pc = "next", !.kind = k, !.rest = rest,
                               !.due = cache, !.todo = todo]
    <3>2. r2 \in Request BY <1>4, <1>8 DEF Request
    <3>3. r2.pc = "next" /\ r2.op = r.op /\ r.pc = "range"
      BY <1>8, <1>11, <1>22 DEF RangeOver, Request
    <3>4. req' = [req EXCEPT ![p] = r2] BY <1>1, <1>11, <3>1
    <3> HIDE DEF r2
    <3> QED BY <1>1, <1>8, <3>2, <3>3, <3>4
  <2> QED BY <2>1, <2>2
<1>23. CASE NextKey(p)
  <2>0. r.pc = "next" BY <1>11, <1>23 DEF NextKey
  <2>1. CASE Step(p, "range") BY <1>6, <1>8, <1>11, <2>0, <2>1 DEF Request
  <2>2. CASE \E s \in {t \in req[p].todo : cache[t] # Nil} :
               req' = [req EXCEPT ![p].slot = s, ![p].todo = @ \ {s},
                         ![p].pc = IF req[p].op = "housekeep" THEN "test" ELSE "take"]
    <3>1. r.todo \subseteq Slots BY <1>8 DEF Request
    <3>2. PICK s \in Slots, todo \in SUBSET Slots, l \in {"test", "take"} :
             /\ req' = [req EXCEPT ![p].slot = s, ![p].todo = todo, ![p].pc = l]
             /\ l = "test" => r.op = "housekeep"
      BY <1>11, <2>2, <3>1
    <3> DEFINE r2 == [r EXCEPT !.slot = s, !.todo = todo, !.pc = l]
    <3>3. r2 \in Request BY <1>8 DEF Request
    <3>4. r2.pc = l /\ r2.op = r.op /\ r2.slot = s BY <1>8 DEF Request
    <3>5. req' = [req EXCEPT ![p] = r2] BY <1>1, <1>11, <3>2
    <3> HIDE DEF r2
    <3> QED BY <1>1, <1>8, <2>0, <3>2, <3>3, <3>4, <3>5
  <2> QED BY <1>23, <2>1, <2>2 DEF NextKey
<1>24. CASE TestIdle(p)
  <2>1. r.pc = "test" /\ (Step(p, "next") \/ Step(p, "take")) BY <1>11, <1>24 DEF TestIdle
  <2> QED BY <1>6, <1>8, <1>11, <2>1 DEF Request
<1>25. CASE Take(p)
  <2>1. /\ r.pc = "take" /\ r.slot \in Slots
        /\ req' = [req EXCEPT ![p].pc = "remove", ![p].held = cache[r.slot]]
    BY <1>8, <1>11, <1>25 DEF Take
  <2>2. /\ req'[p].pc = "remove" /\ req'[p].op = r.op
        /\ req'[p].slot = r.slot /\ req'[p].keys = r.keys /\ req'[p].kind = r.kind
        /\ req'[p] \in Request /\ req' = [req EXCEPT ![p] = req'[p]]
    BY <1>9, <1>10, <1>11, <2>1
  <2> QED BY <1>8, <2>1, <2>2
<1>26. CASE Remove(p)
  <2>1. r.pc = "remove" /\ Step(p, "close") BY <1>11, <1>26 DEF Remove
  <2> QED BY <1>6, <1>8, <1>11, <2>1 DEF Request
<1>27. CASE Close(p)
  <2>1. r.pc = "close" /\ req' = [req EXCEPT ![p].pc = "next", ![p].held = Nil]
    BY <1>11, <1>27 DEF Close
  <2>2. /\ req'[p].pc = "next" /\ req'[p].held = Nil /\ req'[p].op = r.op
          /\ req'[p].slot = r.slot /\ req'[p].keys = r.keys /\ req'[p].kind = r.kind
          /\ req'[p] \in Request /\ req' = [req EXCEPT ![p] = req'[p]]
    BY <1>9, <1>11, <2>1
  <2> QED BY <1>8, <2>1, <2>2
<1> QED
  BY <1>12, <1>13, <1>14, <1>15, <1>16, <1>17, <1>18, <1>19, <1>20, <1>21, <1>22, <1>23, <1>24,
     <1>25, <1>26, <1>27 DEF Run

\* The client a request holds is the one it held, the one in its slot or the
\* one it builds; and it is only to build one if it was before.
LEMMA RunHolds ==
    ASSUME TypeInv, NEW p \in Procs, Run(p), ~Die
    PROVE  /\ \/ req'[p].held \in {Nil, req[p].held}
              \/ req[p].slot \in Slots /\ req'[p].held = cache[req[p].slot]
              \/ Build(p) /\ req'[p].held = NewClient(p)
           /\ At(p, "leaveOnce")' => BuildHelper(p)
           /\ p \in Unbuilt' => p \in Unbuilt /\ ~At(p, "build")
<1> DEFINE r == req[p]
           r2 == req'[p]
           Goal == /\ \/ r2.held \in {Nil, r.held}
                      \/ r.slot \in Slots /\ r2.held = cache[r.slot]
                      \/ Build(p) /\ r2.held = NewClient(p)
                   /\ r2.pc = "leaveOnce" => BuildHelper(p)
                   /\ r2.op = "call" /\ r2.pc \in InOnce \cup {"lookup", "build"} =>
                        r.op = "call" /\ r.pc \in InOnce \cup {"lookup"}
<1>1. req \in [Procs -> Request] /\ r \in Request /\ Placed(r) BY DEF TypeInv
<1>2. ASSUME Finish(p) PROVE Goal
  <2>1. r2 = Idle BY <1>1, <1>2 DEF Finish
  <2> HIDE DEF r2
  <2> QED BY <2>1 DEF Idle
<1>3. ASSUME NEW l, Step(p, l)
      PROVE  r2.pc = l /\ r2.op = r.op /\ r2.held = r.held
  BY <1>1, <1>3 DEF Step, Request
<1> USE DEF Placed, At, InOnce, Calls, Updates, Loops, AtKey
<1>4. ASSUME HelperInHand(p), At(p, "enterOnce") \/ At(p, "leaveOnce") PROVE Goal
  BY <1>1, <1>2, <1>3, <1>4 DEF HelperInHand
<1>5. ASSUME EnterOnce(p) PROVE Goal BY <1>1, <1>3, <1>4, <1>5 DEF EnterOnce
<1>6. ASSUME BuildHelper(p) PROVE Goal BY <1>1, <1>3, <1>6 DEF BuildHelper
<1>7. ASSUME LeaveOnce(p) PROVE Goal BY <1>4, <1>7 DEF LeaveOnce
<1>8. ASSUME Lookup(p) PROVE Goal
  BY <1>1, <1>8 DEF Lookup, Request
<1>9. ASSUME Build(p) PROVE Goal
  <2>1. r2.held = NewClient(p) /\ r2.pc = "insert" BY <1>1, <1>9 DEF Build, Request
  <2> QED BY <1>9, <2>1
<1>10. ASSUME Insert(p) PROVE Goal BY <1>3, <1>10 DEF Insert
<1>11. ASSUME Call(p) PROVE Goal BY <1>2, <1>11 DEF Call
<1>12. ASSUME SaveConfig(p) PROVE Goal BY <1>2, <1>3, <1>12 DEF SaveConfig
<1>13. ASSUME AcceptConfigurationUpdate(p) PROVE Goal BY <1>3, <1>13 DEF AcceptConfigurationUpdate
<1>14. ASSUME ResetOnce(p) PROVE Goal
  <2>1. r2.held = r.held /\ r2.pc = "range" BY <1>1, <1>14 DEF ResetOnce, Request
  <2> QED BY <2>1
<1>15. ASSUME RangeOver(p) PROVE Goal
  <2>1. ASSUME req[p].rest = <<>> PROVE Goal BY <1>2, <1>15, <2>1 DEF RangeOver
  <2>2. ASSUME req[p].rest # <<>> PROVE Goal
    <3>1. r2.held = r.held /\ r2.pc = "next" BY <1>1, <1>15, <2>2 DEF RangeOver, Request
    <3> QED BY <3>1
  <2> QED BY <2>1, <2>2
<1>16. ASSUME NextKey(p) PROVE Goal
  <2>1. r2.held = r.held /\ r2.pc \in {"range", "test", "take"}
    <3>1. CASE Step(p, "range") BY <1>3, <3>1
    <3>2. CASE \E t \in {u \in req[p].todo : cache[u] # Nil} :
                 req' = [req EXCEPT ![p].slot = t, ![p].todo = @ \ {t},
                           ![p].pc = IF req[p].op = "housekeep" THEN "test" ELSE "take"]
      BY <1>1, <3>2 DEF Request
    <3> QED BY <1>16, <3>1, <3>2 DEF NextKey
  <2> QED BY <2>1
<1>17. ASSUME TestIdle(p) PROVE Goal BY <1>3, <1>17 DEF TestIdle
<1>18. ASSUME Take(p) PROVE Goal
  <2>1. r2.held = cache[r.slot] /\ r2.pc = "remove" /\ r.slot \in Slots
    BY <1>1, <1>18 DEF Take, Request
  <2> QED BY <2>1
<1>19. ASSUME Remove(p) PROVE Goal BY <1>3, <1>19 DEF Remove
<1>20. ASSUME Close(p) PROVE Goal
  <2>1. r2.held = Nil /\ r2.pc = "next" BY <1>1, <1>20 DEF Close, Request
  <2> QED BY <2>1
<1>21. Goal
  BY <1>5, <1>6, <1>7, <1>8, <1>9, <1>10, <1>11, <1>12, <1>13, <1>14, <1>15, <1>16, <1>17,
     <1>18, <1>19, <1>20 DEF Run
<1> QED BY <1>21 DEF Unbuilt

\* The variables but for the requests.
VarsTyped ==
    /\ now \in 1..MaxTime
    /\ roleKeys \in [Roles -> Keys]
    /\ cfgEntry \in BackendConfiguration /\ cfg \in BackendConfiguration
    /\ once \in {"fresh", "done"} \cup Procs
    /\ helper \in Connections \cup {Nil}
    /\ once = "done" => helper # Nil
    /\ cache \in [Slots -> Client \cup {Nil}]
    /\ made \in 0..MaxClients /\ closed \subseteq 1..made
    /\ called \in [Slots -> 0..MaxTime]
    /\ \A s \in Slots : cache[s] # Nil => cache[s].id <= made

\* What a step of a request does to them, and to the clients made.
LEMMA RunVars ==
    ASSUME TypeInv, NEW p \in Procs, Run(p), ~Die
    PROVE  /\ VarsTyped'
           /\ helper' = helper \/ helper' # Nil
           /\ BuildHelper(p) => helper' # Nil
           /\ made' = IF At(p, "build") THEN made + 1 ELSE made
<1> DEFINE Goal == /\ VarsTyped'
                   /\ helper' = helper \/ helper' # Nil
                   /\ BuildHelper(p) => helper' # Nil
                   /\ made' = IF At(p, "build") THEN made + 1 ELSE made
<1>1. TypeOK /\ VarsTyped BY DEF TypeInv, TypeOK, VarsTyped
<1>2. req[p] \in Request /\ Placed(req[p]) BY DEF TypeInv
<1>3. req[p].held # Nil => req[p].held.id <= made BY DEF TypeInv
<1>4. ASSUME UNCHANGED <<now, roleKeys, cfgEntry, memory, history>>, ~At(p, "build"),
             ~At(p, "buildHelper")
      PROVE Goal
  <2>1. VarsTyped' BY <1>1, <1>4 DEF VarsTyped, memory, history
  <2>2. ~BuildHelper(p) BY <1>4 DEF BuildHelper
  <2>3. helper' = helper /\ made' = made BY <1>4 DEF memory, history
  <2> QED BY <1>4, <2>1, <2>2, <2>3
<1>5. ASSUME EnterOnce(p) PROVE Goal
  <2>1. once' \in {once, p} /\ (once' = "done" => once = "done")
    BY <1>5, CacheAssumption DEF EnterOnce
  <2>2. UNCHANGED <<now, roleKeys, cfgEntry, cfg, helper, cache, made, closed, called>>
    BY <1>5 DEF EnterOnce, history
  <2>3. VarsTyped' BY <1>1, <2>1, <2>2 DEF VarsTyped
  <2> QED BY <1>5, <2>2, <2>3 DEF EnterOnce, BuildHelper, At
<1>6. ASSUME BuildHelper(p) PROVE Goal
  <2>1. helper' = Connection(cfg)
        /\ UNCHANGED <<now, roleKeys, cfgEntry, cfg, once, cache, made, closed, called>>
    BY <1>6 DEF BuildHelper, history
  <2>2. helper' \in Connections BY <1>1, <2>1, ConnectionTyped DEF VarsTyped
  <2>3. helper' # Nil BY <2>2, NilAssumption
  <2>4. VarsTyped' BY <1>1, <2>1, <2>2, <2>3 DEF VarsTyped
  <2> QED BY <1>6, <2>1, <2>3, <2>4 DEF BuildHelper, At
<1>7. ASSUME LeaveOnce(p) PROVE Goal
  <2>1. helper # Nil BY <1>7 DEF TypeInv, LeaveOnce
  <2>2. once' = "done"
        /\ UNCHANGED <<now, roleKeys, cfgEntry, cfg, helper, cache, made, closed, called>>
    BY <1>7 DEF LeaveOnce, history
  <2>3. VarsTyped' BY <1>1, <2>1, <2>2 DEF VarsTyped
  <2> QED BY <1>7, <2>2, <2>3 DEF LeaveOnce, BuildHelper, At
<1>8. ASSUME Lookup(p) PROVE Goal BY <1>4, <1>8 DEF Lookup, At
<1>9. ASSUME Build(p) PROVE Goal
  <2>1. At(p, "build") /\ made' = made + 1
        /\ UNCHANGED <<now, roleKeys, cfgEntry, memory, closed, called>>
    BY <1>9 DEF Build
  <2>2. made + 1 <= MaxClients BY <2>1, BuildsClient
  <2>3. made \in Nat /\ MaxClients \in Nat BY <1>1, CacheAssumption DEF VarsTyped
  <2>4. made' \in 0..MaxClients /\ closed' \subseteq 1..made'
    BY <1>1, <2>1, <2>2, <2>3 DEF VarsTyped
  <2>5. ASSUME NEW s \in Slots, cache[s] # Nil PROVE cache[s].id <= made'
    BY <1>1, <2>1, <2>3, <2>5 DEF VarsTyped, Client
  <2>6. VarsTyped' BY <1>1, <2>1, <2>4, <2>5 DEF VarsTyped, memory
  <2> QED BY <2>1, <2>6 DEF BuildHelper, At, memory
<1>10. ASSUME Insert(p) PROVE Goal
  <2>1. /\ At(p, "insert") /\ cache' = [cache EXCEPT ![req[p].slot] = req[p].held]
        /\ UNCHANGED <<now, roleKeys, cfgEntry, cfg, once, helper, made, closed, called>>
    BY <1>10 DEF Insert, history
  <2>2. req[p].held \in Client BY <1>2, <2>1 DEF Placed, At
  <2>3. cache' \in [Slots -> Client \cup {Nil}] BY <1>1, <2>1, <2>2 DEF VarsTyped
  <2>4. \A s \in Slots : cache'[s] # Nil => cache'[s].id <= made
    BY <1>1, <1>3, <2>1 DEF VarsTyped
  <2>5. VarsTyped' BY <1>1, <2>1, <2>3, <2>4 DEF VarsTyped
  <2> QED BY <2>1, <2>5 DEF BuildHelper, At
<1>11. ASSUME Call(p) PROVE Goal
  <2>1. /\ At(p, "call") /\ called' = [called EXCEPT ![req[p].slot] = now]
        /\ UNCHANGED <<now, roleKeys, cfgEntry, memory, made, closed>>
    BY <1>11 DEF Call
  <2>2. now \in 0..MaxTime BY <1>1, CacheAssumption DEF VarsTyped
  <2>3. called' \in [Slots -> 0..MaxTime] BY <1>1, <2>1, <2>2 DEF VarsTyped
  <2>4. VarsTyped' BY <1>1, <2>1, <2>3 DEF VarsTyped, memory
  <2> QED BY <2>1, <2>4 DEF BuildHelper, At, memory
<1>12. ASSUME SaveConfig(p) PROVE Goal
  <2>1. /\ At(p, "saveConfig") /\ cfgEntry' \in {cfgEntry, req[p].draft}
        /\ UNCHANGED <<now, roleKeys, memory, history>>
    BY <1>12 DEF SaveConfig
  <2>2. cfgEntry' \in BackendConfiguration BY <1>1, <1>2, <2>1 DEF VarsTyped, Placed, At, Updates
  <2>3. VarsTyped' BY <1>1, <2>1, <2>2 DEF VarsTyped, memory, history
  <2> QED BY <2>1, <2>3 DEF BuildHelper, At, memory, history
<1>13. ASSUME AcceptConfigurationUpdate(p) PROVE Goal
  <2>1. /\ At(p, "accept") /\ cfg' = req[p].draft
        /\ UNCHANGED <<now, roleKeys, cfgEntry, once, helper, cache, made, closed, called>>
    BY <1>13 DEF AcceptConfigurationUpdate, history
  <2>2. cfg' \in BackendConfiguration BY <1>2, <2>1 DEF Placed, At, Updates
  <2>3. VarsTyped' BY <1>1, <2>1, <2>2 DEF VarsTyped
  <2> QED BY <2>1, <2>3 DEF BuildHelper, At
<1>14. ASSUME ResetOnce(p) PROVE Goal
  <2>1. /\ At(p, "resetOnce") /\ once' = "fresh"
        /\ UNCHANGED <<now, roleKeys, cfgEntry, cfg, helper, cache, made, closed, called>>
    BY <1>14 DEF ResetOnce, history
  <2>2. VarsTyped' BY <1>1, <2>1 DEF VarsTyped
  <2> QED BY <2>1, <2>2 DEF BuildHelper, At
<1>15. ASSUME RangeOver(p) PROVE Goal BY <1>4, <1>15 DEF RangeOver, At
<1>16. ASSUME NextKey(p) PROVE Goal BY <1>4, <1>16 DEF NextKey, At
<1>17. ASSUME TestIdle(p) PROVE Goal BY <1>4, <1>17 DEF TestIdle, At
<1>18. ASSUME Take(p) PROVE Goal BY <1>4, <1>18 DEF Take, At
<1>19. ASSUME Remove(p) PROVE Goal
  <2>1. /\ At(p, "remove") /\ cache' = [cache EXCEPT ![req[p].slot] = Nil]
        /\ UNCHANGED <<now, roleKeys, cfgEntry, cfg, once, helper, made, closed, called>>
    BY <1>19 DEF Remove, history
  <2>2. cache' \in [Slots -> Client \cup {Nil}] BY <1>1, <2>1 DEF VarsTyped
  <2>3. \A s \in Slots : cache'[s] # Nil => cache'[s].id <= made
    BY <1>1, <2>1 DEF VarsTyped
  <2>4. VarsTyped' BY <1>1, <2>1, <2>2, <2>3 DEF VarsTyped
  <2> QED BY <2>1, <2>4 DEF BuildHelper, At
<1>20. ASSUME Close(p) PROVE Goal
  <2>1. /\ At(p, "close") /\ req[p].held # Nil /\ closed' = closed \cup {req[p].held.id}
        /\ UNCHANGED <<now, roleKeys, cfgEntry, memory, made, called>>
    BY <1>20 DEF Close
  <2>2. req[p].held.id \in 1..made
    <3>1. req[p].held \in Client BY <1>2, <2>1 DEF Request
    <3>2. req[p].held.id \in 1..MaxClients BY <3>1 DEF Client
    <3> QED BY <1>1, <1>3, <2>1, <3>2, CacheAssumption DEF VarsTyped
  <2>3. closed' \subseteq 1..made BY <1>1, <2>1, <2>2 DEF VarsTyped
  <2>4. VarsTyped' BY <1>1, <2>1, <2>3 DEF VarsTyped, memory
  <2> QED BY <2>1, <2>4 DEF BuildHelper, At, memory
<1>21. Goal
  BY <1>5, <1>6, <1>7, <1>8, <1>9, <1>10, <1>11, <1>12, <1>13, <1>14, <1>15, <1>16, <1>17,
     <1>18, <1>19, <1>20 DEF Run
<1> QED BY <1>21

\* Of the clients there may be, each call that is to build one has one left.
LEMMA BudgetKept ==
    ASSUME TypeInv, NEW p \in Procs, req' \in [Procs -> Request],
           \A q \in Procs \ {p} : req'[q] = req[q],
           \/ made' = made /\ (p \in Unbuilt' => p \in Unbuilt)
           \/ made' = made /\ BeginCall(p)
           \/ made' = made + 1 /\ p \in Unbuilt /\ p \notin Unbuilt'
    PROVE  made' + Cardinality(Unbuilt') <= MaxClients
<1>1. IsFiniteSet(Procs) /\ MaxClients \in Nat BY CacheAssumption
<1>2. Unbuilt \subseteq Calling /\ Calling \subseteq Procs BY DEF Unbuilt, Calling
<1>3. IsFiniteSet(Unbuilt) /\ IsFiniteSet(Calling) BY <1>1, <1>2, FS_Subset
<1>4. /\ Cardinality(Unbuilt) \in Nat /\ Cardinality(Calling) \in Nat
      /\ Cardinality(Unbuilt) <= Cardinality(Calling)
  BY <1>2, <1>3, FS_CardinalityType, FS_Subset
<1>5. made \in Nat /\ made + Cardinality(Unbuilt) <= MaxClients
  BY DEF TypeInv, TypeOK
<1>6. Unbuilt' \subseteq Unbuilt \cup {p} /\ Unbuilt \ {p} = Unbuilt' \ {p} BY DEF Unbuilt
<1>7. CASE made' = made /\ (p \in Unbuilt' => p \in Unbuilt)
  <2>1. Unbuilt' \subseteq Unbuilt BY <1>6, <1>7
  <2>2. Cardinality(Unbuilt') <= Cardinality(Unbuilt) /\ Cardinality(Unbuilt') \in Nat
    BY <1>3, <2>1, FS_Subset, FS_CardinalityType
  <2> QED BY <1>1, <1>4, <1>5, <1>7, <2>2
<1>8. CASE made' = made /\ BeginCall(p)
  <2>1. made + Cardinality(Calling) < MaxClients BY <1>8 DEF BeginCall
  <2>2. /\ IsFiniteSet(Unbuilt \cup {p})
        /\ Cardinality(Unbuilt \cup {p}) =
             IF p \in Unbuilt THEN Cardinality(Unbuilt) ELSE Cardinality(Unbuilt) + 1
    BY <1>3, FS_AddElement, Zenon
  <2>3. Cardinality(Unbuilt') <= Cardinality(Unbuilt) + 1 /\ Cardinality(Unbuilt') \in Nat
    BY <1>4, <1>6, <2>2, FS_Subset, FS_CardinalityType
  <2> QED BY <1>1, <1>4, <1>5, <1>8, <2>1, <2>3
<1>9. CASE made' = made + 1 /\ p \in Unbuilt /\ p \notin Unbuilt'
  <2>1. Unbuilt' = Unbuilt \ {p} BY <1>6, <1>9
  <2>2. Cardinality(Unbuilt') = Cardinality(Unbuilt) - 1 BY <1>3, <1>9, <2>1, FS_RemoveElement
  <2> QED BY <1>4, <1>5, <1>9, <2>2
<1> QED BY <1>7, <1>8, <1>9

\* A process that starts again has nothing but what is stored.
LEMMA DeadTyped == TypeInv /\ Die => TypeInv'
<1> SUFFICES ASSUME TypeInv, Die PROVE TypeInv' OBVIOUS
<1>1. Idle \in Request /\ Placed(Idle) /\ Idle.pc = "idle" /\ Idle.held = Nil BY IdleTyped
<1>2. req' = [p \in Procs |-> Idle] BY DEF Die
<1>3. req' \in [Procs -> Request] BY <1>1, <1>2
<1>4. \A p \in Procs : req'[p] = Idle BY <1>2
<1>5. TypeOK'
  BY <1>1, <1>4 DEF TypeInv, TypeOK, Die, At
<1>6. Unbuilt' = {} BY <1>4 DEF Unbuilt, Idle
<1>7. made' + Cardinality(Unbuilt') <= MaxClients
  <2>1. Cardinality(Unbuilt') = 0 BY <1>6, FS_EmptySet
  <2>2. made' = made /\ made \in 0..MaxClients /\ MaxClients \in Nat
    BY CacheAssumption DEF TypeInv, TypeOK, Die
  <2>3. made + 0 <= MaxClients BY <2>2
  <2> QED BY <2>1, <2>2, <2>3
<1>8. \A s \in Slots : cache'[s] = Nil BY DEF Die
<1> QED BY <1>1, <1>3, <1>4, <1>5, <1>7, <1>8 DEF TypeInv, At

\* A step of a request keeps the types, and leaves the other requests alone.
LEMMA MoveTyped ==
    ASSUME TypeInv, NEW p \in Procs, Begin(p) \/ Run(p), ~Die
    PROVE  TypeInv' /\ \A q \in Procs \ {p} : req'[q] = req[q]
<1>1. TypeOK /\ req \in [Procs -> Request] /\ VarsTyped
      /\ \A q \in Procs : Placed(req[q])
  BY DEF TypeInv, TypeOK, VarsTyped
<1>2. /\ req' = [req EXCEPT ![p] = req'[p]]
      /\ req'[p] \in Request /\ Placed(req'[p])
  BY BeginPlaced, RunPlaced
<1>3. /\ req' \in [Procs -> Request] /\ \A q \in Procs \ {p} : req'[q] = req[q]
      /\ \A q \in Procs : Placed(req'[q])
  BY <1>1, <1>2
<1>4. /\ VarsTyped'
      /\ \/ made' = made /\ (p \in Unbuilt' => p \in Unbuilt)
         \/ made' = made /\ BeginCall(p)
         \/ made' = made + 1 /\ p \in Unbuilt /\ p \notin Unbuilt'
      /\ At(p, "leaveOnce")' => helper' # Nil
      /\ helper' = helper \/ helper' # Nil
      /\ req'[p].held # Nil => req'[p].held.id <= made'
      /\ made <= made'
  <2>1. CASE Begin(p)
    <3>1. VarsTyped' BY <1>1, <2>1, BeginPlaced DEF VarsTyped, memory, history
    <3>2. made \in Nat BY <1>1 DEF TypeOK
    <3> QED BY <2>1, <3>1, <3>2, BeginPlaced DEF memory, history
  <2>2. CASE Run(p)
    <3>1. /\ VarsTyped' /\ (helper' = helper \/ helper' # Nil)
          /\ BuildHelper(p) => helper' # Nil
          /\ made' = IF At(p, "build") THEN made + 1 ELSE made
      BY <2>2, RunVars
    <3>2. /\ \/ req'[p].held \in {Nil, req[p].held}
             \/ req[p].slot \in Slots /\ req'[p].held = cache[req[p].slot]
             \/ Build(p) /\ req'[p].held = NewClient(p)
          /\ At(p, "leaveOnce")' => BuildHelper(p)
          /\ p \in Unbuilt' => p \in Unbuilt /\ ~At(p, "build")
      BY <2>2, RunHolds
    <3>3. made \in Nat BY <1>1 DEF TypeOK
    <3>4. At(p, "build") => p \in Unbuilt BY <1>1 DEF Placed, At, Unbuilt, Calls
    <3>5. req'[p].held # Nil => req'[p].held.id <= made'
      <4>1. CASE req'[p].held \in {Nil, req[p].held}
        <5>1. req[p].held # Nil => req[p].held.id <= made /\ req[p].held.id \in Nat
          BY <1>1 DEF TypeInv, Request, Client
        <5> QED BY <3>1, <3>3, <4>1, <5>1
      <4>2. CASE req[p].slot \in Slots /\ req'[p].held = cache[req[p].slot]
        <5>1. cache[req[p].slot] # Nil =>
                 cache[req[p].slot].id <= made /\ cache[req[p].slot].id \in Nat
          BY <1>1, <4>2 DEF VarsTyped, Client
        <5> QED BY <3>1, <3>3, <4>2, <5>1
      <4>3. CASE Build(p) /\ req'[p].held = NewClient(p)
        <5>1. NewClient(p).id = made + 1 /\ At(p, "build") BY <4>3, BuildsClient DEF Build
        <5> QED BY <3>1, <3>3, <4>3, <5>1
      <4> QED BY <3>2, <4>1, <4>2, <4>3
    <3> QED BY <3>1, <3>2, <3>3, <3>4, <3>5
  <2> QED BY <2>1, <2>2
<1>5. made' + Cardinality(Unbuilt') <= MaxClients
  BY <1>3, <1>4, BudgetKept
<1>6. \A q \in Procs : At(q, "leaveOnce")' => helper' # Nil
  BY <1>3, <1>4 DEF At, TypeInv
<1>7. \A q \in Procs : req'[q].held # Nil => req'[q].held.id <= made'
  <2>1. \A q \in Procs : req[q].held # Nil => req[q].held.id <= made /\ req[q].held.id \in Nat
    BY <1>1 DEF TypeInv, Request, Client
  <2>2. made \in Nat /\ made' \in Nat BY <1>1, <1>4 DEF TypeOK, VarsTyped
  <2> QED BY <1>3, <1>4, <2>1, <2>2
<1>8. TypeOK'
  <2>1. \A q \in Procs : At(q, "call")' => req'[q].held \in Client BY <1>3 DEF Placed, At
  <2> QED BY <1>4, <2>1 DEF VarsTyped, TypeOK
<1> QED BY <1>3, <1>4, <1>5, <1>6, <1>7, <1>8 DEF TypeInv, VarsTyped

\* So does every step.
LEMMA NextTyped == TypeInv /\ [Next]_vars => TypeInv'
<1> SUFFICES ASSUME TypeInv, [Next]_vars PROVE TypeInv' OBVIOUS
<1>1. CASE Die BY <1>1, DeadTyped
<1>2. ASSUME UNCHANGED <<cfgEntry, memory, req, history>>, now' \in 1..MaxTime,
             roleKeys' \in [Roles -> Keys]
      PROVE  TypeInv'
  <2>1. Unbuilt' = Unbuilt BY <1>2 DEF Unbuilt
  <2> QED BY <1>2, <2>1 DEF TypeInv, TypeOK, memory, history, At
<1>3. now \in 1..MaxTime /\ roleKeys \in [Roles -> Keys] BY DEF TypeInv, TypeOK
<1>4. ASSUME NEW p \in Procs, Begin(p) \/ Run(p), ~Die PROVE TypeInv' BY <1>4, MoveTyped
<1>5. ASSUME NEW r \in Roles, WriteRole(r) PROVE TypeInv'
  <2>1. roleKeys' \in [Roles -> Keys] BY <1>3, <1>5 DEF WriteRole
  <2> QED BY <1>2, <1>3, <1>5, <2>1 DEF WriteRole
<1>6. CASE Tick
  <2>1. now' \in 1..MaxTime BY <1>3, <1>6, CacheAssumption DEF Tick
  <2> QED BY <1>2, <1>3, <1>6, <2>1 DEF Tick
<1>7. CASE UNCHANGED vars BY <1>2, <1>3, <1>7 DEF vars
<1> QED BY <1>1, <1>4, <1>5, <1>6, <1>7 DEF Next, ConcurrentMapAccess, Crash

\* They hold when the process has started.
LEMMA InitTyped == Init => TypeInv
<1> SUFFICES ASSUME Init PROVE TypeInv OBVIOUS
<1>1. Idle \in Request /\ Placed(Idle) /\ Idle.pc = "idle" /\ Idle.held = Nil BY IdleTyped
<1>2. \A p \in Procs : req[p] = Idle BY DEF Init
<1>3. Unbuilt = {} BY <1>2 DEF Unbuilt, Idle
<1>4. TypeOK
  BY <1>1, <1>2, DefaultTyped, CacheAssumption DEF Init, TypeOK, At
<1>5. made + Cardinality(Unbuilt) <= MaxClients
  <2>1. Cardinality(Unbuilt) = 0 BY <1>3, FS_EmptySet
  <2> QED BY <2>1, CacheAssumption DEF Init
<1> QED BY <1>1, <1>2, <1>4, <1>5 DEF TypeInv, Init, At

\* The type invariant holds, with the clients within their bound, whatever runs
\* at the same time.
THEOREM TypeCorrect == Spec => []TypeOK
<1>1. TypeInv => TypeOK BY DEF TypeInv
<1> QED BY <1>1, InitTyped, NextTyped, PTL DEF Spec

-----------------------------------------------------------------------------
(***************************************************************************)
(* The client found in the cache is open, whatever runs at the same time.  *)
(***************************************************************************)
SameClient(c, d) == c # Nil /\ d # Nil /\ c.id = d.id

CacheInv ==
    /\ CachedOpen
    /\ \A s, t \in Slots : SameClient(cache[s], cache[t]) => s = t
    /\ \A p \in Procs : At(p, "insert") =>
          /\ req[p].held.id \notin closed
          /\ \A s \in Slots : ~SameClient(cache[s], req[p].held)
          /\ \A q \in Procs :
                /\ req[q].pc \in {"insert", "remove", "close"}
                /\ SameClient(req[q].held, req[p].held)
                => q = p
    /\ \A p \in Procs : At(p, "remove") =>
          \A s \in Slots : SameClient(cache[s], req[p].held) => s = req[p].slot
    /\ \A p \in Procs : At(p, "close") =>
          \A s \in Slots : ~SameClient(cache[s], req[p].held)


\* Where a step leaves a request that has no client in its hands.
LEMMA HandsEmpty ==
    ASSUME TypeInv, NEW p \in Procs, ~Die,
           \/ Begin(p)
           \/ Run(p) /\ ~Build(p) /\ ~Insert(p) /\ ~Take(p) /\ ~Remove(p) /\ ~Close(p)
    PROVE  /\ UNCHANGED <<cache, closed>>
           /\ req'[p].pc \notin {"insert", "remove", "close"}
<1> DEFINE Goal == /\ UNCHANGED <<cache, closed>>
                   /\ req'[p].pc \notin {"insert", "remove", "close"}
<1>1. req \in [Procs -> Request] /\ req[p] \in Request BY DEF TypeInv
<1>2. CASE Begin(p)
  <2>1. UNCHANGED <<cache, closed>> BY <1>2, BeginPlaced DEF memory, history
  <2> DEFINE Goal2 == req'[p].pc \notin {"insert", "remove", "close"}
  <2>2. ASSUME BeginToken(p) PROVE Goal2 BY <1>1, <2>2 DEF BeginToken, Request
  <2>3. ASSUME BeginCall(p) PROVE Goal2 BY <1>1, <2>3 DEF BeginCall, Idle
  <2>4. ASSUME BeginHousekeeping(p) PROVE Goal2 BY <1>1, <2>4 DEF BeginHousekeeping, Request
  <2>5. ASSUME NEW f, NEW d, Change(p, f, d) PROVE Goal2 BY <1>1, <2>5 DEF Change, Request
  <2>6. ASSUME storeConfiguration(p) \/ updateCert(p) \/ resetCert(p) PROVE Goal2
    BY <2>5, <2>6 DEF storeConfiguration, updateCert, resetCert
  <2>7. Goal2 BY <1>2, <2>2, <2>3, <2>4, <2>6 DEF Begin
  <2> QED BY <2>1, <2>7
<1>3. Idle.pc = "idle" BY DEF Idle
<1>4. ASSUME Finish(p) \/ \E l \in {"lookup", "buildHelper", "leaveOnce", "accept", "resetOnce",
                                    "range", "next", "take"} : Step(p, l)
      PROVE  req'[p].pc \notin {"insert", "remove", "close"}
  BY <1>1, <1>3, <1>4 DEF Finish, Step, Request
<1> USE DEF memory, history
<1>5. ASSUME EnterOnce(p) PROVE Goal BY <1>4, <1>5 DEF EnterOnce, HelperInHand
<1>6. ASSUME BuildHelper(p) PROVE Goal BY <1>4, <1>6 DEF BuildHelper
<1>7. ASSUME LeaveOnce(p) PROVE Goal BY <1>4, <1>7 DEF LeaveOnce, HelperInHand
<1>8. ASSUME Lookup(p) PROVE Goal BY <1>1, <1>8 DEF Lookup, Request
<1>9. ASSUME Call(p) PROVE Goal BY <1>4, <1>9 DEF Call
<1>10. ASSUME SaveConfig(p) PROVE Goal BY <1>4, <1>10 DEF SaveConfig
<1>11. ASSUME AcceptConfigurationUpdate(p) PROVE Goal
  BY <1>4, <1>11 DEF AcceptConfigurationUpdate
<1>12. ASSUME ResetOnce(p) PROVE Goal BY <1>1, <1>12 DEF ResetOnce, Request
<1>13. ASSUME RangeOver(p) PROVE Goal BY <1>1, <1>4, <1>13 DEF RangeOver, Request
<1>14. ASSUME NextKey(p) PROVE Goal
  <2>1. UNCHANGED <<cache, closed>> BY <1>14 DEF NextKey
  <2>2. CASE Step(p, "range") BY <1>4, <2>1, <2>2
  <2>3. CASE \E t \in {u \in req[p].todo : cache[u] # Nil} :
               req' = [req EXCEPT ![p].slot = t, ![p].todo = @ \ {t},
                         ![p].pc = IF req[p].op = "housekeep" THEN "test" ELSE "take"]
    BY <1>1, <2>1, <2>3 DEF Request
  <2> QED BY <1>14, <2>2, <2>3 DEF NextKey
<1>15. ASSUME TestIdle(p) PROVE Goal BY <1>4, <1>15 DEF TestIdle
<1> QED
  BY <1>2, <1>5, <1>6, <1>7, <1>8, <1>9, <1>10, <1>11, <1>12, <1>13, <1>14, <1>15 DEF Run

\* A request that begins is under way.
LEMMA BeginLeavesIdle == ASSUME TypeInv, NEW p \in Procs, Begin(p) PROVE ~At(p, "idle")'
<1> DEFINE Goal == req'[p].pc # "idle"
<1>1. req \in [Procs -> Request] BY DEF TypeInv
<1>2. ASSUME BeginToken(p) PROVE Goal BY <1>1, <1>2 DEF BeginToken, Request
<1>3. ASSUME BeginCall(p) PROVE Goal BY <1>1, <1>3 DEF BeginCall, Idle
<1>4. ASSUME BeginHousekeeping(p) PROVE Goal BY <1>1, <1>4 DEF BeginHousekeeping, Request
<1>5. ASSUME NEW f, NEW d, Change(p, f, d) PROVE Goal BY <1>1, <1>5 DEF Change, Request
<1>6. ASSUME storeConfiguration(p) \/ updateCert(p) \/ resetCert(p) PROVE Goal
  BY <1>5, <1>6 DEF storeConfiguration, updateCert, resetCert
<1>7. Goal BY <1>2, <1>3, <1>4, <1>6 DEF Begin
<1> QED BY <1>7 DEF At

\* Cached is what a slot holds.
LEMMA CachedIsInSlot ==
    CachedOpen <=> \A s \in Slots : cache[s] # Nil => cache[s].id \notin closed
BY DEF CachedOpen, Cached

\* A client found in the cache stays open: one is put there when it is new,
\* and closed when it has left its slot, which is the only one it ever is in.
LEMMA MoveKeepsOpen ==
    ASSUME TypeInv, CacheInv, NEW p \in Procs, Begin(p) \/ Run(p), ~Die
    PROVE  CacheInv'
<1>1. /\ req \in [Procs -> Request] /\ req[p] \in Request /\ Placed(req[p])
      /\ cache \in [Slots -> Client \cup {Nil}] /\ closed \subseteq 1..made /\ made \in Nat
  BY DEF TypeInv, TypeOK
<1>2. \A q \in Procs \ {p} : req'[q] = req[q] BY MoveTyped
<1>3. /\ \A s \in Slots : cache[s] # Nil => cache[s].id \notin closed
      /\ \A s, t \in Slots : SameClient(cache[s], cache[t]) => s = t
  BY CachedIsInSlot DEF CacheInv
<1>4. ASSUME /\ \A s \in Slots : cache'[s] # Nil => cache'[s].id \notin closed'
             /\ \A s, t \in Slots : SameClient(cache'[s], cache'[t]) => s = t
             /\ \A q \in Procs : At(q, "insert")' =>
                   /\ req'[q].held.id \notin closed'
                   /\ \A s \in Slots : ~SameClient(cache'[s], req'[q].held)
             /\ \A q1, q2 \in Procs :
                   /\ At(q1, "insert")' /\ req'[q2].pc \in {"insert", "remove", "close"}
                   /\ SameClient(req'[q2].held, req'[q1].held)
                   => q2 = q1
             /\ \A q \in Procs : At(q, "remove")' =>
                   \A s \in Slots : SameClient(cache'[s], req'[q].held) => s = req'[q].slot
             /\ \A q \in Procs : At(q, "close")' =>
                   \A s \in Slots : ~SameClient(cache'[s], req'[q].held)
      PROVE  CacheInv'
  BY <1>4 DEF CacheInv, CachedOpen, Cached, SameClient
<1>5. ASSUME UNCHANGED <<cache, closed>>, req'[p].pc \notin {"insert", "remove", "close"}
      PROVE  CacheInv'
  BY <1>2, <1>3, <1>4, <1>5 DEF CacheInv, SameClient, At
<1>6. CASE Build(p)
  <2>1. /\ At(p, "build") /\ made' = made + 1 /\ UNCHANGED <<cache, closed>>
        /\ req'[p].pc = "insert" /\ req'[p].held = NewClient(p)
    BY <1>1, <1>6 DEF Build, memory, Request
  <2>2. NewClient(p).id = made + 1 /\ made + 1 \notin closed BY <1>1, <2>1, BuildsClient
  <2>3. \A s \in Slots : ~SameClient(cache[s], NewClient(p))
    <3>1. \A s \in Slots : cache[s] # Nil => cache[s].id \in Int /\ cache[s].id <= made
      BY <1>1 DEF TypeInv, Client
    <3> QED BY <1>1, <2>2, <3>1 DEF SameClient
  <2>4. \A q \in Procs : ~SameClient(req[q].held, NewClient(p))
    <3>1. \A q \in Procs : req[q].held # Nil => req[q].held.id \in Int /\ req[q].held.id <= made
      BY <1>1 DEF TypeInv, Request, Client
    <3> QED BY <1>1, <2>2, <3>1 DEF SameClient
  <2> QED BY <1>2, <1>3, <1>4, <2>1, <2>2, <2>3, <2>4 DEF CacheInv, SameClient, At
<1>7. CASE Insert(p)
  <2>1. /\ At(p, "insert") /\ closed' = closed /\ req'[p].pc = "call"
        /\ cache' = [cache EXCEPT ![req[p].slot] = req[p].held]
        /\ req[p].slot \in Slots
    BY <1>1, <1>7 DEF Insert, Step, history, Request, Placed, At, Calls
  <2>2. \A s \in Slots : cache'[s] = IF s = req[p].slot THEN req[p].held ELSE cache[s]
    BY <1>1, <2>1
  <2>3. req[p].held.id \notin closed /\ \A s \in Slots : ~SameClient(cache[s], req[p].held)
    BY <2>1 DEF CacheInv
  <2>4. \A q \in Procs \ {p} : req[q].pc \in {"insert", "remove", "close"} =>
           ~SameClient(req[q].held, req[p].held)
    BY <2>1 DEF CacheInv
  <2> QED BY <1>2, <1>3, <1>4, <2>1, <2>2, <2>3, <2>4 DEF CacheInv, SameClient, At
<1>8. CASE Take(p)
  <2>1. /\ At(p, "take") /\ UNCHANGED <<cache, closed>> /\ req[p].slot \in Slots
        /\ req'[p].pc = "remove" /\ req'[p].held = cache[req[p].slot]
        /\ req'[p].slot = req[p].slot
    BY <1>1, <1>8 DEF Take, memory, history, Request, Placed, At, AtKey
  <2>2. \A q \in Procs : At(q, "insert") => ~SameClient(cache[req[p].slot], req[q].held)
    BY <2>1 DEF CacheInv
  <2> QED BY <1>2, <1>3, <1>4, <2>1, <2>2 DEF CacheInv, SameClient, At
<1>9. CASE Remove(p)
  <2>1. /\ At(p, "remove") /\ closed' = closed /\ req'[p].pc = "close"
        /\ req'[p].held = req[p].held
        /\ cache' = [cache EXCEPT ![req[p].slot] = Nil] /\ req[p].slot \in Slots
    BY <1>1, <1>9 DEF Remove, Step, history, Request, Placed, At, AtKey
  <2>2. \A s \in Slots : cache'[s] = IF s = req[p].slot THEN Nil ELSE cache[s]
    BY <1>1, <2>1
  <2>3. \A s \in Slots : SameClient(cache[s], req[p].held) => s = req[p].slot
    BY <2>1 DEF CacheInv
  <2>4. \A s \in Slots : ~SameClient(cache'[s], req[p].held) BY <2>2, <2>3 DEF SameClient
  <2> QED BY <1>2, <1>3, <1>4, <2>1, <2>2, <2>4 DEF CacheInv, SameClient, At
<1>10. CASE Close(p)
  <2>1. /\ At(p, "close") /\ cache' = cache /\ req'[p].pc = "next"
        /\ req[p].held # Nil /\ closed' = closed \cup {req[p].held.id}
    BY <1>1, <1>10 DEF Close, memory, Request
  <2>2. \A s \in Slots : ~SameClient(cache[s], req[p].held) BY <2>1 DEF CacheInv
  <2>3. \A q \in Procs : At(q, "insert") =>
           req[q].held # Nil /\ (~SameClient(req[p].held, req[q].held) \/ q = p)
    BY <2>1, NilAssumption DEF CacheInv, TypeInv, Placed, At
  <2> QED BY <1>2, <1>3, <1>4, <2>1, <2>2, <2>3 DEF CacheInv, SameClient, At
<1> QED BY <1>5, <1>6, <1>7, <1>8, <1>9, <1>10, HandsEmpty

\* Whatever runs at the same time, a client found in the cache is open: Take,
\* Remove and Close come in this order in both loops (CachedOpen).
THEOREM CacheHoldsOpen == Spec => []CachedOpen
<1>1. Init => CacheInv
  <2> SUFFICES ASSUME Init PROVE CacheInv OBVIOUS
  <2>1. \A p \in Procs : At(p, "idle") BY DEF Init, At, Idle
  <2>2. \A s \in Slots : cache[s] = Nil BY DEF Init
  <2> QED BY <2>1, <2>2, CachedIsInSlot DEF CacheInv, SameClient, At
<1>2. TypeInv /\ CacheInv /\ [Next]_vars => CacheInv'
  <2> SUFFICES ASSUME TypeInv, CacheInv, [Next]_vars PROVE CacheInv' OBVIOUS
  <2>1. CASE Die
    <3>1. \A p \in Procs : req'[p].pc = "idle" BY <2>1 DEF Die, Idle
    <3>2. \A s \in Slots : cache'[s] = Nil BY <2>1 DEF Die
    <3> QED BY <3>1, <3>2 DEF CacheInv, CachedOpen, Cached, SameClient, At
  <2>2. ASSUME UNCHANGED <<cache, req, closed>> PROVE CacheInv'
    BY <2>2 DEF CacheInv, CachedOpen, Cached, SameClient, At
  <2>3. ASSUME NEW p \in Procs, Begin(p) \/ Run(p), ~Die PROVE CacheInv'
    BY <2>3, MoveKeepsOpen
  <2> QED
    BY <2>1, <2>2, <2>3
    DEF Next, ConcurrentMapAccess, Crash, WriteRole, Tick, vars, memory, history
<1>3. CacheInv => CachedOpen BY DEF CacheInv
<1> QED BY <1>1, <1>2, <1>3, InitTyped, NextTyped, PTL DEF Spec

-----------------------------------------------------------------------------
(***************************************************************************)
(* One request at a time.                                                  *)
(***************************************************************************)
OneAtATime == \A p, q \in Procs : ~At(p, "idle") /\ ~At(q, "idle") => p = q

\* The client in a slot was built with the configuration in memory.
Follows(s) == cache[s] # Nil => cache[s].tls = EffectiveTLSConfiguration(cfg)
V3Slots == {s \in Slots : s[1] = "v3"}

\* A configuration update that goes through the V3 clients leaves none behind.
Sweeping(r) ==
    /\ r.pc = "range" => r.rest \in {<<"v2", "v3">>, <<"v3">>, <<>>}
    /\ r.pc \in {"next"} \cup AtKey => r.rest \in {<<"v3">>, <<>>}
    /\ r.pc = "range" /\ r.rest = <<>> => \A s \in V3Slots : cache[s] = Nil
    /\ r.pc \in {"next"} \cup AtKey /\ r.rest = <<>> =>
          /\ \A s \in r.todo : s \in V3Slots /\ (cache[s] = Nil \/ r.due[s] = cache[s])
          /\ \A s \in V3Slots \ r.todo :
                cache[s] = Nil \/ (r.pc \in {"take", "remove"} /\ s = r.slot)

\* The memory, the helper and the V3 clients as the one request has them.
Consistent(r) ==
    /\ IF r.pc = "accept" THEN r.draft = cfgEntry ELSE cfg = cfgEntry
    /\ r.pc = "saveConfig" => \A f \in DOMAIN cfgEntry \ r.asked : r.draft[f] = cfgEntry[f]
    /\ (once = "done" /\ r.pc # "resetOnce") \/ r.pc = "leaveOnce" => helper = Connection(cfg)
    /\ r.op # "configure" \/ r.pc \in {"saveConfig", "accept"} => \A s \in V3Slots : Follows(s)
    /\ r.pc = "insert" /\ r.kind = "v3" => r.held.tls = EffectiveTLSConfiguration(cfg)
    /\ r.op = "configure" => Sweeping(r)

\* The clients that are open, with the one request's that is not in the cache.
Kept(r) ==
    /\ \A i \in 1..made : \/ i \in closed
                          \/ \E s \in Slots : cache[s] # Nil /\ cache[s].id = i
                          \/ r.pc \in {"insert", "close"} /\ r.held # Nil /\ r.held.id = i
    /\ r.pc \in {"build", "insert"} => cache[r.slot] = Nil
    /\ r.pc = "remove" => cache[r.slot] = r.held

SerialInv ==
    /\ \A p \in Procs : ~At(p, "idle") => Consistent(req[p]) /\ Kept(req[p])
    /\ (\A p \in Procs : At(p, "idle")) => Consistent(Idle) /\ Kept(Idle)

\* How a configuration request changes what it was not asked to.
Asks(r) == r.pc = "saveConfig" =>
              \A f \in DOMAIN cfgEntry \ r.asked : r.draft[f] = cfgEntry[f]

\* What a request that begins is to do.
LEMMA BeginConsistent ==
    ASSUME TypeInv, NEW p \in Procs, Begin(p), Consistent(Idle)
    PROVE  Consistent(req[p])'
<1>1. req \in [Procs -> Request] /\ Idle \in Request BY IdleTyped DEF TypeInv
<1>2. UNCHANGED <<cfgEntry, cfg, once, helper, cache>> /\ At(p, "idle") /\ req[p] = Idle
  BY BeginPlaced DEF memory, TypeInv, Placed, At
<1>3. /\ cfg = cfgEntry /\ (once = "done" => helper = Connection(cfg))
      /\ \A s \in V3Slots : Follows(s)
  BY DEF Consistent, Idle
<1>4. ASSUME \/ req'[p].pc \in {"enterOnce", "lookup"} /\ req'[p].op # "configure"
             \/ req'[p].pc = "range" /\ req'[p].op = "housekeep"
             \/ req'[p].pc = "saveConfig" /\ Asks(req[p])'
      PROVE  Consistent(req[p])'
  BY <1>2, <1>3, <1>4 DEF Consistent, Follows, Asks, Sweeping, AtKey
<1>5. CASE BeginToken(p)
  BY <1>1, <1>2, <1>4, <1>5 DEF BeginToken, Request, Idle
<1>6. CASE BeginCall(p)
  BY <1>1, <1>2, <1>4, <1>6 DEF BeginCall, Request, Idle
<1>7. CASE BeginHousekeeping(p)
  BY <1>1, <1>2, <1>4, <1>7 DEF BeginHousekeeping, Request, Idle
<1>8. ASSUME NEW fields, NEW draft, Change(p, fields, draft),
             \A f \in DOMAIN cfgEntry \ fields : draft[f] = cfgEntry[f]
      PROVE  Consistent(req[p])'
  <2>1. req'[p].pc = "saveConfig" /\ req'[p].draft = draft /\ req'[p].asked = fields
    BY <1>1, <1>8 DEF Change, Request
  <2> QED BY <1>2, <1>4, <1>8, <2>1 DEF Asks
<1>9. CASE storeConfiguration(p)
  <2>1. PICK d \in Settings : Change(p, DOMAIN d, parseBackEndConfiguration(d, cfgEntry))
    BY <1>9 DEF storeConfiguration
  <2>2. \A f \in DOMAIN cfgEntry \ DOMAIN d : parseBackEndConfiguration(d, cfgEntry)[f] = cfgEntry[f]
    BY DEF parseBackEndConfiguration, Assigned
  <2> QED BY <1>8, <2>1, <2>2
<1>10. ASSUME NEW x \in Pinned, NEW pin, Change(p, {x}, [cfgEntry EXCEPT ![x] = pin])
       PROVE  Consistent(req[p])'
  <2>1. \A f \in DOMAIN cfgEntry \ {x} : [cfgEntry EXCEPT ![x] = pin][f] = cfgEntry[f]
    BY DEF TypeInv, TypeOK, BackendConfiguration
  <2> QED BY <1>8, <1>10, <2>1
<1>11. CASE updateCert(p) BY <1>10, <1>11 DEF updateCert
<1>12. CASE resetCert(p) BY <1>10, <1>12 DEF resetCert
<1> QED BY <1>5, <1>6, <1>7, <1>9, <1>11, <1>12 DEF Begin

\* A step of the one request keeps the memory, the helper and the V3 clients
\* as its place says.
LEMMA RunConsistent ==
    ASSUME TypeInv, NEW p \in Procs, Run(p), ~Die, Consistent(req[p])
    PROVE  Consistent(req[p])'
<1> DEFINE r == req[p]
           r2 == req'[p]
           Goal == Consistent(req[p])'
<1>1. req \in [Procs -> Request] /\ r \in Request /\ Placed(r) BY DEF TypeInv
<1>2. cache \in [Slots -> Client \cup {Nil}] BY DEF TypeInv, TypeOK
<1>3. V3Slots \subseteq Slots /\ \A s \in Slots : s \in V3Slots <=> s[1] = "v3" BY DEF V3Slots
<1>4. ASSUME NEW l, Step(p, l)
      PROVE  /\ r2.pc = l /\ r2.op = r.op /\ r2.slot = r.slot /\ r2.kind = r.kind
             /\ r2.held = r.held /\ r2.draft = r.draft /\ r2.rest = r.rest
             /\ r2.todo = r.todo /\ r2.due = r.due
  BY <1>1, <1>4 DEF Step, Request
<1>5. ASSUME Finish(p) PROVE r2 = Idle BY <1>1, <1>5 DEF Finish
<1>6. ASSUME r2 = Idle, UNCHANGED <<cfg, helper, cache>>, cfg' = cfgEntry',
             once' = "done" => helper = Connection(cfg), \A s \in V3Slots : Follows(s)
      PROVE  Goal
  BY <1>6 DEF Consistent, Idle, Follows
<1>7. r.op # "configure" \/ r.pc \in {"saveConfig", "accept"} => \A s \in V3Slots : Follows(s)
  BY DEF Consistent
<1>8. /\ r.pc # "accept" => cfg = cfgEntry
      /\ r.pc = "accept" => r.draft = cfgEntry
      /\ once = "done" /\ r.pc # "resetOnce" => helper = Connection(cfg)
      /\ r.pc = "leaveOnce" => helper = Connection(cfg)
  BY DEF Consistent
<1>9. ASSUME UNCHANGED <<cfgEntry, cfg, once, helper, cache>>,
             r.op # "configure", r2.op # "configure",
             r.pc \notin {"accept", "resetOnce"}, r2.pc \notin Updates \cup {"leaveOnce"},
             r2.pc = "insert" /\ r2.kind = "v3" => r2.held.tls = EffectiveTLSConfiguration(cfg)
      PROVE  Goal
  BY <1>7, <1>8, <1>9 DEF Consistent, Follows, Updates
<1>10. ASSUME HelperInHand(p), r.pc \in {"enterOnce", "leaveOnce"}, r.op # "configure",
              UNCHANGED <<cfgEntry, cfg, helper, cache>>,
              once' = "done" => helper = Connection(cfg)
       PROVE  Goal
  <2>1. CASE r.slot = Nil
    BY <1>5, <1>6, <1>7, <1>8, <1>10, <2>1 DEF HelperInHand
  <2>2. CASE r.slot # Nil
    <3>1. r2.pc = "lookup" /\ r2.op = r.op BY <1>4, <1>10, <2>2 DEF HelperInHand
    <3> QED BY <1>7, <1>8, <1>10, <3>1 DEF Consistent, Follows
  <2> QED BY <2>1, <2>2
<1>11. /\ r.pc \in InOnce => r.op # "configure"
       /\ r.pc \in Calls => r.op = "call"
       /\ r.op = "call" => r.slot \in Slots /\ r.kind = r.slot[1]
       /\ r.pc \in Updates => r.op = "configure"
       /\ r.pc \in AtKey => r.slot \in Slots
       /\ r.pc = "test" => r.op = "housekeep"
       /\ r.pc \in Loops => r.op \in {"configure", "housekeep"}
  BY <1>1 DEF Placed
<1> HIDE DEF r, r2, Goal
<1>12. r = req[p] /\ r2 = req'[p] /\ (Goal <=> Consistent(req[p])') BY DEF r, r2, Goal
<1> USE DEF At, InOnce, Calls, Updates, Loops, AtKey
<1>13. ASSUME EnterOnce(p) PROVE Goal
  <2>1. r.pc = "enterOnce" /\ UNCHANGED <<cfgEntry, cfg, helper, cache>>
    BY <1>12, <1>13 DEF EnterOnce
  <2>2. CASE once = "done" /\ HelperInHand(p) /\ UNCHANGED once
    BY <1>8, <1>10, <1>11, <2>1, <2>2
  <2>3. CASE once' = p /\ Step(p, "buildHelper")
    <3>1. r2.pc = "buildHelper" /\ r2.op = r.op BY <1>4, <2>3
    <3>2. once' # "done" BY <2>3, CacheAssumption
    <3> QED BY <1>7, <1>8, <1>11, <1>12, <2>1, <3>1, <3>2 DEF Consistent, Follows
  <2> QED BY <1>13, <2>2, <2>3 DEF EnterOnce
<1>14. ASSUME BuildHelper(p) PROVE Goal
  <2>1. r.pc = "buildHelper" /\ helper' = Connection(cfg) /\ UNCHANGED <<cfgEntry, cfg, cache>>
    BY <1>12, <1>14 DEF BuildHelper
  <2>2. r2.pc = "leaveOnce" /\ r2.op = r.op BY <1>4, <1>14 DEF BuildHelper
  <2> QED BY <1>7, <1>8, <1>11, <1>12, <2>1, <2>2 DEF Consistent, Follows, Connection
<1>15. ASSUME LeaveOnce(p) PROVE Goal
  <2>1. r.pc = "leaveOnce" /\ HelperInHand(p) /\ UNCHANGED <<cfgEntry, cfg, helper, cache>>
    BY <1>12, <1>15 DEF LeaveOnce
  <2> QED BY <1>8, <1>10, <1>11, <2>1
<1>16. ASSUME Lookup(p) PROVE Goal
  <2>1. r.pc = "lookup" /\ UNCHANGED <<cfgEntry, cfg, once, helper, cache>>
    BY <1>12, <1>16 DEF Lookup, memory
  <2>2. r2.pc \in {"call", "build"} /\ r2.op = r.op
    BY <1>1, <1>12, <1>16 DEF Lookup, Request
  <2> QED BY <1>9, <1>11, <2>1, <2>2
<1>17. ASSUME Build(p) PROVE Goal
  <2>1. r.pc = "build" /\ UNCHANGED <<cfgEntry, cfg, once, helper, cache>>
    BY <1>12, <1>17 DEF Build, memory
  <2>2. r2.pc = "insert" /\ r2.op = r.op /\ r2.kind = r.kind /\ r2.held = NewClient(p)
    BY <1>1, <1>12, <1>17 DEF Build, Request
  <2>3. r.kind = "v3" => NewClient(p).tls = EffectiveTLSConfiguration(cfg)
    BY <1>12 DEF NewClient
  <2> QED BY <1>9, <1>11, <2>1, <2>2, <2>3
<1>18. ASSUME Insert(p) PROVE Goal
  <2>1. /\ r.pc = "insert" /\ UNCHANGED <<cfgEntry, cfg, once, helper>>
        /\ cache' = [cache EXCEPT ![r.slot] = r.held]
    BY <1>12, <1>18 DEF Insert
  <2>2. r2.pc = "call" /\ r2.op = r.op BY <1>4, <1>18 DEF Insert
  <2>3. r.op = "call" /\ r.slot \in Slots /\ r.kind = r.slot[1] BY <1>11, <2>1
  <2>4. \A s \in Slots : cache'[s] = IF s = r.slot THEN r.held ELSE cache[s]
    BY <1>2, <2>1, <2>3
  <2>5. r.kind = "v3" => r.held.tls = EffectiveTLSConfiguration(cfg)
    BY <1>12, <2>1 DEF Consistent
  <2>6. \A s \in V3Slots : cache'[s] # Nil => cache'[s].tls = EffectiveTLSConfiguration(cfg)
    BY <1>3, <1>7, <2>3, <2>4, <2>5 DEF Follows
  <2> QED BY <1>8, <1>12, <2>1, <2>2, <2>3, <2>6 DEF Consistent, Follows
<1>19. ASSUME Call(p) PROVE Goal
  <2>1. r.pc = "call" /\ UNCHANGED <<cfgEntry, cfg, once, helper, cache>> /\ r2 = Idle
    BY <1>5, <1>12, <1>19 DEF Call, memory
  <2> QED BY <1>6, <1>7, <1>8, <1>11, <2>1
<1>20. ASSUME SaveConfig(p) PROVE Goal
  <2>1. r.pc = "saveConfig" /\ UNCHANGED <<cfg, once, helper, cache>>
    BY <1>12, <1>20 DEF SaveConfig, memory
  <2>2. CASE Finish(p) /\ UNCHANGED cfgEntry BY <1>5, <1>6, <1>7, <1>8, <2>1, <2>2
  <2>3. CASE cfgEntry' = r.draft /\ Step(p, "accept")
    <3>1. r2.pc = "accept" /\ r2.draft = r.draft BY <1>4, <2>3
    <3> QED
      BY <1>7, <1>8, <1>12, <2>1, <2>3, <3>1 DEF Consistent, Follows, Sweeping
  <2> QED BY <1>12, <1>20, <2>2, <2>3 DEF SaveConfig
<1>21. ASSUME AcceptConfigurationUpdate(p) PROVE Goal
  <2>1. r.pc = "accept" /\ cfg' = r.draft /\ UNCHANGED <<cfgEntry, once, helper, cache>>
    BY <1>12, <1>21 DEF AcceptConfigurationUpdate
  <2>2. r2.pc = "resetOnce" /\ r2.op = r.op BY <1>4, <1>21 DEF AcceptConfigurationUpdate
  <2> QED BY <1>8, <1>11, <1>12, <2>1, <2>2 DEF Consistent, Sweeping
<1>22. ASSUME ResetOnce(p) PROVE Goal
  <2>1. r.pc = "resetOnce" /\ once' = "fresh" /\ UNCHANGED <<cfgEntry, cfg, helper, cache>>
    BY <1>12, <1>22 DEF ResetOnce
  <2>2. r2.pc = "range" /\ r2.op = r.op /\ r2.rest = <<"v2", "v3">>
    BY <1>1, <1>12, <1>22 DEF ResetOnce, Request, Sweep
  <2> QED BY <1>8, <1>11, <1>12, <2>1, <2>2 DEF Consistent, Sweeping
<1>23. r.op = "configure" => Sweeping(r) BY <1>12 DEF Consistent
<1>24. ASSUME r.pc \in Loops, r2.pc \in Loops, r2.op = r.op, UNCHANGED <<cfgEntry, cfg, once, helper>>,
              r.op # "configure" => \A s \in V3Slots : cache'[s] \in {cache[s], Nil},
              r.op = "configure" => Sweeping(req[p])'
       PROVE  Goal
  BY <1>7, <1>8, <1>11, <1>12, <1>24 DEF Consistent, Follows
<1>25. ASSUME RangeOver(p) PROVE Goal
  <2>1. r.pc = "range" /\ UNCHANGED <<cfgEntry, cfg, once, helper, cache>>
    BY <1>12, <1>25 DEF RangeOver, memory
  <2>2. CASE r.rest = <<>>
    <3>1. r2 = Idle BY <1>5, <1>12, <1>25, <2>2 DEF RangeOver
    <3>2. \A s \in V3Slots : Follows(s)
      BY <1>7, <1>23, <2>1, <2>2 DEF Sweeping, Follows
    <3> QED BY <1>6, <1>8, <2>1, <3>1, <3>2
  <2>3. CASE r.rest # <<>>
    <3>1. /\ r2.pc = "next" /\ r2.op = r.op /\ r2.rest = Tail(r.rest) /\ r2.due = cache
          /\ r2.todo = {s \in Slots : s[1] = Head(r.rest)}
      BY <1>1, <1>12, <1>25, <2>3 DEF RangeOver, Request
    <3>2. ASSUME r.op = "configure" PROVE Sweeping(req[p])'
      <4>1. r.rest = <<"v2", "v3">> \/ r.rest = <<"v3">>
        BY <1>23, <2>1, <2>3, <3>2 DEF Sweeping
      <4>2. CASE r.rest = <<"v2", "v3">>
        <5>1. r2.rest = <<"v3">> BY <3>1, <4>2
        <5>2. r2.rest # <<>> BY <5>1
        <5> QED BY <1>12, <3>1, <5>1, <5>2 DEF Sweeping
      <4>3. CASE r.rest = <<"v3">>
        <5>1. r2.rest = <<>> /\ r2.todo = V3Slots BY <3>1, <4>3 DEF V3Slots
        <5> QED BY <1>12, <2>1, <3>1, <5>1 DEF Sweeping
      <4> QED BY <4>1, <4>2, <4>3
    <3> QED BY <1>24, <2>1, <3>1, <3>2
  <2> QED BY <2>2, <2>3
<1>26. ASSUME NextKey(p) PROVE Goal
  <2>1. r.pc = "next" /\ UNCHANGED <<cfgEntry, cfg, once, helper, cache>>
    BY <1>12, <1>26 DEF NextKey, memory
  <2>2. CASE /\ \A s \in r.todo : cache[s] = Nil \/ cache[s] # r.due[s]
             /\ Step(p, "range")
    <3>1. r2.pc = "range" /\ r2.op = r.op /\ r2.rest = r.rest BY <1>4, <2>2
    <3>2. ASSUME r.op = "configure" PROVE Sweeping(req[p])'
      <4>1. r.rest \in {<<"v3">>, <<>>} BY <1>23, <2>1, <3>2 DEF Sweeping
      <4>2. r.rest = <<>> => \A s \in V3Slots : cache[s] = Nil
        BY <1>23, <2>1, <2>2, <3>2 DEF Sweeping
      <4> QED BY <1>12, <2>1, <3>1, <4>1, <4>2 DEF Sweeping
    <3> QED BY <1>24, <2>1, <3>1, <3>2
  <2>3. CASE \E s \in {t \in r.todo : cache[t] # Nil} :
               req' = [req EXCEPT ![p].slot = s, ![p].todo = @ \ {s},
                         ![p].pc = IF req[p].op = "housekeep" THEN "test" ELSE "take"]
    <3>1. PICK s \in r.todo :
             req' = [req EXCEPT ![p].slot = s, ![p].todo = @ \ {s},
                       ![p].pc = IF req[p].op = "housekeep" THEN "test" ELSE "take"]
      BY <2>3
    <3>2. /\ r2.pc = (IF r.op = "housekeep" THEN "test" ELSE "take") /\ r2.op = r.op
          /\ r2.rest = r.rest /\ r2.slot = s /\ r2.todo = r.todo \ {s} /\ r2.due = r.due
      BY <1>1, <1>12, <3>1 DEF Request
    <3>3. ASSUME r.op = "configure" PROVE Sweeping(req[p])'
      BY <1>12, <1>23, <2>1, <3>2, <3>3 DEF Sweeping
    <3> QED BY <1>24, <2>1, <3>2, <3>3
  <2> QED BY <1>12, <1>26, <2>2, <2>3 DEF NextKey
<1>27. ASSUME TestIdle(p) PROVE Goal
  <2>1. r.pc = "test" /\ UNCHANGED <<cfgEntry, cfg, once, helper, cache>>
    BY <1>12, <1>27 DEF TestIdle, memory
  <2>2. r2.pc \in {"next", "take"} /\ r2.op = r.op BY <1>4, <1>27 DEF TestIdle
  <2> QED BY <1>11, <1>24, <2>1, <2>2
<1>28. ASSUME Take(p) PROVE Goal
  <2>1. r.pc = "take" /\ UNCHANGED <<cfgEntry, cfg, once, helper, cache>>
    BY <1>12, <1>28 DEF Take, memory
  <2>2. /\ r2.pc = "remove" /\ r2.op = r.op /\ r2.rest = r.rest /\ r2.slot = r.slot
        /\ r2.todo = r.todo /\ r2.due = r.due
    BY <1>1, <1>12, <1>28 DEF Take, Request
  <2>3. ASSUME r.op = "configure" PROVE Sweeping(req[p])'
    BY <1>12, <1>23, <2>1, <2>2, <2>3 DEF Sweeping
  <2> QED BY <1>24, <2>1, <2>2, <2>3
<1>29. ASSUME Remove(p) PROVE Goal
  <2>1. /\ r.pc = "remove" /\ UNCHANGED <<cfgEntry, cfg, once, helper>>
        /\ cache' = [cache EXCEPT ![r.slot] = Nil]
    BY <1>12, <1>29 DEF Remove
  <2>2. /\ r2.pc = "close" /\ r2.op = r.op /\ r2.rest = r.rest /\ r2.slot = r.slot
        /\ r2.todo = r.todo /\ r2.due = r.due
    BY <1>4, <1>29 DEF Remove
  <2>3. \A s \in Slots : cache'[s] = IF s = r.slot THEN Nil ELSE cache[s] BY <1>2, <2>1
  <2>4. ASSUME r.op = "configure" PROVE Sweeping(req[p])'
    BY <1>3, <1>12, <1>23, <2>1, <2>2, <2>3, <2>4 DEF Sweeping
  <2> QED BY <1>3, <1>24, <2>1, <2>2, <2>3, <2>4
<1>30. ASSUME Close(p) PROVE Goal
  <2>1. r.pc = "close" /\ UNCHANGED <<cfgEntry, cfg, once, helper, cache>>
    BY <1>12, <1>30 DEF Close, memory
  <2>2. /\ r2.pc = "next" /\ r2.op = r.op /\ r2.rest = r.rest
        /\ r2.todo = r.todo /\ r2.due = r.due
    BY <1>1, <1>12, <1>30 DEF Close, Request
  <2>3. ASSUME r.op = "configure" PROVE Sweeping(req[p])'
    BY <1>12, <1>23, <2>1, <2>2, <2>3 DEF Sweeping
  <2> QED BY <1>24, <2>1, <2>2, <2>3
<1> QED
  BY <1>12, <1>13, <1>14, <1>15, <1>16, <1>17, <1>18, <1>19, <1>20, <1>21, <1>22, <1>25, <1>26,
     <1>27, <1>28, <1>29, <1>30 DEF Run

\* Nor does it lose a client that is open.
LEMMA MoveKept ==
    ASSUME TypeInv, NEW p \in Procs, Begin(p) \/ Run(p), ~Die, Kept(req[p])
    PROVE  Kept(req[p])'
<1> DEFINE r == req[p]
           r2 == req'[p]
           Goal == Kept(req[p])'
<1>1. req \in [Procs -> Request] /\ r \in Request /\ Placed(r) BY DEF TypeInv
<1>2. cache \in [Slots -> Client \cup {Nil}] /\ made \in Nat BY DEF TypeInv, TypeOK
<1> HIDE DEF r, r2, Goal
<1>3. r = req[p] /\ r2 = req'[p] /\ (Goal <=> Kept(req[p])') /\ Kept(r) BY DEF r, r2, Goal
<1>4. ASSUME UNCHANGED <<cache, closed>>, made' = made, r.pc \notin {"insert", "close"},
             r2.pc \notin {"insert", "remove", "close"},
             r2.pc = "build" => cache[r2.slot] = Nil
      PROVE  Goal
  BY <1>3, <1>4 DEF Kept
<1>5. ASSUME Begin(p) PROVE Goal
  <2>1. UNCHANGED <<cache, closed>> /\ made' = made /\ r.pc = "idle"
    BY <1>3, <1>5, BeginPlaced DEF memory, history, At
  <2>2. r2.pc \notin {"insert", "remove", "close"} BY <1>3, <1>5, HandsEmpty
  <2>3. r2.pc # "build"
    <3>1. p \in Unbuilt' => BeginCall(p) \/ p \in Unbuilt BY <1>5, BeginPlaced
    <3>2. p \notin Unbuilt BY <1>3, <2>1 DEF Unbuilt, InOnce
    <3>3. BeginCall(p) => r2.pc # "build" BY <1>1, <1>3 DEF BeginCall, Idle
    <3>4. r2.pc = "build" => p \in Unbuilt'
      BY <1>3, <1>5, BeginPlaced DEF Placed, Unbuilt, Calls
    <3> QED BY <3>1, <3>2, <3>3, <3>4
  <2> QED BY <1>4, <2>1, <2>2, <2>3
<1>6. ASSUME Run(p), ~Build(p), ~Insert(p), ~Take(p), ~Remove(p), ~Close(p) PROVE Goal
  <2>1. UNCHANGED <<cache, closed>> /\ r2.pc \notin {"insert", "remove", "close"}
    BY <1>3, <1>6, HandsEmpty
  <2>2. /\ r.pc \notin {"build", "insert", "close"}
        /\ r2.pc = "build" => Lookup(p)
    <3>1. r2.pc = "build" => p \in Unbuilt' /\ r.pc \in InOnce \cup {"lookup"}
      BY <1>1, <1>3, <1>6, RunHolds, RunPlaced DEF Placed, Unbuilt, Calls, At
    <3>2. Step(p, "buildHelper") \/ Step(p, "leaveOnce") \/ Step(p, "lookup") \/ Finish(p)
            => r2.pc # "build"
      BY <1>1, <1>3 DEF Step, Finish, Idle, Request
    <3> QED
      BY <1>3, <1>6, <3>1, <3>2
      DEF Run, EnterOnce, BuildHelper, LeaveOnce, HelperInHand, Call, SaveConfig,
          AcceptConfigurationUpdate, ResetOnce, RangeOver, NextKey, TestIdle, At, InOnce, Lookup
  <2>3. made' = made BY <1>3, <1>6, <2>2, RunVars DEF At
  <2>4. Lookup(p) /\ r2.pc = "build" => cache[r2.slot] = Nil
    BY <1>1, <1>3 DEF Lookup, Request
  <2> QED BY <1>4, <2>1, <2>2, <2>3, <2>4
<1>7. ASSUME Build(p) PROVE Goal
  <2>1. /\ r.pc = "build" /\ made' = made + 1 /\ UNCHANGED <<cache, closed>>
        /\ r2.pc = "insert" /\ r2.held = NewClient(p) /\ r2.slot = r.slot
    BY <1>1, <1>3, <1>7 DEF Build, memory, Request, At
  <2>2. r2.held # Nil /\ r2.held.id = made + 1
    BY <1>3, <2>1, BuildsClient, NilAssumption DEF At
  <2>3. \A i \in 1..made' : i \in 1..made \/ i = made + 1 BY <1>2, <2>1
  <2> QED BY <1>3, <2>1, <2>2, <2>3 DEF Kept
<1>8. ASSUME Insert(p) PROVE Goal
  <2>1. /\ r.pc = "insert" /\ cache' = [cache EXCEPT ![r.slot] = r.held]
        /\ UNCHANGED <<made, closed>> /\ r2.pc = "call" /\ r.slot \in Slots
    BY <1>1, <1>3, <1>8 DEF Insert, Step, history, Request, Placed, At, Calls
  <2>2. \A s \in Slots : cache'[s] = IF s = r.slot THEN r.held ELSE cache[s] BY <1>2, <2>1
  <2>3. cache[r.slot] = Nil BY <1>3, <2>1 DEF Kept
  <2> QED BY <1>3, <2>1, <2>2, <2>3 DEF Kept
<1>9. ASSUME Take(p) PROVE Goal
  <2>1. /\ r.pc = "take" /\ UNCHANGED <<cache, closed, made>>
        /\ r2.pc = "remove" /\ r2.held = cache[r.slot] /\ r2.slot = r.slot
    BY <1>1, <1>3, <1>9 DEF Take, memory, history, Request, At
  <2> QED BY <1>3, <2>1 DEF Kept
<1>10. ASSUME Remove(p) PROVE Goal
  <2>1. /\ r.pc = "remove" /\ cache' = [cache EXCEPT ![r.slot] = Nil] /\ r.slot \in Slots
        /\ UNCHANGED <<made, closed>> /\ r2.pc = "close" /\ r2.held = r.held
    BY <1>1, <1>3, <1>10 DEF Remove, Step, history, Request, Placed, At, AtKey
  <2>2. \A s \in Slots : cache'[s] = IF s = r.slot THEN Nil ELSE cache[s] BY <1>2, <2>1
  <2>3. cache[r.slot] = r.held BY <1>3, <2>1 DEF Kept
  <2> QED BY <1>3, <2>1, <2>2, <2>3 DEF Kept
<1>11. ASSUME Close(p) PROVE Goal
  <2>1. /\ r.pc = "close" /\ UNCHANGED <<cache, made>>
        /\ closed' = closed \cup {r.held.id} /\ r2.pc = "next"
    BY <1>1, <1>3, <1>11 DEF Close, memory, Request, At
  <2> QED BY <1>3, <2>1 DEF Kept
<1> QED BY <1>3, <1>5, <1>6, <1>7, <1>8, <1>9, <1>10, <1>11

\* While one request goes on at a time, no other has begun.
LEMMA OthersIdle ==
    ASSUME TypeInv, OneAtATime, OneAtATime', NEW p \in Procs, Begin(p) \/ Run(p), ~Die
    PROVE  \A q \in Procs \ {p} : At(q, "idle") /\ At(q, "idle")'
<1>1. \A q \in Procs \ {p} : req'[q] = req[q] BY MoveTyped
<1>2. CASE Begin(p)
  <2>1. ~At(p, "idle")' BY <1>2, BeginLeavesIdle
  <2> QED BY <1>1, <2>1 DEF OneAtATime, At
<1>3. CASE Run(p)
  <2>1. ~At(p, "idle")
    BY <1>3
    DEF Run, EnterOnce, BuildHelper, LeaveOnce, Lookup, Build, Insert, Call, SaveConfig,
        AcceptConfigurationUpdate, ResetOnce, RangeOver, NextKey, TestIdle, Take, Remove,
        Close, At
  <2> QED BY <1>1, <2>1 DEF OneAtATime, At
<1> QED BY <1>2, <1>3

\* The memory of the one request is consistent, and no client it built is lost.
LEMMA AloneConsistent == Spec /\ []OneAtATime => [](TypeInv /\ SerialInv)
<1>1. Init => SerialInv
  <2> SUFFICES ASSUME Init PROVE SerialInv OBVIOUS
  <2>1. \A p \in Procs : At(p, "idle") BY DEF Init, At, Idle
  <2>2. Idle.pc = "idle" /\ Idle.op = "none" BY DEF Idle
  <2>3. Consistent(Idle) BY <2>2 DEF Init, Consistent, Follows, V3Slots
  <2>4. Kept(Idle) BY <2>2 DEF Init, Kept
  <2> QED BY <2>1, <2>3, <2>4 DEF SerialInv
<1>2. TypeInv /\ SerialInv /\ OneAtATime /\ OneAtATime' /\ [Next]_vars => SerialInv'
  <2> SUFFICES ASSUME TypeInv, SerialInv, OneAtATime, OneAtATime', [Next]_vars
               PROVE  SerialInv'
    OBVIOUS
  <2>1. CASE Die
    <3>1. Idle.pc = "idle" /\ Idle.op = "none" BY DEF Idle
    <3>2. \A p \in Procs : At(p, "idle")' BY <2>1, <3>1 DEF Die, At
    <3>3. /\ cfg' = cfgEntry' /\ once' = "fresh" /\ \A s \in Slots : cache'[s] = Nil
          /\ made' = made /\ closed' = 1..made
      BY <2>1 DEF Die
    <3>4. Consistent(Idle)' BY <3>1, <3>3 DEF Consistent, Follows, V3Slots, Idle
    <3>5. Kept(Idle)' BY <3>1, <3>3 DEF Kept, Idle
    <3> QED BY <3>2, <3>4, <3>5 DEF SerialInv
  <2>2. ASSUME UNCHANGED <<cfgEntry, memory, req, history>> PROVE SerialInv'
    <3>1. \A r : (Consistent(r) => Consistent(r)') /\ (Kept(r) => Kept(r)')
      BY <2>2 DEF Consistent, Follows, Sweeping, Kept, memory, history
    <3> QED BY <2>2, <3>1 DEF SerialInv, At, Idle
  <2>3. ASSUME NEW p \in Procs, Begin(p) \/ Run(p), ~Die PROVE SerialInv'
    <3>1. \A q \in Procs \ {p} : At(q, "idle") /\ At(q, "idle")' BY <2>3, OthersIdle
    <3>2. Consistent(req[p]) /\ Kept(req[p])
      <4>1. At(p, "idle") => req[p] = Idle BY DEF TypeInv, Placed, At
      <4> QED BY <3>1, <4>1 DEF SerialInv
    <3>3. Consistent(req[p])'
      <4>1. Begin(p) => req[p] = Idle BY BeginPlaced DEF TypeInv, Placed, At
      <4> QED BY <2>3, <3>2, <4>1, BeginConsistent, RunConsistent
    <3>4. Kept(req[p])' BY <2>3, <3>2, MoveKept
    <3>5. TypeInv' BY NextTyped
    <3>6. At(p, "idle")' => req'[p] = Idle BY <3>5 DEF TypeInv, Placed, At
    <3>7. ASSUME At(p, "idle")' PROVE Consistent(Idle)' /\ Kept(Idle)'
      BY <3>3, <3>4, <3>6, <3>7 DEF Consistent, Follows, Sweeping, Kept, Idle
    <3> QED BY <3>1, <3>3, <3>4, <3>7 DEF SerialInv
  <2> QED
    BY <2>1, <2>2, <2>3 DEF Next, ConcurrentMapAccess, Crash, WriteRole, Tick, vars
<1> QED BY <1>1, <1>2, InitTyped, NextTyped, PTL DEF Spec

\* One of them is enough to tell: where all is idle, or of the one that is not.
LEMMA SomeoneTells ==
    ASSUME TypeInv, SerialInv
    PROVE  \E r \in Request :
              /\ Consistent(r) /\ Kept(r) /\ Placed(r)
              /\ r = Idle \/ \E p \in Procs : r = req[p]
<1>1. CASE \A p \in Procs : At(p, "idle") BY <1>1, IdleTyped DEF SerialInv
<1>2. CASE \E p \in Procs : ~At(p, "idle") BY <1>2 DEF SerialInv, TypeInv
<1> QED BY <1>1, <1>2

\* One process at a time is what an instance with one process has.
LEMMA OneProcessIsAlone == ASSUME NEW p, Procs = {p} PROVE Spec => []OneAtATime
<1>1. OneAtATime BY DEF OneAtATime
<1> QED BY <1>1, PTL

\* While one request goes on at a time, the process works with the stored
\* configuration whenever no update is under way: an update that fails to save
\* has not touched the memory, and one that saves accepts what it saved.
THEOREM AloneMemoryFollows == Spec /\ []OneAtATime => []MemoryFollowsStorage
<1>1. TypeInv /\ SerialInv => MemoryFollowsStorage
  <2> SUFFICES ASSUME TypeInv, SerialInv, \A p \in Procs : req[p].op # "configure"
               PROVE  cfg = cfgEntry
    BY DEF MemoryFollowsStorage
  <2>1. PICK r \in Request :
           /\ Consistent(r) /\ Placed(r) /\ (r = Idle \/ \E p \in Procs : r = req[p])
    BY SomeoneTells
  <2>2. r.op # "configure" BY <2>1 DEF Idle
  <2>3. r.pc # "accept" BY <2>1, <2>2 DEF Placed, Updates
  <2> QED BY <2>1, <2>3 DEF Consistent
<1> QED BY <1>1, AloneConsistent, PTL

\* The helper and the V3 clients are the one request's to tell of.
LEMMA ConnectionsFollow == TypeInv /\ SerialInv => ConnectionsFollowConfiguration
<1> SUFFICES ASSUME TypeInv, SerialInv, \A p \in Procs : req[p].op # "configure"
             PROVE  /\ once = "done" => helper = Connection(cfg)
                    /\ \A s \in V3Slots : Follows(s)
  <2>1. \A r \in Roles : <<"v3", r>> \in V3Slots BY DEF V3Slots, Slots, Kinds
  <2> QED BY <2>1 DEF ConnectionsFollowConfiguration, Follows
<1>1. PICK r \in Request :
         /\ Consistent(r) /\ Placed(r) /\ (r = Idle \/ \E p \in Procs : r = req[p])
  BY SomeoneTells
<1>2. r.op # "configure" BY <1>1 DEF Idle
<1>3. r.pc # "resetOnce" BY <1>1, <1>2 DEF Placed, Updates
<1> QED BY <1>1, <1>2, <1>3 DEF Consistent

\* While one request goes on at a time, the helper and the V3 clients in use
\* after a configuration update were built with it: the update resets the Once
\* and goes through the V3 clients after it changes the memory.
THEOREM AloneConnectionsFollow == Spec /\ []OneAtATime => []ConnectionsFollowConfiguration
BY ConnectionsFollow, AloneConsistent, PTL

\* While one request goes on at a time, the V3 calls are made with the TLS
\* settings that a read of config reports, whatever was pinned, reset or
\* supplied before (EffectiveTLSPinning, readConfiguration).
THEOREM AloneConnectionsReported == Spec /\ []OneAtATime => []ConnectionsAsReported
<1>1. TypeInv /\ ConnectionsFollowConfiguration => ConnectionsAsReported
  <2> SUFFICES ASSUME TypeInv, ConnectionsFollowConfiguration, NEW r \in Roles,
                      \A p \in Procs : req[p].op # "configure", cache[<<"v3", r>>] # Nil
               PROVE  LET t == cache[<<"v3", r>>].tls
                          report == readConfiguration(cfg)
                      IN  /\ report.effective = "default" => t.pins = {MasheryPin}
                          /\ report.effective = "custom" => t.pins = report.pins /\ t.pins # {}
                          /\ t # Nil /\ t.InsecureSkipVerify <=> report.effective = "insecure"
                          /\ report.root_ca = "use system" => t = Nil \/ t.RootCAs = "system"
    BY DEF ConnectionsAsReported
  <2>1. cache[<<"v3", r>>].tls = EffectiveTLSConfiguration(cfg)
    BY DEF ConnectionsFollowConfiguration
  <2>2. cfg \in BackendConfiguration BY DEF TypeInv, TypeOK
  <2> QED BY <2>1, <2>2, SettingsAsReported
<1> QED BY <1>1, ConnectionsFollow, AloneConsistent, PTL

\* While one request goes on at a time, a client that was built is in the
\* cache, in the hands of the request that goes on, or closed: one that finds
\* its slot empty puts it there, and eviction and updates close what they take.
THEOREM AloneNoClientLeaks == Spec /\ []OneAtATime => []NoClientLeaks
<1>1. TypeInv /\ SerialInv => NoClientLeaks
  <2> SUFFICES ASSUME TypeInv, SerialInv, NEW i \in 1..made, i \notin closed
               PROVE  \E c \in Cached \cup {req[p].held : p \in Procs} : c # Nil /\ c.id = i
    BY DEF NoClientLeaks
  <2>1. PICK r \in Request :
           /\ Kept(r) /\ (r = Idle \/ \E p \in Procs : r = req[p])
    BY SomeoneTells
  <2>2. CASE \E s \in Slots : cache[s] # Nil /\ cache[s].id = i BY <2>2 DEF Cached
  <2>3. CASE r.pc \in {"insert", "close"} /\ r.held # Nil /\ r.held.id = i
    BY <2>1, <2>3 DEF Idle
  <2> QED BY <2>1, <2>2, <2>3 DEF Kept
<1> QED BY <1>1, AloneConsistent, PTL

\* While one request goes on at a time, a configuration request changes only
\* the fields it supplies, or the one certificate it is for: what it read is
\* still what is stored when it saves.
THEOREM AloneUpdatesKeepTheRest == Spec /\ []OneAtATime => UpdatesKeepTheRest
<1>1. TypeInv /\ SerialInv /\ [Next]_vars =>
        [\A p \in Procs :
           At(p, "saveConfig") /\ req'[p].pc = "accept" =>
             \A f \in DOMAIN cfgEntry \ req[p].asked : cfgEntry'[f] = cfgEntry[f]]_vars
  <2> SUFFICES ASSUME TypeInv, SerialInv, [Next]_vars, NEW p \in Procs,
                      At(p, "saveConfig"), req'[p].pc = "accept",
                      NEW f \in DOMAIN cfgEntry \ req[p].asked
               PROVE  cfgEntry'[f] = cfgEntry[f]
    OBVIOUS
  <2>1. req[p].draft[f] = cfgEntry[f] BY DEF SerialInv, Consistent, At
  <2>2. cfgEntry' \in {cfgEntry, req[p].draft}
    <3>1. CASE Die BY <3>1 DEF Die
    <3>2. ASSUME NEW q \in Procs, Begin(q) \/ Run(q), ~Die
          PROVE  cfgEntry' \in {cfgEntry, req[p].draft}
      <4>1. CASE q # p /\ SaveConfig(q)
        <5>1. req'[p] = req[p] BY <3>2, <4>1, MoveTyped
        <5> QED BY <5>1 DEF At
      <4>2. CASE SaveConfig(p) BY <4>2 DEF SaveConfig
      <4>3. CASE Begin(q) BY <4>3, BeginPlaced
      <4>4. CASE Run(q) /\ ~SaveConfig(q)
        BY <3>2, <4>4
        DEF Run, EnterOnce, BuildHelper, LeaveOnce, Lookup, Build, Insert, Call,
            AcceptConfigurationUpdate, ResetOnce, RangeOver, NextKey, TestIdle, Take, Remove,
            Close
      <4> QED BY <3>2, <4>1, <4>2, <4>3, <4>4
    <3> QED
      BY <3>1, <3>2 DEF Next, ConcurrentMapAccess, Crash, WriteRole, Tick, vars
  <2> QED BY <2>1, <2>2
<1> QED BY <1>1, AloneConsistent, PTL DEF Spec, UpdatesKeepTheRest

=============================================================================
