---------------------------- MODULE ClientCache ----------------------------
(***************************************************************************)
(* The connections of one plugin process to Mashery (src/mashery/plugin.go *)
(* and path_config.go): the configuration in memory and in the storage,    *)
(* the OAuth helper built once per configuration, and the V2 and V3        *)
(* clients cached per role, which configuration updates drop and the       *)
(* periodic Housekeeping evicts.  Nothing of it is locked, but for the     *)
(* sync.Once that a configuration update overwrites.                       *)
(*                                                                         *)
(* What a role write changes and a client depends on is one value of Keys  *)
(* (API key, area number and QPS); the configuration is BackendConfig's.   *)
(***************************************************************************)
EXTENDS BackendConfig, Sequences, FiniteSets

CONSTANTS
    Procs,       \* requests, and the periodic function, that run at once
    Roles,       \* role names
    Keys,        \* what the clients take from a role's keys
    Settings,    \* the field data of writes of config
    Pins,        \* the field data of writes of config/certs/<type>
    Pinned,      \* the certificates of the chain such writes are for
    Ops,         \* what happens: "call", "token", "configure", "housekeep", "write"
    httpIdle,    \* how long a client may stay unused (15 min)
    MaxTime,     \* bound on the clock
    MaxClients,  \* bound on the clients built
    Faults       \* whether storage writes fail and the process dies

ASSUME CacheAssumption ==
    /\ IsFiniteSet(Procs) /\ Procs \cap {"fresh", "done"} = {}
    /\ \A d \in Settings :
          /\ DOMAIN d \subseteq ConfigFields
          /\ \A f \in DOMAIN d : d[f] \in IF f = "CLIWriteEnabled" THEN BOOLEAN ELSE ConfigText
    /\ \A d \in Pins : DOMAIN d \subseteq PinFields /\ \A f \in DOMAIN d : d[f] \in ConfigText
    /\ Pinned \subseteq Chain
    /\ httpIdle \in Nat /\ MaxTime \in Nat \ {0} /\ MaxClients \in Nat
    /\ Faults \in BOOLEAN

Kinds == {"v2", "v3"}
Slots == Kinds \X Roles     \* a client map and the role its key names

Client == [id : 1..MaxClients, lastUsed : 0..MaxTime, keys : Keys,
           tls : TLSSettings, ProxyServer : ConfigText]

\* What the OAuth helper is built with.
Connections ==
    [tls : TLSSettings, ProxyServer : ConfigText,
     ProxyServerAuth : ConfigText, ProxyServerCreds : ConfigText]

Connection(c) ==
    [tls |-> EffectiveTLSConfiguration(c), ProxyServer |-> c.ProxyServer,
     ProxyServerAuth |-> c.ProxyServerAuth, ProxyServerCreds |-> c.ProxyServerCreds]

ASSUME NilAssumption == Nil \notin Client /\ Nil \notin Connections

VARIABLES
    now,
    roleKeys,   \* storage: the keys of each role
    cfgEntry,   \* storage: the configuration
    cfg,        \* memory: the configuration
    once,       \* memory: v3OAuthHelperInit, "fresh", "done" or who runs it
    helper,     \* memory: the settings the OAuth helper was built with
    cache,      \* memory: the client maps
    req,        \* the local variables of each request
    made,       \* history: how many clients were built
    closed,     \* history: the ids of those closed
    called      \* history: when a slot's client was last asked for, 0 never

memory == <<cfg, once, helper, cache>>
history == <<made, closed, called>>
vars == <<now, roleKeys, cfgEntry, memory, req, history>>

Idle ==
    [op |-> "none", pc |-> "idle", kind |-> Nil, slot |-> Nil, keys |-> Nil,
     held |-> Nil, draft |-> Nil, asked |-> {}, cutover |-> 0, rest |-> <<>>, todo |-> {},
     due |-> [s \in Slots |-> Nil]]

At(p, l) == req[p].pc = l
Step(p, l) == req' = [req EXCEPT ![p].pc = l]
Finish(p) == req' = [req EXCEPT ![p] = Idle]

\* The process dies and Vault starts another, which reads the configuration.
Die ==
    /\ cfg' = cfgEntry
    /\ once' = "fresh" /\ helper' = Nil
    /\ cache' = [s \in Slots |-> Nil]
    /\ req' = [p \in Procs |-> Idle]
    /\ closed' = 1..made
    /\ UNCHANGED <<now, roleKeys, cfgEntry, made, called>>

(***************************************************************************)
(* GetOAuthHelper.  Overwriting the Once while its function runs makes the *)
(* unlock at the end that of another mutex: fatal when it is not locked.   *)
(***************************************************************************)
\* A token read or grant (no slot), or the token renewal of a V3 call.
BeginToken(p) ==
    /\ "token" \in Ops /\ At(p, "idle")
    /\ req' = [req EXCEPT ![p].pc = "enterOnce"]
    /\ UNCHANGED <<now, roleKeys, cfgEntry, memory, history>>

HelperInHand(p) == IF req[p].slot = Nil THEN Finish(p) ELSE Step(p, "lookup")

EnterOnce(p) ==
    /\ At(p, "enterOnce")
    /\ \/ once = "done" /\ HelperInHand(p) /\ UNCHANGED once
       \/ once = "fresh" /\ once' = p /\ Step(p, "buildHelper")
    /\ UNCHANGED <<now, roleKeys, cfgEntry, cfg, helper, cache, history>>

BuildHelper(p) ==
    /\ At(p, "buildHelper")
    /\ helper' = Connection(cfg)
    /\ Step(p, "leaveOnce")
    /\ UNCHANGED <<now, roleKeys, cfgEntry, cfg, once, cache, history>>

\* Slip: who built the helper leaves the Once locked.
LeaveLocked(p) ==
    /\ At(p, "leaveOnce")
    /\ HelperInHand(p)
    /\ UNCHANGED <<now, roleKeys, cfgEntry, memory, history>>

LeaveOnce(p) ==
    /\ At(p, "leaveOnce")
    /\ \/ /\ once \in Procs
          /\ once' = "done"
          /\ HelperInHand(p)
          /\ UNCHANGED <<now, roleKeys, cfgEntry, cfg, helper, cache, history>>
       \/ once \notin Procs /\ Die

(***************************************************************************)
(* GetMasheryV2Client and GetMasheryV3Client.  A hit sets lastUsed of a    *)
(* copy of the map's value, which changes nothing.                         *)
(***************************************************************************)
Calling == {p \in Procs : req[p].op = "call"}

BeginCall(p) ==
    /\ "call" \in Ops /\ At(p, "idle")
    /\ made + Cardinality(Calling) < MaxClients
    /\ \E s \in Slots, l \in {"lookup", "enterOnce"} :
         /\ l = "enterOnce" => s[1] = "v3"
         /\ req' = [req EXCEPT ![p] = [Idle EXCEPT !.op = "call", !.pc = l, !.kind = s[1],
                                                   !.slot = s, !.keys = roleKeys[s[2]]]]
    /\ UNCHANGED <<now, roleKeys, cfgEntry, memory, history>>

\* Slip: the client found is not looked at.
LookupUnchecked(p) ==
    /\ At(p, "lookup")
    /\ req' = [req EXCEPT ![p].pc = "call", ![p].held = cache[req[p].slot]]
    /\ UNCHANGED <<now, roleKeys, cfgEntry, memory, history>>

Lookup(p) ==
    /\ At(p, "lookup")
    /\ LET c == cache[req[p].slot]
       IN  req' = [req EXCEPT ![p].pc = IF c # Nil THEN "call" ELSE "build",
                              ![p].held = c]
    /\ UNCHANGED <<now, roleKeys, cfgEntry, memory, history>>

\* A V3 client takes the TLS settings only, a V2 client nothing.
NewClient(p) ==
    [id |-> made + 1, lastUsed |-> now, keys |-> req[p].keys,
     tls |-> IF req[p].kind = "v3" THEN EffectiveTLSConfiguration(cfg) ELSE Nil,
     ProxyServer |-> ""]

Build(p) ==
    /\ At(p, "build")
    /\ made' = made + 1
    /\ req' = [req EXCEPT ![p].pc = "insert", ![p].held = NewClient(p)]
    /\ UNCHANGED <<now, roleKeys, cfgEntry, memory, closed, called>>

Insert(p) ==
    /\ At(p, "insert")
    /\ cache' = [cache EXCEPT ![req[p].slot] = req[p].held]
    /\ Step(p, "call")
    /\ UNCHANGED <<now, roleKeys, cfgEntry, cfg, once, helper, history>>

Call(p) ==
    /\ At(p, "call")
    /\ called' = [called EXCEPT ![req[p].slot] = now]
    /\ Finish(p)
    /\ UNCHANGED <<now, roleKeys, cfgEntry, memory, made, closed>>

(***************************************************************************)
(* Configuration: read and change, or answer an error; save, accept.       *)
(***************************************************************************)
Change(p, fields, draft) ==
    /\ "configure" \in Ops /\ At(p, "idle")
    /\ req' = [req EXCEPT ![p].op = "configure", ![p].pc = "saveConfig",
                          ![p].draft = draft, ![p].asked = fields]
    /\ UNCHANGED <<now, roleKeys, cfgEntry, memory, history>>

storeConfiguration(p) ==
    \E d \in Settings :
        /\ parsesBackEndConfiguration(d)
        /\ Change(p, DOMAIN d, parseBackEndConfiguration(d, cfgEntry))

updateCert(p) ==
    \E x \in Pinned, d \in Pins :
        /\ parsesCertificatePin(d)
        /\ Change(p, {x}, [cfgEntry EXCEPT ![x] = parseCertificatePin(d, @)])

resetCert(p) ==
    \E x \in Pinned : Change(p, {x}, [cfgEntry EXCEPT ![x] = resetCertificatePin])

\* Slip: the error of the write is not looked at.
SaveIgnoringError(p) ==
    /\ At(p, "saveConfig")
    /\ \/ Faults /\ UNCHANGED cfgEntry
       \/ cfgEntry' = req[p].draft
    /\ Step(p, "accept")
    /\ UNCHANGED <<now, roleKeys, memory, history>>

SaveConfig(p) ==
    /\ At(p, "saveConfig")
    /\ \/ Faults /\ Finish(p) /\ UNCHANGED cfgEntry
       \/ cfgEntry' = req[p].draft /\ Step(p, "accept")
    /\ UNCHANGED <<now, roleKeys, memory, history>>

AcceptConfigurationUpdate(p) ==
    /\ At(p, "accept")
    /\ cfg' = req[p].draft
    /\ Step(p, "resetOnce")
    /\ UNCHANGED <<now, roleKeys, cfgEntry, once, helper, cache, history>>

\* Slip: the V3 clients are forgotten.
SweepV2Only(o) == IF o = "configure" THEN <<"v2">> ELSE <<"v3", "v2">>

\* The maps in the order they are gone through.
Sweep(o) == IF o = "configure" THEN <<"v2", "v3">> ELSE <<"v3", "v2">>

ResetOnce(p) ==
    /\ At(p, "resetOnce")
    /\ once' = "fresh"
    /\ req' = [req EXCEPT ![p].pc = "range", ![p].rest = Sweep("configure")]
    /\ UNCHANGED <<now, roleKeys, cfgEntry, cfg, helper, cache, history>>

(***************************************************************************)
(* Housekeeping, which Vault runs one at a time, and the loops it shares   *)
(* with the configuration update: range over a map, take the client of a   *)
(* key, delete the key, close the client.                                  *)
(***************************************************************************)
BeginHousekeeping(p) ==
    /\ "housekeep" \in Ops /\ At(p, "idle")
    /\ \A q \in Procs : req[q].op # "housekeep"
    /\ req' = [req EXCEPT ![p].op = "housekeep", ![p].pc = "range",
                          ![p].cutover = IF now > httpIdle THEN now - httpIdle ELSE 0,
                          ![p].rest = Sweep("housekeep")]
    /\ UNCHANGED <<now, roleKeys, cfgEntry, memory, history>>

RangeOver(p) ==
    /\ At(p, "range")
    /\ IF req[p].rest = <<>> THEN Finish(p)
       ELSE LET k == Head(req[p].rest)
            IN  req' = [req EXCEPT ![p].pc = "next", ![p].kind = k,
                                   ![p].rest = Tail(@), ![p].due = cache,
                                   ![p].todo = {s \in Slots : s[1] = k}]
    /\ UNCHANGED <<now, roleKeys, cfgEntry, memory, history>>

\* Each key present is visited once, one inserted during the loop perhaps.
NextKey(p) ==
    /\ At(p, "next")
    /\ \/ \E s \in {t \in req[p].todo : cache[t] # Nil} :
            req' = [req EXCEPT ![p].slot = s, ![p].todo = @ \ {s},
                      ![p].pc = IF req[p].op = "housekeep" THEN "test" ELSE "take"]
       \/ /\ \A s \in req[p].todo : cache[s] = Nil \/ cache[s] # req[p].due[s]
          /\ Step(p, "range")
    /\ UNCHANGED <<now, roleKeys, cfgEntry, memory, history>>

\* The zero time of a key that is gone is before any.
TestIdle(p) ==
    /\ At(p, "test")
    /\ LET c == cache[req[p].slot]
       IN  Step(p, IF c # Nil /\ c.lastUsed >= req[p].cutover THEN "next" ELSE "take")
    /\ UNCHANGED <<now, roleKeys, cfgEntry, memory, history>>

\* Slip: the client is closed while it can still be found.
TakeAndClose(p) ==
    /\ At(p, "take")
    /\ req' = [req EXCEPT ![p].pc = "remove", ![p].held = cache[req[p].slot]]
    /\ closed' = closed \cup {c.id : c \in {cache[req[p].slot]} \ {Nil}}
    /\ UNCHANGED <<now, roleKeys, cfgEntry, memory, made, called>>

Take(p) ==
    /\ At(p, "take")
    /\ req' = [req EXCEPT ![p].pc = "remove", ![p].held = cache[req[p].slot]]
    /\ UNCHANGED <<now, roleKeys, cfgEntry, memory, history>>

Remove(p) ==
    /\ At(p, "remove")
    /\ cache' = [cache EXCEPT ![req[p].slot] = Nil]
    /\ Step(p, "close")
    /\ UNCHANGED <<now, roleKeys, cfgEntry, cfg, once, helper, history>>

\* Slip: the client is dropped and left open.
CloseForgotten(p) ==
    /\ At(p, "close")
    /\ req' = [req EXCEPT ![p].pc = "next", ![p].held = Nil]
    /\ UNCHANGED <<now, roleKeys, cfgEntry, memory, history>>

\* A key that was gone when its client was taken has no client to close: panic.
Close(p) ==
    /\ At(p, "close")
    /\ \/ /\ req[p].held # Nil
          /\ closed' = closed \cup {req[p].held.id}
          /\ req' = [req EXCEPT ![p].pc = "next", ![p].held = Nil]
          /\ UNCHANGED <<now, roleKeys, cfgEntry, memory, made, called>>
       \/ req[p].held = Nil /\ Die

(***************************************************************************)
(* The runtime may detect a map written while it is accessed, and stops.   *)
(***************************************************************************)
Writing == {"insert", "remove"}
Accessing == Writing \cup {"lookup", "next", "test", "take"}

ConcurrentMapAccess ==
    /\ \E p, q \in Procs : /\ p # q /\ req[p].kind = req[q].kind
                           /\ req[p].pc \in Writing /\ req[q].pc \in Accessing
    /\ Die

WriteRole(r) ==
    /\ "write" \in Ops
    /\ \E k \in Keys : roleKeys' = [roleKeys EXCEPT ![r] = k]
    /\ UNCHANGED <<now, cfgEntry, memory, req, history>>

Tick ==
    /\ now < MaxTime /\ now' = now + 1
    /\ UNCHANGED <<roleKeys, cfgEntry, memory, req, history>>

Crash == Faults /\ Die

\* makeNew and initOnMount.
Init ==
    /\ now = 1
    /\ roleKeys \in [Roles -> Keys]
    /\ cfgEntry = DefaultBackendConfiguration /\ cfg = cfgEntry
    /\ once = "fresh" /\ helper = Nil
    /\ cache = [s \in Slots |-> Nil]
    /\ req = [p \in Procs |-> Idle]
    /\ made = 0 /\ closed = {} /\ called = [s \in Slots |-> 0]

Begin(p) == BeginToken(p) \/ BeginCall(p) \/ BeginHousekeeping(p)
            \/ storeConfiguration(p) \/ updateCert(p) \/ resetCert(p)

Run(p) ==
    \/ EnterOnce(p) \/ BuildHelper(p) \/ LeaveOnce(p)
    \/ Lookup(p) \/ Build(p) \/ Insert(p) \/ Call(p)
    \/ SaveConfig(p) \/ AcceptConfigurationUpdate(p) \/ ResetOnce(p)
    \/ RangeOver(p) \/ NextKey(p) \/ TestIdle(p) \/ Take(p) \/ Remove(p) \/ Close(p)

Next ==
    \/ \E p \in Procs : Begin(p) \/ Run(p)
    \/ ConcurrentMapAccess
    \/ \E r \in Roles : WriteRole(r)
    \/ Tick \/ Crash

Spec == Init /\ [][Next]_vars

\* The Go scheduler keeps running a request that can take its step, and a mutex
\* is handed to one that has waited for it.
FairSpec == Spec /\ \A p \in Procs : WF_vars(Run(p)) /\ SF_vars(EnterOnce(p))

(***************************************************************************)
(* Properties.                                                             *)
(***************************************************************************)
Cached == {cache[s] : s \in Slots} \ {Nil}

\* The variables hold what they are declared for, a request that makes a call
\* has a client to make it with, and a Once that was run has left a helper.
TypeOK ==
    /\ now \in 1..MaxTime
    /\ roleKeys \in [Roles -> Keys]
    /\ cfgEntry \in BackendConfiguration /\ cfg \in BackendConfiguration
    /\ once \in {"fresh", "done"} \cup Procs
    /\ helper \in Connections \cup {Nil}
    /\ once = "done" => helper # Nil
    /\ cache \in [Slots -> Client \cup {Nil}]
    /\ \A p \in Procs : At(p, "call") => req[p].held \in Client
    /\ made \in 0..MaxClients /\ closed \subseteq 1..made
    /\ called \in [Slots -> 0..MaxTime]

\* A client found in the cache is open: eviction and configuration update take
\* it out before they close it, whatever runs at the same time.
CachedOpen == \A c \in Cached : c.id \notin closed

\* Once a configuration update is over, whether it succeeded or failed, the
\* process works with what is stored (storeConfiguration, initOnMount).
MemoryFollowsStorage ==
    (\A p \in Procs : req[p].op # "configure") => cfg = cfgEntry

\* A configuration update takes effect at once: the OAuth helper and the V3
\* clients still in use after it were built with it (AcceptConfigurationUpdate).
ConnectionsFollowConfiguration ==
    (\A p \in Procs : req[p].op # "configure") =>
        /\ once = "done" => helper = Connection(cfg)
        /\ \A r \in Roles : cache[<<"v3", r>>] # Nil =>
                              cache[<<"v3", r>>].tls = EffectiveTLSConfiguration(cfg)

\* What a read of config says of the TLS settings is what the V3 calls are made
\* with: the certificates are pinned that it shows, Mashery's where the last
\* pin was reset while custom pinning stayed on, and none but for "system" and
\* "insecure" (EffectiveTLSPinning, readConfiguration).
ConnectionsAsReported ==
    \A r \in Roles :
        LET t == cache[<<"v3", r>>].tls
            report == readConfiguration(cfg)
        IN  (\A p \in Procs : req[p].op # "configure") /\ cache[<<"v3", r>>] # Nil =>
              /\ report.effective = "default" => t.pins = {MasheryPin}
              /\ report.effective = "custom" => t.pins = report.pins /\ t.pins # {}
              /\ t # Nil /\ t.InsecureSkipVerify <=> report.effective = "insecure"
              /\ report.root_ca = "use system" => t = Nil \/ t.RootCAs = "system"

\* A configuration request changes only the fields it supplies, or the one
\* certificate it is for (storeConfiguration, updateCert, resetCert).
UpdatesKeepTheRest ==
    [][\A p \in Procs :
         At(p, "saveConfig") /\ req'[p].pc = "accept" =>
             \A f \in DOMAIN cfgEntry \ req[p].asked : cfgEntry'[f] = cfgEntry[f]]_vars

\* No client is dropped without being closed.
NoClientLeaks ==
    \A i \in 1..made : \/ i \in closed
                       \/ \E c \in Cached \cup {req[p].held : p \in Procs} : c # Nil /\ c.id = i

\* Housekeeping and configuration updates end, and so does a request for the
\* OAuth helper that has to wait for another to build it.
RequestsEnd == \A p \in Procs : ~At(p, "idle") ~> At(p, "idle")

\* Housekeeping evicts no client that was used within the idle period.
ActiveClientsKept ==
    [][\A p \in Procs : At(p, "remove") /\ req[p].op = "housekeep" /\ Remove(p)
         => called[req[p].slot] < req[p].cutover]_vars

\* A V2 call is made with the API key of the role as the request read it.
V2CallsUseRoleCredentials ==
    \A p \in Procs : At(p, "call") /\ req[p].kind = "v2" => req[p].held.keys = req[p].keys

\* The V3 calls go through the proxy that is configured.
V3CallsUseProxy ==
    \A p \in Procs : At(p, "call") /\ req[p].kind = "v3" => req[p].held.ProxyServer = cfg.ProxyServer
=============================================================================
