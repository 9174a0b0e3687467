# A formal model of the TIBCO Mashery secrets engine

This directory holds TLA+ modules that model the Vault secrets engine in
`src/mashery`, the TLC configurations that check them on small instances, and
theorems about them that TLAPS proves for every instance. `PROJECT.json` maps
each definition to the lines of source it stands for and lists the runs, the
hazards they are aimed at, the mutants that show each property can fail, and
the places where the code and its documents disagree.

## The system

The plugin is one process that Vault starts and talks to over gRPC. Vault calls
handlers for any number of requests at once, and a periodic function about once
a minute. The handlers share Vault's storage and the fields of `AuthPlugin`.
Nothing is locked, except for the `sync.Once` around the OAuth helper.

| Component | State | Operations | Interacts with |
|---|---|---|---|
| Role data (`data_structs.go`) | `RoleKeys`, `StoredRoleUsage`, exchange data | capability and limit tests, quota, token, export, import | used by every handler |
| Role administration (`path_role.go`, `transformers_role_rw.go`) | storage entries `<role>/key`, `<role>/usage`, `<role>/pk` | create, update, read, delete | storage |
| Grants and tokens (`path_role_grant.go`, `path_role_token.go`) | `<role>/usage` | grant V2 signature, grant V3 token, read and delete the stored token | storage, OAuth helper, Mashery |
| V2 API (`path_role_v2.go`, `path_proxy_v2.go`, `transformers_v2.go`) | `<role>/usage` | call, proxied call | storage, V2 client |
| V3 API (`path_role_v3.go`, `path_proxy_v3.go`, `transformers_v3.go`) | `<role>/usage` | get, list, write, delete, proxied call; retry with a new token | storage, OAuth helper, V3 client |
| Role exchange (`path_role_impexp.go`, `transformers_pki.go`) | `<role>/pk`, keys, usage | certificate, export, import | storage, another engine |
| Transformer chains (`chainofresponsibility.go`, `cordriver.go`) | the request's heap | run transformers until one answers or fails | all handlers |
| Clients (`plugin.go`) | `v2Clients`, `v3Clients`, OAuth helper, `Once` | look up or build, evict when idle, drop on configuration | configuration, Mashery |
| Configuration (`path_config.go`, `transformers_backendConfig_*.go`) | storage entry `config`, `AuthPlugin.cfg` | read, change, pin certificates, accept | clients, exchange (OAEP label) |
| User input, rendering, listing, executables | none | parse, format | - |

What is hard about it:

* every handler is read, change, write of whole storage entries with no lock, so
  requests on one role overwrite each other's changes;
* creates, deletes and imports are several storage calls, each of which can
  fail, and the process can die between any two;
* the token of a role is checked, renewed, stored, used, reset and retried at
  different moments, while other requests delete or replace it;
* an error in a V3 call ends in the dereference of a nil response, which takes
  the process and every request in flight with it;
* maps and the `Once` are shared without a lock.

What makes each component correct: no role is used beyond its grant; stored
limits are those of one grant; nothing of a role is left when its keys are
gone; an imported role's keys are not written; a call carries a token, obtained
for the role's credentials; every request ends; an import gives the recipient
what was exported and nobody else anything; memory follows the stored
configuration, connections follow memory; cached clients are open, dropped ones
are closed, active ones stay.

## The modules

| Module | Models |
|---|---|
| `RoleData` | the records and pure operations on a role, with their JSON form and what a read reports of it |
| `RoleService` | the requests on one role, each a process that runs a handler's chain |
| `QuotaLedger` | the abstract account of a role's uses: granted, left, charged, made |
| `RoleLedger` | the refinement mapping from `RoleService` to `QuotaLedger` |
| `RoleExchange` | certificates, exports and imports of roles between engines |
| `UserInput` | the term of an export as a text, and what it is parsed to |
| `V3Calls` | the call an operation makes to Mashery's V3 API, and the answer the client gets |
| `BackendConfig` | the configuration: requests, validation, TLS settings, report |
| `ClientCache` | configuration in storage and memory, OAuth helper, client maps, housekeeping |
| `RoleDataProofs` | lemmas about a role's data: what the operations keep well formed, and what storage and a message make of it |
| `RoleServiceProofs` | theorems about requests on one role, however many overlap |
| `RoleKeysProofs`, `RoleLedgerProofs` | theorems about the keys and the uses of a role while requests do not overlap (those about the account are in `QuotaLedger`) |
| `RoleExchangeProofs`, `V3CallsProofs`, `ClientCacheProofs` | theorems about the module each is named after |
| `MCRoleService`, `MCRoleLedger`, `MCRoleExchange`, `MCV3Calls`, `MCClientCache` | instances for TLC |

`RoleService` and `RoleExchange` build on `RoleData`, `RoleExchange` on
`UserInput`, `ClientCache` on `BackendConfig`. `RoleService` has the
interleavings of the requests on one role; `RoleExchange` composes several roles
in several engines, with a step for each storage write or delete of the requests
that make several, and takes a use and an export as one step. `V3Calls` takes the chain before the call as a step that passes
or fails, which `RoleService` details.

### RoleData

Strings are members of a set `Text` that contains the empty string; times are
integers; an access token is represented by the credentials Mashery issued it
for, which is what the properties tell tokens apart by. `Encode` and `Overlay`
are what `StorageEntryJSON` and `DecodeJSON` do to a struct: a field tagged
`omitempty` is dropped when zero, and decoding leaves absent fields as the
receiver had them. This matters: a QPS of 0 is dropped and reads back as the
default of 2, since `readRole` decodes onto `InitialRole`.

### RoleService

`keyEntry`, `usageEntry` and `pkEntry` are the three storage entries of one
role; roles do not share storage, so one role stands for all. A request `p` is
`op[p]` (which handler), `pc[p]` (its place in the chain), `arg[p]` (request
data), `keys[p]`, `usage[p]` (the role on its heap) and `tries[p]`. The handler
definitions are sequences of step names in the order of the code's
`SimpleChain` and `Append` calls, and have the names of the handlers. `Goto`,
`Proceed` and `Finish` are the stepping of `SimpleChain`, `SimpleRunner.Run` and
`MappingRunner.Run`. Each action is one transformer, or one storage or network
access where a transformer makes several:

* `readRole` is `ReadKeys` then `ReadUsage`; a request can see keys of before
  and usage of after another's write;
* `ensureAccessTokenValid` is a check with the retrieval of a token, then
  `storeToken`; the pair appears again as `refreshToken` and `storeRefreshed` in
  the fetch loop, where its failure is a panic;
* `doFetchWithErrorHandling` is one attempt: a good answer, another attempt
  after an inactive-developer answer, or the end of the process;
* `handleDeleteRoleData` is three deletes, each of which may fail;
* the existence check Vault makes before a create or update is in `BeginWrite`
  and `BeginImport`, and is the first half of `executeV3Write`'s chain, with the
  call to Mashery it makes.

Checks on the heap (`Block`) and changes to it are steps of their own as well;
they commute with other requests' steps but the clock may move between them.

`uses` and `outdated` are history variables: `uses` counts the uses of the
credentials made under the limits now stored, and `outdated` holds the requests
that read the usage before these limits were put in force, whose use belongs to
the former ones. The existence check's call to Mashery is not counted: the
code leaves it uncharged on purpose (`path_role_v3.go:166`).

Over-approximations: an import may succeed whenever the role has a private key,
without a certificate having been issued for it (`RoleExchange` has the
certificates); whether CLI writes are enabled is either way at each V3 write
(`V3Calls` has the setting). Left out as actions: `roles/<name>` read and
export, which change nothing; what the read reports is `renderRole`, which
`ReportsKeepPromise` compares with what the gates do.

### QuotaLedger and RoleLedger

The account knows a number granted, left, pending (charged and not made) and
made; `Grant`, `Charge`, `Spend` and `Forfeit` are its steps. `RoleLedger` maps
the usage entry to what is granted and left, and the place of each request in
its chain to what is pending: a request is `Charged` when it has passed the
`charge` step of its handler, has made no attempt yet and is not `outdated`.
`ImplementsLedger` is the refinement. It fails if any handler charges after the
use, twice, or without looking at the limits.

### RoleExchange and UserInput

Each role belongs to an engine with its own OAEP label. `pkEntry` is the number
of the role's private key. A request `p` is `req[p]`: its next step and its
heap. It reads what it needs when it begins, and each write or delete after that
is a step, which may fail (`Fail`), before which the process may die (`Crash`)
and between which other requests run:

* `handleWriteRoleKeys`, `SaveKeys`, `SaveUsage`: a create, which may leave keys
  without usage;
* `handleUpdateRoleData`, `SaveKeys`: an update;
* `DeleteUsage`, `DeletePrivateKey`, `DeleteKeys`: the three deletes of
  `handleDeleteRoleData` in the code's order;
* `pathRoleImport`, `SaveKeys`, `SaveUsage`: an import, which may leave the keys
  of a message under other limits;
* `BeginWithoutKey`, `SavePrivateKey`: a first certificate, or an import into a
  role that has no private key yet; `pathRolePEMRead` where there is one.

`Use` (a proxied call, charged first) and `pathRoleExport` (which writes nothing)
are one step; what overlapping uses do to the quota is in `RoleService`.
RSA-OAEP is modelled by what it lets the recipient open: a message opens with
its key and under its label. Carriers keep every certificate and message for
good, so that each can arrive late, again or never. `born`, `source`,
`limiting`, `under`, `imports` and `made` are history: how often a role was
created, which message its keys and which its limits are from, under which label
a message was opened, how often its limits were stored, and how often they were
used.

A term is a text, a sequence of numbers with units. `ParseUserInputDuration`
looks for days, then weeks, then a date anywhere in it, as the unanchored
patterns do, and else for a Go duration. `Atoi` stops at the largest int, a
product wraps at 2^63 ns (`DurationBound`), a difference of two times (`Sub`)
stops there. `InDocumentedFormat` and `EndsAt` are the reference: the formats the
documents name and the instant they mean; `Documented` adds that the term is
short enough for a duration.

### V3Calls

Mashery is one object in a collection, which others create and delete
(`Elsewhere`). A request has a path (CLI, proxy, proxy with method), an
operation, an address and a suffix. `Address` and `Method` are how the path
patterns and handlers resolve these. `Attempt` is one pass of
`doFetchWithErrorHandling`: an inactive developer leads to the next of three, a
failure or another 403 to a nil response that is dereferenced, which ends the
process; a failed call may have been served. On the CLI path `bounceErrorCodes`
reads the body before it looks at the status: where that fails the client gets
an error, whatever was served (`Unread`). `CheckExists` asks for the path
without the slash the calls put before it; what the client library makes of that
is left open (`"nowhere"`). `Render` is what the renderers show of a page: its
objects have textual ids, other ones or none, it may be part of a larger
collection, and it comes with its count or without, in which case
`checkNeedCountWarning` is silent.

### BackendConfig

Pure operators. `parseBackEndConfiguration` gives the new value of each field
for the fields supplied: a string copied only when not empty, a proxy only with
a host, a latency in whole milliseconds; `parsesBackEndConfiguration` says which
requests have no parse error. Texts are members of `ConfigText`, and the
constants `ProxyURLs`, `ParseDuration`, `HexBytes` and `Certificates` say what
the libraries' parsers make of each. `EffectiveTLSConfiguration` follows the
code through pinning and CAs; `readConfiguration` is the report.

### ClientCache

The configuration is a record of `BackendConfig`, and `storeConfiguration`,
`updateCert` and `resetCert` begin its change. One plugin process: the client maps as one function from (map, role) to a
client, and `req[p]` with a request's local variables. `GetMasheryV3Client` and
`GetMasheryV2Client` are `Lookup`, `Build`, `Insert`, `Call`; `GetOAuthHelper`
is `EnterOnce`, `BuildHelper`, `LeaveOnce`; `AcceptConfigurationUpdate` is the
assignment, `ResetOnce` and the loops over the maps; `Housekeeping` is the same
loops in the other order, with `TestIdle`. A loop takes each key that is present
once; whether it visits a key inserted meanwhile Go leaves open, and so does the
model. Undefined behaviour is a choice: where a map is written while another
request accesses it the runtime may abort (`ConcurrentMapAccess`), or not.
Overwriting the `Once` while its function runs makes the final unlock fatal, or
the unlock of a mutex another request has locked since. Vault runs the periodic
function of a mount one at a time.

## The runs

| Run | Instance | Properties | Shows |
|---|---|---|---|
| `serial` | 1 request, all operations, 4 kinds of import, faults | `TypeOK`, `QuotaRespected`, `NoOrphans`, `ReportsKeepPromise`, `ImportedKeysFixed`, `UpdatesOnlyUpdate`, `ImplementsLedger` | requests that do not overlap keep the grant, report it truly and leave nothing behind, wherever they fail; every step is one of the account |
| `concurrent` | 2 requests, the operations that write usage | `StoredWithinGrant` | stale writes never mix two grants |
| `token_race` | 2 requests, token operations, clock to 2, faults, `FairSpec` | `CallsCarryToken`, `RequestsComplete` | no call or token read with an empty token, and every request ends |
| `cache_serial` | 1 request, all operations, 7 configuration writes, pins, faults | `TypeOK`, `MemoryFollowsStorage`, `ConnectionsFollowConfiguration`, `NoClientLeaks`, `ConnectionsAsReported`, `UpdatesKeepTheRest` | storage, memory, connections and the report agree |
| `cache_liveness` | 2 requests, all operations, `FairSpec` | `CachedOpen`, `RequestsEnd` | a client that can be found is open; waits and loops end |
| `exchange` | 1 request, 2 engines, 2 roles created twice, 2 labels, 1 message imported twice, faults | `TypeOK`, `ImportsAreAddressed`, `CertificatesServe` | a message serves the role it was made for, a certificate the role it is of, wherever creates, imports and deletes stop |
| `exchange_limits` | 1 request, 2 roles, 2 messages imported twice each, faults | `UsesPerImport`, `ExportsPermitted`, `CredentialsNarrow` | along a chain of exports permissions and credentials only narrow, and each import is good for the uses it grants |
| `terms` | 1 request, 1 message imported twice, 35 texts of a term, up to the bound of a duration and beyond, clock to 2 ticks after the start, faults | `TermsAsAsked`, `TermRunsFromExport` | a record ends when the text of its term says, counted from the export, not from the import |
| `v3_calls` | 1 request, all paths and operations, others at work, faults | `AnswersTellEffects`, `CLIChangesPermitted` | nothing is changed twice, the answer tells what was done, and the setting is kept |
| `quota_race` | 2 requests, one use granted | `QuotaRespected` (violated) | overlapping grants exceed the quota |
| `stale_token` | 1 request, password changed | `V3CallsUseRoleCredentials` (violated) | the stored token outlives its credentials |
| `stale_client` | 1 request, keys changed | `V2CallsUseRoleCredentials` (violated) | a V2 client keeps a former API key |

The violated properties state what a document of the repository says; the line
and the disagreement are under `findings` in `PROJECT.json`. `QuotaRespected`
holds in `serial` and fails in `quota_race`: what separates the two is only
whether requests overlap. The same is so of `UpdatesOnlyUpdate`,
`ImportedKeysFixed`, `NoOrphans`, the properties of `cache_serial`, and
`CertificatesServe` (violated under `MCPemRace.cfg`); they are stated, and checked,
for requests one at a time. Of a record's number of uses the code keeps less
than the documents say: `UsesPerImport`, however an import fails, but not
`UsesWithinGrant`. The limits are those of the record as imported: a role that
may be exported further is exported with the limits its own administrator asks
for, which may be none; nothing in the documents says otherwise, and no property
here says that limits narrow along a chain.

What `AnswersTellEffects` leaves open: a request whose process died, and one
that is answered with the error of a body that could not be read. The change it
asked for may have been made, once at most.

### Further counterexamples

Each of these configurations checks one property that a document states and the
code does not keep; `tlc -config <cfg> <module>` prints the behaviour.

| Configuration, module | Property | Behaviour | Document |
|---|---|---|---|
| `MCHousekeeping.cfg`, `MCClientCache` | `ActiveClientsKept` | a hit sets `lastUsed` of a copy (`plugin.go:100`), so eviction goes by the time a client was built | `plugin.go:183` |
| `MCProxy.cfg`, `MCClientCache` | `V3CallsUseProxy` | `GetMasheryV3Client` is not given the proxy (`plugin.go:106`) | `doc/setup.html.markdown:439` |
| `MCTermHeader.cfg`, `MCRoleExchange` | `HeaderShowsTerm` | an instant in seconds is formatted as nanoseconds (`transformers_pki.go:288`) | `doc/pull_mode.html.markdown:204` |
| `MCPemRace.cfg`, `MCRoleExchange` | `CertificatesServe` | of two overlapping first certificates of a role each is for a key of its own, and the later key wins (`transformers_pki.go:32`) | `doc/pull_mode.html.markdown:104` |
| `MCFailedImport.cfg`, `MCRoleExchange` | `LimitsComeWithKeys` | an import that saved its keys only leaves them under other limits (`path_role_impexp.go:214`) | `doc/pull_mode.html.markdown:143` |
| `MCReimport.cfg`, `MCRoleExchange` | `UsesWithinGrant` | a record imported again is good for its number of uses again (`data_structs.go:328`) | `doc/pull_mode.html.markdown:155` |
| `MCTermWrap.cfg`, `MCRoleExchange` | `TermsOfAnyLength` | days beyond the bound of a duration wrap (`parseutils.go:189`) | `doc/api/roles_export.html.markdown:22` |
| `MCProxyDenied.cfg`, `MCV3Calls` | `ProxyPassesAnswers` | a denied proxied call ends in the dereference of a nil response (`transformers_v3.go:142`) | `path_proxy_v3.go:176` |
| `MCListFields.cfg`, `MCV3Calls` | `ObjectsShownOrWarned` | a `;list` leaves out objects without a textual id and does not warn (`transformers_v3.go:254`) | `doc/limitations.html.markdown:54` |
| `MCUpdateRace.cfg`, `MCRoleService` | `UpdatesOnlyUpdate` | of two overlapping updates of different fields one is lost (`path_role.go:164`) | `doc/api/roles.html.markdown:69` |
| `MCCLICreate.cfg`, `MCV3Calls` | `CLIWritesCreate` | the existence check answers an error for a 404, so nothing is ever created (`path_role_v3.go:186`) | `doc/cli.html.markdown:38` |
| `MCMethodSuffix.cfg`, `MCV3Calls` | `SuffixSelectsMethod` | the path takes the suffix in (`path_proxy_v3.go:46`) | `doc/proxy_mode.html.markdown:111` |

Met while modelling, and visible in the definitions: the sample payload
`"proxy_server": "proxy"` (`doc/api/config.html.markdown`) has no host name and
is refused; an empty `net_latency`, documented to mean 147 ms, is refused; the
latency is reported and used by no client, which are built with 172 ms
(`plugin.go:113`, `148`); an empty string does not clear a field of the
configuration; terms `0d` and `0s` are unlimited, since a term of zero is stored
as none, and so is a term that ends before 1970; `2w3d` is three days; a page of
a collection that comes without a count is shown without a warning
(`transformers_v3.go:209`).

### Bounds

Two requests are enough for every race listed: each is between one that
read and one that wrote since. In `RoleService`, `MaxTime` 3 lets a token of life
2 with a margin of 1 be valid, be in its margin and expire, and a term of 2
pass; 2 is enough for the token to need renewal in `token_race`. Quotas of one
and two uses reach the last use and the one after. `UsesBound` caps the history
counters above the largest quota. `MaxClients` 2 lets one client be dropped or
replaced by another. In `ClientCache` one role is enough, as clients of different
roles share only the map. In `exchange`, `MaxBorn` 2 is a role deleted and
created again while a message is on its way, `MaxKeys` 2 a key for each; one
message is enough for what is said of single messages, imported twice for one
that is repeated. In `exchange_limits` two messages are a
chain, of which each step is the same: the roles are two, and the second
message is the export, back or to itself, of what the first brought, or another
record for the same role. `exchange_limits` counts up to three uses, one more
than two imports of one use allow. A day is one tick, so that terms of a day end
within the clock of `terms`, which has the tick before it, its last and the one
after; a duration holds 100 ticks there, with texts on both sides of the bound,
and one use is counted, since any use after the end is one too many.
Symmetry over requests is used in the safety run with two of them;
requests are interchangeable in the actions and properties. Deadlock is checked
in all runs.

### Fairness

`FairSpec` assumes weak fairness of each request's steps: a Go
routine that can run is run. It assumes nothing of requests arriving, of the
clock, of faults or of what Mashery answers; in particular Mashery may answer
that the developer is inactive forever. `ClientCache` adds strong fairness of
entering the `Once`: Go's mutex hands over to one that has waited.

## The proofs

Each invariant and action property of the passing runs has a theorem, for every
value of the constants: any number of roles, engines, clients and messages, any
texts, clocks and bounds. Where the name begins with `Alone` it is, like the run,
about requests that do not overlap, which its statement says; the others are
about any number of requests at once. `PROJECT.json` lists the theorems.

### Assumptions and hypotheses

The constants are assumed to be what the code makes them, no more. Each
assumption is named where the constants are declared, and TLC evaluates it in
the runs of that module.

| Assumption | Says |
|---|---|
| `TextAssumption`, `ConfigTextAssumption`, `DurationAssumption`, `RenewMarginAssumption` | the empty string is a text, parsers are functions on texts, lengths of time are numbers |
| `ServiceAssumption`, `CacheAssumption`, `CallsAssumption` | the requests enumerated are ones the field schemas of the paths admit |
| `ExchangeAssumption` | the same for role writes and exports, and that the clock has a range |
| `NilAssumption`, `NoTLSAssumption` | what stands for absence is no role entry, credential, client or TLS setting |
| `TotalAssumption` | the parts of a Go duration add up to a number, which the prover cannot see through the fold that adds them |

Some properties fail where requests overlap, as nothing in the code locks a role
or the configuration. Their theorems have a hypothesis, which is a formula the
reader sees in the statement:

| Hypothesis | Of | Without it |
|---|---|---|
| `[]OneAtATime`: at most one request is under way (whichever, however many take turns) | the `Alone` theorems of `RoleLedgerProofs`, `RoleKeysProofs`, `ClientCacheProofs` | `quota_race`, `MCUpdateRace` |
| `Procs = {p}` | the `Alone` theorems of `RoleExchangeProofs` | `MCPemRace` |

`OneSlotIsAlone` and `OneProcessIsAlone` prove `[]OneAtATime` of an instance
with one request at a time, which is what the runs `serial` and `cache_serial`
check; those of the exchange have one too. No theorem excludes faults: a request
may stop at any storage or network call that its module has as a step, and the
process may die between any two. "Any number of requests at once" is also of the
steps a module has: in `RoleExchange` a use and an export are one step each, and
a request reads in the step that begins it.

### RoleServiceProofs: any number of overlapping requests

* `TypeCorrect`: `TypeOK` is inductive as it stands. Most of the argument is
  that chains are well placed: `Goto` to a position after the current one stays
  in the chain or finishes, a skip of two positions occurs only at steps that
  have a successor, and a retry goes two back only from a `fetch`, which is
  never among the first two. `ChainsWellPlaced` states this of each handler,
  `Goto...`, `Proceed...` and `Finish...` lemmas use it, and one lemma per group
  of actions builds the step. Stored entries are covered by `KeysDecodeTyped`
  and `UsageRoundTrip` of `RoleDataProofs`: what is encoded decodes to the type,
  though not always to the value.
* `GrantsStayWhole` (`StoredWithinGrant`) is not inductive: a request can write
  its heap copy at any time. The strengthening `GrantInv` adds that each copy on
  a heap is within one grant too, from the read on, except for a create up to
  `setInitialUsage`, whose copy starts as the zero value. `ChainsWellOrdered`
  gives that such a copy is not written before. Reading, charging, token
  operations and importing each keep a copy within one grant, which is why
  overwriting entries whole, harmful to the quota, does no harm here.
* `CallsHaveToken` (`CallsCarryToken`): other requests may delete or replace the
  stored token at any moment, but a call uses the one on its own heap.
  `TokenInv` says that a request at a step that needs a token has one;
  `ChainsTokenOrdered` that each such step of a chain comes after `ensureToken`,
  and that the step a retry goes back to, which clears the token, does not need
  one.

### QuotaLedger and RoleLedgerProofs: the uses of a role

* `Balanced`: in the account, for any quotas and any sequence of steps, uses
  made, pending and left are together at most the number granted. The invariant
  is inductive as it stands; uses made alone would not be.
* `LedgerKeepsQuota`: `ImplementsLedger => []QuotaRespected`. A system whose
  steps are steps of the account respects the quota.
* `AloneImplementsLedger`: `Spec /\ []OneAtATime => ImplementsLedger`, the
  refinement. `LedgerInv` says that no request under way holds the usage of
  former limits (`outdated` is empty), and, of the one under way, that the
  limits on its heap are the stored ones once it has read them, that a grant it
  is about to store is fresh, that one that passed the gate has a use left, and
  that attempts are counted only within the fetch loop. One lemma per group of
  actions shows its step to be a `Grant`, `Charge`, `Spend` or `Forfeit`, or
  none.
* `AloneKeepsQuota` (`QuotaRespected`) and `AloneReportsTruly`
  (`ReportsKeepPromise`) follow from the refinement and `Balanced`, with no
  further induction: the account's invariant is read back through the mapping.

### RoleKeysProofs: the keys of a role

`KeysInv` relates what is stored to the step the request under way has come to:
a delete is past what it has deleted, a create has not written usage or private
key before keys, and an update has the stored keys on its heap, of a role that
is not imported, with the fields it was given over them. From it
`AloneNoOrphans`, and the action properties `AloneImportedKeysFixed` and
`AloneUpdatesOnlyUpdate`, for which `KeyWriters` names the only steps that write
keys.

### ClientCacheProofs: configuration and clients

* `TypeCorrect`, for overlapping requests. `TypeInv` strengthens `TypeOK` by
  what a request holds at each step and by a budget: clients made, and requests
  that are still to make one, are together at most `MaxClients`.
* `CacheHoldsOpen` (`CachedOpen`), for overlapping requests, updates and
  housekeeping: `CacheInv` says that a client is in no slot but the one it was
  built for, that the one a request is about to insert is open, in none and in
  no other request's hands, and that the one a loop is about to close has left
  the map.
* `SerialInv` is the invariant of requests one at a time: `Consistent` relates
  the memory to storage and each client to memory, except at the steps of an
  update that are about to restore this, with the slots it has still to go
  through; `Kept` says that a client that was built is cached, held or closed.
  From it `AloneMemoryFollows`, `AloneConnectionsFollow`,
  `AloneConnectionsReported`, `AloneNoClientLeaks` and the action property
  `AloneUpdatesKeepTheRest`.

### V3CallsProofs: the answers of V3 operations

Any number of requests, whatever Mashery answers, whoever else changes it and
whenever the configuration is changed. `CallsInv` says that a request still
under way has changed nothing, so that each attempt that changes something is
its last, and that a CLI write or delete past the gate was permitted;
`OutcomesTell` is what a status tells of a call, `AnswersTell` what an answer
tells of the status. It gives `AnswersTellTruly` (`AnswersTellEffects`) and
`CLIGateHolds` (`CLIChangesPermitted`).

### RoleExchangeProofs: roles handed from engine to engine

* `TypeCorrect`, for overlapping requests and any faults. Each role's entries
  are encodings of well-formed data and each message holds data that decode to
  its type (`ExchangeRoundTrip`).
* `ExportsArePermitted` and `CredentialsOnlyNarrow`, for overlapping requests
  and any faults. `Sourced` says that a role with a source holds the keys of
  that message, `Chained` that each message's keys and permissions are at most
  those of the one before. Neither is inductive alone: an export extends the
  chain by what the storage holds, an import makes the storage hold what the
  chain says.
* `RecordsCarryTerms` (`TermsAsAsked`) and `TermAlwaysRunsFromExport`
  (`TermRunsFromExport`), for overlapping requests and any faults.
  `ParsesAsDocumented` is proved of the parser: for each documented format, the
  shortest to the longest term, it comes to the time left until the instant the
  text names, so that nothing wraps. `Grants` takes this into the message, and
  `Limited` says that the usage of a role, and that on the heap of a request
  about to save it, is under the limits of the message it is said to be from.
* `AloneImportsAddressed` and `AloneCertificatesServe`, with faults.
  `AddressInv` says to whom things belong: a private key to one role, whose keys
  are there (`Owned`); a certificate or message
  for a key in use to the owner of that key (`Issued`, `Mailed`); what a role
  received was for it, under the label of the time (`Received`); and what the
  request under way is about to store (`Pending`). That a delete takes the usage
  first is what makes `CertificatesServe` hold where it stops: a role without
  usage cannot be read, and a role with usage still has its private key. The
  certificates of a role deleted since are kept apart by `born`, which a
  creation increases.
* `AloneUsesPerImport` (`UsesPerImport`), with faults and any number of imports.
  `Counted` says of each message that the uses made under it, with those its
  role has left while its limits are the message's, are at most what it grants
  times the imports whose limits were stored. An import that only saved its keys
  adds to neither side.

`AddressInv`, `Limited` and `Counted` were checked by TLC on the instances of
`exchange`, `terms` and `exchange_limits` before they were proved.

### Only model-checked

* Liveness: `RequestsComplete` and `RequestsEnd`. The prover has no rules for
  fairness, which is about `ENABLED`.
* That the fold of `UserInput`, which adds the parts of a Go duration, comes to
  a number: it is recursive over the parts of a text, and induction over data is
  beyond the installed provers. It is `TotalAssumption`, which TLC evaluates.
* The violated properties, which are false.

## The plan

Done: all the modules above with their runs, the refinement, and a theorem for
each safety and action property of the passing runs. To come:

1. The exchange under `[]OneAtATime` in place of `Procs = {p}`, as in the other
   modules, and its uses and exports in the steps `RoleService` has for a use.
2. An abstract specification of the exchange, a record that passes from holder
   to holder with its limits, implemented by `RoleExchange` while requests do
   not overlap.
3. What overlapping requests keep of the quota. It is no bound by their number:
   a stale write gives back every use that was charged since its read.

Not modelled, and why: role listing (one storage call, no state), query strings
and the helpers that take a string or number out of a response (they pass values
through), the V2 renderers (fixed shapes, no state), the executables (I/O),
cryptographic primitives, the framing of PEM and gzip, and the JSON, HTTP and
Mashery client libraries (external; modelled by what the code in `src` expects of
them).
