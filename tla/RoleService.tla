---------------------------- MODULE RoleService ----------------------------
(***************************************************************************)
(* The requests the secrets engine serves for one role, each running as a  *)
(* process of its own with no lock: a request reads the role's storage     *)
(* entries (<role>/key, <role>/usage, <role>/pk) into its heap, works on   *)
(* the copy and writes whole entries back.  A handler is a chain of        *)
(* transformers run in order until one answers or fails; one action models *)
(* one transformer, or one storage or network call of it where it makes    *)
(* several.                                                                *)
(*                                                                         *)
(* A role read (roles/<name>) and an export change nothing and are left    *)
(* out.  A call that panics takes the whole plugin process down, and every *)
(* request in flight with it.                                              *)
(***************************************************************************)
EXTENDS RoleData, Sequences, FiniteSets

CONSTANTS
    Procs,      \* request slots: how many requests can run at once
    Ops,        \* the operations clients ask for
    Writes,     \* the field data of role write requests
    Imports,    \* the exchange data of import requests
    Skews,      \* Mashery's clock minus the plugin's
    TokenLife,  \* how long a new access token is valid
    MaxTime,    \* bound on the clock
    UsesBound,  \* bound on the history counter uses
    Faults      \* whether storage and network calls fail and the process dies

ClientOps ==
    {"write", "delete", "pem", "import", "deleteToken", "grant2", "grant3",
     "token", "v2", "proxyV2", "v3", "v3write"}

ASSUME ServiceAssumption ==
    /\ Ops \subseteq ClientOps
    /\ \A w \in Writes : /\ DOMAIN w \subseteq RequestFields
                         /\ Overlay(w, InitialKeys) \in RoleKeys
    /\ Imports \subseteq RoleDataExchange
    /\ Nil \notin Imports
    /\ Skews \subseteq Int
    /\ TokenLife \in Nat
    /\ MaxTime \in Nat
    /\ UsesBound \in Nat
    /\ Faults \in BOOLEAN

VARIABLES
    now,         \* the plugin's clock
    keyEntry,    \* storage: <role>/key, encoded RoleKeys or Nil
    usageEntry,  \* storage: <role>/usage, encoded StoredRoleUsage or Nil
    pkEntry,     \* storage: whether <role>/pk holds a private key
    op,          \* op[p]: the handler request p runs, "idle" if none
    pc,          \* pc[p]: the position in the handler's chain, 0 if idle
    arg,         \* arg[p]: the request's data
    keys,        \* keys[p]: heap copy of the keys
    usage,       \* usage[p]: heap copy of the usage
    tries,       \* tries[p]: fetch attempts made by doFetchWithErrorHandling
    uses,        \* history: uses of the credentials under the current grant
    outdated     \* history: requests whose usage copy is older than the grant

storage == <<keyEntry, usageEntry, pkEntry>>
request == <<op, pc, arg, keys, usage, tries>>
history == <<uses, outdated>>
vars == <<now, storage, request, history>>

(***************************************************************************)
(* The handlers.                                                           *)
(***************************************************************************)
ReadRole == <<"readKeys", "readUsage">>
EnsureToken == <<"ensureToken", "storeToken">>
FetchLoop == <<"refreshToken", "storeRefreshed", "fetch">>

handleWriteRoleKeys ==
    ReadRole \o <<"blockImported", "updateKeys", "saveKeys", "setInitialUsage", "saveUsage">>

\* Slip: the update handler accepts an imported role.
UpdateOfImported == ReadRole \o <<"updateKeys", "saveKeys">>

handleUpdateRoleData == ReadRole \o <<"blockImported", "updateKeys", "saveKeys">>

\* Slip: the keys, which the later deletes are found by, go first.
DeleteKeysFirst == <<"deleteKeys", "deleteUsage", "deletePrivateKey">>

handleDeleteRoleData == <<"deleteUsage", "deletePrivateKey", "deleteKeys">>

pathRolePEMRead == ReadRole \o <<"retrievePrivateKey", "savePrivateKey">>

pathRoleImport ==
    ReadRole \o <<"retrievePrivateKey", "savePrivateKey", "importData",
                  "saveKeys", "saveUsage">>

deleteToken == ReadRole \o <<"forgetToken", "saveUsage">>

issueGrantV2 ==
    ReadRole \o <<"blockForceProxy", "blockLimits", "blockV2", "charge", "useV2">>

issueGrantV3 ==
    ReadRole \o <<"blockForceProxy", "blockLimits", "blockV3", "charge", "useGrant">>

readRoleToken ==
    ReadRole \o <<"blockForceProxy", "blockLimits", "blockV3", "charge">>
             \o EnsureToken \o <<"useToken">>

executeV2Write == ReadRole \o <<"blockLimits", "blockV2", "charge", "useV2">>

\* Slip: the quota is looked at and not charged.
ProxyUncharged == ReadRole \o <<"blockV2", "blockLimits", "useV2">>

proxyV2Request == ReadRole \o <<"blockV2", "blockLimits", "charge", "useV2">>

makeBaseV3InvocationChain ==
    ReadRole \o <<"blockLimits", "blockV3">> \o EnsureToken \o <<"charge">>

\* executeV3Get, executeV3List, executeV3Delete and proxyV3Request.
executeV3 == makeBaseV3InvocationChain \o FetchLoop

v3ObjectExists ==
    ReadRole \o <<"blockLimits", "blockV3">> \o EnsureToken \o FetchLoop

executeV3Write == v3ObjectExists \o <<"blockCLIWrite">> \o executeV3

Chain ==
    [create |-> handleWriteRoleKeys, update |-> handleUpdateRoleData,
     delete |-> handleDeleteRoleData, pem |-> pathRolePEMRead,
     import |-> pathRoleImport, deleteToken |-> deleteToken,
     grant2 |-> issueGrantV2, grant3 |-> issueGrantV3, token |-> readRoleToken,
     v2 |-> executeV2Write, proxyV2 |-> proxyV2Request,
     v3 |-> executeV3, v3write |-> executeV3Write]

Handlers == DOMAIN Chain

At(p, step) == op[p] # "idle" /\ Chain[op[p]][pc[p]] = step

\* The request is answered; its heap is gone.
Finish(p) ==
    /\ op' = [op EXCEPT ![p] = "idle"]
    /\ pc' = [pc EXCEPT ![p] = 0]
    /\ arg' = [arg EXCEPT ![p] = Nil]
    /\ keys' = [keys EXCEPT ![p] = InitialKeys]
    /\ usage' = [usage EXCEPT ![p] = InitialUsage]
    /\ tries' = [tries EXCEPT ![p] = 0]

\* On to position n of the chain with keys k and usage u on the heap.
Goto(p, n, k, u) ==
    IF n > Len(Chain[op[p]]) THEN Finish(p)
    ELSE /\ pc' = [pc EXCEPT ![p] = n]
         /\ keys' = [keys EXCEPT ![p] = k]
         /\ usage' = [usage EXCEPT ![p] = u]
         /\ UNCHANGED <<op, arg, tries>>

Proceed(p) == Goto(p, pc[p] + 1, keys[p], usage[p])

\* The process dies: every request in flight is lost, the storage stays.
Die ==
    /\ op' = [p \in Procs |-> "idle"]
    /\ pc' = [p \in Procs |-> 0]
    /\ arg' = [p \in Procs |-> Nil]
    /\ keys' = [p \in Procs |-> InitialKeys]
    /\ usage' = [p \in Procs |-> InitialUsage]
    /\ tries' = [p \in Procs |-> 0]

(***************************************************************************)
(* A request arrives.  Vault asks the path's existence check first and     *)
(* picks the create or the update handler by its answer.                   *)
(***************************************************************************)
Start(p, o, a) ==
    /\ op[p] = "idle"
    /\ op' = [op EXCEPT ![p] = o]
    /\ pc' = [pc EXCEPT ![p] = 1]
    /\ arg' = [arg EXCEPT ![p] = a]
    /\ UNCHANGED <<now, storage, keys, usage, tries, history>>

roleExists == keyEntry # Nil

BeginWrite(p) ==
    /\ "write" \in Ops
    /\ \E w \in Writes : Start(p, IF roleExists THEN "update" ELSE "create", w)

BeginImport(p) ==
    /\ "import" \in Ops
    /\ roleExists
    /\ \E x \in Imports : Start(p, "import", x)

BeginOther(p) == \E o \in Ops \ {"write", "import"} : Start(p, o, Nil)

(***************************************************************************)
(* readRole: two reads, one after the other.                               *)
(***************************************************************************)
RequiresRole(p) == op[p] # "create"

ReadKeys(p) ==
    /\ At(p, "readKeys")
    /\ \/ Faults /\ Finish(p)
       \/ keyEntry = Nil /\ RequiresRole(p) /\ Finish(p)
       \/ /\ keyEntry = Nil /\ ~RequiresRole(p)
          /\ Goto(p, pc[p] + 1, InitialKeys, usage[p])
       \/ /\ keyEntry # Nil
          /\ Goto(p, pc[p] + 1, DecodeKeys(keyEntry), usage[p])
    /\ UNCHANGED <<now, storage, history>>

ReadUsage(p) ==
    /\ At(p, "readUsage")
    /\ \/ Faults /\ Finish(p)
       \/ usageEntry = Nil /\ RequiresRole(p) /\ Finish(p)
       \/ /\ usageEntry = Nil /\ ~RequiresRole(p)
          /\ Goto(p, pc[p] + 1, keys[p], InitialUsage)
       \/ /\ usageEntry # Nil
          /\ Goto(p, pc[p] + 1, keys[p], DecodeUsage(usageEntry))
    /\ outdated' = outdated \ {p}
    /\ UNCHANGED <<now, storage, uses>>

(***************************************************************************)
(* The blocking transformers look at the heap only.                        *)
(***************************************************************************)
Blockers == {"blockImported", "blockForceProxy", "blockLimits", "blockV2", "blockV3"}

Blocks(b, k, u, t) ==
    CASE b = "blockImported"   -> k.Imported
      [] b = "blockForceProxy" -> k.ForceProxyMode
      [] b = "blockLimits"     -> Expired(u, t) \/ Depleted(u)
      [] b = "blockV2"         -> ~IsV2Capable(k)
      [] b = "blockV3"         -> ~IsV3Capable(k)

Block(p) ==
    /\ \E b \in Blockers :
         /\ At(p, b)
         /\ IF Blocks(b, keys[p], usage[p], now) THEN Finish(p) ELSE Proceed(p)
    /\ UNCHANGED <<now, storage, history>>

\* DoIfCLIWriteEnabled: depends on the backend configuration, either way here.
BlockCLIWrite(p) ==
    /\ At(p, "blockCLIWrite")
    /\ \/ Finish(p)
       \/ Goto(p, pc[p] + 1, InitialKeys, InitialUsage)
    /\ UNCHANGED <<now, storage, history>>

(***************************************************************************)
(* Role administration.                                                    *)
(***************************************************************************)
UpdateKeys(p) ==
    /\ At(p, "updateKeys")
    /\ Goto(p, pc[p] + 1, updateRoleKeysFromRequest(keys[p], arg[p]), usage[p])
    /\ UNCHANGED <<now, storage, history>>

saveRoleKeys(p) ==
    /\ At(p, "saveKeys")
    /\ \/ Faults /\ Finish(p) /\ UNCHANGED keyEntry
       \/ Proceed(p) /\ keyEntry' = EncodeKeys(keys[p])
    /\ UNCHANGED <<now, usageEntry, pkEntry, history>>

setInitialRoleUsage(p) ==
    /\ At(p, "setInitialUsage")
    /\ Goto(p, pc[p] + 1, keys[p], ResetToken(UnboundedUsage(usage[p])))
    /\ UNCHANGED <<now, storage, history>>

forgetUsedToken(p) ==
    /\ At(p, "forgetToken")
    /\ Goto(p, pc[p] + 1, keys[p], ResetToken(usage[p]))
    /\ UNCHANGED <<now, storage, history>>

\* A create or an import puts a new grant in force.
saveRoleUsage(p) ==
    /\ At(p, "saveUsage")
    /\ \/ Faults /\ Finish(p) /\ UNCHANGED <<usageEntry, history>>
       \/ /\ Proceed(p)
          /\ usageEntry' = EncodeUsage(usage[p])
          /\ IF op[p] \in {"create", "import"}
             THEN uses' = 0 /\ outdated' = {q \in Procs \ {p} : op[q] # "idle"}
             ELSE UNCHANGED history
    /\ UNCHANGED <<now, keyEntry, pkEntry>>

retrievePrivateKey(p) ==
    /\ At(p, "retrievePrivateKey")
    /\ \/ Faults /\ Finish(p)
       \/ pkEntry /\ Goto(p, pc[p] + 2, keys[p], usage[p])
       \/ ~pkEntry /\ Proceed(p)
    /\ UNCHANGED <<now, storage, history>>

\* The request ends here: /pem renders the certificate, and an import fails
\* since no message can have been encrypted for a key generated just now.
savePrivateKey(p) ==
    /\ At(p, "savePrivateKey")
    /\ Finish(p)
    /\ \/ Faults /\ UNCHANGED pkEntry
       \/ pkEntry' = TRUE
    /\ UNCHANGED <<now, keyEntry, usageEntry, history>>

importPEMEncodedExchangeData(p) ==
    /\ At(p, "importData")
    /\ \/ Finish(p)
       \/ Goto(p, pc[p] + 1, ImportKeys(arg[p]), ImportUsage(usage[p], arg[p]))
    /\ UNCHANGED <<now, storage, history>>

DeleteUsage(p) ==
    /\ At(p, "deleteUsage")
    /\ \/ Faults /\ Finish(p) /\ UNCHANGED usageEntry
       \/ Proceed(p) /\ usageEntry' = Nil
    /\ UNCHANGED <<now, keyEntry, pkEntry, history>>

DeletePrivateKey(p) ==
    /\ At(p, "deletePrivateKey")
    /\ \/ Faults /\ Finish(p) /\ UNCHANGED pkEntry
       \/ Proceed(p) /\ pkEntry' = FALSE
    /\ UNCHANGED <<now, keyEntry, usageEntry, history>>

DeleteKeys(p) ==
    /\ At(p, "deleteKeys")
    /\ \/ Faults /\ Finish(p) /\ UNCHANGED keyEntry
       \/ Proceed(p) /\ keyEntry' = Nil
    /\ UNCHANGED <<now, usageEntry, pkEntry, history>>

(***************************************************************************)
(* Using the credentials.  A use is a signature or a token handed to the   *)
(* client, or the first call to Mashery a request makes with them.         *)
(***************************************************************************)
Count(p) ==
    /\ uses' = IF p \notin outdated /\ uses < UsesBound THEN uses + 1 ELSE uses
    /\ UNCHANGED outdated

decreaseRemainingUsageQuota(p) ==
    /\ At(p, "charge")
    /\ \/ ~HasUsageQuota(usage[p]) /\ Proceed(p) /\ UNCHANGED usageEntry
       \/ /\ HasUsageQuota(usage[p])
          /\ \/ Faults /\ Finish(p) /\ UNCHANGED usageEntry
             \/ LET u == ReduceRemainingQuota(usage[p])
                IN  Goto(p, pc[p] + 1, keys[p], u) /\ usageEntry' = EncodeUsage(u)
    /\ UNCHANGED <<now, keyEntry, pkEntry, history>>

\* ensureAccessTokenValidForRole up to its write: the token is kept, or a new
\* one is obtained for the keys on the heap.
RenewToken(p) ==
    \/ /\ ~V3TokenNeedsRenew(usage[p], now)
       /\ Goto(p, pc[p] + 2, keys[p], usage[p])
    \/ /\ V3TokenNeedsRenew(usage[p], now)
       /\ Goto(p, pc[p] + 1, keys[p],
               ReplaceAccessToken(usage[p], asV3Credentials(keys[p]), now + TokenLife, now))

ensureAccessTokenValid(p) ==
    /\ At(p, "ensureToken")
    /\ \/ Faults /\ V3TokenNeedsRenew(usage[p], now) /\ Finish(p)
       \/ RenewToken(p)
    /\ UNCHANGED <<now, storage, history>>

storeToken(p) ==
    /\ At(p, "storeToken")
    /\ \/ Faults /\ Finish(p) /\ UNCHANGED usageEntry
       \/ Proceed(p) /\ usageEntry' = EncodeUsage(usage[p])
    /\ UNCHANGED <<now, keyEntry, pkEntry, history>>

\* The same within doFetchWithErrorHandling, whose caller dereferences the nil
\* response it gets with an error.
refreshToken(p) ==
    /\ At(p, "refreshToken")
    /\ \/ Faults /\ V3TokenNeedsRenew(usage[p], now) /\ Die
       \/ RenewToken(p)
    /\ UNCHANGED <<now, storage, history>>

storeRefreshed(p) ==
    /\ At(p, "storeRefreshed")
    /\ \/ Faults /\ Die /\ UNCHANGED usageEntry
       \/ Proceed(p) /\ usageEntry' = EncodeUsage(usage[p])
    /\ UNCHANGED <<now, keyEntry, pkEntry, history>>

MaxTries == 3

\* The existence check of a V3 write calls Mashery without charging the quota.
Uncharged(p) == op[p] = "v3write" /\ pc[p] <= Len(v3ObjectExists)

\* Slip: one attempt too many.
RetryOnceMore(p) ==
    /\ tries[p] + 1 <= MaxTries
    /\ tries' = [tries EXCEPT ![p] = @ + 1]
    /\ pc' = [pc EXCEPT ![p] = @ - 2]
    /\ usage' = [usage EXCEPT ![p] = ResetToken(@)]
    /\ UNCHANGED <<op, arg, keys>>

\* Slip: the attempts are not counted.
RetryForever(p) ==
    /\ pc' = [pc EXCEPT ![p] = @ - 2]
    /\ usage' = [usage EXCEPT ![p] = ResetToken(@)]
    /\ UNCHANGED <<op, arg, keys, tries>>

\* Slip: the call is repeated without obtaining a token first.
RetryWithoutRefresh(p) ==
    /\ tries[p] + 1 < MaxTries
    /\ tries' = [tries EXCEPT ![p] = @ + 1]
    /\ usage' = [usage EXCEPT ![p] = ResetToken(@)]
    /\ UNCHANGED <<op, pc, arg, keys>>

\* Mashery answers that the token's developer is inactive: once more.
Retry(p) ==
    /\ tries[p] + 1 < MaxTries
    /\ tries' = [tries EXCEPT ![p] = @ + 1]
    /\ pc' = [pc EXCEPT ![p] = @ - 2]
    /\ usage' = [usage EXCEPT ![p] = ResetToken(@)]
    /\ UNCHANGED <<op, arg, keys>>

\* The answer is good; bounceErrorCodes ends an existence check otherwise.
Fetched(p) ==
    \/ Uncharged(p) /\ Finish(p)
    \/ pc[p] = Len(Chain[op[p]]) /\ Finish(p)
    \/ /\ pc[p] < Len(Chain[op[p]])
       /\ pc' = [pc EXCEPT ![p] = @ + 1]
       /\ tries' = [tries EXCEPT ![p] = 0]
       /\ UNCHANGED <<op, arg, keys, usage>>

\* Any other 403, a transport error and the last inactive answer all end in the
\* nil dereference.
doFetchWithErrorHandling(p) ==
    /\ At(p, "fetch")
    /\ Fetched(p) \/ Retry(p) \/ Die
    /\ IF Uncharged(p) \/ tries[p] > 0 THEN UNCHANGED history ELSE Count(p)
    /\ UNCHANGED <<now, storage>>

\* retrieveV2Signature, or the V2 call: what Mashery answers ends the request.
useV2(p) ==
    /\ At(p, "useV2")
    /\ Finish(p)
    /\ Count(p)
    /\ UNCHANGED <<now, storage>>

\* Mashery may report its own time with the token (0: it does not).
retrieveV3AccessToken(p) ==
    /\ At(p, "useGrant")
    /\ Finish(p)
    /\ \/ UNCHANGED history
       \/ \E serverTime \in {0} \cup {now + s : s \in Skews} :
            /\ ~(serverTime > 0 /\ AfterExpiryTerm(usage[p], serverTime))
            /\ Count(p)
    /\ UNCHANGED <<now, storage>>

rehydrateV3AccessToken(p) ==
    /\ At(p, "useToken")
    /\ Finish(p)
    /\ Count(p)
    /\ UNCHANGED <<now, storage>>

(***************************************************************************)
(* The specification.                                                      *)
(***************************************************************************)
Init ==
    /\ now = 1
    /\ keyEntry = Nil /\ usageEntry = Nil /\ pkEntry = FALSE
    /\ op = [p \in Procs |-> "idle"]
    /\ pc = [p \in Procs |-> 0]
    /\ arg = [p \in Procs |-> Nil]
    /\ keys = [p \in Procs |-> InitialKeys]
    /\ usage = [p \in Procs |-> InitialUsage]
    /\ tries = [p \in Procs |-> 0]
    /\ uses = 0 /\ outdated = {}

Tick == now < MaxTime /\ now' = now + 1 /\ UNCHANGED <<storage, request, history>>

Crash ==
    /\ Faults
    /\ \E p \in Procs : op[p] # "idle"
    /\ Die
    /\ UNCHANGED <<now, storage, history>>

Begin(p) == BeginWrite(p) \/ BeginImport(p) \/ BeginOther(p)

Administer(p) ==
    \/ UpdateKeys(p) \/ saveRoleKeys(p) \/ setInitialRoleUsage(p)
    \/ forgetUsedToken(p) \/ saveRoleUsage(p)
    \/ retrievePrivateKey(p) \/ savePrivateKey(p) \/ importPEMEncodedExchangeData(p)
    \/ DeleteUsage(p) \/ DeletePrivateKey(p) \/ DeleteKeys(p)

UseCredentials(p) ==
    \/ decreaseRemainingUsageQuota(p)
    \/ ensureAccessTokenValid(p) \/ storeToken(p)
    \/ refreshToken(p) \/ storeRefreshed(p) \/ doFetchWithErrorHandling(p)
    \/ useV2(p) \/ retrieveV3AccessToken(p) \/ rehydrateV3AccessToken(p)

Step(p) ==
    \/ ReadKeys(p) \/ ReadUsage(p) \/ Block(p) \/ BlockCLIWrite(p)
    \/ Administer(p)
    \/ UseCredentials(p)

Next == Tick \/ Crash \/ \E p \in Procs : Begin(p) \/ Step(p)

Spec == Init /\ [][Next]_vars

\* Vault and the Go scheduler keep running a request that can take its step.
FairSpec == Spec /\ \A p \in Procs : WF_vars(Step(p))

(***************************************************************************)
(* Properties.                                                             *)
(***************************************************************************)

StorageTypeOK ==
    /\ keyEntry # Nil => DecodeKeys(keyEntry) \in RoleKeys
    /\ usageEntry # Nil => DecodeUsage(usageEntry) \in StoredRoleUsage
    /\ pkEntry \in BOOLEAN

\* The data a request of handler o carries.
Arguments(o) ==
    IF o \in {"create", "update"} THEN Writes
    ELSE IF o = "import" THEN Imports ELSE {Nil}

Positions(o) == IF o = "idle" THEN {0} ELSE 1..Len(Chain[o])

RequestTypeOK ==
    /\ op \in [Procs -> Handlers \cup {"idle"}]
    /\ pc \in [Procs -> Nat]
    /\ arg \in [Procs -> Writes \cup Imports \cup {Nil}]
    /\ keys \in [Procs -> RoleKeys]
    /\ usage \in [Procs -> StoredRoleUsage]
    /\ tries \in [Procs -> 0..(MaxTries - 1)]
    /\ \A p \in Procs : pc[p] \in Positions(op[p]) /\ arg[p] \in Arguments(op[p])

HistoryTypeOK == uses \in 0..UsesBound /\ outdated \subseteq Procs

\* Every variable holds what its declaration says: what is stored decodes to a
\* well-formed role whatever the requests in flight write, a request is within
\* its chain and the fetch loop within its three attempts.
TypeOK == now \in Nat /\ StorageTypeOK /\ RequestTypeOK /\ HistoryTypeOK

StoredUsage == DecodeUsage(usageEntry)

\* The credentials of a role granted a number of uses are used at most that
\* many times (blockUsageExceedingLimits and decreaseRemainingUsageQuota).
QuotaRespected ==
    usageEntry # Nil /\ HasUsageQuota(StoredUsage) => uses <= StoredUsage.ExplicitNumUses

\* What a read of the role says is left, is: as many uses as it tells, added to
\* those made, stay within the grant, and a role it does not tell to be depleted
\* or expired is not refused (renderRole, blockUsageExceedingLimits).
ReportsKeepPromise ==
    usageEntry # Nil /\ keyEntry # Nil =>
        LET report == renderRole(DecodeKeys(keyEntry), StoredUsage, now)
        IN  /\ report.use_remaining # Unlimited =>
                   uses + report.use_remaining <= StoredUsage.ExplicitNumUses
            /\ report.use_remaining # 0 /\ report.term_remaining # 0 =>
                   ~Depleted(StoredUsage) /\ ~Expired(StoredUsage, now)

\* Nothing of a role stays in the storage once its keys are gone: neither a
\* create nor a delete that stops half way leaves an entry that a later delete
\* could not be asked for (handleWriteRoleKeys, handleDeleteRoleData).
NoOrphans == keyEntry = Nil => usageEntry = Nil /\ ~pkEntry

\* The keys of an imported role change only by another import or the deletion
\* of the role, never by a role write (blockOperationOnImportedRole).
ImportedKeysFixed ==
    [][keyEntry # Nil /\ DecodeKeys(keyEntry).Imported /\ keyEntry' # keyEntry
         => keyEntry' = Nil \/ \E p \in Procs : op[p] = "import"]_vars

\* An update changes a role that is there, and of its keys what the request
\* supplies: it neither brings back a deleted role nor undoes what another
\* request wrote to the fields it omits (handleUpdateRoleData).
UpdatesOnlyUpdate ==
    [][\A p \in Procs :
         op[p] = "update" /\ At(p, "saveKeys") /\ pc'[p] # pc[p] /\ keyEntry' # keyEntry
           => /\ keyEntry # Nil
              /\ \A f \in RequestFields \ DOMAIN arg[p] :
                    DecodeKeys(keyEntry')[f] = DecodeKeys(keyEntry)[f]]_vars

\* The limits of the grants the role can be under: unlimited from a create (or
\* an import without a term), or those of one import.
Grants ==
    {[ExplicitTerm |-> -1, ExplicitNumUses |-> -1]}
        \cup {x.UsageTerm : x \in {y \in Imports : y.UsageTerm # Nil}}

WithinGrant(u) ==
    /\ [ExplicitTerm |-> u.ExplicitTerm, ExplicitNumUses |-> u.ExplicitNumUses] \in Grants
    /\ HasUsageQuota(u) => u.RemainingNumUses \in 0..u.ExplicitNumUses

\* However requests overwrite each other's usage entry, what is stored is the
\* limits of one grant, never the term of one with the quota of another, and
\* the remaining uses never exceed the quota nor go below zero.
StoredWithinGrant == usageEntry # Nil => WithinGrant(StoredUsage)

\* No call to the V3 API goes out, and no token is handed out, without a token:
\* not after a retry that dropped it and not after another request deleted it.
CallsCarryToken ==
    \A p \in Procs : At(p, "fetch") \/ At(p, "useToken") => usage[p].V3Token # Nil

\* Every request is answered or lost with the process: the chains end, and so
\* does the retry loop however often Mashery reports an inactive developer.
RequestsComplete == \A p \in Procs : op[p] # "idle" ~> op[p] = "idle"

\* A V3 call is made with a token obtained for the credentials the request
\* read for the role.
V3CallsUseRoleCredentials ==
    \A p \in Procs : At(p, "fetch") => usage[p].V3Token = asV3Credentials(keys[p])
=============================================================================
