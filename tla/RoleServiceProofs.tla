------------------------- MODULE RoleServiceProofs -------------------------
(***************************************************************************)
(* Theorems about RoleService for any number of concurrent requests, any   *)
(* data and any times.                                                     *)
(***************************************************************************)
EXTENDS RoleService, RoleDataProofs

\* A role write leaves well-formed keys.
LEMMA UpdateTyped ==
    ASSUME NEW k \in RoleKeys, NEW w \in Writes
    PROVE  updateRoleKeysFromRequest(k, w) \in RoleKeys
BY OverlaidTyped, ServiceAssumption

\* An import leaves a well-formed role.
LEMMA ImportTyped ==
    ASSUME NEW u \in StoredRoleUsage, NEW x \in Imports
    PROVE  ImportKeys(x) \in RoleKeys /\ ImportUsage(u, x) \in StoredRoleUsage
BY ImportedTyped, ServiceAssumption

-----------------------------------------------------------------------------
(***************************************************************************)
(* The chains: where the steps stand in the handlers.                      *)
(***************************************************************************)

\* Every handler has a step to begin with.
LEMMA HandlerNames ==
    Handlers = {"create", "update", "delete", "pem", "import", "deleteToken",
                "grant2", "grant3", "token", "v2", "proxyV2", "v3", "v3write"}
BY DEF Handlers, Chain

\* What typing needs: no retry falls off the front of a chain, and the data of
\* a write or an import reaches only the handlers that were started with it.
WellPlaced(c, o) ==
    /\ Len(c) \in Nat \ {0}
    /\ \A i \in 1..Len(c) :
         /\ c[i] = "fetch" => i > 2
         /\ c[i] = "updateKeys" => o \in {"create", "update"}
         /\ c[i] = "importData" => o = "import"

\* Every chain of transformers has its steps where they can be taken.
LEMMA ChainsWellPlaced == \A o \in Handlers : WellPlaced(Chain[o], o)
<1> USE DEF WellPlaced, Chain, ReadRole, EnsureToken
<1>1. WellPlaced(Chain["create"], "create") BY DEF handleWriteRoleKeys
<1>2. WellPlaced(Chain["update"], "update") BY DEF handleUpdateRoleData
<1>3. WellPlaced(Chain["delete"], "delete") BY DEF handleDeleteRoleData
<1>4. WellPlaced(Chain["pem"], "pem") BY DEF pathRolePEMRead
<1>5. WellPlaced(Chain["import"], "import") BY DEF pathRoleImport
<1>6. WellPlaced(Chain["deleteToken"], "deleteToken") BY DEF deleteToken
<1>7. WellPlaced(Chain["grant2"], "grant2") BY DEF issueGrantV2
<1>8. WellPlaced(Chain["grant3"], "grant3") BY DEF issueGrantV3
<1>9. WellPlaced(Chain["token"], "token") BY DEF readRoleToken
<1>10. WellPlaced(Chain["v2"], "v2") BY DEF executeV2Write
<1>11. WellPlaced(Chain["proxyV2"], "proxyV2") BY DEF proxyV2Request
<1>12. WellPlaced(Chain["v3"], "v3")
  BY DEF executeV3, makeBaseV3InvocationChain, FetchLoop
<1>13. WellPlaced(Chain["v3write"], "v3write")
  BY DEF executeV3Write, v3ObjectExists, executeV3, makeBaseV3InvocationChain, FetchLoop
<1> HIDE DEF WellPlaced, Chain
<1> QED
  BY HandlerNames, <1>1, <1>2, <1>3, <1>4, <1>5, <1>6, <1>7, <1>8, <1>9, <1>10,
     <1>11, <1>12, <1>13
-----------------------------------------------------------------------------
(***************************************************************************)
(* Type correctness.                                                       *)
(***************************************************************************)

\* A request at a step runs a handler and is within its chain.
LEMMA AtFacts ==
    ASSUME RequestTypeOK, NEW p \in Procs, NEW step, At(p, step)
    PROVE  /\ op[p] \in Handlers
           /\ Len(Chain[op[p]]) \in Nat
           /\ pc[p] \in 1..Len(Chain[op[p]])
           /\ Chain[op[p]][pc[p]] = step
           /\ keys[p] \in RoleKeys
           /\ usage[p] \in StoredRoleUsage
           /\ tries[p] \in 0..(MaxTries - 1)
           /\ arg[p] \in Arguments(op[p])
<1>1. op[p] # "idle" /\ Chain[op[p]][pc[p]] = step BY DEF At
<1>2. op[p] \in Handlers BY <1>1 DEF RequestTypeOK
<1>3. Len(Chain[op[p]]) \in Nat BY <1>2, ChainsWellPlaced DEF WellPlaced
<1>4. pc[p] \in 1..Len(Chain[op[p]]) BY <1>1 DEF RequestTypeOK, Positions
<1> QED BY <1>1, <1>2, <1>3, <1>4 DEF RequestTypeOK

\* A request that ends leaves an idle slot.
LEMMA FinishTyped ==
    ASSUME RequestTypeOK, NEW p \in Procs, Finish(p)
    PROVE  RequestTypeOK'
<1>1. 0 \in 0..(MaxTries - 1) BY DEF MaxTries
<1>2. "idle" \notin Handlers BY HandlerNames
<1>3. \A q \in Procs : pc'[q] \in Positions(op'[q]) /\ arg'[q] \in Arguments(op'[q])
  BY DEF RequestTypeOK, Finish, Positions, Arguments
<1> QED BY <1>1, <1>3, InitialRoleTyped DEF RequestTypeOK, Finish

\* A process that dies leaves idle slots.
LEMMA DieTyped == ASSUME Die PROVE RequestTypeOK'
<1>1. 0 \in 0..(MaxTries - 1) BY DEF MaxTries
<1> QED BY <1>1, InitialRoleTyped DEF RequestTypeOK, Die, Positions, Arguments

\* A request that goes to a step of its chain, or ends behind it.
LEMMA GotoTyped ==
    ASSUME RequestTypeOK, NEW p \in Procs, op[p] # "idle",
           NEW n \in Nat \ {0}, NEW k \in RoleKeys, NEW u \in StoredRoleUsage,
           Goto(p, n, k, u)
    PROVE  RequestTypeOK'
<1>1. CASE n > Len(Chain[op[p]]) BY <1>1, FinishTyped DEF Goto
<1>2. CASE ~(n > Len(Chain[op[p]]))
  <2>1. op[p] \in Handlers BY DEF RequestTypeOK
  <2>2. Len(Chain[op[p]]) \in Nat BY <2>1, ChainsWellPlaced DEF WellPlaced
  <2>3. n \in Positions(op[p]) BY <1>2, <2>2 DEF Positions
  <2> QED BY <1>2, <2>3 DEF RequestTypeOK, Goto
<1> QED BY <1>1, <1>2

\* A request that goes to the next step.
LEMMA ProceedTyped ==
    ASSUME RequestTypeOK, NEW p \in Procs, op[p] # "idle", Proceed(p)
    PROVE  RequestTypeOK'
<1>1. pc[p] + 1 \in Nat \ {0} BY DEF RequestTypeOK
<1>2. keys[p] \in RoleKeys /\ usage[p] \in StoredRoleUsage BY DEF RequestTypeOK
<1> QED BY <1>1, <1>2, GotoTyped DEF Proceed

\* A request that starts its chain.
LEMMA StartTyped ==
    ASSUME RequestTypeOK, NEW p \in Procs, NEW o \in Handlers,
           NEW a \in Arguments(o), Start(p, o, a)
    PROVE  RequestTypeOK'
<1>1. 1 \in Positions(o)
  BY ChainsWellPlaced, HandlerNames DEF WellPlaced, Positions
<1>2. a \in Writes \cup Imports \cup {Nil} BY DEF Arguments
<1> QED BY <1>1, <1>2 DEF RequestTypeOK, Start

\* The types hold when the engine is mounted.
LEMMA InitTyped == Init => TypeOK
<1>1. 0 \in 0..(MaxTries - 1) BY DEF MaxTries
<1>2. 0 \in 0..UsesBound BY ServiceAssumption
<1>3. SUFFICES ASSUME Init PROVE TypeOK OBVIOUS
<1>4. RequestTypeOK
  BY <1>1, <1>3, InitialRoleTyped DEF Init, RequestTypeOK, Positions, Arguments
<1> QED BY <1>2, <1>3, <1>4 DEF Init, TypeOK, StorageTypeOK, HistoryTypeOK

\* Requests of every kind that begin keep the types.
LEMMA BeginTyped ==
    ASSUME TypeOK, NEW p \in Procs, Begin(p) PROVE TypeOK'
<1>1. RequestTypeOK'
  <2>1. CASE BeginWrite(p)
    <3>1. PICK w \in Writes : Start(p, IF roleExists THEN "update" ELSE "create", w)
      BY <2>1 DEF BeginWrite
    <3> QED BY <3>1, StartTyped, HandlerNames DEF TypeOK, Arguments
  <2>2. CASE BeginImport(p)
    <3>1. PICK x \in Imports : Start(p, "import", x) BY <2>2 DEF BeginImport
    <3> QED BY <3>1, StartTyped, HandlerNames DEF TypeOK, Arguments
  <2>3. CASE BeginOther(p)
    <3>1. PICK o \in Ops \ {"write", "import"} : Start(p, o, Nil)
      BY <2>3 DEF BeginOther
    <3>2. o \in Handlers \ {"create", "update", "import"}
      BY ServiceAssumption, HandlerNames DEF ClientOps
    <3> QED BY <3>1, <3>2, StartTyped DEF TypeOK, Arguments
  <2> QED BY <2>1, <2>2, <2>3 DEF Begin
<1>2. UNCHANGED <<now, storage, history>>
  BY DEF Begin, BeginWrite, BeginImport, BeginOther, Start
<1> QED
  BY <1>1, <1>2 DEF TypeOK, StorageTypeOK, HistoryTypeOK, storage, history

\* Reading the role, the checks and the administration of the role.
LEMMA ReadTyped ==
    ASSUME TypeOK, NEW p \in Procs,
           ReadKeys(p) \/ ReadUsage(p) \/ Block(p) \/ BlockCLIWrite(p)
    PROVE  RequestTypeOK' /\ UNCHANGED <<now, storage, uses>> /\ HistoryTypeOK'
<1> USE DEF TypeOK
<1>1. RequestTypeOK'
  <2>1. CASE ReadKeys(p)
    <3>1. /\ pc[p] + 1 \in Nat \ {0} /\ op[p] # "idle"
          /\ usage[p] \in StoredRoleUsage
      BY <2>1, AtFacts DEF ReadKeys, At
    <3>2. keyEntry # Nil => DecodeKeys(keyEntry) \in RoleKeys BY DEF StorageTypeOK
    <3> QED BY <2>1, <3>1, <3>2, FinishTyped, GotoTyped, InitialRoleTyped DEF ReadKeys
  <2>2. CASE ReadUsage(p)
    <3>1. /\ pc[p] + 1 \in Nat \ {0} /\ op[p] # "idle" /\ keys[p] \in RoleKeys
      BY <2>2, AtFacts DEF ReadUsage, At
    <3>2. usageEntry # Nil => DecodeUsage(usageEntry) \in StoredRoleUsage
      BY DEF StorageTypeOK
    <3> QED BY <2>2, <3>1, <3>2, FinishTyped, GotoTyped, InitialRoleTyped DEF ReadUsage
  <2>3. CASE Block(p) BY <2>3, FinishTyped, ProceedTyped DEF Block, At
  <2>4. CASE BlockCLIWrite(p)
    <3>1. pc[p] + 1 \in Nat \ {0} /\ op[p] # "idle"
      BY <2>4, AtFacts DEF BlockCLIWrite, At
    <3> QED BY <2>4, <3>1, FinishTyped, GotoTyped, InitialRoleTyped DEF BlockCLIWrite
  <2> QED BY <2>1, <2>2, <2>3, <2>4
<1>2. UNCHANGED <<now, storage, uses>> /\ outdated' \subseteq outdated
  BY DEF ReadKeys, ReadUsage, Block, BlockCLIWrite, history
<1> QED BY <1>1, <1>2 DEF HistoryTypeOK

\* So do the steps that write, delete or import the role.
LEMMA AdministerTyped ==
    ASSUME TypeOK, NEW p \in Procs, Administer(p) PROVE TypeOK'
<1> USE DEF TypeOK
<1>1. CASE UpdateKeys(p)
  <2>1. /\ pc[p] + 1 \in Nat \ {0} /\ op[p] # "idle"
        /\ keys[p] \in RoleKeys /\ usage[p] \in StoredRoleUsage
    BY <1>1, AtFacts DEF UpdateKeys, At
  <2>2. arg[p] \in Writes
    BY <1>1, AtFacts, ChainsWellPlaced DEF UpdateKeys, WellPlaced, Arguments
  <2>3. RequestTypeOK' BY <1>1, <2>1, <2>2, UpdateTyped, GotoTyped DEF UpdateKeys
  <2> QED BY <1>1, <2>3 DEF UpdateKeys, storage, history, StorageTypeOK, HistoryTypeOK
<1>2. CASE saveRoleKeys(p)
  <2>1. op[p] # "idle" /\ keys[p] \in RoleKeys BY <1>2, AtFacts DEF saveRoleKeys, At
  <2>2. RequestTypeOK' BY <1>2, <2>1, FinishTyped, ProceedTyped DEF saveRoleKeys
  <2>3. StorageTypeOK' BY <1>2, <2>1, KeysDecodeTyped DEF saveRoleKeys, StorageTypeOK
  <2> QED BY <1>2, <2>2, <2>3 DEF saveRoleKeys, history, HistoryTypeOK
<1>3. CASE setInitialRoleUsage(p)
  <2>1. /\ pc[p] + 1 \in Nat \ {0} /\ op[p] # "idle"
        /\ keys[p] \in RoleKeys /\ usage[p] \in StoredRoleUsage
    BY <1>3, AtFacts DEF setInitialRoleUsage, At
  <2>2. RequestTypeOK'
    BY <1>3, <2>1, UsageOpsTyped, GotoTyped DEF setInitialRoleUsage
  <2> QED
    BY <1>3, <2>2 DEF setInitialRoleUsage, storage, history, StorageTypeOK, HistoryTypeOK
<1>4. CASE forgetUsedToken(p)
  <2>1. /\ pc[p] + 1 \in Nat \ {0} /\ op[p] # "idle"
        /\ keys[p] \in RoleKeys /\ usage[p] \in StoredRoleUsage
    BY <1>4, AtFacts DEF forgetUsedToken, At
  <2>2. RequestTypeOK' BY <1>4, <2>1, UsageOpsTyped, GotoTyped DEF forgetUsedToken
  <2> QED
    BY <1>4, <2>2 DEF forgetUsedToken, storage, history, StorageTypeOK, HistoryTypeOK
<1>5. CASE saveRoleUsage(p)
  <2>1. op[p] # "idle" /\ usage[p] \in StoredRoleUsage
    BY <1>5, AtFacts DEF saveRoleUsage, At
  <2>2. RequestTypeOK' BY <1>5, <2>1, FinishTyped, ProceedTyped DEF saveRoleUsage
  <2>3. StorageTypeOK' BY <1>5, <2>1, UsageRoundTrip DEF saveRoleUsage, StorageTypeOK
  <2>4. HistoryTypeOK'
    BY <1>5, ServiceAssumption DEF saveRoleUsage, history, HistoryTypeOK
  <2> QED BY <1>5, <2>2, <2>3, <2>4 DEF saveRoleUsage
<1>6. CASE retrievePrivateKey(p)
  <2>1. /\ pc[p] + 2 \in Nat \ {0} /\ op[p] # "idle"
        /\ keys[p] \in RoleKeys /\ usage[p] \in StoredRoleUsage
    BY <1>6, AtFacts DEF retrievePrivateKey, At
  <2>2. RequestTypeOK'
    BY <1>6, <2>1, FinishTyped, ProceedTyped, GotoTyped DEF retrievePrivateKey
  <2> QED
    BY <1>6, <2>2 DEF retrievePrivateKey, storage, history, StorageTypeOK, HistoryTypeOK
<1>7. CASE savePrivateKey(p)
  <2>1. RequestTypeOK' BY <1>7, FinishTyped DEF savePrivateKey
  <2>2. pkEntry' = pkEntry \/ pkEntry' = TRUE BY <1>7 DEF savePrivateKey
  <2>3. pkEntry' \in BOOLEAN BY <2>2 DEF StorageTypeOK
  <2> QED BY <1>7, <2>1, <2>3 DEF savePrivateKey, history, StorageTypeOK, HistoryTypeOK
<1>8. CASE importPEMEncodedExchangeData(p)
  <2>1. /\ pc[p] + 1 \in Nat \ {0} /\ op[p] # "idle" /\ usage[p] \in StoredRoleUsage
    BY <1>8, AtFacts DEF importPEMEncodedExchangeData, At
  <2>2. arg[p] \in Imports
    BY <1>8, AtFacts, ChainsWellPlaced
    DEF importPEMEncodedExchangeData, WellPlaced, Arguments
  <2>3. RequestTypeOK'
    BY <1>8, <2>1, <2>2, FinishTyped, ImportTyped, GotoTyped
    DEF importPEMEncodedExchangeData
  <2> QED
    BY <1>8, <2>3
    DEF importPEMEncodedExchangeData, storage, history, StorageTypeOK, HistoryTypeOK
<1>9. CASE DeleteUsage(p)
  <2>1. RequestTypeOK' BY <1>9, FinishTyped, ProceedTyped DEF DeleteUsage, At
  <2> QED BY <1>9, <2>1 DEF DeleteUsage, history, StorageTypeOK, HistoryTypeOK
<1>10. CASE DeletePrivateKey(p)
  <2>1. RequestTypeOK' BY <1>10, FinishTyped, ProceedTyped DEF DeletePrivateKey, At
  <2>2. pkEntry' = pkEntry \/ pkEntry' = FALSE BY <1>10 DEF DeletePrivateKey
  <2>3. pkEntry' \in BOOLEAN BY <2>2 DEF StorageTypeOK
  <2> QED
    BY <1>10, <2>1, <2>3 DEF DeletePrivateKey, history, StorageTypeOK, HistoryTypeOK
<1>11. CASE DeleteKeys(p)
  <2>1. RequestTypeOK' BY <1>11, FinishTyped, ProceedTyped DEF DeleteKeys, At
  <2> QED BY <1>11, <2>1 DEF DeleteKeys, history, StorageTypeOK, HistoryTypeOK
<1> QED
  BY <1>1, <1>2, <1>3, <1>4, <1>5, <1>6, <1>7, <1>8, <1>9, <1>10, <1>11 DEF Administer

\* Counting a use keeps the history within its bound.
LEMMA CountTyped == ASSUME HistoryTypeOK, NEW p \in Procs, Count(p) PROVE HistoryTypeOK'
BY ServiceAssumption DEF HistoryTypeOK, Count

\* ensureAccessTokenValidForRole: with or without a new token the usage on the
\* heap is well-formed.
LEMMA RenewTyped ==
    ASSUME TypeOK, NEW p \in Procs, NEW step, At(p, step), RenewToken(p)
    PROVE  RequestTypeOK'
<1>1. /\ pc[p] + 1 \in Nat \ {0} /\ pc[p] + 2 \in Nat \ {0} /\ op[p] # "idle"
      /\ keys[p] \in RoleKeys /\ usage[p] \in StoredRoleUsage
  BY AtFacts DEF At, TypeOK
<1>2. now \in Int /\ now + TokenLife \in Int BY ServiceAssumption DEF TypeOK
<1>3. ReplaceAccessToken(usage[p], asV3Credentials(keys[p]), now + TokenLife, now)
        \in StoredRoleUsage
  BY <1>1, <1>2, ReplaceTyped
<1> QED BY <1>1, <1>3, GotoTyped DEF RenewToken, TypeOK

\* So does a call with its retries.
LEMMA FetchTyped ==
    ASSUME TypeOK, NEW p \in Procs, doFetchWithErrorHandling(p) PROVE TypeOK'
<1>1. /\ op[p] \in Handlers /\ op[p] # "idle"
      /\ Len(Chain[op[p]]) \in Nat /\ pc[p] \in 1..Len(Chain[op[p]])
      /\ pc[p] > 2 /\ usage[p] \in StoredRoleUsage
      /\ tries[p] \in 0..(MaxTries - 1)
  BY AtFacts, ChainsWellPlaced DEF doFetchWithErrorHandling, At, TypeOK, WellPlaced
<1>2. ASSUME Fetched(p) PROVE RequestTypeOK'
  <2>1. CASE Finish(p) BY <2>1, FinishTyped DEF TypeOK
  <2>2. CASE /\ pc[p] < Len(Chain[op[p]])
             /\ pc' = [pc EXCEPT ![p] = @ + 1]
             /\ tries' = [tries EXCEPT ![p] = 0]
             /\ UNCHANGED <<op, arg, keys, usage>>
    <3>1. pc[p] + 1 \in Positions(op[p]) /\ pc[p] + 1 \in Nat
      BY <1>1, <2>2 DEF Positions
    <3>2. 0 \in 0..(MaxTries - 1) BY DEF MaxTries
    <3> QED BY <2>2, <3>1, <3>2 DEF TypeOK, RequestTypeOK
  <2> QED BY <1>2, <2>1, <2>2 DEF Fetched
<1>3. ASSUME Retry(p) PROVE RequestTypeOK'
  <2>1. pc[p] - 2 \in Positions(op[p]) /\ pc[p] - 2 \in Nat
    BY <1>1 DEF Positions
  <2>2. tries[p] + 1 \in 0..(MaxTries - 1) BY <1>1, <1>3 DEF Retry, MaxTries
  <2>3. ResetToken(usage[p]) \in StoredRoleUsage BY <1>1, UsageOpsTyped
  <2>4. pc' \in [Procs -> Nat] BY <1>3, <2>1 DEF Retry, TypeOK, RequestTypeOK
  <2>5. usage' \in [Procs -> StoredRoleUsage]
    BY <1>3, <2>3 DEF Retry, TypeOK, RequestTypeOK
  <2>6. tries' \in [Procs -> 0..(MaxTries - 1)]
    BY <1>3, <2>2 DEF Retry, TypeOK, RequestTypeOK
  <2>7. \A q \in Procs : pc'[q] \in Positions(op[q])
    BY <1>3, <2>1 DEF Retry, TypeOK, RequestTypeOK
  <2> QED BY <1>3, <2>4, <2>5, <2>6, <2>7 DEF Retry, TypeOK, RequestTypeOK
<1>4. RequestTypeOK'
  BY <1>2, <1>3, DieTyped DEF doFetchWithErrorHandling
<1>5. HistoryTypeOK'
  BY CountTyped DEF doFetchWithErrorHandling, TypeOK, history, HistoryTypeOK
<1> QED
  BY <1>4, <1>5 DEF doFetchWithErrorHandling, TypeOK, storage, StorageTypeOK

\* So do the steps that count a use, build an answer or renew a token.
LEMMA UseCredentialsTyped ==
    ASSUME TypeOK, NEW p \in Procs, UseCredentials(p) PROVE TypeOK'
<1> USE DEF TypeOK
<1>1. CASE decreaseRemainingUsageQuota(p)
  <2>1. /\ pc[p] + 1 \in Nat \ {0} /\ op[p] # "idle"
        /\ keys[p] \in RoleKeys /\ usage[p] \in StoredRoleUsage
    BY <1>1, AtFacts DEF decreaseRemainingUsageQuota, At
  <2>2. ReduceRemainingQuota(usage[p]) \in StoredRoleUsage BY <2>1, UsageOpsTyped
  <2>3. RequestTypeOK'
    BY <1>1, <2>1, <2>2, FinishTyped, ProceedTyped, GotoTyped
    DEF decreaseRemainingUsageQuota
  <2>4. StorageTypeOK'
    BY <1>1, <2>2, UsageRoundTrip DEF decreaseRemainingUsageQuota, StorageTypeOK
  <2> QED BY <1>1, <2>3, <2>4 DEF decreaseRemainingUsageQuota, history, HistoryTypeOK
<1>2. CASE ensureAccessTokenValid(p)
  <2>1. RequestTypeOK' BY <1>2, FinishTyped, RenewTyped DEF ensureAccessTokenValid
  <2> QED
    BY <1>2, <2>1
    DEF ensureAccessTokenValid, storage, history, StorageTypeOK, HistoryTypeOK
<1>3. CASE storeToken(p)
  <2>1. op[p] # "idle" /\ usage[p] \in StoredRoleUsage BY <1>3, AtFacts DEF storeToken, At
  <2>2. RequestTypeOK' BY <1>3, <2>1, FinishTyped, ProceedTyped DEF storeToken
  <2>3. StorageTypeOK' BY <1>3, <2>1, UsageRoundTrip DEF storeToken, StorageTypeOK
  <2> QED BY <1>3, <2>2, <2>3 DEF storeToken, history, HistoryTypeOK
<1>4. CASE refreshToken(p)
  <2>1. RequestTypeOK' BY <1>4, DieTyped, RenewTyped DEF refreshToken
  <2> QED BY <1>4, <2>1 DEF refreshToken, storage, history, StorageTypeOK, HistoryTypeOK
<1>5. CASE storeRefreshed(p)
  <2>1. op[p] # "idle" /\ usage[p] \in StoredRoleUsage
    BY <1>5, AtFacts DEF storeRefreshed, At
  <2>2. RequestTypeOK' BY <1>5, <2>1, DieTyped, ProceedTyped DEF storeRefreshed
  <2>3. StorageTypeOK' BY <1>5, <2>1, UsageRoundTrip DEF storeRefreshed, StorageTypeOK
  <2> QED BY <1>5, <2>2, <2>3 DEF storeRefreshed, history, HistoryTypeOK
<1>6. CASE doFetchWithErrorHandling(p) BY <1>6, FetchTyped
<1>7. CASE useV2(p) \/ retrieveV3AccessToken(p) \/ rehydrateV3AccessToken(p)
  <2>1. Finish(p) /\ (Count(p) \/ UNCHANGED history) /\ UNCHANGED <<now, storage>>
    BY <1>7 DEF useV2, retrieveV3AccessToken, rehydrateV3AccessToken
  <2>2. HistoryTypeOK' BY <2>1, CountTyped DEF history, HistoryTypeOK
  <2> QED BY <2>1, <2>2, FinishTyped DEF storage, StorageTypeOK
<1> QED BY <1>1, <1>2, <1>3, <1>4, <1>5, <1>6, <1>7 DEF UseCredentials

\* So does every step.
LEMMA NextTyped == TypeOK /\ [Next]_vars => TypeOK'
<1> SUFFICES ASSUME TypeOK, [Next]_vars PROVE TypeOK' OBVIOUS
<1>1. CASE Tick
  <2>1. now' \in Nat BY <1>1 DEF Tick, TypeOK
  <2> QED
    BY <1>1, <2>1 DEF Tick, storage, request, history, TypeOK, StorageTypeOK,
       RequestTypeOK, HistoryTypeOK
<1>2. CASE Crash
  BY <1>2, DieTyped DEF Crash, storage, history, TypeOK, StorageTypeOK, HistoryTypeOK
<1>3. ASSUME NEW p \in Procs, Begin(p) PROVE TypeOK' BY <1>3, BeginTyped
<1>4. ASSUME NEW p \in Procs, Step(p) PROVE TypeOK'
  <2>1. CASE ReadKeys(p) \/ ReadUsage(p) \/ Block(p) \/ BlockCLIWrite(p)
    BY <2>1, ReadTyped DEF TypeOK, storage, StorageTypeOK
  <2> QED BY <1>4, <2>1, AdministerTyped, UseCredentialsTyped DEF Step
<1>5. CASE UNCHANGED vars
  BY <1>5 DEF vars, storage, request, history, TypeOK, StorageTypeOK,
     RequestTypeOK, HistoryTypeOK
<1> QED BY <1>1, <1>2, <1>3, <1>4, <1>5 DEF Next

\* Whatever requests run together, however many, and wherever they fail, what
\* is stored and what they work on is well-formed, and the retry loop of
\* doFetchWithErrorHandling makes at most three attempts.
THEOREM TypeCorrect == Spec => []TypeOK
BY InitTyped, NextTyped, PTL DEF Spec

-----------------------------------------------------------------------------
(***************************************************************************)
(* The limits of the stored usage.                                         *)
(*                                                                         *)
(* Requests overwrite each other's usage entry, so the stored entry says   *)
(* nothing of what a request has on its heap.  What makes the invariant    *)
(* inductive is that every heap copy a request may still write is within a *)
(* grant by itself: HeapWithinGrant.                                       *)
(***************************************************************************)

\* At this step a request of handler o may go on to write its usage.
Loaded(o, step) ==
    IF o = "create" THEN step = "saveUsage"
    ELSE o # "delete" /\ step \notin {"readKeys", "readUsage"}

HeapWithinGrant ==
    \A p \in Procs :
        op[p] # "idle" /\ Loaded(op[p], Chain[op[p]][pc[p]]) => WithinGrant(usage[p])

GrantInv == StoredWithinGrant /\ HeapWithinGrant

\* The order of the steps the invariant rests on: usage is read before it is
\* used, again after an existence check, and a create initialises it before it
\* saves it.
WellOrdered(c, o) ==
    /\ o # "delete" => c[1] = "readKeys"
    /\ \A i \in 1..Len(c) :
         /\ o = "delete" => c[i] \in {"deleteUsage", "deletePrivateKey", "deleteKeys"}
         /\ o = "create" => c[i] \in {"readKeys", "readUsage", "blockImported",
                                     "updateKeys", "saveKeys", "setInitialUsage",
                                     "saveUsage"}
         /\ i < Len(c) =>
              /\ c[i] = "readKeys" => c[i + 1] = "readUsage"
              /\ c[i] = "blockCLIWrite" => c[i + 1] = "readKeys"
              /\ o = "create" /\ c[i + 1] = "saveUsage" => c[i] = "setInitialUsage"

\* Every chain has its steps in the order the grant asks for.
LEMMA ChainsWellOrdered == \A o \in Handlers : WellOrdered(Chain[o], o)
<1> USE DEF WellOrdered, Chain, ReadRole, EnsureToken
<1>1. WellOrdered(Chain["create"], "create") BY DEF handleWriteRoleKeys
<1>2. WellOrdered(Chain["update"], "update") BY DEF handleUpdateRoleData
<1>3. WellOrdered(Chain["delete"], "delete") BY DEF handleDeleteRoleData
<1>4. WellOrdered(Chain["pem"], "pem") BY DEF pathRolePEMRead
<1>5. WellOrdered(Chain["import"], "import") BY DEF pathRoleImport
<1>6. WellOrdered(Chain["deleteToken"], "deleteToken") BY DEF deleteToken
<1>7. WellOrdered(Chain["grant2"], "grant2") BY DEF issueGrantV2
<1>8. WellOrdered(Chain["grant3"], "grant3") BY DEF issueGrantV3
<1>9. WellOrdered(Chain["token"], "token") BY DEF readRoleToken
<1>10. WellOrdered(Chain["v2"], "v2") BY DEF executeV2Write
<1>11. WellOrdered(Chain["proxyV2"], "proxyV2") BY DEF proxyV2Request
<1>12. WellOrdered(Chain["v3"], "v3")
  BY DEF executeV3, makeBaseV3InvocationChain, FetchLoop
<1>13. WellOrdered(Chain["v3write"], "v3write")
  BY DEF executeV3Write, v3ObjectExists, executeV3, makeBaseV3InvocationChain, FetchLoop
<1> HIDE DEF WellOrdered, Chain
<1> QED
  BY HandlerNames, <1>1, <1>2, <1>3, <1>4, <1>5, <1>6, <1>7, <1>8, <1>9, <1>10,
     <1>11, <1>12, <1>13

\* Charging a use and dropping or replacing the token stay within the grant.
LEMMA UsageOpsWithinGrant ==
    ASSUME NEW u \in StoredRoleUsage, WithinGrant(u)
    PROVE  /\ WithinGrant(ReduceRemainingQuota(u))
           /\ WithinGrant(ResetToken(u))
           /\ \A t, e, o : WithinGrant(ReplaceAccessToken(u, t, e, o))
<1> USE DEF WithinGrant, HasUsageQuota, StoredRoleUsage
<1>1. WithinGrant(ReduceRemainingQuota(u)) BY DEF ReduceRemainingQuota
<1>2. WithinGrant(ResetToken(u)) BY DEF ResetToken
<1>3. \A t, e, o : WithinGrant(ReplaceAccessToken(u, t, e, o)) BY DEF ReplaceAccessToken
<1> QED BY <1>1, <1>2, <1>3

\* A create and an import each put one grant in force, whatever was before.
LEMMA NewGrantWithin ==
    ASSUME NEW u \in StoredRoleUsage
    PROVE  /\ WithinGrant(UnboundedUsage(u))
           /\ WithinGrant(ResetToken(UnboundedUsage(u)))
           /\ \A x \in Imports : WithinGrant(ImportUsage(u, x))
<1>1. WithinGrant(UnboundedUsage(u))
  BY DEF WithinGrant, HasUsageQuota, Grants, UnboundedUsage, StoredRoleUsage
<1>2. WithinGrant(ResetToken(UnboundedUsage(u)))
  BY <1>1, UsageOpsTyped, UsageOpsWithinGrant
<1>3. ASSUME NEW x \in Imports PROVE WithinGrant(ImportUsage(u, x))
  <2>1. CASE x.UsageTerm = Nil BY <1>1, <2>1 DEF ImportUsage
  <2>2. CASE x.UsageTerm # Nil
    <3> DEFINE v == ImportUsage(u, x)
    <3>1. x.UsageTerm \in RoleUsageTerm
      BY <2>2, ServiceAssumption DEF RoleDataExchange
    <3>2. /\ v.ExplicitTerm = x.UsageTerm.ExplicitTerm
          /\ v.ExplicitNumUses = x.UsageTerm.ExplicitNumUses
          /\ v.ExplicitNumUses > 0 => v.RemainingNumUses = v.ExplicitNumUses
          /\ v.ExplicitNumUses \in Int
      BY <2>2, <3>1 DEF ImportUsage, StoredRoleUsage, RoleUsageTerm
    <3> HIDE DEF v
    <3>3. [ExplicitTerm |-> v.ExplicitTerm, ExplicitNumUses |-> v.ExplicitNumUses]
            = x.UsageTerm
      BY <3>1, <3>2 DEF RoleUsageTerm
    <3>4. x.UsageTerm \in Grants BY <2>2 DEF Grants
    <3>5. WithinGrant(v) BY <3>2, <3>3, <3>4 DEF WithinGrant, HasUsageQuota
    <3> QED BY <3>5 DEF v
  <2> QED BY <2>1, <2>2
<1> QED BY <1>1, <1>2, <1>3

\* A request that ends, or all of them, leaves the others' heaps alone.
LEMMA FinishKeeps ==
    ASSUME RequestTypeOK, HeapWithinGrant, NEW p \in Procs, Finish(p)
    PROVE  HeapWithinGrant'
BY DEF RequestTypeOK, HeapWithinGrant, Finish

\* A process that dies leaves no usage in memory.
LEMMA DieKeeps == ASSUME Die PROVE HeapWithinGrant'
BY DEF HeapWithinGrant, Die

\* A request that goes to a step has a usage within its grant there.
LEMMA GotoKeeps ==
    ASSUME RequestTypeOK, HeapWithinGrant, NEW p \in Procs,
           NEW n \in Nat, NEW k, NEW u, Goto(p, n, k, u),
           ~(n > Len(Chain[op[p]])) /\ Loaded(op[p], Chain[op[p]][n]) => WithinGrant(u)
    PROVE  HeapWithinGrant'
<1>1. CASE n > Len(Chain[op[p]]) BY <1>1, FinishKeeps DEF Goto
<1>2. CASE ~(n > Len(Chain[op[p]]))
  BY <1>2 DEF Goto, RequestTypeOK, HeapWithinGrant
<1> QED BY <1>1, <1>2

\* On to the next step with the usage as it is: past the reads, the copy was
\* already within a grant.
LEMMA ProceedKeeps ==
    ASSUME RequestTypeOK, HeapWithinGrant, NEW p \in Procs, NEW step, At(p, step),
           Proceed(p), step \notin {"readKeys", "readUsage", "setInitialUsage"}
    PROVE  HeapWithinGrant'
<1>1. /\ op[p] \in Handlers /\ op[p] # "idle" /\ Len(Chain[op[p]]) \in Nat
      /\ pc[p] \in 1..Len(Chain[op[p]]) /\ Chain[op[p]][pc[p]] = step
  BY AtFacts DEF At
<1>2. ASSUME ~(pc[p] + 1 > Len(Chain[op[p]])), Loaded(op[p], Chain[op[p]][pc[p] + 1])
      PROVE  WithinGrant(usage[p])
  <2>1. op[p] # "create"
    BY <1>1, <1>2, ChainsWellOrdered DEF Loaded, WellOrdered
  <2>2. Loaded(op[p], step) BY <1>2, <2>1 DEF Loaded
  <2> QED BY <1>1, <2>2 DEF HeapWithinGrant
<1>3. pc[p] + 1 \in Nat BY <1>1
<1> QED BY <1>2, <1>3, GotoKeeps DEF Proceed

\* A request that starts has read no usage.
LEMMA StartKeeps ==
    ASSUME RequestTypeOK, HeapWithinGrant, NEW p \in Procs, NEW o \in Handlers, NEW a,
           Start(p, o, a)
    PROVE  HeapWithinGrant'
<1>1. ~Loaded(o, Chain[o][1]) BY ChainsWellOrdered DEF WellOrdered, Loaded
<1> QED BY <1>1 DEF RequestTypeOK, HeapWithinGrant, Start

\* Requests of every kind that begin leave the grants as they are.
LEMMA BeginKeeps ==
    ASSUME TypeOK, GrantInv, NEW p \in Procs, Begin(p) PROVE GrantInv'
<1>1. PICK o \in Handlers : \E a : Start(p, o, a)
  <2>1. CASE BeginWrite(p) BY <2>1, HandlerNames DEF BeginWrite
  <2>2. CASE BeginImport(p) BY <2>2, HandlerNames DEF BeginImport
  <2>3. CASE BeginOther(p)
    BY <2>3, ServiceAssumption, HandlerNames DEF BeginOther, ClientOps
  <2> QED BY <2>1, <2>2, <2>3 DEF Begin
<1>2. HeapWithinGrant' BY <1>1, StartKeeps DEF TypeOK, GrantInv
<1>3. UNCHANGED usageEntry BY <1>1 DEF Start, storage
<1> QED BY <1>2, <1>3 DEF GrantInv, StoredWithinGrant, StoredUsage

\* A usage entry written from a copy within a grant is within that grant.
LEMMA WriteKeeps ==
    ASSUME NEW u \in StoredRoleUsage, WithinGrant(u), usageEntry' = EncodeUsage(u)
    PROVE  StoredWithinGrant'
<1>1. StoredUsage' = u BY UsageRoundTrip DEF StoredUsage
<1> QED BY <1>1 DEF StoredWithinGrant

\* So do the steps that read the role and check it.
LEMMA ReadKeeps ==
    ASSUME TypeOK, GrantInv, NEW p \in Procs,
           ReadKeys(p) \/ ReadUsage(p) \/ Block(p) \/ BlockCLIWrite(p)
    PROVE  HeapWithinGrant'
<1> USE DEF TypeOK, GrantInv
<1>1. CASE ReadKeys(p)
  <2>1. /\ pc[p] + 1 \in Nat /\ op[p] \in Handlers
        /\ Len(Chain[op[p]]) \in Nat /\ pc[p] \in 1..Len(Chain[op[p]])
        /\ Chain[op[p]][pc[p]] = "readKeys"
    BY <1>1, AtFacts DEF ReadKeys
  <2>2. ~(pc[p] + 1 > Len(Chain[op[p]])) => Chain[op[p]][pc[p] + 1] = "readUsage"
    BY <2>1, ChainsWellOrdered DEF WellOrdered
  <2> QED BY <1>1, <2>1, <2>2, FinishKeeps, GotoKeeps DEF ReadKeys, Loaded
<1>2. CASE ReadUsage(p)
  <2>1. /\ pc[p] + 1 \in Nat /\ op[p] \in Handlers
        /\ Len(Chain[op[p]]) \in Nat /\ pc[p] \in 1..Len(Chain[op[p]])
        /\ Chain[op[p]][pc[p]] = "readUsage"
    BY <1>2, AtFacts DEF ReadUsage
  <2>2. CASE op[p] = "create"
    <3>1. ~(pc[p] + 1 > Len(Chain[op[p]])) => Chain[op[p]][pc[p] + 1] # "saveUsage"
      BY <2>1, <2>2, ChainsWellOrdered DEF WellOrdered
    <3> QED BY <1>2, <2>1, <2>2, <3>1, FinishKeeps, GotoKeeps DEF ReadUsage, Loaded
  <2>3. CASE op[p] # "create"
    <3>1. usageEntry # Nil => WithinGrant(DecodeUsage(usageEntry))
      BY DEF StoredWithinGrant, StoredUsage
    <3> QED
      BY <1>2, <2>1, <2>3, <3>1, FinishKeeps, GotoKeeps DEF ReadUsage, RequiresRole
  <2> QED BY <2>2, <2>3
<1>3. CASE Block(p) BY <1>3, FinishKeeps, ProceedKeeps DEF Block, Blockers
<1>4. CASE BlockCLIWrite(p)
  <2>1. /\ pc[p] + 1 \in Nat /\ op[p] \in Handlers
        /\ Len(Chain[op[p]]) \in Nat /\ pc[p] \in 1..Len(Chain[op[p]])
        /\ Chain[op[p]][pc[p]] = "blockCLIWrite"
    BY <1>4, AtFacts DEF BlockCLIWrite
  <2>2. ~(pc[p] + 1 > Len(Chain[op[p]])) => Chain[op[p]][pc[p] + 1] = "readKeys"
    BY <2>1, ChainsWellOrdered DEF WellOrdered
  <2> QED BY <1>4, <2>1, <2>2, FinishKeeps, GotoKeeps DEF BlockCLIWrite, Loaded
<1> QED BY <1>1, <1>2, <1>3, <1>4

\* Past the reads and outside a create or a delete, the usage on the heap is
\* within a grant; so is what a create is about to save.
LEMMA HeapAt ==
    ASSUME RequestTypeOK, HeapWithinGrant, NEW p \in Procs, NEW step, At(p, step),
           step \notin {"readKeys", "readUsage", "setInitialUsage", "saveKeys",
                        "updateKeys", "blockImported",
                        "deleteUsage", "deletePrivateKey", "deleteKeys"}
    PROVE  WithinGrant(usage[p])
<1>1. /\ op[p] \in Handlers /\ op[p] # "idle"
      /\ pc[p] \in 1..Len(Chain[op[p]]) /\ Chain[op[p]][pc[p]] = step
  BY AtFacts DEF At
<1>2. Loaded(op[p], step) BY <1>1, ChainsWellOrdered DEF WellOrdered, Loaded
<1> QED BY <1>1, <1>2 DEF HeapWithinGrant

\* In a create the usage is saved only after it was initialised.
LEMMA NextInCreate ==
    ASSUME RequestTypeOK, NEW p \in Procs, NEW step, At(p, step), op[p] = "create",
           ~(pc[p] + 1 > Len(Chain[op[p]])), step # "setInitialUsage"
    PROVE  ~Loaded(op[p], Chain[op[p]][pc[p] + 1])
<1>1. /\ op[p] \in Handlers /\ Len(Chain[op[p]]) \in Nat
      /\ pc[p] \in 1..Len(Chain[op[p]]) /\ Chain[op[p]][pc[p]] = step
  BY AtFacts
<1> QED BY <1>1, ChainsWellOrdered DEF WellOrdered, Loaded

\* So do the steps that write, delete or import the role.
LEMMA AdministerKeeps ==
    ASSUME TypeOK, GrantInv, NEW p \in Procs, Administer(p) PROVE GrantInv'
<1> USE DEF TypeOK, GrantInv
<1>0. UNCHANGED usageEntry => StoredWithinGrant'
  BY DEF StoredWithinGrant, StoredUsage
<1>1. CASE UpdateKeys(p)
  <2>1. pc[p] + 1 \in Nat /\ op[p] \in Handlers /\ op[p] # "idle"
    BY <1>1, AtFacts DEF UpdateKeys, At
  <2>2. CASE op[p] = "create"
    <3>1. HeapWithinGrant' BY <1>1, <2>1, <2>2, NextInCreate, GotoKeeps DEF UpdateKeys
    <3> QED BY <1>0, <1>1, <3>1 DEF UpdateKeys, storage
  <2>3. CASE op[p] # "create"
    <3>1. op[p] = "update"
      BY <1>1, <2>1, <2>3, AtFacts, ChainsWellPlaced DEF UpdateKeys, WellPlaced
    <3>2. WithinGrant(usage[p])
      BY <1>1, <2>1, <3>1, AtFacts DEF UpdateKeys, HeapWithinGrant, Loaded
    <3>3. HeapWithinGrant' BY <1>1, <2>1, <3>2, GotoKeeps DEF UpdateKeys
    <3> QED BY <1>0, <1>1, <3>3 DEF UpdateKeys, storage
  <2> QED BY <2>2, <2>3
<1>2. CASE saveRoleKeys(p)
  <2>1. HeapWithinGrant' BY <1>2, FinishKeeps, ProceedKeeps DEF saveRoleKeys
  <2> QED BY <1>0, <1>2, <2>1 DEF saveRoleKeys
<1>3. CASE setInitialRoleUsage(p)
  <2>1. pc[p] + 1 \in Nat /\ usage[p] \in StoredRoleUsage
    BY <1>3, AtFacts DEF setInitialRoleUsage
  <2>2. HeapWithinGrant'
    BY <1>3, <2>1, NewGrantWithin, GotoKeeps DEF setInitialRoleUsage
  <2> QED BY <1>0, <1>3, <2>2 DEF setInitialRoleUsage, storage
<1>4. CASE forgetUsedToken(p)
  <2>1. pc[p] + 1 \in Nat /\ usage[p] \in StoredRoleUsage /\ WithinGrant(usage[p])
    BY <1>4, AtFacts, HeapAt DEF forgetUsedToken
  <2>2. HeapWithinGrant'
    BY <1>4, <2>1, UsageOpsWithinGrant, GotoKeeps DEF forgetUsedToken
  <2> QED BY <1>0, <1>4, <2>2 DEF forgetUsedToken, storage
<1>5. CASE saveRoleUsage(p)
  <2>1. usage[p] \in StoredRoleUsage /\ WithinGrant(usage[p])
    BY <1>5, AtFacts, HeapAt DEF saveRoleUsage
  <2>2. HeapWithinGrant' BY <1>5, FinishKeeps, ProceedKeeps DEF saveRoleUsage
  <2> QED BY <1>0, <1>5, <2>1, <2>2, WriteKeeps DEF saveRoleUsage
<1>6. CASE retrievePrivateKey(p)
  <2>1. pc[p] + 2 \in Nat /\ WithinGrant(usage[p])
    BY <1>6, AtFacts, HeapAt DEF retrievePrivateKey
  <2>2. HeapWithinGrant'
    BY <1>6, <2>1, FinishKeeps, ProceedKeeps, GotoKeeps DEF retrievePrivateKey
  <2> QED BY <1>0, <1>6, <2>2 DEF retrievePrivateKey, storage
<1>7. CASE savePrivateKey(p)
  BY <1>0, <1>7, FinishKeeps DEF savePrivateKey
<1>8. CASE importPEMEncodedExchangeData(p)
  <2>1. pc[p] + 1 \in Nat /\ usage[p] \in StoredRoleUsage
    BY <1>8, AtFacts DEF importPEMEncodedExchangeData
  <2>2. arg[p] \in Imports
    BY <1>8, AtFacts, ChainsWellPlaced
    DEF importPEMEncodedExchangeData, WellPlaced, Arguments
  <2>3. HeapWithinGrant'
    BY <1>8, <2>1, <2>2, FinishKeeps, NewGrantWithin, GotoKeeps
    DEF importPEMEncodedExchangeData
  <2> QED BY <1>0, <1>8, <2>3 DEF importPEMEncodedExchangeData, storage
<1>9. CASE DeleteUsage(p)
  <2>1. HeapWithinGrant' BY <1>9, FinishKeeps, ProceedKeeps DEF DeleteUsage
  <2>2. usageEntry' = Nil \/ UNCHANGED usageEntry BY <1>9 DEF DeleteUsage
  <2> QED BY <1>0, <2>1, <2>2 DEF StoredWithinGrant
<1>10. CASE DeletePrivateKey(p)
  <2>1. HeapWithinGrant' BY <1>10, FinishKeeps, ProceedKeeps DEF DeletePrivateKey
  <2> QED BY <1>0, <1>10, <2>1 DEF DeletePrivateKey
<1>11. CASE DeleteKeys(p)
  <2>1. HeapWithinGrant' BY <1>11, FinishKeeps, ProceedKeeps DEF DeleteKeys
  <2> QED BY <1>0, <1>11, <2>1 DEF DeleteKeys
<1> QED
  BY <1>1, <1>2, <1>3, <1>4, <1>5, <1>6, <1>7, <1>8, <1>9, <1>10, <1>11 DEF Administer

\* ensureAccessTokenValidForRole changes the token, not the limits.
LEMMA RenewKeeps ==
    ASSUME TypeOK, HeapWithinGrant, NEW p \in Procs,
           NEW step \in {"ensureToken", "refreshToken"}, At(p, step), RenewToken(p)
    PROVE  HeapWithinGrant'
<1>1. /\ pc[p] + 1 \in Nat /\ pc[p] + 2 \in Nat
      /\ usage[p] \in StoredRoleUsage /\ WithinGrant(usage[p])
  BY AtFacts, HeapAt DEF TypeOK
<1>2. WithinGrant(ReplaceAccessToken(usage[p], asV3Credentials(keys[p]),
                                     now + TokenLife, now))
  BY <1>1, UsageOpsWithinGrant
<1> QED BY <1>1, <1>2, GotoKeeps DEF RenewToken, TypeOK

\* So does a call with its retries.
LEMMA FetchKeeps ==
    ASSUME TypeOK, HeapWithinGrant, NEW p \in Procs, doFetchWithErrorHandling(p)
    PROVE  HeapWithinGrant'
<1> USE DEF TypeOK
<1>1. /\ op[p] \in Handlers /\ op[p] # "idle" /\ usage[p] \in StoredRoleUsage
      /\ Len(Chain[op[p]]) \in Nat /\ pc[p] \in 1..Len(Chain[op[p]])
      /\ Chain[op[p]][pc[p]] = "fetch"
  BY AtFacts DEF doFetchWithErrorHandling, At
<1>2. WithinGrant(usage[p]) /\ WithinGrant(ResetToken(usage[p]))
  BY <1>1, HeapAt, UsageOpsWithinGrant DEF doFetchWithErrorHandling
<1>3. ASSUME Fetched(p) PROVE HeapWithinGrant'
  <2>1. ASSUME Finish(p) PROVE HeapWithinGrant' BY <2>1, FinishKeeps
  <2>2. ASSUME pc' = [pc EXCEPT ![p] = @ + 1], UNCHANGED <<op, usage>>
        PROVE  HeapWithinGrant'
    BY <1>2, <2>2 DEF RequestTypeOK, HeapWithinGrant
  <2> QED BY <1>3, <2>1, <2>2 DEF Fetched
<1>4. ASSUME Retry(p) PROVE HeapWithinGrant'
  BY <1>2, <1>4 DEF Retry, RequestTypeOK, HeapWithinGrant
<1> QED BY <1>3, <1>4, DieKeeps DEF doFetchWithErrorHandling

\* So do the steps that count a use, build an answer or renew a token.
LEMMA UseCredentialsKeeps ==
    ASSUME TypeOK, GrantInv, NEW p \in Procs, UseCredentials(p) PROVE GrantInv'
<1> USE DEF TypeOK, GrantInv
<1>0. UNCHANGED usageEntry => StoredWithinGrant'
  BY DEF StoredWithinGrant, StoredUsage
<1>1. CASE decreaseRemainingUsageQuota(p)
  <2>1. pc[p] + 1 \in Nat /\ usage[p] \in StoredRoleUsage /\ WithinGrant(usage[p])
    BY <1>1, AtFacts, HeapAt DEF decreaseRemainingUsageQuota
  <2>2. /\ ReduceRemainingQuota(usage[p]) \in StoredRoleUsage
        /\ WithinGrant(ReduceRemainingQuota(usage[p]))
    BY <2>1, UsageOpsTyped, UsageOpsWithinGrant
  <2>3. HeapWithinGrant'
    BY <1>1, <2>1, <2>2, FinishKeeps, ProceedKeeps, GotoKeeps
    DEF decreaseRemainingUsageQuota
  <2> QED BY <1>0, <1>1, <2>2, <2>3, WriteKeeps DEF decreaseRemainingUsageQuota
<1>2. CASE ensureAccessTokenValid(p)
  BY <1>0, <1>2, FinishKeeps, RenewKeeps DEF ensureAccessTokenValid, storage
<1>3. CASE storeToken(p)
  <2>1. usage[p] \in StoredRoleUsage /\ WithinGrant(usage[p])
    BY <1>3, AtFacts, HeapAt DEF storeToken
  <2>2. HeapWithinGrant' BY <1>3, FinishKeeps, ProceedKeeps DEF storeToken
  <2> QED BY <1>0, <1>3, <2>1, <2>2, WriteKeeps DEF storeToken
<1>4. CASE refreshToken(p)
  BY <1>0, <1>4, DieKeeps, RenewKeeps DEF refreshToken, storage
<1>5. CASE storeRefreshed(p)
  <2>1. usage[p] \in StoredRoleUsage /\ WithinGrant(usage[p])
    BY <1>5, AtFacts, HeapAt DEF storeRefreshed
  <2>2. HeapWithinGrant' BY <1>5, DieKeeps, ProceedKeeps DEF storeRefreshed
  <2> QED BY <1>0, <1>5, <2>1, <2>2, WriteKeeps DEF storeRefreshed
<1>6. CASE doFetchWithErrorHandling(p)
  BY <1>0, <1>6, FetchKeeps DEF doFetchWithErrorHandling, storage
<1>7. CASE useV2(p) \/ retrieveV3AccessToken(p) \/ rehydrateV3AccessToken(p)
  <2>1. Finish(p) /\ UNCHANGED usageEntry
    BY <1>7 DEF useV2, retrieveV3AccessToken, rehydrateV3AccessToken, storage
  <2> QED BY <1>0, <2>1, FinishKeeps
<1> QED BY <1>1, <1>2, <1>3, <1>4, <1>5, <1>6, <1>7 DEF UseCredentials

\* So does every step.
LEMMA NextKeeps == TypeOK /\ GrantInv /\ [Next]_vars => GrantInv'
<1> SUFFICES ASSUME TypeOK, GrantInv, [Next]_vars PROVE GrantInv' OBVIOUS
<1>1. ASSUME UNCHANGED <<op, pc, usage, usageEntry>> PROVE GrantInv'
  BY <1>1 DEF GrantInv, StoredWithinGrant, StoredUsage, HeapWithinGrant
<1>2. CASE Tick BY <1>1, <1>2 DEF Tick, storage, request
<1>3. CASE Crash
  BY <1>3, DieKeeps DEF Crash, storage, GrantInv, StoredWithinGrant, StoredUsage
<1>4. ASSUME NEW p \in Procs, Begin(p) PROVE GrantInv' BY <1>4, BeginKeeps
<1>5. ASSUME NEW p \in Procs, Step(p) PROVE GrantInv'
  <2>1. CASE ReadKeys(p) \/ ReadUsage(p) \/ Block(p) \/ BlockCLIWrite(p)
    <3>1. UNCHANGED usageEntry
      BY <2>1 DEF ReadKeys, ReadUsage, Block, BlockCLIWrite, storage
    <3> QED BY <2>1, <3>1, ReadKeeps DEF GrantInv, StoredWithinGrant, StoredUsage
  <2> QED BY <1>5, <2>1, AdministerKeeps, UseCredentialsKeeps DEF Step
<1>6. CASE UNCHANGED vars BY <1>1, <1>6 DEF vars, storage, request
<1> QED BY <1>2, <1>3, <1>4, <1>5, <1>6 DEF Next

\* However many requests race for the usage entry, what is stored is the limits
\* of one grant with a remaining number of uses that belongs to it.  (Requests
\* can still overwrite each other's charge: that the quota itself is respected
\* holds only when requests do not overlap.)
THEOREM GrantsStayWhole == Spec => []StoredWithinGrant
<1>1. Init => GrantInv
  BY DEF Init, GrantInv, StoredWithinGrant, HeapWithinGrant
<1>2. GrantInv => StoredWithinGrant BY DEF GrantInv
<1> QED BY <1>1, <1>2, NextKeeps, TypeCorrect, PTL DEF Spec

-----------------------------------------------------------------------------
(***************************************************************************)
(* The token of a request.  It is put on the heap right before the steps   *)
(* that store it and use it, and no step in between takes it off: a retry  *)
(* drops it and goes back to where it is obtained.                         *)
(***************************************************************************)

\* The steps that store a token just obtained, or use one.
NeedsToken == {"storeToken", "useToken", "storeRefreshed", "fetch"}

TokenInv ==
    \A p \in Procs :
        op[p] # "idle" /\ Chain[op[p]][pc[p]] \in NeedsToken => usage[p].V3Token # Nil

TokenOrdered(c) ==
    /\ Len(c) \in Nat \ {0} /\ c[1] \notin NeedsToken
    /\ \A i \in 1..Len(c) :
         /\ i + 1 <= Len(c) /\ c[i + 1] \in NeedsToken =>
               c[i] \in {"ensureToken", "storeToken", "refreshToken", "storeRefreshed"}
         /\ i + 2 <= Len(c) /\ c[i] = "retrievePrivateKey" => c[i + 2] \notin NeedsToken
         /\ c[i] = "fetch" => i > 2 /\ c[i - 2] = "refreshToken"

\* Every handler obtains a token before the steps that need one.
LEMMA ChainsTokenOrdered == \A o \in Handlers : TokenOrdered(Chain[o])
<1> USE DEF TokenOrdered, NeedsToken, Chain, ReadRole, EnsureToken
<1>1. TokenOrdered(Chain["create"]) BY DEF handleWriteRoleKeys
<1>2. TokenOrdered(Chain["update"]) BY DEF handleUpdateRoleData
<1>3. TokenOrdered(Chain["delete"]) BY DEF handleDeleteRoleData
<1>4. TokenOrdered(Chain["pem"]) BY DEF pathRolePEMRead
<1>5. TokenOrdered(Chain["import"]) BY DEF pathRoleImport
<1>6. TokenOrdered(Chain["deleteToken"]) BY DEF deleteToken
<1>7. TokenOrdered(Chain["grant2"]) BY DEF issueGrantV2
<1>8. TokenOrdered(Chain["grant3"]) BY DEF issueGrantV3
<1>9. TokenOrdered(Chain["token"]) BY DEF readRoleToken
<1>10. TokenOrdered(Chain["v2"]) BY DEF executeV2Write
<1>11. TokenOrdered(Chain["proxyV2"]) BY DEF proxyV2Request
<1>12. TokenOrdered(Chain["v3"])
  BY DEF executeV3, makeBaseV3InvocationChain, FetchLoop
<1>13. TokenOrdered(Chain["v3write"])
  BY DEF executeV3Write, v3ObjectExists, executeV3, makeBaseV3InvocationChain, FetchLoop
<1> HIDE DEF TokenOrdered, Chain
<1> QED
  BY HandlerNames, <1>1, <1>2, <1>3, <1>4, <1>5, <1>6, <1>7, <1>8, <1>9, <1>10,
     <1>11, <1>12, <1>13

\* A token obtained for the keys on the heap is one.
LEMMA NewTokenIsThere ==
    ASSUME NEW u \in StoredRoleUsage, NEW k \in RoleKeys, NEW e, NEW t
    PROVE  ReplaceAccessToken(u, asV3Credentials(k), e, t).V3Token # Nil
<1>1. asV3Credentials(k) \in MasheryV3Credentials
  BY DEF asV3Credentials, MasheryV3Credentials, RoleKeys
<1>2. asV3Credentials(k) # Nil BY <1>1, NilAssumption
<1>3. ReplaceAccessToken(u, asV3Credentials(k), e, t).V3Token = asV3Credentials(k)
  BY DEF ReplaceAccessToken, StoredRoleUsage
<1> QED BY <1>2, <1>3

\* A request that ends needs no token.
LEMMA EndedKeepsToken ==
    ASSUME TypeOK, TokenInv, NEW p \in Procs, Finish(p) \/ Die PROVE TokenInv'
BY DEF TypeOK, RequestTypeOK, TokenInv, Finish, Die

\* One that goes on has the token its step needs.
LEMMA GotoKeepsToken ==
    ASSUME TypeOK, TokenInv, NEW p \in Procs, op[p] # "idle",
           NEW m \in Nat, NEW k, NEW u, Goto(p, m, k, u),
           m <= Len(Chain[op[p]]) /\ Chain[op[p]][m] \in NeedsToken => u.V3Token # Nil
    PROVE  TokenInv'
<1>1. Len(Chain[op[p]]) \in Nat
  BY ChainsTokenOrdered DEF TokenOrdered, TypeOK, RequestTypeOK
<1>2. CASE m > Len(Chain[op[p]]) BY <1>2, EndedKeepsToken DEF Goto
<1>3. CASE ~(m > Len(Chain[op[p]]))
  <2>1. /\ op' = op /\ pc'[p] = m /\ usage'[p] = u
        /\ \A q \in Procs \ {p} : pc'[q] = pc[q] /\ usage'[q] = usage[q]
    BY <1>3 DEF Goto, TypeOK, RequestTypeOK
  <2>2. m <= Len(Chain[op[p]]) BY <1>1, <1>3
  <2> QED BY <2>1, <2>2, Zenon DEF TokenInv
<1> QED BY <1>2, <1>3

\* Steps that neither obtain a token nor make a call lead to none that needs one,
\* or keep the one there is.
LEMMA MoveKeepsToken ==
    ASSUME TypeOK, TokenInv, NEW p \in Procs, NEW step, At(p, step),
           step \notin {"ensureToken", "refreshToken", "fetch"},
           NEW k, NEW u, step \in NeedsToken => u = usage[p],
           \/ Goto(p, pc[p] + 1, k, u)
           \/ step = "retrievePrivateKey" /\ Goto(p, pc[p] + 2, k, u)
    PROVE  TokenInv'
<1> DEFINE c == Chain[op[p]]
           n == pc[p]
<1>1. /\ op[p] \in Handlers /\ op[p] # "idle" /\ Len(c) \in Nat
      /\ n \in 1..Len(c) /\ c[n] = step
  BY AtFacts DEF TypeOK, At
<1>2. TokenOrdered(c) /\ n + 1 \in Nat /\ n + 2 \in Nat BY <1>1, ChainsTokenOrdered
<1>3. n + 1 <= Len(c) /\ c[n + 1] \in NeedsToken => u.V3Token # Nil
  BY <1>1, <1>2 DEF TokenOrdered, TokenInv, NeedsToken
<1>4. step = "retrievePrivateKey" /\ n + 2 <= Len(c) => c[n + 2] \notin NeedsToken
  BY <1>1, <1>2 DEF TokenOrdered
<1> QED BY <1>1, <1>2, <1>3, <1>4, GotoKeepsToken

\* ensureAccessTokenValidForRole keeps a token that is there, or obtains one.
LEMMA RenewKeepsToken ==
    ASSUME TypeOK, TokenInv, NEW p \in Procs, NEW step, At(p, step), RenewToken(p)
    PROVE  TokenInv'
<1>1. /\ op[p] # "idle" /\ pc[p] + 1 \in Nat /\ pc[p] + 2 \in Nat
      /\ keys[p] \in RoleKeys /\ usage[p] \in StoredRoleUsage
  BY AtFacts DEF TypeOK, At
<1>2. ~V3TokenNeedsRenew(usage[p], now) => usage[p].V3Token # Nil BY DEF V3TokenNeedsRenew
<1> QED BY <1>1, <1>2, NewTokenIsThere, GotoKeepsToken DEF RenewToken

\* doFetchWithErrorHandling: a retry drops the token and goes back for another.
LEMMA FetchKeepsToken ==
    ASSUME TypeOK, TokenInv, NEW p \in Procs, doFetchWithErrorHandling(p) PROVE TokenInv'
<1> DEFINE c == Chain[op[p]]
           n == pc[p]
<1>1. /\ op[p] \in Handlers /\ op[p] # "idle" /\ Len(c) \in Nat
      /\ n \in 1..Len(c) /\ c[n] = "fetch"
  BY AtFacts DEF doFetchWithErrorHandling, TypeOK, At
<1>2. /\ c[n - 2] = "refreshToken"
      /\ n < Len(c) => c[n + 1] \notin NeedsToken
  BY <1>1, ChainsTokenOrdered DEF TokenOrdered
<1>3. CASE Finish(p) \/ Die BY <1>3, EndedKeepsToken
<1>4. CASE n < Len(c) /\ pc' = [pc EXCEPT ![p] = @ + 1] /\ UNCHANGED <<op, usage>>
  BY <1>2, <1>4 DEF TokenInv, TypeOK, RequestTypeOK
<1>5. CASE Retry(p)
  BY <1>2, <1>5 DEF Retry, TokenInv, TypeOK, RequestTypeOK, NeedsToken
<1> QED BY <1>3, <1>4, <1>5 DEF doFetchWithErrorHandling, Fetched

\* A step of a request keeps the tokens.
LEMMA StepKeepsToken == ASSUME TypeOK, TokenInv, NEW p \in Procs, Step(p) PROVE TokenInv'
<1>1. CASE ReadKeys(p) BY <1>1, EndedKeepsToken, MoveKeepsToken DEF ReadKeys, NeedsToken
<1>2. CASE ReadUsage(p) BY <1>2, EndedKeepsToken, MoveKeepsToken DEF ReadUsage, NeedsToken
<1>3. CASE Block(p)
  BY <1>3, EndedKeepsToken, MoveKeepsToken DEF Block, Blockers, Proceed, NeedsToken
<1>4. CASE BlockCLIWrite(p)
  BY <1>4, EndedKeepsToken, MoveKeepsToken DEF BlockCLIWrite, NeedsToken
<1>5. CASE Administer(p)
  <2>1. CASE UpdateKeys(p) BY <2>1, MoveKeepsToken DEF UpdateKeys, NeedsToken
  <2>2. CASE saveRoleKeys(p)
    BY <2>2, EndedKeepsToken, MoveKeepsToken DEF saveRoleKeys, Proceed, NeedsToken
  <2>3. CASE setInitialRoleUsage(p)
    BY <2>3, MoveKeepsToken DEF setInitialRoleUsage, NeedsToken
  <2>4. CASE forgetUsedToken(p) BY <2>4, MoveKeepsToken DEF forgetUsedToken, NeedsToken
  <2>5. CASE saveRoleUsage(p)
    BY <2>5, EndedKeepsToken, MoveKeepsToken DEF saveRoleUsage, Proceed, NeedsToken
  <2>6. CASE retrievePrivateKey(p)
    BY <2>6, EndedKeepsToken, MoveKeepsToken DEF retrievePrivateKey, Proceed, NeedsToken
  <2>7. CASE savePrivateKey(p) BY <2>7, EndedKeepsToken DEF savePrivateKey
  <2>8. CASE importPEMEncodedExchangeData(p)
    BY <2>8, EndedKeepsToken, MoveKeepsToken DEF importPEMEncodedExchangeData, NeedsToken
  <2>9. CASE DeleteUsage(p)
    BY <2>9, EndedKeepsToken, MoveKeepsToken DEF DeleteUsage, Proceed, NeedsToken
  <2>10. CASE DeletePrivateKey(p)
    BY <2>10, EndedKeepsToken, MoveKeepsToken DEF DeletePrivateKey, Proceed, NeedsToken
  <2>11. CASE DeleteKeys(p)
    BY <2>11, EndedKeepsToken, MoveKeepsToken DEF DeleteKeys, Proceed, NeedsToken
  <2> QED
    BY <1>5, <2>1, <2>2, <2>3, <2>4, <2>5, <2>6, <2>7, <2>8, <2>9, <2>10, <2>11
    DEF Administer
<1>6. CASE UseCredentials(p)
  <2>1. CASE decreaseRemainingUsageQuota(p)
    BY <2>1, EndedKeepsToken, MoveKeepsToken
    DEF decreaseRemainingUsageQuota, Proceed, NeedsToken
  <2>2. CASE ensureAccessTokenValid(p)
    BY <2>2, EndedKeepsToken, RenewKeepsToken DEF ensureAccessTokenValid
  <2>3. CASE refreshToken(p) BY <2>3, EndedKeepsToken, RenewKeepsToken DEF refreshToken
  <2>4. CASE storeToken(p)
    BY <2>4, EndedKeepsToken, MoveKeepsToken DEF storeToken, Proceed
  <2>5. CASE storeRefreshed(p)
    BY <2>5, EndedKeepsToken, MoveKeepsToken DEF storeRefreshed, Proceed
  <2>6. CASE doFetchWithErrorHandling(p) BY <2>6, FetchKeepsToken
  <2>7. CASE useV2(p) \/ retrieveV3AccessToken(p) \/ rehydrateV3AccessToken(p)
    BY <2>7, EndedKeepsToken DEF useV2, retrieveV3AccessToken, rehydrateV3AccessToken
  <2> QED
    BY <1>6, <2>1, <2>2, <2>3, <2>4, <2>5, <2>6, <2>7 DEF UseCredentials
<1> QED BY <1>1, <1>2, <1>3, <1>4, <1>5, <1>6 DEF Step

\* So does every step.
LEMMA NextKeepsToken == TypeOK /\ TokenInv /\ [Next]_vars => TokenInv'
<1> SUFFICES ASSUME TypeOK, TokenInv, [Next]_vars PROVE TokenInv' OBVIOUS
<1>1. ASSUME UNCHANGED <<op, pc, usage>> PROVE TokenInv' BY <1>1 DEF TokenInv
<1>2. CASE Tick BY <1>1, <1>2 DEF Tick, request
<1>3. CASE Crash BY <1>3, EndedKeepsToken DEF Crash
<1>4. ASSUME NEW p \in Procs, Begin(p) PROVE TokenInv'
  <2>1. PICK o \in Handlers : \E a : Start(p, o, a)
    <3>1. CASE BeginWrite(p) BY <3>1, HandlerNames DEF BeginWrite
    <3>2. CASE BeginImport(p) BY <3>2, HandlerNames DEF BeginImport
    <3>3. CASE BeginOther(p)
      BY <3>3, ServiceAssumption, HandlerNames DEF BeginOther, ClientOps
    <3> QED BY <1>4, <3>1, <3>2, <3>3 DEF Begin
  <2>2. Chain[o][1] \notin NeedsToken BY ChainsTokenOrdered DEF TokenOrdered
  <2> QED BY <2>1, <2>2 DEF Start, TokenInv, TypeOK, RequestTypeOK
<1>5. ASSUME NEW p \in Procs, Step(p) PROVE TokenInv' BY <1>5, StepKeepsToken
<1>6. CASE UNCHANGED vars BY <1>1, <1>6 DEF vars, request
<1> QED BY <1>2, <1>3, <1>4, <1>5, <1>6 DEF Next

\* No call goes out and no token is handed out without one, whatever other
\* requests do to the stored token meanwhile and however often Mashery answers
\* that the developer is inactive: each attempt obtains a token if the last
\* dropped it (doFetchWithErrorHandling, ensureAccessTokenValidForRole).
THEOREM CallsHaveToken == Spec => []CallsCarryToken
<1>1. Init => TokenInv BY DEF Init, TokenInv
<1>2. TokenInv => CallsCarryToken BY DEF TokenInv, CallsCarryToken, NeedsToken, At
<1> QED BY <1>1, <1>2, NextKeepsToken, TypeCorrect, PTL DEF Spec

-----------------------------------------------------------------------------
(***************************************************************************)
(* The hypothesis of what holds only when requests for the role do not     *)
(* overlap.  With one slot they cannot.                                    *)
(***************************************************************************)
OneAtATime == \A p, q \in Procs : op[p] # "idle" /\ op[q] # "idle" => p = q

\* One slot is what the run of every operation has.
LEMMA OneSlotIsAlone == ASSUME NEW q, Procs = {q} PROVE Spec => []OneAtATime
<1>1. OneAtATime BY DEF OneAtATime
<1> QED BY <1>1, PTL
=============================================================================
