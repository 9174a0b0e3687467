--------------------------- MODULE RoleKeysProofs ---------------------------
(***************************************************************************)
(* The keys of a role, written by requests that do not overlap: nothing is *)
(* left behind without them, an import is not overwritten and an update    *)
(* changes what it was asked to.  The theorems need that: nothing locks a  *)
(* role between the step that reads it and the one that writes it.         *)
(***************************************************************************)
EXTENDS RoleServiceProofs

-----------------------------------------------------------------------------
(***************************************************************************)
(* The invariant: what the storage holds by the step a request has come    *)
(* to.  An update works on what is stored, of a role that is not imported; *)
(* a delete goes in the order usage, private key, keys.                    *)
(***************************************************************************)

\* What handler o, at this step with data a and keys k, asks of the entries.
Demand(o, step, a, k, ke, ue, pk) ==
    /\ o = "create" => (ke = Nil <=> step \notin {"setInitialUsage", "saveUsage"})
    /\ o = "delete" => /\ step # "deleteUsage" => ue = Nil
                       /\ step = "deleteKeys" => ~pk
    /\ o \notin {"create", "delete"} /\ step # "readKeys" => ke # Nil
    /\ o = "update" =>
         /\ step \in {"readUsage", "blockImported", "updateKeys"} => k = DecodeKeys(ke)
         /\ step \in {"updateKeys", "saveKeys"} => ~DecodeKeys(ke).Imported
         /\ step = "saveKeys" => k = updateRoleKeysFromRequest(DecodeKeys(ke), a)

DemandMet(p) ==
    Demand(op[p], Chain[op[p]][pc[p]], arg[p], keys[p], keyEntry, usageEntry, pkEntry)

\* A stored role has a rate: an unlimited one is not written.
StoredRate == keyEntry # Nil => DecodeKeys(keyEntry).MaxQPS # 0

KeysInv == NoOrphans /\ StoredRate /\ \A p \in Procs : op[p] # "idle" => DemandMet(p)

Deleting == {"deleteUsage", "deletePrivateKey", "deleteKeys"}

\* The order of the steps the invariant rests on: which handlers a step s belongs
\* to, and which step t follows it.
Belongs(o, s) ==
    /\ s \in Deleting <=> o = "delete"
    /\ s = "saveKeys" => o \in {"create", "update", "import"}
    /\ o = "create" => s \in {"readKeys", "readUsage", "blockImported", "updateKeys",
                              "saveKeys", "setInitialUsage", "saveUsage"}
    /\ o = "update" => s \in {"readKeys", "readUsage", "blockImported", "updateKeys", "saveKeys"}
    /\ s = "setInitialUsage" => o = "create"

Follows(o, s, t) ==
    /\ o = "delete" => /\ t # "deleteUsage" /\ s # "deleteKeys"
                       /\ t = "deleteKeys" => s = "deletePrivateKey"
    /\ o = "create" => (t \in {"setInitialUsage", "saveUsage"}
                          <=> s \in {"saveKeys", "setInitialUsage", "saveUsage"})
    /\ o = "update" => /\ t = "readUsage" => s = "readKeys"
                       /\ t = "blockImported" => s = "readUsage"
                       /\ t = "updateKeys" => s = "blockImported"
                       /\ t = "saveKeys" => s = "updateKeys"
                       /\ s # "saveKeys"

KeysOrdered(c, o) ==
    /\ Len(c) \in Nat \ {0}
    /\ c[1] = IF o = "delete" THEN "deleteUsage" ELSE "readKeys"
    /\ \A i \in 1..Len(c) : Belongs(o, c[i]) /\ (i < Len(c) => Follows(o, c[i], c[i + 1]))

\* Every handler keeps that order.
LEMMA ChainsKeysOrdered == \A o \in Handlers : KeysOrdered(Chain[o], o)
<1> USE DEF KeysOrdered, Belongs, Follows, Chain, ReadRole, EnsureToken, Deleting
<1>1. KeysOrdered(Chain["create"], "create") BY DEF handleWriteRoleKeys
<1>2. KeysOrdered(Chain["update"], "update") BY DEF handleUpdateRoleData
<1>3. KeysOrdered(Chain["delete"], "delete") BY DEF handleDeleteRoleData
<1>4. KeysOrdered(Chain["pem"], "pem") BY DEF pathRolePEMRead
<1>5. KeysOrdered(Chain["import"], "import") BY DEF pathRoleImport
<1>6. KeysOrdered(Chain["deleteToken"], "deleteToken") BY DEF deleteToken
<1>7. KeysOrdered(Chain["grant2"], "grant2") BY DEF issueGrantV2
<1>8. KeysOrdered(Chain["grant3"], "grant3") BY DEF issueGrantV3
<1>9. KeysOrdered(Chain["token"], "token") BY DEF readRoleToken
<1>10. KeysOrdered(Chain["v2"], "v2") BY DEF executeV2Write
<1>11. KeysOrdered(Chain["proxyV2"], "proxyV2") BY DEF proxyV2Request
<1>12. KeysOrdered(Chain["v3"], "v3")
  BY DEF executeV3, makeBaseV3InvocationChain, FetchLoop
<1>13. KeysOrdered(Chain["v3write"], "v3write")
  BY DEF executeV3Write, v3ObjectExists, executeV3, makeBaseV3InvocationChain, FetchLoop
<1> HIDE DEF KeysOrdered, Belongs, Follows, Chain
<1> QED
  BY HandlerNames, <1>1, <1>2, <1>3, <1>4, <1>5, <1>6, <1>7, <1>8, <1>9, <1>10,
     <1>11, <1>12, <1>13

-----------------------------------------------------------------------------
(***************************************************************************)
(* The steps.                                                              *)
(***************************************************************************)

\* A request that is answered, or lost with the process, asks for nothing.
LEMMA EndedKeepsKeys ==
    ASSUME TypeOK, OneAtATime, NEW p \in Procs, op[p] # "idle", Finish(p) \/ Die,
           NoOrphans', StoredRate'
    PROVE  KeysInv'
<1>1. \A q \in Procs : op'[q] = "idle"
  BY DEF OneAtATime, Finish, Die, TypeOK, RequestTypeOK
<1> QED BY <1>1 DEF KeysInv

\* One that goes on does so with what its next step asks for.
LEMMA GotoKeepsKeys ==
    ASSUME TypeOK, OneAtATime, NEW p \in Procs, op[p] # "idle",
           NEW m \in Nat, NEW k, NEW u, Goto(p, m, k, u), NoOrphans', StoredRate',
           m <= Len(Chain[op[p]]) =>
               Demand(op[p], Chain[op[p]][m], arg[p], k, keyEntry', usageEntry', pkEntry')
    PROVE  KeysInv'
<1>1. Len(Chain[op[p]]) \in Nat
  BY ChainsKeysOrdered DEF KeysOrdered, TypeOK, RequestTypeOK
<1>2. CASE m > Len(Chain[op[p]]) BY <1>2, EndedKeepsKeys DEF Goto
<1>3. CASE ~(m > Len(Chain[op[p]]))
  <2>1. /\ pc' = [pc EXCEPT ![p] = m] /\ keys' = [keys EXCEPT ![p] = k]
        /\ op' = op /\ arg' = arg
    BY <1>3 DEF Goto
  <2>2. pc'[p] = m /\ keys'[p] = k BY <2>1 DEF TypeOK, RequestTypeOK
  <2>3. m <= Len(Chain[op[p]]) BY <1>1, <1>3
  <2>4. DemandMet(p)' BY <2>1, <2>2, <2>3 DEF DemandMet
  <2>5. \A q \in Procs \ {p} : op'[q] = "idle" BY <2>1 DEF OneAtATime
  <2> QED BY <2>4, <2>5 DEF KeysInv
<1> QED BY <1>2, <1>3

\* A request that does not write keys asks only that they are there.
LEMMA ReaderDemand ==
    ASSUME NEW o, o \notin {"create", "delete", "update"}, NEW ke, ke # Nil,
           NEW step, NEW a, NEW k, NEW ue, NEW pk
    PROVE  Demand(o, step, a, k, ke, ue, pk)
BY DEF Demand

\* What a request at a step of its chain has, and may go on to.
LEMMA KeysAt ==
    ASSUME TypeOK, KeysInv, NEW p \in Procs, NEW step, At(p, step)
    PROVE  /\ op[p] \in Handlers /\ op[p] # "idle" /\ pc[p] + 1 \in Nat /\ pc[p] + 2 \in Nat
           /\ Belongs(op[p], step)
           /\ pc[p] + 1 <= Len(Chain[op[p]]) => /\ Belongs(op[p], Chain[op[p]][pc[p] + 1])
                                                /\ Follows(op[p], step, Chain[op[p]][pc[p] + 1])
           /\ keys[p] \in RoleKeys
           /\ Demand(op[p], step, arg[p], keys[p], keyEntry, usageEntry, pkEntry)
<1>1. /\ op[p] \in Handlers /\ op[p] # "idle" /\ Len(Chain[op[p]]) \in Nat
      /\ pc[p] \in 1..Len(Chain[op[p]]) /\ Chain[op[p]][pc[p]] = step
      /\ keys[p] \in RoleKeys
  BY AtFacts DEF TypeOK, At
<1>2. KeysOrdered(Chain[op[p]], op[p]) BY <1>1, ChainsKeysOrdered
<1>3. pc[p] + 1 <= Len(Chain[op[p]]) => pc[p] + 1 \in 1..Len(Chain[op[p]]) /\ pc[p] < Len(Chain[op[p]])
  BY <1>1
<1>4. /\ Belongs(op[p], step)
      /\ pc[p] + 1 <= Len(Chain[op[p]]) => /\ Belongs(op[p], Chain[op[p]][pc[p] + 1])
                                           /\ Follows(op[p], step, Chain[op[p]][pc[p] + 1])
  BY <1>1, <1>2, <1>3 DEF KeysOrdered
<1>5. Demand(op[p], step, arg[p], keys[p], keyEntry, usageEntry, pkEntry)
  BY <1>1 DEF KeysInv, DemandMet
<1> QED BY <1>1, <1>4, <1>5

\* At a step of no role write and no delete, the role has keys.
LEMMA UserAt ==
    ASSUME TypeOK, KeysInv, NEW p \in Procs, NEW step, At(p, step),
           step \notin {"readKeys", "readUsage", "blockImported", "updateKeys", "saveKeys",
                        "setInitialUsage", "saveUsage"} \cup Deleting
    PROVE  op[p] \notin {"create", "delete", "update"} /\ keyEntry # Nil
<1>1. op[p] \notin {"create", "delete", "update"} BY KeysAt DEF Belongs
<1>2. Demand(op[p], step, arg[p], keys[p], keyEntry, usageEntry, pkEntry) BY KeysAt
<1> QED BY <1>1, <1>2 DEF Demand

\* The entries as they are.
LEMMA EntriesStay ==
    ASSUME KeysInv, UNCHANGED storage PROVE NoOrphans' /\ StoredRate'
BY DEF KeysInv, NoOrphans, StoredRate, storage

\* Reading the role and the checks: an update goes on with the stored keys, and
\* past blockOperationOnImportedRole only where they are not imported.
LEMMA ReadKeepsKeys ==
    ASSUME TypeOK, OneAtATime, KeysInv, NEW p \in Procs,
           ReadKeys(p) \/ ReadUsage(p) \/ Block(p) \/ BlockCLIWrite(p)
    PROVE  KeysInv'
<1> DEFINE o == op[p]
           c == Chain[o]
           n == pc[p]
<1>0. UNCHANGED storage /\ NoOrphans' /\ StoredRate' /\ op[p] # "idle"
  BY EntriesStay DEF ReadKeys, ReadUsage, Block, BlockCLIWrite, At
<1>1. CASE Finish(p) BY <1>0, <1>1, EndedKeepsKeys
<1>2. ASSUME ReadKeys(p), ~Finish(p) PROVE KeysInv'
  <2>1. At(p, "readKeys") BY <1>2 DEF ReadKeys
  <2>2. PICK k : /\ Goto(p, n + 1, k, usage[p])
                 /\ o = "update" => k = DecodeKeys(keyEntry)
                 /\ keyEntry = Nil => o = "create"
    BY <1>2 DEF ReadKeys, RequiresRole
  <2>3. n + 1 <= Len(c) => Demand(o, c[n + 1], arg[p], k, keyEntry, usageEntry, pkEntry)
    BY <2>1, <2>2, KeysAt DEF Demand, Belongs, Follows, Deleting
  <2> QED BY <1>0, <2>1, <2>2, <2>3, KeysAt, GotoKeepsKeys DEF storage
<1>3. ASSUME ReadUsage(p), ~Finish(p) PROVE KeysInv'
  <2>1. At(p, "readUsage") BY <1>3 DEF ReadUsage
  <2>2. PICK u : Goto(p, n + 1, keys[p], u) BY <1>3 DEF ReadUsage
  <2>3. n + 1 <= Len(c) => Demand(o, c[n + 1], arg[p], keys[p], keyEntry, usageEntry, pkEntry)
    BY <2>1, KeysAt DEF Demand, Belongs, Follows, Deleting
  <2> QED BY <1>0, <2>1, <2>2, <2>3, KeysAt, GotoKeepsKeys DEF storage
<1>4. ASSUME Block(p), ~Finish(p) PROVE KeysInv'
  <2>1. PICK b \in Blockers :
          /\ At(p, b) /\ Proceed(p) /\ ~Blocks(b, keys[p], usage[p], now)
    BY <1>4 DEF Block
  <2>2. b = "blockImported" => ~keys[p].Imported BY <2>1 DEF Blocks
  <2>3. n + 1 <= Len(c) => Demand(o, c[n + 1], arg[p], keys[p], keyEntry, usageEntry, pkEntry)
    BY <2>1, <2>2, KeysAt DEF Demand, Belongs, Follows, Deleting, Blockers
  <2> QED BY <1>0, <2>1, <2>3, KeysAt, GotoKeepsKeys DEF storage, Proceed
<1>5. ASSUME BlockCLIWrite(p), ~Finish(p) PROVE KeysInv'
  <2>1. At(p, "blockCLIWrite") BY <1>5 DEF BlockCLIWrite
  <2>2. Goto(p, n + 1, InitialKeys, InitialUsage) BY <1>5 DEF BlockCLIWrite
  <2>3. o \notin {"create", "delete", "update"} /\ keyEntry # Nil
    BY <2>1, KeysAt DEF Demand, Belongs, Follows, Deleting
  <2> QED BY <1>0, <2>1, <2>2, <2>3, KeysAt, ReaderDemand, GotoKeepsKeys DEF storage
<1> QED BY <1>1, <1>2, <1>3, <1>4, <1>5

\* What the keys written last ask for is there: a role has keys as long as
\* anything of it is written.
LEMMA SaveKeepsKeys ==
    ASSUME TypeOK, OneAtATime, KeysInv, NEW p \in Procs, saveRoleKeys(p)
    PROVE  KeysInv'
<1> DEFINE o == op[p]
           c == Chain[o]
           n == pc[p]
<1>1. At(p, "saveKeys") /\ o # "idle" BY DEF saveRoleKeys, At
<1>2. CASE Finish(p) /\ UNCHANGED keyEntry
  <2>1. UNCHANGED storage BY <1>2 DEF saveRoleKeys, storage
  <2> QED BY <1>1, <1>2, <2>1, EntriesStay, EndedKeepsKeys
<1>3. CASE Proceed(p) /\ keyEntry' = EncodeKeys(keys[p])
  <2>1. keyEntry' # Nil BY <1>1, <1>3, KeysAt, KeyEntryIsThere
  <2>2. NoOrphans' BY <2>1 DEF NoOrphans
  <2>3. StoredRate' BY <1>1, <1>3, KeysAt, KeysReadBack DEF StoredRate
  <2>4. n + 1 <= Len(c) =>
          Demand(o, c[n + 1], arg[p], keys[p], keyEntry', usageEntry', pkEntry')
    BY <1>1, <2>1, KeysAt DEF Demand, Belongs, Follows, Deleting
  <2> QED BY <1>1, <1>3, <2>2, <2>3, <2>4, KeysAt, GotoKeepsKeys DEF Proceed
<1> QED BY <1>2, <1>3 DEF saveRoleKeys

\* A delete takes the usage, then the private key, then the keys.
LEMMA DeleteKeepsKeys ==
    ASSUME TypeOK, OneAtATime, KeysInv, NEW p \in Procs,
           DeleteUsage(p) \/ DeletePrivateKey(p) \/ DeleteKeys(p)
    PROVE  KeysInv'
<1> DEFINE o == op[p]
           c == Chain[o]
           n == pc[p]
<1>1. o # "idle" BY DEF DeleteUsage, DeletePrivateKey, DeleteKeys, At
<1>2. ASSUME Finish(p), UNCHANGED storage PROVE KeysInv'
  BY <1>1, <1>2, EntriesStay, EndedKeepsKeys
<1>3. ASSUME At(p, "deleteUsage"), Proceed(p), usageEntry' = Nil, UNCHANGED <<keyEntry, pkEntry>>
      PROVE  KeysInv'
  <2>1. NoOrphans' /\ StoredRate' BY <1>3 DEF KeysInv, NoOrphans, StoredRate
  <2>2. n + 1 <= Len(c) =>
          Demand(o, c[n + 1], arg[p], keys[p], keyEntry', usageEntry', pkEntry')
    BY <1>3, KeysAt DEF Demand, Belongs, Follows, Deleting
  <2> QED BY <1>1, <1>3, <2>1, <2>2, KeysAt, GotoKeepsKeys DEF Proceed
<1>4. ASSUME At(p, "deletePrivateKey"), Proceed(p), pkEntry' = FALSE,
             UNCHANGED <<keyEntry, usageEntry>>
      PROVE  KeysInv'
  <2>1. NoOrphans' /\ StoredRate' BY <1>4 DEF KeysInv, NoOrphans, StoredRate
  <2>2. ~pkEntry' BY <1>4
  <2>3. n + 1 <= Len(c) =>
          Demand(o, c[n + 1], arg[p], keys[p], keyEntry', usageEntry', pkEntry')
    BY <1>4, <2>2, KeysAt DEF Demand, Belongs, Follows, Deleting
  <2> QED BY <1>1, <1>4, <2>1, <2>3, KeysAt, GotoKeepsKeys DEF Proceed
<1>5. ASSUME At(p, "deleteKeys"), Proceed(p), keyEntry' = Nil,
             UNCHANGED <<usageEntry, pkEntry>>
      PROVE  KeysInv'
  <2>1. Demand(o, "deleteKeys", arg[p], keys[p], keyEntry, usageEntry, pkEntry)
    BY <1>5, KeysAt
  <2>2. o = "delete" /\ ~(n + 1 <= Len(c))
    BY <1>5, KeysAt DEF Belongs, Follows, Deleting
  <2>3. NoOrphans' /\ StoredRate' BY <1>5, <2>1, <2>2 DEF Demand, NoOrphans, StoredRate
  <2> QED BY <1>1, <1>5, <2>2, <2>3, KeysAt, GotoKeepsKeys DEF Proceed
<1> QED
  BY <1>2, <1>3, <1>4, <1>5 DEF DeleteUsage, DeletePrivateKey, DeleteKeys, storage

\* The rest of the administration.
LEMMA AdministerKeepsKeys ==
    ASSUME TypeOK, OneAtATime, KeysInv, NEW p \in Procs, Administer(p) PROVE KeysInv'
<1> DEFINE o == op[p]
           c == Chain[o]
           n == pc[p]
<1>0. UNCHANGED storage => NoOrphans' /\ StoredRate' BY EntriesStay
<1>1. CASE UpdateKeys(p)
  <2>1. At(p, "updateKeys") BY <1>1 DEF UpdateKeys
  <2>2. n + 1 <= Len(c) =>
          Demand(o, c[n + 1], arg[p], updateRoleKeysFromRequest(keys[p], arg[p]),
                 keyEntry, usageEntry, pkEntry)
    BY <2>1, KeysAt DEF Demand, Belongs, Follows, Deleting
  <2> QED BY <1>0, <1>1, <2>1, <2>2, KeysAt, GotoKeepsKeys DEF UpdateKeys, storage
<1>2. CASE saveRoleKeys(p) BY <1>2, SaveKeepsKeys
<1>3. CASE setInitialRoleUsage(p)
  <2>1. At(p, "setInitialUsage") BY <1>3 DEF setInitialRoleUsage
  <2>2. n + 1 <= Len(c) => Demand(o, c[n + 1], arg[p], keys[p], keyEntry, usageEntry, pkEntry)
    BY <2>1, KeysAt DEF Demand, Belongs, Follows, Deleting
  <2> QED BY <1>0, <1>3, <2>1, <2>2, KeysAt, GotoKeepsKeys DEF setInitialRoleUsage, storage
<1>4. CASE forgetUsedToken(p) \/ retrievePrivateKey(p) \/ importPEMEncodedExchangeData(p)
  <2>1. PICK step \in {"forgetToken", "retrievePrivateKey", "importData"} : At(p, step)
    BY <1>4 DEF forgetUsedToken, retrievePrivateKey, importPEMEncodedExchangeData
  <2>2. o \notin {"create", "delete", "update"} /\ keyEntry # Nil
    BY <2>1, UserAt DEF Deleting
  <2>3. UNCHANGED storage
    BY <1>4 DEF forgetUsedToken, retrievePrivateKey, importPEMEncodedExchangeData
  <2>4. Finish(p) \/ \E m \in {n + 1, n + 2} : \E k, u : Goto(p, m, k, u)
    BY <1>4
    DEF forgetUsedToken, retrievePrivateKey, importPEMEncodedExchangeData, Proceed
  <2>5. CASE Finish(p) BY <1>0, <2>1, <2>3, <2>5, KeysAt, EndedKeepsKeys
  <2>6. ASSUME NEW m \in {n + 1, n + 2}, NEW k, NEW u, Goto(p, m, k, u) PROVE KeysInv'
    BY <1>0, <2>1, <2>2, <2>3, <2>6, KeysAt, ReaderDemand, GotoKeepsKeys DEF storage
  <2> QED BY <2>4, <2>5, <2>6
<1>5. CASE saveRoleUsage(p)
  <2>1. At(p, "saveUsage") BY <1>5 DEF saveRoleUsage
  <2>2. keyEntry # Nil
    <3>1. o # "delete" BY <2>1, KeysAt DEF Belongs, Follows, Deleting
    <3>2. Demand(o, "saveUsage", arg[p], keys[p], keyEntry, usageEntry, pkEntry)
      BY <2>1, KeysAt
    <3> QED BY <3>1, <3>2 DEF Demand
  <2>3. UNCHANGED <<keyEntry, pkEntry>> /\ NoOrphans' /\ StoredRate'
    BY <1>5, <2>2 DEF saveRoleUsage, NoOrphans, StoredRate, KeysInv
  <2>4. n + 1 <= Len(c) =>
          Demand(o, c[n + 1], arg[p], keys[p], keyEntry', usageEntry', pkEntry')
    <3>1. o # "delete" /\ o # "update"
      BY <2>1, KeysAt DEF Belongs, Follows, Deleting
    <3>2. o = "create" /\ n + 1 <= Len(c) => c[n + 1] \in {"setInitialUsage", "saveUsage"}
      BY <2>1, KeysAt DEF Belongs, Follows
    <3> QED BY <2>2, <2>3, <3>1, <3>2 DEF Demand
  <2> QED
    BY <1>5, <2>1, <2>3, <2>4, KeysAt, EndedKeepsKeys, GotoKeepsKeys
    DEF saveRoleUsage, Proceed
<1>6. CASE savePrivateKey(p)
  <2>1. At(p, "savePrivateKey") BY <1>6 DEF savePrivateKey
  <2>2. keyEntry # Nil BY <2>1, UserAt DEF Deleting
  <2>3. NoOrphans' /\ StoredRate' BY <1>6, <2>2 DEF savePrivateKey, NoOrphans, StoredRate, KeysInv
  <2> QED BY <1>6, <2>1, <2>3, KeysAt, EndedKeepsKeys DEF savePrivateKey
<1>7. CASE DeleteUsage(p) \/ DeletePrivateKey(p) \/ DeleteKeys(p) BY <1>7, DeleteKeepsKeys
<1> QED BY <1>1, <1>2, <1>3, <1>4, <1>5, <1>6, <1>7 DEF Administer

\* Using the credentials needs the keys and leaves them.
LEMMA UseKeepsKeys ==
    ASSUME TypeOK, OneAtATime, KeysInv, NEW p \in Procs, UseCredentials(p) PROVE KeysInv'
<1> DEFINE n == pc[p]
<1>1. PICK step \in {"charge", "ensureToken", "storeToken", "refreshToken", "storeRefreshed",
                     "fetch", "useV2", "useGrant", "useToken"} : At(p, step)
  BY DEF UseCredentials, decreaseRemainingUsageQuota, ensureAccessTokenValid, storeToken,
     refreshToken, storeRefreshed, doFetchWithErrorHandling, useV2, retrieveV3AccessToken,
     rehydrateV3AccessToken
<1>2. op[p] \notin {"create", "delete", "update"} /\ keyEntry # Nil
  BY <1>1, UserAt DEF Deleting
<1>3. UNCHANGED <<keyEntry, pkEntry>>
  BY DEF UseCredentials, decreaseRemainingUsageQuota, ensureAccessTokenValid, storeToken,
     refreshToken, storeRefreshed, doFetchWithErrorHandling, useV2, retrieveV3AccessToken,
     rehydrateV3AccessToken, storage
<1>4. NoOrphans' /\ StoredRate' BY <1>2, <1>3 DEF NoOrphans, StoredRate, KeysInv
<1>5. ASSUME Finish(p) \/ Die PROVE KeysInv' BY <1>1, <1>4, <1>5, KeysAt, EndedKeepsKeys
<1>6. ASSUME NEW m \in {n + 1, n + 2}, NEW k, NEW u, Goto(p, m, k, u) PROVE KeysInv'
  BY <1>1, <1>2, <1>3, <1>4, <1>6, KeysAt, ReaderDemand, GotoKeepsKeys
<1>7. ASSUME op' = op PROVE KeysInv'
  <2>1. \A q \in Procs \ {p} : op'[q] = "idle" BY <1>1, <1>7, KeysAt DEF OneAtATime
  <2>2. DemandMet(p)' BY <1>2, <1>3, <1>7, ReaderDemand DEF DemandMet
  <2> QED BY <1>4, <2>1, <2>2 DEF KeysInv
<1>8. ASSUME NEW s, At(p, s), RenewToken(p) PROVE KeysInv'
  BY <1>6, <1>8 DEF RenewToken
<1>9. CASE decreaseRemainingUsageQuota(p)
  BY <1>5, <1>6, <1>9 DEF decreaseRemainingUsageQuota, Proceed
<1>10. CASE ensureAccessTokenValid(p) \/ refreshToken(p)
  BY <1>5, <1>8, <1>10 DEF ensureAccessTokenValid, refreshToken
<1>11. CASE storeToken(p) \/ storeRefreshed(p)
  BY <1>5, <1>6, <1>11 DEF storeToken, storeRefreshed, Proceed
<1>12. CASE doFetchWithErrorHandling(p)
  BY <1>5, <1>7, <1>12 DEF doFetchWithErrorHandling, Fetched, Retry
<1>13. CASE useV2(p) \/ retrieveV3AccessToken(p) \/ rehydrateV3AccessToken(p)
  BY <1>5, <1>13 DEF useV2, retrieveV3AccessToken, rehydrateV3AccessToken
<1> QED BY <1>9, <1>10, <1>11, <1>12, <1>13 DEF UseCredentials

-----------------------------------------------------------------------------
(***************************************************************************)
(* The theorems.                                                           *)
(***************************************************************************)

\* A request arrives: a create where there are no keys, and so nothing else.
LEMMA BeginKeepsKeys ==
    ASSUME TypeOK, KeysInv, NEW p \in Procs, Begin(p) PROVE KeysInv'
<1>1. PICK o \in Handlers :
        \E a : Start(p, o, a) /\ (o = "create" => keyEntry = Nil)
  <2>1. CASE BeginWrite(p) BY <2>1, HandlerNames DEF BeginWrite, roleExists
  <2>2. CASE BeginImport(p) BY <2>2, HandlerNames DEF BeginImport
  <2>3. CASE BeginOther(p)
    BY <2>3, ServiceAssumption, HandlerNames DEF BeginOther, ClientOps
  <2> QED BY <2>1, <2>2, <2>3 DEF Begin
<1>2. NoOrphans' /\ StoredRate' BY <1>1, EntriesStay DEF Start
<1>3. ASSUME NEW q \in Procs, op'[q] # "idle" PROVE DemandMet(q)'
  <2>1. CASE q = p
    <3>1. op'[q] = o /\ pc'[q] = 1 BY <1>1, <2>1 DEF Start, TypeOK, RequestTypeOK
    <3>2. Chain[o][1] = IF o = "delete" THEN "deleteUsage" ELSE "readKeys"
      BY ChainsKeysOrdered DEF KeysOrdered
    <3> QED BY <1>1, <3>1, <3>2 DEF DemandMet, Demand, Start, storage
  <2>2. CASE q # p
    BY <1>1, <1>3, <2>2 DEF Start, storage, TypeOK, RequestTypeOK, KeysInv, DemandMet
  <2> QED BY <2>1, <2>2
<1> QED BY <1>2, <1>3 DEF KeysInv

\* Every step keeps the invariant.
LEMMA NextKeepsKeys == TypeOK /\ OneAtATime /\ KeysInv /\ [Next]_vars => KeysInv'
<1> SUFFICES ASSUME TypeOK, OneAtATime, KeysInv, [Next]_vars PROVE KeysInv' OBVIOUS
<1>1. ASSUME UNCHANGED <<op, pc, arg, keys, storage>> PROVE KeysInv'
  BY <1>1 DEF KeysInv, NoOrphans, StoredRate, DemandMet, storage
<1>2. CASE Tick BY <1>1, <1>2 DEF Tick, request
<1>3. CASE Crash BY <1>3, EntriesStay, EndedKeepsKeys DEF Crash
<1>4. ASSUME NEW p \in Procs, Begin(p) PROVE KeysInv' BY <1>4, BeginKeepsKeys
<1>5. ASSUME NEW p \in Procs, Step(p) PROVE KeysInv'
  BY <1>5, ReadKeepsKeys, AdministerKeepsKeys, UseKeepsKeys DEF Step
<1>6. CASE UNCHANGED vars BY <1>1, <1>6 DEF vars, request
<1> QED BY <1>2, <1>3, <1>4, <1>5, <1>6 DEF Next

\* The keys keep their invariant while requests do not overlap.
LEMMA AloneKeysInv == Spec /\ []OneAtATime => []KeysInv
<1>1. Init => KeysInv BY DEF Init, KeysInv, NoOrphans, StoredRate
<1> QED BY <1>1, NextKeepsKeys, TypeCorrect, PTL DEF Spec

\* Requests that do not overlap leave nothing of a role behind its keys,
\* wherever they stop: the private key, the usage and the keys are written
\* after, and deleted before, what they are found by.
THEOREM AloneNoOrphans == Spec /\ []OneAtATime => []NoOrphans
<1>1. KeysInv => NoOrphans BY DEF KeysInv
<1> QED BY <1>1, AloneKeysInv, PTL

\* The key entry is written by saveRoleKeys and by DeleteKeys, and no other step.
LEMMA KeyWriters ==
    ASSUME TypeOK, KeysInv, Next, keyEntry' # keyEntry
    PROVE  \/ keyEntry' = Nil /\ \E p \in Procs : At(p, "deleteKeys")
           \/ \E p \in Procs :
                 /\ At(p, "saveKeys") /\ keyEntry' = EncodeKeys(keys[p])
                 /\ op[p] \in {"create", "update", "import"}
                 /\ Demand(op[p], "saveKeys", arg[p], keys[p], keyEntry, usageEntry, pkEntry)
<1>1. CASE Tick \/ Crash BY <1>1 DEF Tick, Crash, storage
<1>2. ASSUME NEW p \in Procs, Begin(p) PROVE FALSE
  BY <1>2 DEF Begin, BeginWrite, BeginImport, BeginOther, Start, storage
<1>3. ASSUME NEW p \in Procs, Step(p)
      PROVE  \/ At(p, "deleteKeys") /\ keyEntry' = Nil
             \/ At(p, "saveKeys") /\ keyEntry' = EncodeKeys(keys[p])
  <2>1. CASE ReadKeys(p) \/ ReadUsage(p) \/ Block(p) \/ BlockCLIWrite(p)
    BY <2>1 DEF ReadKeys, ReadUsage, Block, BlockCLIWrite, storage
  <2>2. CASE Administer(p)
    BY <2>2 DEF Administer, UpdateKeys, saveRoleKeys, setInitialRoleUsage, forgetUsedToken,
       saveRoleUsage, retrievePrivateKey, savePrivateKey, importPEMEncodedExchangeData,
       DeleteUsage, DeletePrivateKey, DeleteKeys, storage
  <2>3. CASE UseCredentials(p)
    BY <2>3 DEF UseCredentials, decreaseRemainingUsageQuota, ensureAccessTokenValid,
       storeToken, refreshToken, storeRefreshed, doFetchWithErrorHandling, useV2,
       retrieveV3AccessToken, rehydrateV3AccessToken, storage
  <2> QED BY <1>3, <2>1, <2>2, <2>3 DEF Step
<1>4. ASSUME NEW p \in Procs, At(p, "saveKeys")
      PROVE  /\ op[p] \in {"create", "update", "import"}
             /\ Demand(op[p], "saveKeys", arg[p], keys[p], keyEntry, usageEntry, pkEntry)
  BY <1>4, KeysAt DEF Belongs, Follows
<1> QED BY <1>1, <1>2, <1>3, <1>4 DEF Next

\* Requests that do not overlap change an imported role's keys by an import or
\* a deletion only: what a role write may change is what it found not imported.
THEOREM AloneImportedKeysFixed == Spec /\ []OneAtATime => ImportedKeysFixed
<1>1. ASSUME TypeOK, KeysInv, [Next]_vars,
             keyEntry # Nil, DecodeKeys(keyEntry).Imported, keyEntry' # keyEntry
      PROVE  keyEntry' = Nil \/ \E p \in Procs : op[p] = "import"
  <2>1. Next BY <1>1 DEF vars, storage
  <2>2. CASE keyEntry' = Nil BY <2>2
  <2>3. CASE \E p \in Procs :
               /\ op[p] \in {"create", "update", "import"}
               /\ Demand(op[p], "saveKeys", arg[p], keys[p], keyEntry, usageEntry, pkEntry)
    BY <1>1, <2>3 DEF Demand
  <2> QED BY <1>1, <2>1, <2>2, <2>3, KeyWriters
<1> QED BY <1>1, TypeCorrect, AloneKeysInv, PTL DEF Spec, ImportedKeysFixed

\* An update that no other request runs beside changes a role that is there,
\* and nothing of it but what it was given.
THEOREM AloneUpdatesOnlyUpdate == Spec /\ []OneAtATime => UpdatesOnlyUpdate
<1> DEFINE Kept(p) == /\ keyEntry # Nil
                      /\ \A f \in RequestFields \ DOMAIN arg[p] :
                            DecodeKeys(keyEntry')[f] = DecodeKeys(keyEntry)[f]
<1>1. ASSUME TypeOK, OneAtATime, KeysInv, [Next]_vars, NEW p \in Procs,
             op[p] = "update", At(p, "saveKeys"), keyEntry' # keyEntry
      PROVE  Kept(p)
  <2>1. Next BY <1>1 DEF vars, storage
  <2>2. Demand("update", "saveKeys", arg[p], keys[p], keyEntry, usageEntry, pkEntry)
    BY <1>1, KeysAt
  <2>3. /\ keyEntry # Nil
        /\ keys[p] = updateRoleKeysFromRequest(DecodeKeys(keyEntry), arg[p])
    BY <2>2 DEF Demand
  <2>4. keyEntry' = EncodeKeys(keys[p])
    BY <1>1, <2>1, KeyWriters DEF OneAtATime, At
  <2> DEFINE stored == DecodeKeys(keyEntry)
  <2>5. /\ stored \in RoleKeys /\ stored.MaxQPS # 0
        /\ keys[p] \in RoleKeys /\ arg[p] \in Writes
    BY <1>1, <2>3, AtFacts DEF TypeOK, StorageTypeOK, KeysInv, StoredRate, Arguments
  <2> HIDE DEF stored
  <2>6. \A f \in RequestFields \ DOMAIN arg[p] : keys[p][f] = stored[f]
    <3>1. DOMAIN stored = KeyFields BY <2>5 DEF RoleKeys, KeyFields
    <3>2. RequestFields \subseteq KeyFields BY DEF RequestFields, KeyFields
    <3> QED BY <2>3, <3>1, <3>2 DEF updateRoleKeysFromRequest, Overlay, stored
  <2> DEFINE k == keys[p]
  <2>7. ASSUME NEW f \in RequestFields \ DOMAIN arg[p]
        PROVE  DecodeKeys(EncodeKeys(k))[f] = stored[f]
    <3>1. k[f] = stored[f] BY <2>6, <2>7
    <3>2. ~(f = "MaxQPS" /\ k.MaxQPS = 0) BY <2>5, <3>1
    <3>3. k \in RoleKeys BY <2>5
    <3> HIDE DEF k
    <3> QED BY <3>1, <3>2, <3>3, KeysReadBack
  <2>8. DecodeKeys(keyEntry') = DecodeKeys(EncodeKeys(k)) BY <2>4
  <2>9. \A f \in RequestFields \ DOMAIN arg[p] : DecodeKeys(keyEntry')[f] = stored[f]
    BY <2>7, <2>8, Zenon
  <2> QED BY <2>3, <2>9, Zenon DEF stored
<1>2. TypeOK /\ OneAtATime /\ KeysInv /\ [Next]_vars =>
         \A p \in Procs :
            op[p] = "update" /\ At(p, "saveKeys") /\ pc'[p] # pc[p] /\ keyEntry' # keyEntry
              => Kept(p)
  BY <1>1
<1> QED BY <1>2, TypeCorrect, AloneKeysInv, PTL DEF Spec, UpdatesOnlyUpdate
=============================================================================
