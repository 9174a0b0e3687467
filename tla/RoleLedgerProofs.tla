-------------------------- MODULE RoleLedgerProofs --------------------------
(***************************************************************************)
(* The engine implements the role's account as long as requests for the    *)
(* role do not overlap, and what the account promises of it.               *)
(***************************************************************************)
EXTENDS RoleLedger, RoleServiceProofs, FiniteSetTheorems

\* The quotas of the account are numbers of uses.
LEMMA QuotasAreNumbers == Quotas \subseteq Nat
<1>1. \A x \in Imports : x.UsageTerm # Nil => x.UsageTerm.ExplicitNumUses \in Int
  BY ServiceAssumption DEF ServiceAssumption, RoleDataExchange, RoleUsageTerm
<1>2. QED
  BY <1>1 DEF Quotas

\* A role whose steps are steps of the account is used no more often than it
\* was granted: the refinement that the run ledger checks is enough for the
\* quota (QuotaRespected), and does not depend on how many requests there are.
THEOREM LedgerKeepsQuota == ImplementsLedger => []QuotaRespected
<1>1. Ledger!AccountBalanced => QuotaRespected
  BY DEF Ledger!AccountBalanced, QuotaRespected, granted, left, pending, made, Limited
<1>2. Ledger!Spec => []Ledger!AccountBalanced
  BY QuotasAreNumbers, Ledger!Balanced
<1>3. QED
  BY <1>1, <1>2, PTL DEF ImplementsLedger

-----------------------------------------------------------------------------
(***************************************************************************)
(* The invariant.  A request that has read the usage has the stored limits *)
(* on its heap until an import or a create replaces them; one that passed  *)
(* blockUsageExceedingLimits has a use left to be charged for.             *)
(***************************************************************************)

SameLimits(u, v) ==
    u.ExplicitNumUses = v.ExplicitNumUses /\ u.RemainingNumUses = v.RemainingNumUses

\* At this step of handler o the copy on the heap has the limits that are stored.
Current(o, step) ==
    /\ o \notin {"create", "delete"}
    /\ step \notin {"readKeys", "readUsage"}
    /\ o = "import" => step \notin {"saveKeys", "saveUsage"}

\* At this step of handler o the copy on the heap is a grant not in force yet.
Fresh(o, step) ==
    \/ o = "import" /\ step \in {"saveKeys", "saveUsage"}
    \/ o = "create" /\ step = "saveUsage"

FreshGrant(u) ==
    HasUsageQuota(u) => u.ExplicitNumUses \in Quotas /\ u.RemainingNumUses = u.ExplicitNumUses

\* The steps that put another usage on the heap, or charge a use of it.
Rewriting == {"readUsage", "blockCLIWrite", "importData", "setInitialUsage", "charge"}

\* Position n of chain c is past blockUsageExceedingLimits and no such step since.
Passed(c, n) ==
    \E i \in 1..(n - 1) :
        c[i] = "blockLimits" /\ \A j \in (i + 1)..(n - 1) : c[j] \notin Rewriting

\* Position n of chain c is past decreaseRemainingUsageQuota.
PastCharge(c, n) == \E i \in 1..(n - 1) : c[i] = "charge"

Looping == {"refreshToken", "storeRefreshed", "fetch"}

RequestInv(p) ==
    LET step == Chain[op[p]][pc[p]]
    IN  /\ Current(op[p], step) => usageEntry # Nil /\ SameLimits(usage[p], StoredUsage)
        /\ Fresh(op[p], step) => FreshGrant(usage[p])
        /\ Passed(Chain[op[p]], pc[p]) /\ HasUsageQuota(usage[p]) =>
              usage[p].RemainingNumUses > 0
        /\ tries[p] # 0 => step \in Looping

LedgerInv ==
    /\ outdated = {}
    /\ \A p \in Procs : IF op[p] = "idle" THEN tries[p] = 0 ELSE RequestInv(p)

-----------------------------------------------------------------------------
(***************************************************************************)
(* Where the charge stands in the handlers.                                *)
(***************************************************************************)

\* Fetches of the existence check, which are not charged.
Unpaid(o, i) == o = "v3write" /\ i <= Len(v3ObjectExists)

\* The steps that may be followed by the next but one.
Skipping == {"ensureToken", "refreshToken", "retrievePrivateKey"}

\* A use is charged once, after the limits were looked at and before it is made,
\* but for the existence check of a V3 write.
ChargesFirst(c, o) ==
    \A i \in 1..Len(c) :
        /\ c[i] = "charge" => i < Len(c) /\ Passed(c, i) /\ ~PastCharge(c, i)
        /\ c[i] \in {"useV2", "useGrant", "useToken"} => PastCharge(c, i)
        /\ c[i] = "fetch" =>
             /\ i > 2 /\ c[i - 1] = "storeRefreshed" /\ c[i - 2] = "refreshToken"
             /\ Unpaid(o, i) => ~PastCharge(c, i) /\ (i < Len(c) => c[i + 1] = "blockCLIWrite")
             /\ ~Unpaid(o, i) => PastCharge(c, i) /\ i = Len(c)

\* A new grant is read, made and saved in this order, and by create and import only.
GrantsInOrder(c, o) ==
    \A i \in 1..Len(c) :
        /\ c[i] = "saveUsage" => i = Len(c) /\ o \in {"create", "import", "deleteToken"}
        /\ c[i] \in {"storeToken", "storeRefreshed", "charge"} =>
             o \notin {"create", "import", "delete"}
        /\ c[i] \in {"deleteUsage", "deletePrivateKey", "deleteKeys"} <=> o = "delete"
        /\ c[i] = "setInitialUsage" => o = "create"
        /\ c[i] = "importData" => o = "import"
        /\ c[i] = "updateKeys" => o # "import"
        /\ i + 1 <= Len(c) =>
             /\ o = "import" /\ c[i] \in {"importData", "saveKeys", "saveUsage"} =>
                   c[i + 1] \in {"saveKeys", "saveUsage"}
             /\ o = "import" /\ c[i + 1] \in {"saveKeys", "saveUsage"} =>
                   c[i] \in {"importData", "saveKeys"}
             /\ o = "create" /\ c[i + 1] = "saveUsage" => c[i] = "setInitialUsage"

\* The fetch loop: a step of it leads to another, and what may be skipped is the
\* write of what was obtained.
LoopsWhole(c, o) ==
    \A i \in 1..Len(c) :
        /\ i + 1 <= Len(c) =>
             /\ c[i] \in {"refreshToken", "storeRefreshed"} => c[i + 1] \in Looping
             /\ c[i] \in Skipping =>
                   c[i + 1] \in {"storeToken", "storeRefreshed", "savePrivateKey"}
        /\ i + 2 <= Len(c) =>
             /\ c[i] = "refreshToken" => c[i + 2] = "fetch"
             /\ c[i] \in Skipping => c[i + 2] \notin {"saveKeys", "saveUsage", "readUsage", "readKeys"}

LedgerOrdered(c, o) ==
    Len(c) \in Nat /\ ChargesFirst(c, o) /\ GrantsInOrder(c, o) /\ LoopsWhole(c, o)

\* Every chain of transformers has its steps in the order the ledger asks for.
LEMMA ChainsLedgerOrdered == \A o \in Handlers : LedgerOrdered(Chain[o], o)
<1> USE DEF LedgerOrdered, ChargesFirst, GrantsInOrder, LoopsWhole, Chain, ReadRole,
            EnsureToken, Unpaid, PastCharge, Passed, Rewriting, Skipping, Looping
<1>1. LedgerOrdered(Chain["create"], "create") BY DEF handleWriteRoleKeys
<1>2. LedgerOrdered(Chain["update"], "update") BY DEF handleUpdateRoleData
<1>3. LedgerOrdered(Chain["delete"], "delete") BY DEF handleDeleteRoleData
<1>4. LedgerOrdered(Chain["pem"], "pem") BY DEF pathRolePEMRead
<1>5. LedgerOrdered(Chain["import"], "import") BY DEF pathRoleImport
<1>6. LedgerOrdered(Chain["deleteToken"], "deleteToken") BY DEF deleteToken
<1>7. LedgerOrdered(Chain["grant2"], "grant2") BY DEF issueGrantV2
<1>8. LedgerOrdered(Chain["grant3"], "grant3") BY DEF issueGrantV3
<1>9. LedgerOrdered(Chain["token"], "token") BY DEF readRoleToken
<1>10. LedgerOrdered(Chain["v2"], "v2") BY DEF executeV2Write
<1>11. LedgerOrdered(Chain["proxyV2"], "proxyV2") BY DEF proxyV2Request
<1>12. LedgerOrdered(Chain["v3"], "v3")
  BY DEF executeV3, makeBaseV3InvocationChain, FetchLoop
<1>13. LedgerOrdered(Chain["v3write"], "v3write")
  BY DEF executeV3Write, v3ObjectExists, executeV3, makeBaseV3InvocationChain, FetchLoop
<1> HIDE DEF LedgerOrdered, Chain
<1> QED
  BY HandlerNames, <1>1, <1>2, <1>3, <1>4, <1>5, <1>6, <1>7, <1>8, <1>9, <1>10,
     <1>11, <1>12, <1>13

\* One step on, or two, past a step that neither reads nor writes limits.
LEMMA OnwardFacts ==
    ASSUME NEW o \in Handlers, NEW c, c = Chain[o], NEW n \in 1..Len(c),
           NEW m \in {n + 1, n + 2}, m <= Len(c),
           m = n + 2 => c[n] \in Skipping,
           c[n] \notin Rewriting \cup {"readKeys", "fetch"}
    PROVE  /\ Passed(c, m) => Passed(c, n) \/ c[n] = "blockLimits"
           /\ PastCharge(c, m) => PastCharge(c, n)
           /\ Current(o, c[m]) => Current(o, c[n])
           /\ Fresh(o, c[m]) => Fresh(o, c[n])
           /\ c[n] \in Looping => c[m] \in Looping
<1>1. LedgerOrdered(c, o) /\ Len(c) \in Nat BY ChainsLedgerOrdered DEF LedgerOrdered
<1>2. n \in Nat /\ m \in Nat /\ m <= Len(c) /\ n + 1 <= Len(c) /\ (m = n + 1 \/ m = n + 2)
  BY <1>1
<1>3. m = n + 2 => c[n + 1] \in {"storeToken", "storeRefreshed", "savePrivateKey"}
  BY <1>1, <1>2 DEF LedgerOrdered, LoopsWhole
<1>4. \A i \in 1..(m - 1) : i \in 1..(n - 1) \/ i = n \/ (i = n + 1 /\ m = n + 2)
  BY <1>2
<1>5. Passed(c, m) => Passed(c, n) \/ c[n] = "blockLimits"
  <2> SUFFICES ASSUME Passed(c, m), c[n] # "blockLimits" PROVE Passed(c, n) OBVIOUS
  <2>1. PICK i \in 1..(m - 1) :
           c[i] = "blockLimits" /\ \A j \in (i + 1)..(m - 1) : c[j] \notin Rewriting
    BY DEF Passed
  <2>2. i \in 1..(n - 1) BY <1>3, <1>4, <2>1
  <2>3. \A j \in (i + 1)..(n - 1) : j \in (i + 1)..(m - 1) BY <1>2, <2>2
  <2> QED BY <2>1, <2>2, <2>3 DEF Passed
<1>6. PastCharge(c, m) => PastCharge(c, n)
  BY <1>3, <1>4 DEF PastCharge, Rewriting
<1>7. Current(o, c[m]) => Current(o, c[n])
  BY <1>1, <1>2, <1>3 DEF Current, LedgerOrdered, GrantsInOrder, Rewriting, Skipping
<1>8. Fresh(o, c[m]) => Fresh(o, c[n])
  BY <1>1, <1>2, <1>3 DEF Fresh, LedgerOrdered, GrantsInOrder, LoopsWhole, Rewriting, Skipping
<1>9. c[n] \in Looping => c[m] \in Looping
  BY <1>1, <1>2, <1>3 DEF LedgerOrdered, LoopsWhole, Looping, Skipping
<1> QED BY <1>5, <1>6, <1>7, <1>8, <1>9

\* A step that puts another usage on the heap: what was passed no longer counts.
LEMMA RewritingFacts ==
    ASSUME NEW c, Len(c) \in Nat, NEW n \in 1..Len(c),
           c[n] \in Rewriting \cup {"readKeys"}
    PROVE  /\ Passed(c, n + 1) => c[n] = "readKeys" /\ Passed(c, n)
           /\ PastCharge(c, n + 1) => PastCharge(c, n) \/ c[n] = "charge"
           /\ c[n] = "charge" => PastCharge(c, n + 1)
<1>1. \A i \in 1..((n + 1) - 1) : i \in 1..(n - 1) \/ i = n OBVIOUS
<1>2. PastCharge(c, n + 1) => PastCharge(c, n) \/ c[n] = "charge"
  BY <1>1 DEF PastCharge
<1>3. c[n] = "charge" => PastCharge(c, n + 1) BY DEF PastCharge
<1>4. ASSUME Passed(c, n + 1) PROVE c[n] = "readKeys" /\ Passed(c, n)
  <2>1. PICK i \in 1..((n + 1) - 1) :
           c[i] = "blockLimits" /\ \A j \in (i + 1)..((n + 1) - 1) : c[j] \notin Rewriting
    BY <1>4 DEF Passed
  <2>2. i \in 1..(n - 1) BY <1>1, <2>1 DEF Rewriting
  <2>3. n \in (i + 1)..((n + 1) - 1) BY <2>2
  <2>4. c[n] = "readKeys" BY <2>1, <2>3
  <2>5. \A j \in (i + 1)..(n - 1) : j \in (i + 1)..((n + 1) - 1) BY <2>2
  <2> QED BY <2>1, <2>2, <2>4, <2>5 DEF Passed
<1> QED BY <1>2, <1>3, <1>4

-----------------------------------------------------------------------------
(***************************************************************************)
(* The account of a request that is alone.                                 *)
(***************************************************************************)

\* What is stored keeps its limits.
LimitsStay ==
    /\ usageEntry = Nil <=> usageEntry' = Nil
    /\ usageEntry # Nil => SameLimits(StoredUsage', StoredUsage)

AloneStill(p) == \A q \in Procs \ {p} : op[q] = "idle" /\ op'[q] = "idle"

\* Of one request, one is pending or none.
LEMMA OneOrNone ==
    ASSUME NEW p, NEW S, S \subseteq {p}
    PROVE  Cardinality(S) = IF p \in S THEN 1 ELSE 0
<1>1. CASE p \in S
  <2>1. S = {p} BY <1>1
  <2> QED BY <1>1, <2>1, FS_Singleton
<1>2. CASE p \notin S
  <2>1. S = {} BY <1>2
  <2> QED BY <1>2, <2>1, FS_EmptySet
<1> QED BY <1>1, <1>2

\* At most one charge is pending: that of the one request there is.
LEMMA PendingIs ==
    ASSUME NEW p \in Procs, AloneStill(p)
    PROVE  /\ pending = IF Limited /\ Charged(p) THEN 1 ELSE 0
           /\ pending' = IF Limited' /\ Charged(p)' THEN 1 ELSE 0
<1>1. {q \in Procs : Charged(q)} \subseteq {p} BY DEF AloneStill, Charged
<1>2. {q \in Procs : Charged(q)'} \subseteq {p} BY DEF AloneStill, Charged
<1>3. Cardinality({q \in Procs : Charged(q)}) = IF Charged(p) THEN 1 ELSE 0
  BY <1>1, OneOrNone
<1>4. Cardinality({q \in Procs : Charged(q)'}) = IF Charged(p)' THEN 1 ELSE 0
  <2> DEFINE T == {q \in Procs : Charged(q)'}
  <2>1. p \in T <=> Charged(p)' BY DEF Charged
  <2>2. T \subseteq {p} BY <1>2
  <2> HIDE DEF T
  <2>3. Cardinality(T) = IF p \in T THEN 1 ELSE 0 BY <2>2, OneOrNone
  <2>4. Cardinality(T) = IF Charged(p)' THEN 1 ELSE 0 BY <2>1, <2>3
  <2> QED BY <2>4 DEF T
<1> QED BY <1>3, <1>4 DEF pending

\* A step that leaves the stored limits is none of the account, a use made or a
\* charge forfeited.
LEMMA QuietStep ==
    ASSUME NEW p \in Procs, AloneStill(p), uses \in Nat, LimitsStay,
           \/ uses' = uses /\ (Charged(p)' => Charged(p))
           \/ uses' = uses + 1 /\ Charged(p) /\ ~Charged(p)'
    PROVE  [Ledger!Next]_(Ledger!account)
<1>1. Limited' <=> Limited BY DEF Limited, LimitsStay, SameLimits, HasUsageQuota
<1>2. granted' = granted /\ left' = left
  BY <1>1 DEF granted, left, Limited, LimitsStay, SameLimits
<1>3. /\ pending = IF Limited /\ Charged(p) THEN 1 ELSE 0
      /\ pending' = IF Limited /\ Charged(p)' THEN 1 ELSE 0
  BY <1>1, PendingIs
<1>4. made = (IF Limited THEN uses ELSE 0) /\ made' = (IF Limited THEN uses' ELSE 0)
  BY <1>1 DEF made
<1>5. CASE ~Limited BY <1>2, <1>3, <1>4, <1>5 DEF Ledger!account
<1>6. CASE Limited /\ uses' = uses /\ (Charged(p)' <=> Charged(p))
  BY <1>2, <1>3, <1>4, <1>6 DEF Ledger!account
<1>7. CASE Limited /\ uses' = uses /\ Charged(p) /\ ~Charged(p)'
  <2>1. pending = 1 /\ pending' = 0 /\ made' = made BY <1>3, <1>4, <1>7
  <2>2. pending > 0 /\ pending' \in 0..(pending - 1) BY <2>1
  <2> QED BY <1>2, <2>1, <2>2 DEF Ledger!Next, Ledger!Forfeit
<1>8. CASE Limited /\ uses' = uses + 1 /\ Charged(p) /\ ~Charged(p)'
  <2>1. pending > 0 /\ pending' = pending - 1 BY <1>3, <1>8
  <2>2. made' = made + 1 BY <1>4, <1>8
  <2> QED BY <1>2, <2>1, <2>2 DEF Ledger!Next, Ledger!Spend
<1> QED BY <1>5, <1>6, <1>7, <1>8

\* A request that is answered, or lost with the process, leaves the invariant.
LEMMA EndedKeeps ==
    ASSUME TypeOK, OneAtATime, LedgerInv, NEW p \in Procs, op[p] # "idle",
           Finish(p) \/ Die, outdated' \subseteq outdated
    PROVE  LedgerInv' /\ AloneStill(p) /\ ~Charged(p)'
<1>1. \A q \in Procs : op'[q] = "idle" /\ tries'[q] = 0
  BY DEF OneAtATime, LedgerInv, Finish, Die, TypeOK, RequestTypeOK
<1>2. \A q \in Procs \ {p} : op[q] = "idle" BY DEF OneAtATime
<1> QED BY <1>1, <1>2 DEF LedgerInv, AloneStill, Charged

\* So does one that goes on to a position for which it has what is asked.
LEMMA GotoKeepsLedger ==
    ASSUME TypeOK, OneAtATime, LedgerInv, NEW p \in Procs, op[p] # "idle",
           NEW m \in Nat, NEW k, NEW u, Goto(p, m, k, u), outdated' \subseteq outdated,
           m <= Len(Chain[op[p]]) =>
               /\ Current(op[p], Chain[op[p]][m]) =>
                     usageEntry' # Nil /\ SameLimits(u, StoredUsage')
               /\ Fresh(op[p], Chain[op[p]][m]) => FreshGrant(u)
               /\ Passed(Chain[op[p]], m) /\ HasUsageQuota(u) => u.RemainingNumUses > 0
               /\ tries[p] # 0 => Chain[op[p]][m] \in Looping
    PROVE  /\ LedgerInv' /\ AloneStill(p)
           /\ Charged(p)' <=> /\ m <= Len(Chain[op[p]])
                              /\ PastCharge(Chain[op[p]], m) /\ tries[p] = 0
<1>1. Len(Chain[op[p]]) \in Nat
  BY ChainsLedgerOrdered DEF LedgerOrdered, TypeOK, RequestTypeOK
<1>2. \A q \in Procs \ {p} : op[q] = "idle" BY DEF OneAtATime
<1>3. CASE m > Len(Chain[op[p]])
  <2>1. Finish(p) BY <1>3 DEF Goto
  <2> QED BY <1>1, <1>3, <2>1, EndedKeeps
<1>4. CASE ~(m > Len(Chain[op[p]]))
  <2>1. /\ pc' = [pc EXCEPT ![p] = m] /\ usage' = [usage EXCEPT ![p] = u]
        /\ op' = op /\ tries' = tries
    BY <1>4 DEF Goto
  <2>2. pc'[p] = m /\ usage'[p] = u BY <2>1 DEF TypeOK, RequestTypeOK
  <2>3. m <= Len(Chain[op[p]]) BY <1>1, <1>4
  <2>4. outdated' = {} BY DEF LedgerInv
  <2>5. RequestInv(p)' BY <2>1, <2>2, <2>3 DEF RequestInv
  <2>6. LedgerInv' BY <1>2, <2>1, <2>4, <2>5 DEF LedgerInv
  <2> QED BY <1>2, <2>1, <2>2, <2>3, <2>4, <2>6 DEF AloneStill, Charged, PastCharge
<1> QED BY <1>3, <1>4

-----------------------------------------------------------------------------
(***************************************************************************)
(* The steps.                                                              *)
(***************************************************************************)

LedgerStep == LedgerInv' /\ [Ledger!Next]_(Ledger!account)

\* A request ends, with or without the use it was charged for.
LEMMA EndStep ==
    ASSUME TypeOK, OneAtATime, LedgerInv, NEW p \in Procs, op[p] # "idle",
           Finish(p) \/ Die, LimitsStay, outdated' \subseteq outdated,
           uses' = uses \/ (uses' = uses + 1 /\ Charged(p))
    PROVE  LedgerStep
<1>1. LedgerInv' /\ AloneStill(p) /\ ~Charged(p)' BY EndedKeeps
<1>2. uses \in Nat BY DEF TypeOK, HistoryTypeOK
<1> QED BY <1>1, <1>2, QuietStep DEF LedgerStep

\* A step that leaves the limits on the heap as they are.
LEMMA MoveStep ==
    ASSUME TypeOK, OneAtATime, LedgerInv, NEW p \in Procs, NEW step, At(p, step),
           step \notin Rewriting \cup {"readKeys", "fetch"},
           step = "blockLimits" => ~Depleted(usage[p]),
           NEW m, m = pc[p] + 1 \/ (m = pc[p] + 2 /\ step \in Skipping),
           NEW k, NEW u, SameLimits(u, usage[p]), Goto(p, m, k, u),
           LimitsStay, uses' = uses, outdated' \subseteq outdated
    PROVE  LedgerStep
<1> DEFINE o == op[p]
           c == Chain[o]
           n == pc[p]
<1>1. /\ o \in Handlers /\ o # "idle" /\ Len(c) \in Nat /\ n \in 1..Len(c)
      /\ c[n] = step /\ usage[p] \in StoredRoleUsage
  BY AtFacts DEF TypeOK, At
<1>2. m \in Nat BY <1>1
<1>3. RequestInv(p) BY <1>1 DEF LedgerInv
<1>4. ASSUME m <= Len(c)
      PROVE  /\ Passed(c, m) => Passed(c, n) \/ step = "blockLimits"
             /\ PastCharge(c, m) => PastCharge(c, n)
             /\ Current(o, c[m]) => Current(o, step)
             /\ Fresh(o, c[m]) => Fresh(o, step)
             /\ step \in Looping => c[m] \in Looping
  <2>1. /\ m \in {n + 1, n + 2} /\ (m = n + 2 => c[n] \in Skipping)
        /\ c[n] \notin Rewriting \cup {"readKeys", "fetch"}
    BY <1>1
  <2>2. c = Chain[o] OBVIOUS
  <2> HIDE DEF c, n, o
  <2> QED BY <1>1, <1>4, <2>1, <2>2, OnwardFacts
<1>5. HasUsageQuota(u) <=> HasUsageQuota(usage[p]) BY DEF SameLimits, HasUsageQuota
<1>6. ASSUME m <= Len(c)
      PROVE  /\ Current(o, c[m]) => usageEntry' # Nil /\ SameLimits(u, StoredUsage')
             /\ Fresh(o, c[m]) => FreshGrant(u)
             /\ Passed(c, m) /\ HasUsageQuota(u) => u.RemainingNumUses > 0
             /\ tries[p] # 0 => c[m] \in Looping
  <2>1. Current(o, c[m]) => usageEntry' # Nil /\ SameLimits(u, StoredUsage')
    BY <1>1, <1>3, <1>4, <1>6 DEF RequestInv, LimitsStay, SameLimits
  <2>2. Fresh(o, c[m]) => FreshGrant(u)
    BY <1>1, <1>3, <1>4, <1>5, <1>6 DEF RequestInv, FreshGrant, SameLimits
  <2>3. Passed(c, m) /\ HasUsageQuota(u) => u.RemainingNumUses > 0
    BY <1>1, <1>3, <1>4, <1>5, <1>6
    DEF RequestInv, SameLimits, Depleted, HasUsageQuota, StoredRoleUsage
  <2>4. tries[p] # 0 => c[m] \in Looping BY <1>1, <1>3, <1>4, <1>6 DEF RequestInv
  <2> QED BY <2>1, <2>2, <2>3, <2>4
<1>7. /\ LedgerInv' /\ AloneStill(p)
      /\ Charged(p)' <=> m <= Len(c) /\ PastCharge(c, m) /\ tries[p] = 0
  BY <1>1, <1>2, <1>6, GotoKeepsLedger
<1>8. Charged(p)' => Charged(p)
  BY <1>1, <1>4, <1>7 DEF LedgerInv, Charged, PastCharge
<1>9. uses \in Nat BY DEF TypeOK, HistoryTypeOK
<1> QED BY <1>7, <1>8, <1>9, QuietStep DEF LedgerStep

\* The same for the next step, with the keys and the usage as they are.
LEMMA ProceedStep ==
    ASSUME TypeOK, OneAtATime, LedgerInv, NEW p \in Procs, NEW step, At(p, step),
           step \notin Rewriting \cup {"readKeys", "fetch"},
           step = "blockLimits" => ~Depleted(usage[p]),
           Proceed(p), LimitsStay, uses' = uses, outdated' \subseteq outdated
    PROVE  LedgerStep
<1>1. SameLimits(usage[p], usage[p]) BY DEF SameLimits
<1> QED BY <1>1, MoveStep DEF Proceed

\* A step that puts another usage on the heap, or none of it yet: what the next
\* step asks of it has to be there.
LEMMA RewriteStep ==
    ASSUME TypeOK, OneAtATime, LedgerInv, NEW p \in Procs, NEW step, At(p, step),
           step \in (Rewriting \ {"charge"}) \cup {"readKeys"},
           NEW k, NEW u, Goto(p, pc[p] + 1, k, u),
           step = "readKeys" => u = usage[p],
           pc[p] + 1 <= Len(Chain[op[p]]) =>
               /\ Current(op[p], Chain[op[p]][pc[p] + 1]) =>
                     usageEntry # Nil /\ SameLimits(u, StoredUsage)
               /\ Fresh(op[p], Chain[op[p]][pc[p] + 1]) => FreshGrant(u),
           UNCHANGED usageEntry, uses' = uses, outdated' \subseteq outdated
    PROVE  LedgerStep
<1> DEFINE o == op[p]
           c == Chain[o]
           n == pc[p]
<1>1. /\ o \in Handlers /\ o # "idle" /\ Len(c) \in Nat /\ n \in 1..Len(c) /\ c[n] = step
  BY AtFacts DEF TypeOK, At
<1>2. RequestInv(p) BY <1>1 DEF LedgerInv
<1>3. /\ Passed(c, n + 1) => step = "readKeys" /\ Passed(c, n)
      /\ PastCharge(c, n + 1) => PastCharge(c, n)
  BY <1>1, RewritingFacts
<1>4. tries[p] = 0 BY <1>1, <1>2 DEF RequestInv, Looping, Rewriting
<1>5. LimitsStay BY DEF LimitsStay, SameLimits, StoredUsage
<1>6. StoredUsage' = StoredUsage BY DEF StoredUsage
<1>7. Passed(c, n + 1) /\ HasUsageQuota(u) => u.RemainingNumUses > 0
  BY <1>1, <1>2, <1>3 DEF RequestInv
<1>8. /\ LedgerInv' /\ AloneStill(p)
      /\ Charged(p)' <=> n + 1 <= Len(c) /\ PastCharge(c, n + 1) /\ tries[p] = 0
  <2>1. n + 1 \in Nat BY <1>1
  <2>2. n + 1 <= Len(c) =>
            /\ Current(o, c[n + 1]) => usageEntry' # Nil /\ SameLimits(u, StoredUsage')
            /\ Fresh(o, c[n + 1]) => FreshGrant(u)
            /\ Passed(c, n + 1) /\ HasUsageQuota(u) => u.RemainingNumUses > 0
            /\ tries[p] # 0 => c[n + 1] \in Looping
    BY <1>4, <1>6, <1>7
  <2> QED BY <1>1, <2>1, <2>2, GotoKeepsLedger
<1>9. Charged(p)' => Charged(p)
  BY <1>1, <1>3, <1>8 DEF LedgerInv, Charged, PastCharge
<1>10. uses \in Nat BY DEF TypeOK, HistoryTypeOK
<1> QED BY <1>5, <1>8, <1>9, <1>10, QuietStep DEF LedgerStep

\* A usage has its own limits, with or without its token.
LEMMA SameIsSame ==
    ASSUME NEW u PROVE SameLimits(u, u) /\ SameLimits(ResetToken(u), u)
PROOF BY DEF SameLimits, ResetToken

\* Reading the role and the checks.
LEMMA ReadSteps ==
    ASSUME TypeOK, OneAtATime, LedgerInv, NEW p \in Procs,
           ReadKeys(p) \/ ReadUsage(p) \/ Block(p) \/ BlockCLIWrite(p)
    PROVE  LedgerStep
<1>0. /\ LimitsStay /\ UNCHANGED <<usageEntry, uses>> /\ outdated' \subseteq outdated
      /\ op[p] # "idle"
  <2>1. UNCHANGED <<usageEntry, uses>> /\ outdated' \subseteq outdated /\ op[p] # "idle"
    BY DEF ReadKeys, ReadUsage, Block, BlockCLIWrite, storage, history, At
  <2> QED BY <2>1 DEF LimitsStay, SameLimits, StoredUsage
<1>1. CASE ReadKeys(p)
  <2>1. /\ op[p] \in Handlers /\ Len(Chain[op[p]]) \in Nat
        /\ pc[p] \in 1..Len(Chain[op[p]]) /\ Chain[op[p]][pc[p]] = "readKeys"
        /\ At(p, "readKeys")
    BY <1>1, AtFacts DEF ReadKeys, TypeOK
  <2>2. pc[p] + 1 <= Len(Chain[op[p]]) => Chain[op[p]][pc[p] + 1] = "readUsage"
    BY <2>1, ChainsWellOrdered DEF WellOrdered
  <2>3. CASE Finish(p) BY <1>0, <2>3, EndStep
  <2>4. ASSUME NEW k, Goto(p, pc[p] + 1, k, usage[p]) PROVE LedgerStep
    BY <1>0, <2>1, <2>2, <2>4, RewriteStep DEF Current, Fresh
  <2> QED BY <1>1, <2>3, <2>4 DEF ReadKeys
<1>2. CASE ReadUsage(p)
  <2>1. /\ op[p] \in Handlers /\ Len(Chain[op[p]]) \in Nat
        /\ pc[p] \in 1..Len(Chain[op[p]]) /\ Chain[op[p]][pc[p]] = "readUsage"
        /\ At(p, "readUsage")
    BY <1>2, AtFacts DEF ReadUsage, TypeOK
  <2>2. pc[p] + 1 <= Len(Chain[op[p]]) => ~Fresh(op[p], Chain[op[p]][pc[p] + 1])
    BY <2>1, ChainsLedgerOrdered DEF LedgerOrdered, GrantsInOrder, Fresh
  <2>3. CASE Finish(p) BY <1>0, <2>3, EndStep
  <2>4. CASE usageEntry = Nil /\ ~RequiresRole(p) /\ Goto(p, pc[p] + 1, keys[p], InitialUsage)
    BY <1>0, <2>1, <2>2, <2>4, RewriteStep DEF Current, RequiresRole, Rewriting
  <2>5. CASE usageEntry # Nil /\ Goto(p, pc[p] + 1, keys[p], DecodeUsage(usageEntry))
    BY <1>0, <2>1, <2>2, <2>5, RewriteStep, SameIsSame DEF StoredUsage, Rewriting
  <2> QED BY <1>2, <2>3, <2>4, <2>5 DEF ReadUsage
<1>3. CASE Block(p)
  <2>1. PICK b \in Blockers :
           /\ At(p, b)
           /\ IF Blocks(b, keys[p], usage[p], now) THEN Finish(p) ELSE Proceed(p)
    BY <1>3 DEF Block
  <2>2. CASE Finish(p) BY <1>0, <2>2, EndStep
  <2>3. CASE Proceed(p) /\ ~Blocks(b, keys[p], usage[p], now)
    <3>1. b = "blockLimits" => ~Depleted(usage[p]) BY <2>3 DEF Blocks
    <3>2. b \notin Rewriting \cup {"readKeys", "fetch"} BY DEF Blockers, Rewriting
    <3> QED BY <1>0, <2>1, <2>3, <3>1, <3>2, ProceedStep
  <2> QED BY <2>1, <2>2, <2>3
<1>4. CASE BlockCLIWrite(p)
  <2>1. /\ op[p] \in Handlers /\ Len(Chain[op[p]]) \in Nat
        /\ pc[p] \in 1..Len(Chain[op[p]]) /\ Chain[op[p]][pc[p]] = "blockCLIWrite"
        /\ At(p, "blockCLIWrite")
    BY <1>4, AtFacts DEF BlockCLIWrite, TypeOK
  <2>2. pc[p] + 1 <= Len(Chain[op[p]]) => Chain[op[p]][pc[p] + 1] = "readKeys"
    BY <2>1, ChainsWellOrdered DEF WellOrdered
  <2>3. CASE Finish(p) BY <1>0, <2>3, EndStep
  <2>4. CASE Goto(p, pc[p] + 1, InitialKeys, InitialUsage)
    BY <1>0, <2>1, <2>2, <2>4, RewriteStep DEF Current, Fresh, Rewriting
  <2> QED BY <1>4, <2>3, <2>4 DEF BlockCLIWrite
<1> QED BY <1>1, <1>2, <1>3, <1>4

\* A new grant, saved by the last step of its handler.
LEMMA GrantStep ==
    ASSUME TypeOK, OneAtATime, LedgerInv, NEW p \in Procs, saveRoleUsage(p),
           op[p] \in {"create", "import"}
    PROVE  LedgerStep
<1>1. /\ op[p] \in Handlers /\ op[p] # "idle" /\ Len(Chain[op[p]]) \in Nat
      /\ pc[p] \in 1..Len(Chain[op[p]]) /\ Chain[op[p]][pc[p]] = "saveUsage"
      /\ usage[p] \in StoredRoleUsage
  BY AtFacts DEF saveRoleUsage, At, TypeOK
<1>2. pc[p] = Len(Chain[op[p]])
  BY <1>1, ChainsLedgerOrdered DEF LedgerOrdered, GrantsInOrder
<1>3. CASE Finish(p) /\ UNCHANGED <<usageEntry, history>>
  <2>1. LimitsStay BY <1>3 DEF LimitsStay, SameLimits, StoredUsage
  <2> QED BY <1>1, <1>3, <2>1, EndStep DEF history
<1>4. CASE /\ Proceed(p) /\ usageEntry' = EncodeUsage(usage[p])
           /\ uses' = 0 /\ outdated' = {q \in Procs \ {p} : op[q] # "idle"}
  <2>1. Finish(p) BY <1>1, <1>2, <1>4 DEF Proceed, Goto
  <2>2. outdated' \subseteq outdated BY <1>1, <1>4 DEF OneAtATime
  <2>3. LedgerInv' /\ AloneStill(p) /\ ~Charged(p)' BY <1>1, <2>1, <2>2, EndedKeeps
  <2>4. usageEntry' # Nil /\ StoredUsage' = usage[p]
    BY <1>1, <1>4, UsageRoundTrip, UsageEntryIsThere DEF StoredUsage
  <2>5. FreshGrant(usage[p]) BY <1>1 DEF LedgerInv, RequestInv, Fresh
  <2>6. Limited' <=> HasUsageQuota(usage[p]) BY <2>4 DEF Limited
  <2>7. granted' \in Quotas \cup {0} /\ left' = granted'
    BY <2>4, <2>5, <2>6 DEF granted, left, FreshGrant
  <2>8. pending' = 0 /\ made' = 0 BY <1>4, <2>3, PendingIs DEF made
  <2> QED BY <2>3, <2>7, <2>8 DEF LedgerStep, Ledger!Next, Ledger!Grant
<1> QED BY <1>3, <1>4 DEF saveRoleUsage

\* The usage of a role is deleted, and with it the grant.
LEMMA DeleteStep ==
    ASSUME TypeOK, OneAtATime, LedgerInv, NEW p \in Procs, DeleteUsage(p)
    PROVE  LedgerStep
<1> DEFINE o == op[p]
           c == Chain[o]
           n == pc[p]
<1>1. /\ o \in Handlers /\ o # "idle" /\ Len(c) \in Nat
      /\ n \in 1..Len(c) /\ c[n] = "deleteUsage"
  BY AtFacts DEF DeleteUsage, At, TypeOK
<1>2. o = "delete" BY <1>1, ChainsLedgerOrdered DEF LedgerOrdered, GrantsInOrder
<1>3. CASE Finish(p) /\ UNCHANGED usageEntry
  <2>1. LimitsStay BY <1>3 DEF LimitsStay, SameLimits, StoredUsage
  <2> QED BY <1>1, <1>3, <2>1, EndStep DEF DeleteUsage, history
<1>4. CASE Proceed(p) /\ usageEntry' = Nil
  <2>1. n + 1 \in Nat BY <1>1
  <2>2. RequestInv(p) BY <1>1 DEF LedgerInv
  <2>3. n + 1 <= Len(c) =>
          /\ Current(o, c[n + 1]) => usageEntry' # Nil /\ SameLimits(usage[p], StoredUsage')
          /\ Fresh(o, c[n + 1]) => FreshGrant(usage[p])
          /\ Passed(c, n + 1) /\ HasUsageQuota(usage[p]) => usage[p].RemainingNumUses > 0
          /\ tries[p] # 0 => c[n + 1] \in Looping
    BY <1>1, <1>2, <2>2, OnwardFacts DEF RequestInv, Current, Fresh, Rewriting, Looping
  <2>4. LedgerInv' /\ AloneStill(p)
    BY <1>1, <1>4, <2>1, <2>3, GotoKeepsLedger DEF Proceed, DeleteUsage, history
  <2>5. ~Limited' BY <1>4 DEF Limited
  <2>6. granted' = 0 /\ left' = 0 /\ made' = 0 /\ pending' = 0
    BY <2>4, <2>5, PendingIs DEF granted, left, made
  <2> QED BY <2>4, <2>6 DEF LedgerStep, Ledger!Next, Ledger!Grant
<1> QED BY <1>3, <1>4 DEF DeleteUsage

\* What an import puts on the heap is a fresh grant.
LEMMA ImportIsFresh ==
    ASSUME NEW u \in StoredRoleUsage, NEW x \in Imports
    PROVE  FreshGrant(ImportUsage(u, x))
<1>1. x \in RoleDataExchange BY ServiceAssumption
<1>2. CASE x.UsageTerm = Nil
  BY <1>2 DEF ImportUsage, UnboundedUsage, FreshGrant, HasUsageQuota, StoredRoleUsage
<1>3. CASE x.UsageTerm # Nil
  <2>1. x.UsageTerm \in RoleUsageTerm BY <1>1, <1>3 DEF RoleDataExchange
  <2>2. x.UsageTerm.ExplicitNumUses > 0 => x.UsageTerm.ExplicitNumUses \in Quotas
    BY <1>3 DEF Quotas
  <2> QED
    BY <1>3, <2>1, <2>2
    DEF ImportUsage, FreshGrant, HasUsageQuota, StoredRoleUsage, RoleUsageTerm
<1> QED BY <1>2, <1>3

\* Writing, deleting and importing the role.
LEMMA AdministerSteps ==
    ASSUME TypeOK, OneAtATime, LedgerInv, NEW p \in Procs, Administer(p)
    PROVE  LedgerStep
<1>0. UNCHANGED <<usageEntry, history>> =>
         LimitsStay /\ uses' = uses /\ outdated' \subseteq outdated
  BY DEF LimitsStay, SameLimits, StoredUsage, history
<1>1. CASE UpdateKeys(p)
  BY <1>0, <1>1, MoveStep, SameIsSame DEF UpdateKeys, storage, Rewriting
<1>2. CASE saveRoleKeys(p)
  BY <1>0, <1>2, EndStep, ProceedStep DEF saveRoleKeys, Rewriting, At
<1>3. CASE setInitialRoleUsage(p)
  <2>1. /\ op[p] \in Handlers /\ Len(Chain[op[p]]) \in Nat /\ usage[p] \in StoredRoleUsage
        /\ pc[p] \in 1..Len(Chain[op[p]]) /\ Chain[op[p]][pc[p]] = "setInitialUsage"
        /\ At(p, "setInitialUsage")
    BY <1>3, AtFacts DEF setInitialRoleUsage, TypeOK
  <2>2. op[p] = "create" BY <2>1, ChainsLedgerOrdered DEF LedgerOrdered, GrantsInOrder
  <2>3. FreshGrant(ResetToken(UnboundedUsage(usage[p])))
    BY <2>1 DEF FreshGrant, HasUsageQuota, ResetToken, UnboundedUsage, StoredRoleUsage
  <2> QED
    BY <1>0, <1>3, <2>1, <2>2, <2>3, RewriteStep
    DEF setInitialRoleUsage, storage, Current, Rewriting
<1>4. CASE forgetUsedToken(p)
  BY <1>0, <1>4, MoveStep, SameIsSame DEF forgetUsedToken, storage, Rewriting
<1>5. CASE saveRoleUsage(p)
  <2>1. /\ op[p] \in Handlers /\ Len(Chain[op[p]]) \in Nat /\ usage[p] \in StoredRoleUsage
        /\ pc[p] \in 1..Len(Chain[op[p]]) /\ Chain[op[p]][pc[p]] = "saveUsage"
        /\ At(p, "saveUsage") /\ op[p] # "idle"
    BY <1>5, AtFacts DEF saveRoleUsage, TypeOK, At
  <2>2. CASE op[p] \in {"create", "import"} BY <1>5, <2>2, GrantStep
  <2>3. CASE op[p] \notin {"create", "import"}
    <3>1. op[p] = "deleteToken"
      BY <2>1, <2>3, ChainsLedgerOrdered DEF LedgerOrdered, GrantsInOrder
    <3>2. usageEntry # Nil /\ SameLimits(usage[p], StoredUsage)
      BY <2>1, <3>1 DEF LedgerInv, RequestInv, Current
    <3>3. CASE usageEntry' = EncodeUsage(usage[p])
      <4>1. usageEntry' # Nil /\ StoredUsage' = usage[p]
        BY <2>1, <3>3, UsageRoundTrip, UsageEntryIsThere DEF StoredUsage
      <4>2. LimitsStay BY <3>2, <4>1 DEF LimitsStay
      <4> QED
        BY <1>5, <2>1, <2>3, <4>2, EndStep, ProceedStep DEF saveRoleUsage, history, Rewriting
    <3> QED BY <1>0, <1>5, <2>1, <3>3, EndStep DEF saveRoleUsage
  <2> QED BY <2>2, <2>3
<1>6. CASE retrievePrivateKey(p)
  BY <1>0, <1>6, EndStep, ProceedStep, MoveStep, SameIsSame
  DEF retrievePrivateKey, storage, Rewriting, Skipping, At
<1>7. CASE savePrivateKey(p) BY <1>0, <1>7, EndStep DEF savePrivateKey, At
<1>8. CASE importPEMEncodedExchangeData(p)
  <2>1. /\ op[p] \in Handlers /\ Len(Chain[op[p]]) \in Nat /\ usage[p] \in StoredRoleUsage
        /\ pc[p] \in 1..Len(Chain[op[p]]) /\ Chain[op[p]][pc[p]] = "importData"
        /\ At(p, "importData") /\ op[p] # "idle" /\ arg[p] \in Arguments(op[p])
    BY <1>8, AtFacts DEF importPEMEncodedExchangeData, TypeOK, At
  <2>2. op[p] = "import" BY <2>1, ChainsLedgerOrdered DEF LedgerOrdered, GrantsInOrder
  <2>3. FreshGrant(ImportUsage(usage[p], arg[p]))
    BY <2>1, <2>2, ImportIsFresh DEF Arguments
  <2>4. pc[p] + 1 <= Len(Chain[op[p]]) => ~Current(op[p], Chain[op[p]][pc[p] + 1])
    BY <2>1, <2>2, ChainsLedgerOrdered DEF LedgerOrdered, GrantsInOrder, Current
  <2>5. CASE Finish(p) BY <1>0, <1>8, <2>1, <2>5, EndStep DEF importPEMEncodedExchangeData, storage
  <2>6. CASE Goto(p, pc[p] + 1, ImportKeys(arg[p]), ImportUsage(usage[p], arg[p]))
    BY <1>0, <1>8, <2>1, <2>3, <2>4, <2>6, RewriteStep
    DEF importPEMEncodedExchangeData, storage, Rewriting
  <2> QED BY <1>8, <2>5, <2>6 DEF importPEMEncodedExchangeData
<1>9. CASE DeleteUsage(p) BY <1>9, DeleteStep
<1>10. CASE DeletePrivateKey(p)
  BY <1>0, <1>10, EndStep, ProceedStep DEF DeletePrivateKey, Rewriting, At
<1>11. CASE DeleteKeys(p)
  BY <1>0, <1>11, EndStep, ProceedStep DEF DeleteKeys, Rewriting, At
<1> QED
  BY <1>1, <1>2, <1>3, <1>4, <1>5, <1>6, <1>7, <1>8, <1>9, <1>10, <1>11 DEF Administer

\* decreaseRemainingUsageQuota: with a quota, the charge of the account.
LEMMA ChargeStep ==
    ASSUME TypeOK, OneAtATime, LedgerInv, NEW p \in Procs, decreaseRemainingUsageQuota(p)
    PROVE  LedgerStep
<1> DEFINE o == op[p]
           c == Chain[o]
           n == pc[p]
<1>1. /\ o \in Handlers /\ o # "idle" /\ Len(c) \in Nat /\ At(p, "charge")
      /\ n \in 1..Len(c) /\ c[n] = "charge" /\ usage[p] \in StoredRoleUsage
  BY AtFacts DEF decreaseRemainingUsageQuota, At, TypeOK
<1>2. /\ n < Len(c) /\ Passed(c, n) /\ ~PastCharge(c, n)
      /\ o \notin {"create", "import", "delete"}
  BY <1>1, ChainsLedgerOrdered DEF LedgerOrdered, ChargesFirst, GrantsInOrder
<1>3. /\ usageEntry # Nil /\ SameLimits(usage[p], StoredUsage) /\ tries[p] = 0
      /\ HasUsageQuota(usage[p]) => usage[p].RemainingNumUses > 0
  BY <1>1, <1>2 DEF LedgerInv, RequestInv, Current, Looping
<1>4. n + 1 \in Nat /\ n + 1 <= Len(c) /\ ~Passed(c, n + 1) /\ PastCharge(c, n + 1)
  BY <1>1, <1>2, RewritingFacts DEF Rewriting
<1>5. ~Fresh(o, c[n + 1]) BY <1>2 DEF Fresh
<1>6. outdated' \subseteq outdated /\ uses' = uses
  BY DEF decreaseRemainingUsageQuota, history
<1>7. ~Charged(p) BY <1>2 DEF Charged, PastCharge
<1>8. CASE ~HasUsageQuota(usage[p]) /\ Proceed(p) /\ UNCHANGED usageEntry
  <2>1. LimitsStay BY <1>8 DEF LimitsStay, SameLimits, StoredUsage
  <2>2. usageEntry' # Nil /\ SameLimits(usage[p], StoredUsage')
    BY <1>3, <1>8 DEF StoredUsage
  <2>3. LedgerInv' /\ AloneStill(p)
    BY <1>1, <1>3, <1>4, <1>5, <1>6, <1>8, <2>2, GotoKeepsLedger DEF Proceed
  <2>4. ~Limited BY <1>3, <1>8 DEF Limited, HasUsageQuota, SameLimits
  <2>5. ~Limited' BY <1>8, <2>4 DEF Limited, StoredUsage
  <2>6. UNCHANGED Ledger!account
    BY <2>3, <2>4, <2>5, PendingIs DEF granted, left, made, Ledger!account
  <2> QED BY <2>3, <2>6 DEF LedgerStep
<1>9. CASE Finish(p) /\ UNCHANGED usageEntry
  <2>1. LimitsStay BY <1>9 DEF LimitsStay, SameLimits, StoredUsage
  <2> QED BY <1>1, <1>6, <1>9, <2>1, EndStep
<1>10. ASSUME HasUsageQuota(usage[p]),
              Goto(p, n + 1, keys[p], ReduceRemainingQuota(usage[p])),
              usageEntry' = EncodeUsage(ReduceRemainingQuota(usage[p]))
       PROVE  LedgerStep
  <2> DEFINE u == ReduceRemainingQuota(usage[p])
  <2>1. u \in StoredRoleUsage BY <1>1, UsageOpsTyped
  <2>2. usageEntry' # Nil /\ StoredUsage' = u
    BY <1>10, <2>1, UsageRoundTrip, UsageEntryIsThere DEF StoredUsage
  <2>3. /\ u.ExplicitNumUses = usage[p].ExplicitNumUses
        /\ u.RemainingNumUses = usage[p].RemainingNumUses - 1
    BY <1>1, <1>3, <1>10 DEF ReduceRemainingQuota, StoredRoleUsage
  <2> HIDE DEF u
  <2>4. usageEntry' # Nil /\ SameLimits(u, StoredUsage') BY <2>2 DEF SameLimits
  <2>5. /\ LedgerInv' /\ AloneStill(p)
        /\ Charged(p)'
    BY <1>1, <1>3, <1>4, <1>5, <1>6, <1>10, <2>4, GotoKeepsLedger DEF u
  <2>6. Limited BY <1>3, <1>10 DEF Limited, SameLimits, HasUsageQuota
  <2>7. Limited' BY <1>10, <2>2, <2>3 DEF Limited, HasUsageQuota
  <2>8. left > 0 /\ left' = left - 1
    BY <1>3, <1>10, <2>2, <2>3, <2>6, <2>7 DEF left, SameLimits
  <2>9. granted' = granted
    BY <1>3, <2>2, <2>3, <2>6, <2>7 DEF granted, SameLimits
  <2>10. pending' = pending + 1 BY <1>7, <2>5, <2>6, <2>7, PendingIs
  <2>11. made' = made BY <1>6, <2>6, <2>7 DEF made
  <2> QED
    BY <2>5, <2>8, <2>9, <2>10, <2>11 DEF LedgerStep, Ledger!Next, Ledger!Charge
<1> QED BY <1>1, <1>8, <1>9, <1>10 DEF decreaseRemainingUsageQuota

\* Obtaining a token and storing it: the limits stay.
LEMMA TokenSteps ==
    ASSUME TypeOK, OneAtATime, LedgerInv, NEW p \in Procs,
           \/ ensureAccessTokenValid(p) \/ storeToken(p)
           \/ refreshToken(p) \/ storeRefreshed(p)
    PROVE  LedgerStep
<1>0. ASSUME UNCHANGED usageEntry, UNCHANGED history
      PROVE  LimitsStay /\ uses' = uses /\ outdated' \subseteq outdated
  BY <1>0 DEF LimitsStay, SameLimits, StoredUsage, history
<1>1. ASSUME NEW step \in {"ensureToken", "refreshToken"}, At(p, step), RenewToken(p),
             UNCHANGED usageEntry, UNCHANGED history
      PROVE  LedgerStep
  <2>1. \A t, e, i : SameLimits(ReplaceAccessToken(usage[p], t, e, i), usage[p])
    BY DEF SameLimits, ReplaceAccessToken
  <2> QED
    BY <1>0, <1>1, <2>1, MoveStep, SameIsSame DEF RenewToken, Skipping, Rewriting
<1>2. ASSUME NEW step \in {"storeToken", "storeRefreshed"}, At(p, step), Proceed(p),
             usageEntry' = EncodeUsage(usage[p]), UNCHANGED history
      PROVE  LedgerStep
  <2>1. /\ op[p] \in Handlers /\ op[p] # "idle" /\ usage[p] \in StoredRoleUsage
        /\ pc[p] \in 1..Len(Chain[op[p]]) /\ Chain[op[p]][pc[p]] = step
    BY <1>2, AtFacts DEF TypeOK, At
  <2>2. op[p] \notin {"create", "import", "delete"}
    BY <2>1, ChainsLedgerOrdered DEF LedgerOrdered, GrantsInOrder
  <2>3. usageEntry # Nil /\ SameLimits(usage[p], StoredUsage)
    BY <2>1, <2>2 DEF LedgerInv, RequestInv, Current
  <2>4. usageEntry' # Nil /\ StoredUsage' = usage[p]
    BY <1>2, <2>1, UsageRoundTrip, UsageEntryIsThere DEF StoredUsage
  <2>5. LimitsStay BY <2>3, <2>4 DEF LimitsStay
  <2> QED BY <1>2, <2>5, ProceedStep DEF history, Rewriting
<1>3. ASSUME UNCHANGED usageEntry, UNCHANGED history, Finish(p) \/ Die, op[p] # "idle"
      PROVE  LedgerStep
  BY <1>0, <1>3, EndStep
<1>4. CASE ensureAccessTokenValid(p)
  BY <1>1, <1>3, <1>4 DEF ensureAccessTokenValid, storage, At
<1>5. CASE storeToken(p) BY <1>2, <1>3, <1>5 DEF storeToken, At
<1>6. CASE refreshToken(p) BY <1>1, <1>3, <1>6 DEF refreshToken, storage, At
<1>7. CASE storeRefreshed(p) BY <1>2, <1>3, <1>7 DEF storeRefreshed, At
<1> QED BY <1>4, <1>5, <1>6, <1>7

\* The use that ends a request is one it was charged for.
LEMMA UseSteps ==
    ASSUME TypeOK, OneAtATime, LedgerInv, NEW p \in Procs,
           useV2(p) \/ retrieveV3AccessToken(p) \/ rehydrateV3AccessToken(p)
    PROVE  LedgerStep
<1>1. PICK step \in {"useV2", "useGrant", "useToken"} : At(p, step)
  BY DEF useV2, retrieveV3AccessToken, rehydrateV3AccessToken
<1>2. /\ op[p] \in Handlers /\ op[p] # "idle"
      /\ pc[p] \in 1..Len(Chain[op[p]]) /\ Chain[op[p]][pc[p]] = step
  BY <1>1, AtFacts DEF TypeOK, At
<1>3. PastCharge(Chain[op[p]], pc[p])
  BY <1>2, ChainsLedgerOrdered DEF LedgerOrdered, ChargesFirst
<1>4. tries[p] = 0 /\ outdated = {} BY <1>2 DEF LedgerInv, RequestInv, Looping
<1>5. Charged(p) BY <1>2, <1>3, <1>4 DEF Charged, PastCharge
<1>6. Finish(p) /\ UNCHANGED usageEntry /\ (Count(p) \/ UNCHANGED history)
  BY DEF useV2, retrieveV3AccessToken, rehydrateV3AccessToken, storage
<1>7. outdated' \subseteq outdated /\ (uses' = uses \/ uses' = uses + 1)
  BY <1>6 DEF Count, history
<1>8. LimitsStay BY <1>6 DEF LimitsStay, SameLimits, StoredUsage
<1> QED BY <1>2, <1>5, <1>6, <1>7, <1>8, EndStep

\* The first attempt of the fetch loop makes the use; a retry does not count, nor
\* does the existence check.
LEMMA FetchStep ==
    ASSUME TypeOK, OneAtATime, LedgerInv, NEW p \in Procs, doFetchWithErrorHandling(p)
    PROVE  LedgerStep
<1> DEFINE o == op[p]
           c == Chain[o]
           n == pc[p]
<1>1. /\ o \in Handlers /\ o # "idle" /\ Len(c) \in Nat /\ At(p, "fetch")
      /\ n \in 1..Len(c) /\ c[n] = "fetch" /\ tries[p] \in 0..(MaxTries - 1)
  BY AtFacts DEF doFetchWithErrorHandling, At, TypeOK
<1>2. /\ n > 2 /\ c[n - 1] = "storeRefreshed" /\ c[n - 2] = "refreshToken"
      /\ Uncharged(p) => ~PastCharge(c, n) /\ (n < Len(c) => c[n + 1] = "blockCLIWrite")
      /\ ~Uncharged(p) => PastCharge(c, n) /\ n = Len(c)
  BY <1>1, ChainsLedgerOrdered DEF LedgerOrdered, ChargesFirst, Unpaid, Uncharged
<1>3. RequestInv(p) /\ outdated = {} BY <1>1 DEF LedgerInv
<1>4. UNCHANGED usageEntry BY DEF doFetchWithErrorHandling, storage
<1>5. LimitsStay BY <1>4 DEF LimitsStay, SameLimits, StoredUsage
<1>6. outdated' \subseteq outdated BY DEF doFetchWithErrorHandling, Count, history
<1>7. uses' = uses \/ (uses' = uses + 1 /\ Charged(p))
  <2>1. CASE Uncharged(p) \/ tries[p] > 0 BY <2>1 DEF doFetchWithErrorHandling, history
  <2>2. CASE ~Uncharged(p) /\ ~(tries[p] > 0)
    <3>1. Charged(p) BY <1>1, <1>2, <1>3, <2>2 DEF Charged, PastCharge
    <3> QED BY <2>2, <3>1 DEF doFetchWithErrorHandling, Count
  <2> QED BY <2>1, <2>2
<1>8. CASE Finish(p) \/ Die BY <1>1, <1>5, <1>6, <1>7, <1>8, EndStep
<1>9. \A q \in Procs \ {p} : op[q] = "idle" BY <1>1 DEF OneAtATime
<1>10. uses \in Nat BY DEF TypeOK, HistoryTypeOK
<1>11. CASE /\ n < Len(c) /\ pc' = [pc EXCEPT ![p] = @ + 1]
            /\ tries' = [tries EXCEPT ![p] = 0] /\ UNCHANGED <<op, arg, keys, usage>>
  <2>1. Uncharged(p) /\ c[n + 1] = "blockCLIWrite" /\ ~PastCharge(c, n) BY <1>1, <1>2, <1>11
  <2>2. pc'[p] = n + 1 /\ tries'[p] = 0 /\ UNCHANGED <<op, usage>>
    BY <1>11 DEF TypeOK, RequestTypeOK
  <2>3. Passed(c, n + 1) => Passed(c, n)
    <3>1. SUFFICES ASSUME Passed(c, n + 1) PROVE Passed(c, n) OBVIOUS
    <3>2. PICK i \in 1..((n + 1) - 1) :
             c[i] = "blockLimits" /\ \A j \in (i + 1)..((n + 1) - 1) : c[j] \notin Rewriting
      BY <3>1 DEF Passed
    <3>3. i \in 1..(n - 1) BY <1>1, <3>2
    <3>4. \A j \in (i + 1)..(n - 1) : j \in (i + 1)..((n + 1) - 1) BY <1>1, <3>3
    <3> QED BY <3>2, <3>3, <3>4 DEF Passed
  <2>4. ~PastCharge(c, n + 1)
    <3>1. \A i \in 1..((n + 1) - 1) : i \in 1..(n - 1) \/ i = n BY <1>1
    <3> QED BY <1>1, <2>1, <3>1 DEF PastCharge
  <2>5. RequestInv(p)'
    BY <1>1, <1>3, <1>4, <2>1, <2>2, <2>3 DEF RequestInv, Current, Fresh, StoredUsage
  <2>6. LedgerInv' BY <1>1, <1>3, <1>6, <1>9, <1>11, <2>2, <2>5 DEF LedgerInv
  <2>7. ~Charged(p)' BY <2>2, <2>4 DEF Charged, PastCharge
  <2>8. AloneStill(p) BY <1>9, <2>2 DEF AloneStill
  <2> QED BY <1>5, <1>7, <1>10, <2>6, <2>7, <2>8, QuietStep DEF LedgerStep
<1>12. CASE Retry(p)
  <2>1. /\ pc'[p] = n - 2 /\ tries'[p] = tries[p] + 1 /\ op' = op
        /\ usage'[p] = ResetToken(usage[p]) /\ tries'[p] # 0
        /\ \A q \in Procs \ {p} : tries'[q] = tries[q]
    BY <1>1, <1>12 DEF Retry, TypeOK, RequestTypeOK
  <2>2. Passed(c, n - 2) => Passed(c, n)
    <3>1. SUFFICES ASSUME Passed(c, n - 2) PROVE Passed(c, n) OBVIOUS
    <3>2. PICK i \in 1..((n - 2) - 1) :
             c[i] = "blockLimits" /\ \A j \in (i + 1)..((n - 2) - 1) : c[j] \notin Rewriting
      BY <3>1 DEF Passed
    <3>3. i \in 1..(n - 1) BY <1>1, <3>2
    <3>4. \A j \in (i + 1)..(n - 1) : j = n - 2 \/ j = n - 1 \/ j \in (i + 1)..((n - 2) - 1)
      <4>1. n \in Int /\ i \in Int BY <1>1, <3>3
      <4> HIDE DEF n
      <4> QED BY <4>1
    <3>5. \A j \in (i + 1)..(n - 1) : c[j] \notin Rewriting
      BY <1>2, <3>2, <3>4 DEF Rewriting
    <3> QED BY <3>2, <3>3, <3>5 DEF Passed
  <2>3. SameLimits(usage'[p], usage[p]) BY <2>1, SameIsSame
  <2>4. RequestInv(p)'
    BY <1>1, <1>2, <1>3, <1>4, <2>1, <2>2, <2>3
    DEF RequestInv, Current, Fresh, Looping, SameLimits, HasUsageQuota, StoredUsage
  <2>5. LedgerInv' BY <1>1, <1>3, <1>6, <1>9, <2>1, <2>4 DEF LedgerInv
  <2>6. ~Charged(p)' BY <2>1 DEF Charged
  <2>7. AloneStill(p) BY <1>9, <2>1 DEF AloneStill
  <2> QED BY <1>5, <1>7, <1>10, <2>5, <2>6, <2>7, QuietStep DEF LedgerStep
<1> QED BY <1>8, <1>11, <1>12 DEF doFetchWithErrorHandling, Fetched

\* A request arrives when there is no other.
LEMMA BeginStep ==
    ASSUME TypeOK, OneAtATime', LedgerInv, NEW p \in Procs, Begin(p)
    PROVE  LedgerStep
<1>1. PICK o \in Handlers : \E a : Start(p, o, a)
  <2>1. CASE BeginWrite(p) BY <2>1, HandlerNames DEF BeginWrite
  <2>2. CASE BeginImport(p) BY <2>2, HandlerNames DEF BeginImport
  <2>3. CASE BeginOther(p)
    BY <2>3, ServiceAssumption, HandlerNames DEF BeginOther, ClientOps
  <2> QED BY <2>1, <2>2, <2>3 DEF Begin
<1>2. /\ op[p] = "idle" /\ op'[p] = o /\ pc'[p] = 1 /\ o # "idle" /\ tries[p] = 0
      /\ UNCHANGED <<usageEntry, usage, tries, uses, outdated>>
      /\ \A q \in Procs \ {p} : op'[q] = op[q]
  BY <1>1, HandlerNames DEF Start, storage, history, TypeOK, RequestTypeOK, LedgerInv
<1>3. \A q \in Procs \ {p} : op'[q] = "idle" BY <1>2 DEF OneAtATime
<1>4. ~Current(o, Chain[o][1]) /\ ~Fresh(o, Chain[o][1])
  BY ChainsWellOrdered DEF WellOrdered, Current, Fresh
<1>5. ~Passed(Chain[o], 1) /\ ~PastCharge(Chain[o], 1) BY DEF Passed, PastCharge
<1>6. RequestInv(p)' BY <1>2, <1>4, <1>5 DEF RequestInv
<1>7. LedgerInv' BY <1>2, <1>3, <1>6 DEF LedgerInv
<1>8. AloneStill(p) BY <1>2, <1>3 DEF AloneStill
<1>9. ~Charged(p)' BY <1>2, <1>5 DEF Charged, PastCharge
<1>10. LimitsStay BY <1>2 DEF LimitsStay, SameLimits, StoredUsage
<1>11. uses \in Nat BY DEF TypeOK, HistoryTypeOK
<1> QED BY <1>2, <1>7, <1>8, <1>9, <1>10, <1>11, QuietStep DEF LedgerStep

\* Every step of the service is one of the ledger, or none.
LEMMA NextIsLedgerStep ==
    TypeOK /\ OneAtATime /\ OneAtATime' /\ LedgerInv /\ [Next]_vars => LedgerStep
<1> SUFFICES ASSUME TypeOK, OneAtATime, OneAtATime', LedgerInv, [Next]_vars
             PROVE  LedgerStep
  OBVIOUS
<1>1. ASSUME UNCHANGED <<op, pc, usage, tries, usageEntry, uses, outdated>>
      PROVE  LedgerStep
  <2>1. LedgerInv' BY <1>1 DEF LedgerInv, RequestInv, StoredUsage
  <2>2. UNCHANGED Ledger!account
    BY <1>1 DEF Ledger!account, granted, left, pending, made, Limited, StoredUsage, Charged
  <2> QED BY <2>1, <2>2 DEF LedgerStep
<1>2. CASE Tick BY <1>1, <1>2 DEF Tick, storage, request, history
<1>3. CASE Crash
  <2>1. PICK p \in Procs : op[p] # "idle" BY <1>3 DEF Crash
  <2>2. LimitsStay /\ outdated' \subseteq outdated /\ uses' = uses
    BY <1>3 DEF Crash, storage, history, LimitsStay, SameLimits, StoredUsage
  <2> QED BY <1>3, <2>1, <2>2, EndStep DEF Crash
<1>4. ASSUME NEW p \in Procs, Begin(p) PROVE LedgerStep BY <1>4, BeginStep
<1>5. ASSUME NEW p \in Procs, Step(p) PROVE LedgerStep
  BY <1>5, ReadSteps, AdministerSteps, ChargeStep, TokenSteps, FetchStep, UseSteps
  DEF Step, UseCredentials
<1>6. CASE UNCHANGED vars BY <1>1, <1>6 DEF vars, storage, request, history
<1> QED BY <1>2, <1>3, <1>4, <1>5, <1>6 DEF Next

\* The service starts where the ledger does.
LEMMA InitialAccount == Init => LedgerInv /\ Ledger!Init
<1> SUFFICES ASSUME Init PROVE LedgerInv /\ Ledger!Init OBVIOUS
<1>1. LedgerInv BY DEF Init, LedgerInv
<1>2. ~Limited BY DEF Init, Limited
<1> QED BY <1>1, <1>2 DEF Ledger!Init, granted, left, pending, made

\* As long as requests for the role do not overlap, however many slots there are
\* and wherever they fail, whatever the engine does is a step of the account.
THEOREM AloneImplementsLedger == Spec /\ []OneAtATime => ImplementsLedger
<1>1. LedgerStep => LedgerInv' /\ [Ledger!Next]_(Ledger!account) BY DEF LedgerStep
<1> QED
  BY <1>1, InitialAccount, NextIsLedgerStep, TypeCorrect, PTL
  DEF Spec, ImplementsLedger, Ledger!Spec

\* And so the credentials of a role granted a number of uses are used at most
\* that many times.
THEOREM AloneKeepsQuota == Spec /\ []OneAtATime => []QuotaRespected
BY AloneImplementsLedger, LedgerKeepsQuota, PTL

\* What a read of the role tells of a balanced account is so.
LEMMA BalancedReport ==
    ASSUME TypeOK, Ledger!AccountBalanced PROVE ReportsKeepPromise
<1> SUFFICES ASSUME usageEntry # Nil, keyEntry # Nil
             PROVE  LET report == renderRole(DecodeKeys(keyEntry), StoredUsage, now)
                    IN  /\ report.use_remaining # Unlimited =>
                              uses + report.use_remaining <= StoredUsage.ExplicitNumUses
                        /\ report.use_remaining # 0 /\ report.term_remaining # 0 =>
                              ~Depleted(StoredUsage) /\ ~Expired(StoredUsage, now)
  BY DEF ReportsKeepPromise
<1> DEFINE u == StoredUsage
           r == renderRole(DecodeKeys(keyEntry), u, now)
<1>1. u \in StoredRoleUsage /\ now \in Nat /\ uses \in Nat
  BY DEF TypeOK, StorageTypeOK, HistoryTypeOK, StoredUsage
<1>2. /\ u.ExplicitNumUses \in Int /\ u.RemainingNumUses \in Int /\ u.ExplicitTerm \in Int
  BY <1>1 DEF StoredRoleUsage
<1>3. /\ r.use_remaining = IF ~HasUsageQuota(u) THEN Unlimited
                           ELSE IF u.RemainingNumUses <= 0 THEN 0 ELSE u.RemainingNumUses
      /\ r.term_remaining = IF u.ExplicitTerm <= 0 THEN Unlimited
                            ELSE IF u.ExplicitTerm > now THEN u.ExplicitTerm - now ELSE 0
  BY DEF renderRole
<1>4. HasUsageQuota(u) =>
        u.RemainingNumUses >= 0 /\ uses + u.RemainingNumUses <= u.ExplicitNumUses
  <2> SUFFICES ASSUME HasUsageQuota(u)
               PROVE  u.RemainingNumUses >= 0 /\ uses + u.RemainingNumUses <= u.ExplicitNumUses
    OBVIOUS
  <2>1. Limited BY DEF Limited
  <2>2. granted = u.ExplicitNumUses /\ left = u.RemainingNumUses /\ made = uses
    BY <2>1 DEF granted, left, made
  <2>3. left \in Nat /\ pending \in Nat /\ made + pending + left <= granted
    BY DEF Ledger!AccountBalanced
  <2> QED BY <1>1, <1>2, <2>2, <2>3
<1> HIDE DEF u, r
<1>5. r.use_remaining # Unlimited => uses + r.use_remaining <= u.ExplicitNumUses
  BY <1>1, <1>2, <1>3, <1>4
<1>6. r.use_remaining # 0 => ~Depleted(u)
  BY <1>2, <1>3 DEF Depleted, HasUsageQuota, Unlimited
<1>7. r.term_remaining # 0 => ~Expired(u, now)
  BY <1>1, <1>2, <1>3 DEF Expired, AfterExpiryTerm
<1> QED BY <1>5, <1>6, <1>7 DEF r, u

\* A read of the role tells no more uses than are left, counting those made, and
\* no use or time left where the next request would be refused.
THEOREM AloneReportsTruly == Spec /\ []OneAtATime => []ReportsKeepPromise
<1>1. ImplementsLedger => []Ledger!AccountBalanced
  BY QuotasAreNumbers, Ledger!Balanced DEF ImplementsLedger
<1> QED BY <1>1, BalancedReport, AloneImplementsLedger, TypeCorrect, PTL
=============================================================================
