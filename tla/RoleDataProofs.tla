--------------------------- MODULE RoleDataProofs ---------------------------
(***************************************************************************)
(* Lemmas about the data of a role, for any texts, numbers and times: that *)
(* the operations keep it well-formed, and what the storage makes of it.   *)
(***************************************************************************)
EXTENDS RoleData, TLAPS

\* readRole starts from a well-formed role.
LEMMA InitialRoleTyped == InitialKeys \in RoleKeys /\ InitialUsage \in StoredRoleUsage
<1>1. InitialKeys \in RoleKeys
  <2>1. "" \in Text BY TextAssumption, Zenon
  <2>2. 0 \in Int /\ 2 \in Int OBVIOUS
  <2>3. TRUE \in BOOLEAN /\ FALSE \in BOOLEAN OBVIOUS
  <2> QED BY <2>1, <2>2, <2>3, Zenon DEF InitialKeys, RoleKeys, defaultQPSValue
<1>2. InitialUsage \in StoredRoleUsage
  BY DEF InitialUsage, ZeroUsage, StoredRoleUsage, V3Tokens
<1> QED BY <1>1, <1>2

UsageFields ==
    {"V3Token", "V3TokenExpiry", "V3TokenObtained",
     "ExplicitNumUses", "RemainingNumUses", "ExplicitTerm"}

KeyFields ==
    {"AreaId", "AreaNid", "ApiKey", "KeySecret", "Username", "Password",
     "MaxQPS", "ForceProxyMode", "Imported", "Exportable"}

\* A usage entry reads back as it was written (Persist and Read of the usage).
LEMMA UsageRoundTrip ==
    ASSUME NEW u \in StoredRoleUsage PROVE DecodeUsage(EncodeUsage(u)) = u
<1>1. DOMAIN u = UsageFields BY DEF StoredRoleUsage, UsageFields
<1>2. DOMAIN ZeroUsage = UsageFields BY DEF ZeroUsage, UsageFields
<1>3. DecodeUsage(EncodeUsage(u)) = [f \in UsageFields |-> u[f]]
  BY <1>1, <1>2 DEF DecodeUsage, EncodeUsage, Encode, Overlay, InitialUsage
<1>4. u = [f \in UsageFields |-> u[f]] BY <1>1 DEF StoredRoleUsage, UsageFields
<1> QED BY <1>3, <1>4

\* What is stored is something: an entry written is there to the next read.
LEMMA UsageEntryIsThere == ASSUME NEW u \in StoredRoleUsage PROVE EncodeUsage(u) # Nil
<1> DEFINE e == EncodeUsage(u)
           F == {g \in UsageFields : g \in UsageOmitEmpty => u[g] # ZeroUsage[g]}
<1>1. DOMAIN u = UsageFields BY DEF StoredRoleUsage, UsageFields
<1>2. e = [f \in F |-> u[f]] BY <1>1 DEF EncodeUsage, Encode
<1>3. \A f \in UsageFields : u[f] \in Text \cup Int \cup BOOLEAN \cup V3Tokens
  BY DEF UsageFields, StoredRoleUsage
<1>4. e \in [F -> Text \cup Int \cup BOOLEAN \cup V3Tokens] BY <1>2, <1>3
<1>5. F \in SUBSET DOMAIN ZeroUsage BY DEF UsageFields, ZeroUsage
<1> HIDE DEF e, F
<1>6. F \in (SUBSET DOMAIN ZeroKeys) \cup (SUBSET DOMAIN ZeroUsage) BY <1>5
<1>7. e # Nil BY <1>4, <1>6, NilAssumption, Zenon
<1> QED BY <1>7 DEF e

\* Keys that are stored leave an entry behind.
LEMMA KeyEntryIsThere == ASSUME NEW k \in RoleKeys PROVE EncodeKeys(k) # Nil
<1> DEFINE e == EncodeKeys(k)
           F == {g \in KeyFields : g \in KeysOmitEmpty => k[g] # ZeroKeys[g]}
<1>1. DOMAIN k = KeyFields BY DEF RoleKeys, KeyFields
<1>2. e = [f \in F |-> k[f]] BY <1>1 DEF EncodeKeys, Encode
<1>3. \A f \in KeyFields : k[f] \in Text \cup Int \cup BOOLEAN \cup V3Tokens
  BY DEF KeyFields, RoleKeys
<1>4. e \in [F -> Text \cup Int \cup BOOLEAN \cup V3Tokens] BY <1>2, <1>3
<1>5. F \in SUBSET DOMAIN ZeroKeys BY DEF KeyFields, ZeroKeys
<1> HIDE DEF e, F
<1>6. F \in (SUBSET DOMAIN ZeroKeys) \cup (SUBSET DOMAIN ZeroUsage) BY <1>5
<1>7. e # Nil BY <1>4, <1>6, NilAssumption, Zenon
<1> QED BY <1>7 DEF e

\* An overlay of well-typed fields over well-formed keys is well-formed.
LEMMA OverlayTyped ==
    ASSUME NEW k \in RoleKeys, NEW entry,
           \A f \in KeyFields \cap DOMAIN entry : \E j \in RoleKeys : entry[f] = j[f]
    PROVE  Overlay(entry, k) \in RoleKeys
<1> DEFINE d == Overlay(entry, k)
<1>1. DOMAIN k = KeyFields BY DEF RoleKeys, KeyFields
<1>2. d = [f \in KeyFields |-> IF f \in DOMAIN entry THEN entry[f] ELSE k[f]]
  BY <1>1 DEF Overlay
<1>3. \A f \in KeyFields : \E j \in RoleKeys : d[f] = j[f] BY <1>2
<1>4. d = [AreaId |-> d.AreaId, AreaNid |-> d.AreaNid, ApiKey |-> d.ApiKey,
           KeySecret |-> d.KeySecret, Username |-> d.Username,
           Password |-> d.Password, MaxQPS |-> d.MaxQPS,
           ForceProxyMode |-> d.ForceProxyMode, Imported |-> d.Imported,
           Exportable |-> d.Exportable]
  BY <1>2 DEF KeyFields
<1>5. /\ d.AreaId \in Text /\ d.ApiKey \in Text /\ d.KeySecret \in Text
      /\ d.Username \in Text /\ d.Password \in Text
      /\ d.AreaNid \in Int /\ d.MaxQPS \in Int
  BY <1>3 DEF RoleKeys, KeyFields
<1>6. /\ d.ForceProxyMode \in BOOLEAN /\ d.Imported \in BOOLEAN
      /\ d.Exportable \in BOOLEAN
  BY <1>3 DEF RoleKeys, KeyFields
<1> HIDE DEF d
<1>7. d \in RoleKeys BY <1>4, <1>5, <1>6 DEF RoleKeys
<1> QED BY <1>7 DEF d

\* A key entry reads back as well-formed keys.
LEMMA KeysDecodeTyped ==
    ASSUME NEW k \in RoleKeys PROVE DecodeKeys(EncodeKeys(k)) \in RoleKeys
<1>1. \A f \in DOMAIN EncodeKeys(k) : EncodeKeys(k)[f] = k[f]
  BY DEF EncodeKeys, Encode
<1> QED BY <1>1, OverlayTyped, InitialRoleTyped DEF DecodeKeys

\* A role write leaves well-formed keys.
LEMMA OverlaidTyped ==
    ASSUME NEW k \in RoleKeys, NEW w, Overlay(w, InitialKeys) \in RoleKeys
    PROVE  updateRoleKeysFromRequest(k, w) \in RoleKeys
<1>1. DOMAIN InitialKeys = KeyFields BY DEF InitialKeys, KeyFields
<1>2. \A f \in KeyFields \cap DOMAIN w : w[f] = Overlay(w, InitialKeys)[f]
  BY <1>1 DEF Overlay
<1> QED BY <1>2, OverlayTyped DEF updateRoleKeysFromRequest

\* The transformers that change the usage on the heap keep it well-formed.
LEMMA UsageOpsTyped ==
    ASSUME NEW u \in StoredRoleUsage
    PROVE  /\ ReduceRemainingQuota(u) \in StoredRoleUsage
           /\ UnboundedUsage(u) \in StoredRoleUsage
           /\ ResetToken(u) \in StoredRoleUsage
<1>1. ReduceRemainingQuota(u) \in StoredRoleUsage
  BY DEF ReduceRemainingQuota, StoredRoleUsage
<1>2. -1 \in Int OBVIOUS
<1>3. UnboundedUsage(u) \in StoredRoleUsage
  BY <1>2 DEF UnboundedUsage, StoredRoleUsage
<1>4. ResetToken(u) \in StoredRoleUsage
  BY <1>2 DEF ResetToken, StoredRoleUsage, V3Tokens
<1> QED BY <1>1, <1>3, <1>4

\* A new token, obtained for the keys on the heap, leaves the usage well-formed.
LEMMA ReplaceTyped ==
    ASSUME NEW u \in StoredRoleUsage, NEW k \in RoleKeys, NEW e \in Int, NEW t \in Int
    PROVE  ReplaceAccessToken(u, asV3Credentials(k), e, t) \in StoredRoleUsage
<1>1. asV3Credentials(k) \in V3Tokens
  BY DEF asV3Credentials, V3Tokens, MasheryV3Credentials, RoleKeys
<1> QED BY <1>1 DEF ReplaceAccessToken, StoredRoleUsage

\* An import leaves a well-formed role.
LEMMA ImportedTyped ==
    ASSUME NEW u \in StoredRoleUsage, NEW x \in RoleDataExchange
    PROVE  ImportKeys(x) \in RoleKeys /\ ImportUsage(u, x) \in StoredRoleUsage
<1>1. ImportKeys(x) \in RoleKeys BY DEF ImportKeys, RoleDataExchange, RoleKeys
<1>2. CASE x.UsageTerm = Nil BY <1>2, <1>1, UsageOpsTyped DEF ImportUsage
<1>3. CASE x.UsageTerm # Nil
  <2>1. x.UsageTerm \in RoleUsageTerm BY <1>3 DEF RoleDataExchange
  <2> QED BY <2>1, <1>1, <1>3 DEF ImportUsage, RoleUsageTerm, StoredRoleUsage
<1> QED BY <1>2, <1>3

\* What a key entry written for k reads back as: k, but for an unlimited rate,
\* which is left out and read as the default (MaxQPS, omitempty).
LEMMA KeysReadBack ==
    ASSUME NEW k \in RoleKeys
    PROVE  /\ DecodeKeys(EncodeKeys(k)).MaxQPS # 0
           /\ \A f \in RequestFields :
                 (f = "MaxQPS" /\ k.MaxQPS = 0) \/ DecodeKeys(EncodeKeys(k))[f] = k[f]
<1>1. DOMAIN k = KeyFields /\ DOMAIN InitialKeys = KeyFields
  BY DEF RoleKeys, InitialKeys, KeyFields
<1> DEFINE e == EncodeKeys(k)
<1>2. /\ \A f \in KeyFields : f \in DOMAIN e <=> (f \in KeysOmitEmpty => k[f] # ZeroKeys[f])
      /\ \A f \in DOMAIN e : e[f] = k[f]
  BY <1>1 DEF EncodeKeys, Encode
<1> HIDE DEF e
<1>3. \A f \in KeyFields :
         DecodeKeys(e)[f] = IF f \in DOMAIN e THEN e[f] ELSE InitialKeys[f]
  BY <1>1 DEF DecodeKeys, Overlay
<1>4. DecodeKeys(e).MaxQPS # 0
  <2>1. ZeroKeys["MaxQPS"] = 0 /\ InitialKeys["MaxQPS"] # 0
    BY DEF ZeroKeys, InitialKeys, defaultQPSValue
  <2>2. "MaxQPS" \in KeyFields /\ "MaxQPS" \in KeysOmitEmpty
    BY DEF KeyFields, KeysOmitEmpty
  <2> QED BY <1>2, <1>3, <2>1, <2>2
<1>5. ASSUME NEW f \in RequestFields, ~(f = "MaxQPS" /\ k.MaxQPS = 0)
      PROVE  DecodeKeys(e)[f] = k[f]
  <2>1. f \in KeyFields BY DEF RequestFields, KeyFields
  <2>2. CASE f \in DOMAIN e BY <1>2, <1>3, <2>1, <2>2
  <2>3. CASE f \notin DOMAIN e
    <3>1. k[f] = ZeroKeys[f] /\ DecodeKeys(e)[f] = InitialKeys[f]
      BY <1>2, <1>3, <2>1, <2>3
    <3>2. ZeroKeys["MaxQPS"] = 0 BY DEF ZeroKeys
    <3>3. f # "MaxQPS" BY <1>5, <3>1, <3>2
    <3>4. /\ InitialKeys["AreaId"] = ZeroKeys["AreaId"]
          /\ InitialKeys["ApiKey"] = ZeroKeys["ApiKey"]
          /\ InitialKeys["KeySecret"] = ZeroKeys["KeySecret"]
          /\ InitialKeys["Username"] = ZeroKeys["Username"]
          /\ InitialKeys["Password"] = ZeroKeys["Password"]
          /\ InitialKeys["AreaNid"] = ZeroKeys["AreaNid"]
      BY DEF InitialKeys, ZeroKeys
    <3>5. InitialKeys[f] = ZeroKeys[f] BY <3>3, <3>4 DEF RequestFields
    <3> QED BY <3>1, <3>5
  <2> QED BY <2>2, <2>3
<1> QED BY <1>4, <1>5 DEF e

\* What an import stored reads back with its flags as they were.
LEMMA FlagsReadBack ==
    ASSUME NEW k \in RoleKeys
    PROVE  /\ DecodeKeys(EncodeKeys(k)).Imported = k.Imported
           /\ DecodeKeys(EncodeKeys(k)).Exportable = k.Exportable
<1>1. DOMAIN k = KeyFields /\ DOMAIN InitialKeys = KeyFields
  BY DEF RoleKeys, InitialKeys, KeyFields
<1>2. ASSUME NEW f \in {"Imported", "Exportable"} PROVE DecodeKeys(EncodeKeys(k))[f] = k[f]
  BY <1>1 DEF DecodeKeys, Overlay, EncodeKeys, Encode, KeysOmitEmpty, KeyFields
<1> QED BY <1>2

\* What an export holds is well-formed, as it was asked for, and narrower than
\* the keys of the exporting role.
LEMMA RenderFacts ==
    ASSUME NEW k \in RoleKeys, NEW s \in DesiredRoleExport, NEW t \in Int
    PROVE  LET x == renderEncryptedRoleData(k, s, t)
               d == x.RoleData
               u == x.UsageTerm
           IN  /\ x \in RoleDataExchange /\ u \in RoleUsageTerm
               /\ d.Exportable = s.desireExportable
               /\ \A f \in {"AreaId", "Username", "Password"} : d[f] \in {"", k[f]}
               /\ d.AreaNid \in {0, k.AreaNid}
               /\ d.ApiKey = k.ApiKey /\ d.KeySecret = k.KeySecret
               /\ u.ExplicitNumUses = IF s.desiredNumUses > 0 THEN s.desiredNumUses ELSE 0
               /\ u.ExplicitTerm = IF s.desiredTerm # 0 THEN t + s.desiredTerm ELSE 0
<1> DEFINE x == renderEncryptedRoleData(k, s, t)
           exp == CreateRoleDataExchange(k, s.desiredTerm, t)
           r == exp.RoleData
           d == x.RoleData
           u == x.UsageTerm
<1>1. /\ d = [r EXCEPT !.ForceProxyMode = s.desiredForceProxyMode,
                       !.Exportable = s.desireExportable,
                       !.MaxQPS = IF s.desiredQps > 0 THEN s.desiredQps ELSE @,
                       !.AreaId = IF s.desiredOnlyV2 THEN "" ELSE @,
                       !.Username = IF s.desiredOnlyV2 THEN "" ELSE @,
                       !.Password = IF s.desiredOnlyV2 THEN "" ELSE @,
                       !.AreaNid = IF s.desiredOnlyV3 THEN 0 ELSE @]
      /\ x = [RoleData |-> d, UsageTerm |-> u]
  BY DEF renderEncryptedRoleData
<1>2. r = [k EXCEPT !.ForceProxyMode = FALSE, !.Imported = FALSE, !.Exportable = FALSE]
  BY DEF CreateRoleDataExchange
<1>3. u = [ExplicitTerm |-> IF s.desiredTerm # 0 THEN t + s.desiredTerm ELSE 0,
           ExplicitNumUses |-> IF s.desiredNumUses > 0 THEN s.desiredNumUses ELSE 0]
  <2>1. x.UsageTerm = [exp.UsageTerm EXCEPT
                         !.ExplicitNumUses =
                            IF s.desiredNumUses > 0 THEN s.desiredNumUses ELSE @]
    BY DEF renderEncryptedRoleData
  <2>2. exp.UsageTerm =
          [ExplicitTerm |-> IF s.desiredTerm # 0 THEN t + s.desiredTerm ELSE 0,
           ExplicitNumUses |-> 0]
    BY DEF CreateRoleDataExchange
  <2> HIDE DEF exp
  <2> QED BY <2>1, <2>2
<1> HIDE DEF x, exp, d, u, r
<1>4. u \in RoleUsageTerm
  <2>1. /\ (IF s.desiredTerm # 0 THEN t + s.desiredTerm ELSE 0) \in Int
        /\ (IF s.desiredNumUses > 0 THEN s.desiredNumUses ELSE 0) \in Int
    BY DEF DesiredRoleExport
  <2> QED BY <1>3, <2>1, Zenon DEF RoleUsageTerm
<1>5. /\ r \in RoleKeys
      /\ \A f \in KeyFields \ {"ForceProxyMode", "Imported", "Exportable"} : r[f] = k[f]
  BY <1>2 DEF RoleKeys, KeyFields
<1>6. d \in RoleKeys
  <2> DEFINE q == IF s.desiredQps > 0 THEN s.desiredQps ELSE r.MaxQPS
             n == IF s.desiredOnlyV3 THEN 0 ELSE r.AreaNid
             a == IF s.desiredOnlyV2 THEN "" ELSE r.AreaId
             b == IF s.desiredOnlyV2 THEN "" ELSE r.Username
             c == IF s.desiredOnlyV2 THEN "" ELSE r.Password
             v == s.desiredForceProxyMode
             w == s.desireExportable
  <2>1. q \in Int /\ n \in Int BY <1>5 DEF RoleKeys, DesiredRoleExport
  <2>2. a \in Text /\ b \in Text /\ c \in Text BY <1>5, TextAssumption DEF RoleKeys
  <2>3. v \in BOOLEAN /\ w \in BOOLEAN BY DEF DesiredRoleExport
  <2>4. d = [r EXCEPT !.ForceProxyMode = v, !.Exportable = w, !.MaxQPS = q, !.AreaId = a,
                      !.Username = b, !.Password = c, !.AreaNid = n]
    BY <1>1, <1>5 DEF RoleKeys
  <2> HIDE DEF q, n, a, b, c, v, w
  <2> QED BY <1>5, <2>1, <2>2, <2>3, <2>4 DEF RoleKeys
<1>7. x \in RoleDataExchange BY <1>1, <1>4, <1>6 DEF RoleDataExchange
<1>8. d.Exportable = s.desireExportable BY <1>1, <1>5 DEF RoleKeys
<1>9. /\ d.ApiKey = k.ApiKey /\ d.KeySecret = k.KeySecret
      /\ d.AreaNid \in {0, k.AreaNid}
      /\ d["AreaId"] \in {"", k["AreaId"]}
      /\ d["Username"] \in {"", k["Username"]}
      /\ d["Password"] \in {"", k["Password"]}
  BY <1>1, <1>5 DEF RoleKeys, KeyFields
<1>10. /\ u.ExplicitNumUses = IF s.desiredNumUses > 0 THEN s.desiredNumUses ELSE 0
       /\ u.ExplicitTerm = IF s.desiredTerm # 0 THEN t + s.desiredTerm ELSE 0
  BY <1>3
<1> QED BY <1>4, <1>7, <1>8, <1>9, <1>10 DEF x, d, u

\* The limits of an export are there: the pointer to them is not nil.
LEMMA TermIsThere == ASSUME NEW u \in RoleUsageTerm PROVE u # Nil
<1> DEFINE F == {"ExplicitTerm", "ExplicitNumUses"}
<1>1. u \in [F -> Text \cup Int \cup BOOLEAN \cup V3Tokens]
  <2>1. u = [ExplicitTerm |-> u.ExplicitTerm, ExplicitNumUses |-> u.ExplicitNumUses]
        /\ u.ExplicitTerm \in Int /\ u.ExplicitNumUses \in Int
    BY DEF RoleUsageTerm
  <2>2. DOMAIN u = F /\ u = [f \in F |-> u[f]] BY <2>1
  <2>3. \A f \in F : u[f] \in Int BY <2>1
  <2> QED BY <2>2, <2>3
<1>2. F \in SUBSET DOMAIN ZeroUsage BY DEF ZeroUsage
<1> HIDE DEF F
<1>3. F \in (SUBSET DOMAIN ZeroKeys) \cup (SUBSET DOMAIN ZeroUsage) BY <1>2
<1> QED BY <1>1, <1>3, NilAssumption, Zenon

\* An import of limited keys puts the limits of the export in the place of the
\* role's own, and starts the count anew.
LEMMA ImportedLimits ==
    ASSUME NEW u \in StoredRoleUsage, NEW x \in RoleDataExchange, x.UsageTerm \in RoleUsageTerm
    PROVE  LET v == ImportUsage(u, x)
               n == x.UsageTerm.ExplicitNumUses
           IN  /\ v.ExplicitTerm = x.UsageTerm.ExplicitTerm
               /\ v.ExplicitNumUses = n
               /\ n > 0 => v.RemainingNumUses = n
<1> DEFINE n == x.UsageTerm.ExplicitNumUses
           t == x.UsageTerm.ExplicitTerm
<1>1. x.UsageTerm # Nil BY TermIsThere
<1>2. ImportUsage(u, x) = [u EXCEPT !.ExplicitTerm = t, !.ExplicitNumUses = n,
                                    !.RemainingNumUses = IF n > 0 THEN n ELSE u.RemainingNumUses]
  BY <1>1 DEF ImportUsage
<1> HIDE DEF n, t
<1>3. /\ ImportUsage(u, x).ExplicitTerm = t /\ ImportUsage(u, x).ExplicitNumUses = n
      /\ n > 0 => ImportUsage(u, x).RemainingNumUses = n
  BY <1>2 DEF StoredRoleUsage
<1> QED BY <1>3 DEF n, t
=============================================================================
