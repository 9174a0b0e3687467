------------------------------ MODULE RoleData ------------------------------
(***************************************************************************)
(* The data a role is made of and the pure operations on it                *)
(* (src/mashery/data_structs.go), with the JSON form in which the storage  *)
(* keeps it.  Times are instants of one integer clock, passed in where the *)
(* code calls time.Now().                                                  *)
(***************************************************************************)
EXTENDS Integers

CONSTANTS
    Text,         \* the string values a field can hold; "" is the empty one
    RenewMargin,  \* how long before its expiry a token is replaced (300 s)
    Nil           \* no value: an absent storage entry, no token, a nil pointer

ASSUME TextAssumption == "" \in Text
ASSUME RenewMarginAssumption == RenewMargin \in Nat

(***************************************************************************)
(* Types.                                                                  *)
(***************************************************************************)
RoleKeys ==
    [AreaId : Text, AreaNid : Int, ApiKey : Text, KeySecret : Text,
     Username : Text, Password : Text, MaxQPS : Int,
     ForceProxyMode : BOOLEAN, Imported : BOOLEAN, Exportable : BOOLEAN]

MasheryV3Credentials ==
    [AreaId : Text, ApiKey : Text, Secret : Text, Username : Text, Password : Text]

\* An access token is represented by the credentials Mashery issued it for.
V3Tokens == MasheryV3Credentials \cup {Nil}

StoredRoleUsage ==
    [V3Token : V3Tokens, V3TokenExpiry : Int, V3TokenObtained : Int,
     ExplicitNumUses : Int, RemainingNumUses : Int, ExplicitTerm : Int]

RoleUsageTerm == [ExplicitTerm : Int, ExplicitNumUses : Int]

RoleDataExchange == [RoleData : RoleKeys, UsageTerm : RoleUsageTerm \cup {Nil}]

(***************************************************************************)
(* Zero values of the structs, and the role readRole starts from.          *)
(***************************************************************************)
ZeroKeys ==
    [AreaId |-> "", AreaNid |-> 0, ApiKey |-> "", KeySecret |-> "",
     Username |-> "", Password |-> "", MaxQPS |-> 0,
     ForceProxyMode |-> FALSE, Imported |-> FALSE, Exportable |-> FALSE]

ZeroUsage ==
    [V3Token |-> Nil, V3TokenExpiry |-> 0, V3TokenObtained |-> 0,
     ExplicitNumUses |-> 0, RemainingNumUses |-> 0, ExplicitTerm |-> 0]

defaultQPSValue == 2

InitialKeys ==
    [AreaId |-> "", AreaNid |-> 0, ApiKey |-> "", KeySecret |-> "",
     Username |-> "", Password |-> "", MaxQPS |-> defaultQPSValue,
     ForceProxyMode |-> FALSE, Imported |-> FALSE, Exportable |-> TRUE]

InitialUsage == ZeroUsage

\* No value is taken for something stored or issued: not for credentials, and
\* not for an entry of fields of either struct.
ASSUME NilAssumption ==
    /\ Nil \notin MasheryV3Credentials
    /\ \A F \in (SUBSET DOMAIN ZeroKeys) \cup (SUBSET DOMAIN ZeroUsage) :
          Nil \notin [F -> Text \cup Int \cup BOOLEAN \cup V3Tokens]

(***************************************************************************)
(* JSON.  A field tagged omitempty is left out when it holds the zero      *)
(* value; decoding assigns the fields that are present and leaves the      *)
(* others as the receiver had them.                                        *)
(***************************************************************************)
Overlay(entry, base) ==
    [f \in DOMAIN base |-> IF f \in DOMAIN entry THEN entry[f] ELSE base[f]]

Encode(v, zero, omitempty) ==
    [f \in {g \in DOMAIN v : g \in omitempty => v[g] # zero[g]} |-> v[f]]

\* Slip: Exportable, which a new role has, is left out where it is withheld.
OmitExportable ==
    {"AreaId", "AreaNid", "ApiKey", "KeySecret", "Username", "Password",
     "MaxQPS", "ForceProxyMode", "Exportable"}

KeysOmitEmpty ==
    {"AreaId", "AreaNid", "ApiKey", "KeySecret", "Username", "Password",
     "MaxQPS", "ForceProxyMode"}

UsageOmitEmpty == {"ExplicitNumUses", "ExplicitTerm"}

EncodeKeys(k) == Encode(k, ZeroKeys, KeysOmitEmpty)
DecodeKeys(entry) == Overlay(entry, InitialKeys)

EncodeUsage(u) == Encode(u, ZeroUsage, UsageOmitEmpty)
DecodeUsage(entry) == Overlay(entry, InitialUsage)

(***************************************************************************)
(* Keys.                                                                   *)
(***************************************************************************)
SuppliesKeyAndSecret(k) == k.ApiKey # "" /\ k.KeySecret # ""

IsV2Capable(k) == k.AreaNid > 0 /\ SuppliesKeyAndSecret(k)

IsV3Capable(k) ==
    /\ k.AreaId # ""
    /\ SuppliesKeyAndSecret(k)
    /\ k.Username # "" /\ k.Password # ""

asV3Credentials(k) ==
    [AreaId |-> k.AreaId, ApiKey |-> k.ApiKey, Secret |-> k.KeySecret,
     Username |-> k.Username, Password |-> k.Password]

\* The fields a write request may supply; each may be left out.
RequestFields ==
    {"AreaId", "AreaNid", "ApiKey", "KeySecret", "Username", "Password", "MaxQPS"}

\* Slip: an update starts from a new role.
UpdateFromNew(k, data) == Overlay(data, InitialKeys)

updateRoleKeysFromRequest(k, data) == Overlay(data, k)

(***************************************************************************)
(* Usage: the quota, the term and the token.                               *)
(***************************************************************************)
HasUsageQuota(u) == u.ExplicitNumUses > 0

ReduceRemainingQuota(u) ==
    [u EXCEPT !.RemainingNumUses = IF @ > 0 THEN @ - 1 ELSE @]

\* Slip: the last use is granted once too often.
DepletedBelowZero(u) == u.ExplicitNumUses > 0 /\ u.RemainingNumUses < 0

Depleted(u) == u.ExplicitNumUses > 0 /\ u.RemainingNumUses <= 0

\* Slip: the margin that renews a token early lets a term end late.
AfterTermAndMargin(u, t) == u.ExplicitTerm > 0 /\ t > u.ExplicitTerm + RenewMargin

AfterExpiryTerm(u, t) == u.ExplicitTerm > 0 /\ t > u.ExplicitTerm

Expired(u, t) == AfterExpiryTerm(u, t)

UnboundedUsage(u) ==
    [u EXCEPT !.ExplicitNumUses = -1, !.ExplicitTerm = -1, !.RemainingNumUses = -1]

ResetToken(u) ==
    [u EXCEPT !.V3Token = Nil, !.V3TokenExpiry = -1, !.V3TokenObtained = -1]

ReplaceAccessToken(u, token, expiry, t) ==
    [u EXCEPT !.V3Token = token, !.V3TokenExpiry = expiry, !.V3TokenObtained = t]

V3TokenNeedsRenew(u, t) == u.V3Token = Nil \/ t > u.V3TokenExpiry - RenewMargin

\* What a read of the role answers of its limits, its token and what it serves
\* for: the uses and the time left, 0 where it says depleted or expired.
Unlimited == -1

renderRole(k, u, t) ==
    [v2_capable |-> IsV2Capable(k), v3_capable |-> IsV3Capable(k),
     term_remaining |-> IF u.ExplicitTerm <= 0 THEN Unlimited
                        ELSE IF u.ExplicitTerm > t THEN u.ExplicitTerm - t ELSE 0,
     use_remaining |-> IF ~HasUsageQuota(u) THEN Unlimited
                       ELSE IF u.RemainingNumUses <= 0 THEN 0 ELSE u.RemainingNumUses,
     v3_token |-> IF u.V3Token = Nil THEN "NOT-SET"
                  ELSE IF u.V3TokenExpiry > 0 /\ t > u.V3TokenExpiry THEN "EXPIRED"
                  ELSE IF V3TokenNeedsRenew(u, t) THEN "NEEDS-RENEW" ELSE "ACQUIRED"]

(***************************************************************************)
(* Exchange.  An export carries the keys, narrowed as the exporting        *)
(* administrator asks (s), with a term and a number of uses; an import     *)
(* overwrites every key of the receiving role and its limits.              *)
(***************************************************************************)
CreateRoleDataExchange(k, term, t) ==
    [RoleData |-> [k EXCEPT !.ForceProxyMode = FALSE, !.Imported = FALSE,
                            !.Exportable = FALSE],
     UsageTerm |-> [ExplicitTerm |-> IF term # 0 THEN t + term ELSE 0,
                    ExplicitNumUses |-> 0]]

DesiredRoleExport ==
    [desiredTerm : Int, desiredNumUses : Int, desiredQps : Int,
     desiredForceProxyMode : BOOLEAN, desiredOnlyV2 : BOOLEAN,
     desiredOnlyV3 : BOOLEAN, desireExportable : BOOLEAN]

renderEncryptedRoleData(k, s, t) ==
    LET exp == CreateRoleDataExchange(k, s.desiredTerm, t)
    IN  [RoleData |->
            [exp.RoleData EXCEPT
               !.ForceProxyMode = s.desiredForceProxyMode,
               !.Exportable = s.desireExportable,
               !.MaxQPS = IF s.desiredQps > 0 THEN s.desiredQps ELSE @,
               !.AreaId = IF s.desiredOnlyV2 THEN "" ELSE @,
               !.Username = IF s.desiredOnlyV2 THEN "" ELSE @,
               !.Password = IF s.desiredOnlyV2 THEN "" ELSE @,
               !.AreaNid = IF s.desiredOnlyV3 THEN 0 ELSE @],
         UsageTerm |->
            [exp.UsageTerm EXCEPT
               !.ExplicitNumUses = IF s.desiredNumUses > 0 THEN s.desiredNumUses ELSE @]]

ImportKeys(x) == [x.RoleData EXCEPT !.Imported = TRUE]

\* Slip: an import without a term leaves the term of the previous grant.
ImportUsageKeepingTerm(u, x) ==
    IF x.UsageTerm = Nil THEN UnboundedUsage(u)
    ELSE LET n == x.UsageTerm.ExplicitNumUses
         IN  [u EXCEPT !.ExplicitTerm = IF x.UsageTerm.ExplicitTerm > 0
                                        THEN x.UsageTerm.ExplicitTerm ELSE @,
                       !.ExplicitNumUses = n,
                       !.RemainingNumUses = IF n > 0 THEN n ELSE @]

ImportUsage(u, x) ==
    IF x.UsageTerm = Nil THEN UnboundedUsage(u)
    ELSE LET n == x.UsageTerm.ExplicitNumUses
         IN  [u EXCEPT !.ExplicitTerm = x.UsageTerm.ExplicitTerm,
                       !.ExplicitNumUses = n,
                       !.RemainingNumUses = IF n > 0 THEN n ELSE @]
=============================================================================
