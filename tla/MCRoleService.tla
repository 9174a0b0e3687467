--------------------------- MODULE MCRoleService ---------------------------
(***************************************************************************)
(* Values of RoleService's constants for TLC.                              *)
(***************************************************************************)
EXTENDS RoleService, TLC

MCText == {"", "a", "b"}

\* A role write that supplies everything for V2 and V3, and a partial one that
\* replaces the password and asks for an unlimited rate.
FullWrite ==
    [AreaId |-> "a", AreaNid |-> 1, ApiKey |-> "a", KeySecret |-> "a",
     Username |-> "a", Password |-> "a"]
PasswordWrite == [Password |-> "b", MaxQPS |-> 0]

\* A new user name, for an update that omits the password.
UsernameWrite == [Username |-> "b"]
RacingWrites == {FullWrite, PasswordWrite, UsernameWrite}

OneWrite == {FullWrite}
MCWrites == {FullWrite, PasswordWrite}

OriginKeys == [Overlay(FullWrite, InitialKeys) EXCEPT !.Password = "b"]

Plain ==
    [desiredTerm |-> 0, desiredNumUses |-> -1, desiredQps |-> -1,
     desiredForceProxyMode |-> FALSE, desiredOnlyV2 |-> FALSE,
     desiredOnlyV3 |-> FALSE, desireExportable |-> FALSE]

Export(s) == renderEncryptedRoleData(OriginKeys, s, 0)

\* Exports bounded by uses, by term, by both, in proxy mode; and exchange data
\* without a usage term.
TwoUses == Export([Plain EXCEPT !.desiredNumUses = 2])
OneUse == Export([Plain EXCEPT !.desiredNumUses = 1])
ShortTerm == Export([Plain EXCEPT !.desiredTerm = 2, !.desiredOnlyV2 = TRUE])
TermAndUse ==
    Export([Plain EXCEPT !.desiredTerm = 1, !.desiredNumUses = 1, !.desiredQps = 3,
                         !.desiredForceProxyMode = TRUE])
NoTerm == [TwoUses EXCEPT !.UsageTerm = Nil]

SerialImports == {TwoUses, ShortTerm, TermAndUse, NoTerm}
ConcurrentImports == {OneUse, ShortTerm}
QuotaImports == {OneUse}

SkewSet == {-1, 0}

\* The operations that read, change and write back the usage entry, run
\* against each other.
RacingOps == {"write", "delete", "import", "deleteToken", "token"}
Slots == Permutations(Procs)

\* The operations that obtain, use, replace and drop the stored token.
TokenOps == {"write", "deleteToken", "token", "v3write"}

QuotaOps == {"write", "pem", "import", "grant2"}
UpdateOps == {"write"}
CredentialOps == {"write", "v3"}
=============================================================================
