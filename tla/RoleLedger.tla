----------------------------- MODULE RoleLedger -----------------------------
(***************************************************************************)
(* The role's account (QuotaLedger) as RoleService keeps it: what is       *)
(* granted and left is in the usage entry, what is charged is where the    *)
(* requests are in their chains.                                           *)
(***************************************************************************)
EXTENDS RoleService

Limited == usageEntry # Nil /\ HasUsageQuota(StoredUsage)

\* Request p is past the charge for a use it has not made; the fetch loop makes
\* it with its first attempt.
Charged(p) ==
    /\ op[p] # "idle"
    /\ \E i \in 1..(pc[p] - 1) : Chain[op[p]][i] = "charge"
    /\ tries[p] = 0
    /\ p \notin outdated

granted == IF Limited THEN StoredUsage.ExplicitNumUses ELSE 0
left == IF Limited THEN StoredUsage.RemainingNumUses ELSE 0
pending == IF Limited THEN Cardinality({p \in Procs : Charged(p)}) ELSE 0
made == IF Limited THEN uses ELSE 0

Quotas ==
    {n \in {x.UsageTerm.ExplicitNumUses : x \in {y \in Imports : y.UsageTerm # Nil}} : n > 0}

Ledger ==
    INSTANCE QuotaLedger WITH
        Quotas <- Quotas, granted <- granted, left <- left,
        pending <- pending, made <- made

\* Whatever a request does, and wherever it fails, is a step of the account or
\* none: no use is made that was not charged, none is charged when none is
\* left, and only another grant gives any back (blockUsageExceedingLimits,
\* decreaseRemainingUsageQuota and their places in the handlers' chains,
\* Import, setInitialRoleUsage).
ImplementsLedger == Ledger!Spec
=============================================================================
