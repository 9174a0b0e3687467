--------------------------- MODULE MCRoleExchange ---------------------------
(***************************************************************************)
(* Values of RoleExchange's constants for TLC: a central engine with the   *)
(* seeding administrator's role, and a satellite with the roles it exports *)
(* to.                                                                     *)
(***************************************************************************)
EXTENDS RoleExchange

CONSTANTS p1, p2

OneRequest == {p1}
TwoRequests == {p1, p2}

MCText == {"", "a", "b"}

TwoRoles == {"seed", "line"}
MCEngines == {"central", "satellite"}

TwoEngineOf == [r \in TwoRoles |-> IF r = "seed" THEN "central" ELSE "satellite"]

\* A write of everything.
FullWrite ==
    [AreaId |-> "a", AreaNid |-> 1, ApiKey |-> "a", KeySecret |-> "a",
     Username |-> "a", Password |-> "a"]

SeedWrites == {FullWrite}

Plain ==
    [desiredTerm |-> 0, desiredNumUses |-> -1, desiredQps |-> -1,
     desiredForceProxyMode |-> FALSE, desiredOnlyV2 |-> FALSE,
     desiredOnlyV3 |-> FALSE, desireExportable |-> FALSE]

OnePart(u, n) == [neg |-> FALSE, parts |-> <<[unit |-> u, n |-> n]>>]

Request(term, settings) == [term |-> term, settings |-> settings]

Days(n) == OnePart("d", n)
GoParts(neg, m, n) ==
    [neg |-> neg, parts |-> <<[unit |-> "go", n |-> m], [unit |-> "go", n |-> n]>>]

\* Days, weeks and dates, close to now, to the bound of a duration (100) and far
\* beyond it; Go durations in two parts, forwards and backwards; texts with
\* something before or after the term, and texts that are refused.
Terms ==
    {OnePart(u, n) : u \in {"d", "w", "date"}, n \in {0, 1, 2, 10, 14, 99, 110, 10000}}
        \cup {GoParts(neg, 1, n) : neg \in BOOLEAN, n \in {0, 2, 98, 99}}
        \cup {[neg |-> TRUE, parts |-> <<[unit |-> "d", n |-> 1]>>],
              [neg |-> FALSE, parts |-> <<[unit |-> "other", n |-> 1], [unit |-> "w", n |-> 1]>>],
              OnePart("other", 3)}
AnyTerm == {Request(t, Plain) : t \in Terms}
LongTerm == {Request(Days(150), Plain)}

PlainOnly == {Request(Nil, Plain)}

\* One use of V2 only, to be exported further; and a record without limits.
LimitedChains ==
    {Request(Nil, [Plain EXCEPT !.desiredNumUses = 1, !.desiredOnlyV2 = TRUE,
                                !.desireExportable = TRUE]),
     Request(Nil, Plain)}

OneUse == {Request(Nil, [Plain EXCEPT !.desiredNumUses = 1])}
OneTerm == {Request(Days(1), Plain)}
=============================================================================
