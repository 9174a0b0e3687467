------------------------------ MODULE UserInput ------------------------------
(***************************************************************************)
(* The term an administrator writes out for an export                      *)
(* (src/mashery/parseutils.go): 30d, 6w, 2023-01-01 or a duration of the   *)
(* Go language, and what ParseUserInputDuration makes of it and of other   *)
(* texts.  A text is a sequence of parts, a number with its unit each; of  *)
(* a date the part's number is the instant of its midnight (UTC), of a Go  *)
(* duration the ticks of the clock the part comes to.                      *)
(***************************************************************************)
EXTENDS Integers, SequencesExt

CONSTANTS
    Day,            \* ticks in a day
    DurationBound,  \* ticks in 2^63 nanoseconds, where a duration wraps
    MaxInt          \* the largest int

ASSUME DurationAssumption ==
    Day \in Nat \ {0} /\ DurationBound \in Nat \ {0} /\ MaxInt \in Nat /\ DurationBound <= MaxInt

Parts == [unit : {"d", "w", "date", "go", "other"}, n : Nat]

\* neg: the text starts with a minus.
Input == [neg : BOOLEAN, parts : Seq(Parts)]

Units(in) == {in.parts[i].unit : i \in DOMAIN in.parts}

(***************************************************************************)
(* The parser.  The patterns for days, weeks and dates match anywhere in   *)
(* the text, in this order, and the rest of it is not looked at.           *)
(***************************************************************************)
FirstOf(in, u) == in.parts[Min({i \in DOMAIN in.parts : in.parts[i].unit = u})].n

\* strconv.Atoi, whose error is not looked at.
Atoi(n) == IF n > MaxInt THEN MaxInt ELSE n

\* A product of 64-bit integers wraps; the time between two instants, a
\* difference of the time package, does not.
Duration(x) == ((x + DurationBound) % (2 * DurationBound)) - DurationBound

Sub(x, y) ==
    IF x - y >= DurationBound THEN DurationBound - 1
    ELSE IF x - y < -DurationBound THEN -DurationBound ELSE x - y

\* time.ParseDuration takes Go units only and no more than fits.
GoTotal(in) == FoldLeft(LAMBDA sum, x : sum + x.n, 0, in.parts)

GoDuration(in) == IF in.neg THEN -GoTotal(in) ELSE GoTotal(in)

ParsesDuration(in) ==
    \/ Units(in) \cap {"d", "w", "date"} # {}
    \/ Units(in) = {"go"} /\ GoTotal(in) < DurationBound

\* Slip: a date is not taken relative to the time of the request.
ParseDateAbsolute(in, t) ==
    IF "d" \in Units(in) THEN Duration(Atoi(FirstOf(in, "d")) * Day)
    ELSE IF "w" \in Units(in) THEN Duration(Atoi(FirstOf(in, "w")) * 7 * Day)
    ELSE IF "date" \in Units(in) THEN FirstOf(in, "date")
    ELSE GoDuration(in)

ParseUserInputDuration(in, t) ==
    IF "d" \in Units(in) THEN Duration(Atoi(FirstOf(in, "d")) * Day)
    ELSE IF "w" \in Units(in) THEN Duration(Atoi(FirstOf(in, "w")) * 7 * Day)
    ELSE IF "date" \in Units(in) THEN Sub(FirstOf(in, "date"), t)
    ELSE GoDuration(in)

(***************************************************************************)
(* What the formats are documented to mean                                 *)
(* (doc/api/roles_export.html.markdown): one number of days or weeks since *)
(* the current time, a date, or a Go duration.                             *)
(***************************************************************************)
InDocumentedFormat(in) ==
    \/ Units(in) = {"go"}
    \/ Len(in.parts) = 1 /\ ~in.neg /\ in.parts[1].unit \in {"d", "w", "date"}

EndsAt(in, t) ==
    LET x == in.parts[1]
    IN  CASE x.unit = "d"    -> t + x.n * Day
          [] x.unit = "w"    -> t + 7 * x.n * Day
          [] x.unit = "date" -> x.n
          [] OTHER           -> t + GoDuration(in)

\* The formats, for a term short enough for a duration: 292 years.
Documented(in) ==
    /\ InDocumentedFormat(in)
    /\ EndsAt(in, 0) < DurationBound
=============================================================================
