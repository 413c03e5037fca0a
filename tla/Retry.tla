------------------------------- MODULE Retry --------------------------------
(***************************************************************************)
(* The "retry" input (internal/cosign/helpers.go: parseRetry, toInt,       *)
(* toDuration).  Definitions only; RegistryAccess uses them.               *)
(*                                                                         *)
(* An int and a time.Duration hold MinInt .. MaxInt.  A conversion whose   *)
(* result Go leaves to the implementation returns every result a platform  *)
(* has, so the operators return sets.                                      *)
(*                                                                         *)
(* An operator BUG_... is a plausible mistake in the definition after it.  *)
(***************************************************************************)
EXTENDS Integers

CONSTANTS
    MaxInt,   \* the largest int and time.Duration
    Second    \* nanoseconds in a second

(* The default of three attempts is an int. *)
ASSUME IntsAssumption == MaxInt \in Nat /\ MaxInt >= 3 /\ Second \in Nat \ {0}

MinInt  == - MaxInt - 1
Ints    == MinInt .. MaxInt
Wrap(n) == ((n - MinInt) % (MaxInt - MinInt + 1)) + MinInt

Absent == [kind |-> "absent"]

(* A value: "bool" with b, "int" with n, "float" with n and whether that   *)
(* is all of it (whole), "text" of the integer n, "duration", "map", or    *)
(* "other".  No result is an error.  math.MaxInt is, as a float64, one     *)
(* above the largest int: n > math.MaxInt lets that through to int(n).     *)
ToInt(v) ==
    IF v.kind \in {"int", "text"} THEN {v.n} \cap Ints
    ELSE IF v.kind = "float" /\ v.whole
         THEN IF v.n = MaxInt + 1 THEN {MinInt, MaxInt} ELSE {v.n} \cap Ints
         ELSE {}

(* What an input may hold, as far as the conversions look at it. *)
IsValue(v) ==
    \/ v = Absent
    \/ v.kind \in {"other", "map"}
    \/ v.kind = "bool" /\ v.b \in BOOLEAN
    \/ v.kind \in {"int", "float", "text"} /\ v.n \in Int
    \/ v.kind = "duration" /\ v.ns \in Ints
IsRetry(v) ==
    /\ IsValue(v)
    /\ v.kind = "map" => IsValue(v.attempts) /\ IsValue(v.backoff) /\ IsValue(v.maxBackoff)

(* The text of a duration, or seconds, which are multiplied unchecked.     *)
ToDuration(v) ==
    IF v.kind = "duration" THEN {v.ns}
    ELSE IF v.kind = "int" THEN {Wrap(v.n * Second)}
    ELSE IF v.kind = "float"
         THEN IF v.n * Second \in Ints THEN {v.n * Second} ELSE {MinInt, MaxInt}
         ELSE {}

(* No option leaves the library's default in force.                        *)
NoOption == [steps |-> 0, duration |-> 0, cap |-> 0]
Option(attempts, backoff, cap) ==
    IF attempts <= 0 THEN NoOption
    ELSE [steps |-> attempts, duration |-> backoff, cap |-> cap]

BUG_ParseRetry(raw) ==
    IF raw = Absent THEN {NoOption}
    ELSE IF raw.kind = "bool" THEN {IF raw.b THEN Option(3, Second, 0) ELSE NoOption}
    ELSE IF raw.kind # "map" THEN {Option(a, Second, 0) : a \in ToInt(raw)}
    ELSE {Option(3, b, m) :
            b \in IF raw.backoff = Absent THEN {Second} ELSE ToDuration(raw.backoff),
            m \in IF raw.maxBackoff = Absent THEN {0} ELSE ToDuration(raw.maxBackoff)}

ParseRetry(raw) ==
    IF raw = Absent THEN {NoOption}
    ELSE IF raw.kind = "bool" THEN {IF raw.b THEN Option(3, Second, 0) ELSE NoOption}
    ELSE IF raw.kind # "map" THEN {Option(a, Second, 0) : a \in ToInt(raw)}
    ELSE {Option(a, b, m) :
            a \in IF raw.attempts = Absent THEN {3} ELSE ToInt(raw.attempts),
            b \in IF raw.backoff = Absent THEN {Second} ELSE ToDuration(raw.backoff),
            m \in IF raw.maxBackoff = Absent THEN {0} ELSE ToDuration(raw.maxBackoff)}

(* go-containerregistry: what applies without an option, and one step of a *)
(* backoff, which drops its remaining attempts when the next wait would be *)
(* longer than the cap.                                                    *)
Effective(o) == IF o = NoOption THEN [steps |-> 3, duration |-> Second, cap |-> 0] ELSE o
StepBackoff(o) ==
    LET next == 2 * o.duration IN
    IF o.cap > 0 /\ next > o.cap
    THEN [o EXCEPT !.steps = 0, !.duration = o.cap]
    ELSE [o EXCEPT !.steps = o.steps - 1, !.duration = next]
=============================================================================
