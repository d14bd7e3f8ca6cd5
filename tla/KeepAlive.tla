------------------------------ MODULE KeepAlive ------------------------------
(***************************************************************************)
(* parse_keep_alive and what RuntimeLifecycle makes of its result.  A      *)
(* keep-alive is a Python float or None.  JSON bodies may say NaN and      *)
(* Infinity, and a duration with enough digits is infinite too, so that    *)
(* the comparisons are those of IEEE 754: every one with NaN is false.     *)
(***************************************************************************)
EXTENDS Integers

CONSTANTS
  None,
  TimeoutMax  \* threading.TIMEOUT_MAX: the longest a thread can wait

ASSUME KeepAliveAssumption == TimeoutMax \in Nat

Number(n) == [kind |-> "finite", value |-> n]
Infinity  == [kind |-> "inf",  value |-> 0]
NegInf    == [kind |-> "-inf", value |-> 0]
NaN       == [kind |-> "nan",  value |-> 0]
Zero      == Number(0)

Floats == [kind : {"finite"}, value : Int] \cup {Infinity, NegInf, NaN}

Less(a, b) ==
  /\ NaN \notin {a, b} /\ a # b
  /\ \/ a = NegInf \/ b = Infinity
     \/ a.kind = "finite" /\ b.kind = "finite" /\ a.value < b.value

AtMost(a, b) == Less(a, b) \/ (a = b /\ a # NaN)

(* The field of a request: None, a JSON number, an integer of JSON that is  *)
(* too large for a float, or a text that is an amount with a unit, or no    *)
(* duration at all.                                                         *)
Seconds(n)       == [type |-> "number",   amount |-> n, unit |-> ""]
Duration(n, u)   == [type |-> "duration", amount |-> n, unit |-> u]
NoDuration       == [type |-> "text",     amount |-> Zero, unit |-> ""]
HugeInteger      == [type |-> "integer",  amount |-> Zero, unit |-> ""]
FiveMinutes      == Duration(Number(5), "m")

(* "5m", "1h", "-1", ...: amount * _DURATION_MULTIPLIERS[unit].             *)
Multiplier == [s |-> 1, m |-> 60, h |-> 3600, d |-> 86400]

KeepAliveValues ==
  [type : {"number"}, amount : Floats, unit : {""}]
    \cup [type : {"duration"}, amount : Floats, unit : DOMAIN Multiplier \cup {""}]
    \cup {NoDuration, HugeInteger}

ParseDuration(text) ==
  IF text.amount.kind = "finite" /\ text.unit # ""
  THEN Number(text.amount.value * Multiplier[text.unit])
  ELSE text.amount

Effective(value, default) == IF value = None THEN default ELSE value

ParseFails(value, default) ==
  Effective(value, default).type \notin {"number", "duration"}

(* float() of such an integer raises OverflowError, which is not the        *)
(* KeepAliveParseError that _request_keep_alive catches.                    *)
Overflows(value, default) == Effective(value, default).type = "integer"

(* Mutant: zero is taken for "keep it", as a negative number is.            *)
ParseZeroStays(value, default) ==
  LET seconds == ParseDuration(Effective(value, default))
  IN IF AtMost(seconds, Zero) THEN None ELSE seconds

Parse(value, default) ==
  LET seconds == ParseDuration(Effective(value, default))
  IN IF Less(seconds, Zero) THEN None ELSE seconds

(* "keep_alive <= 0": unload at once; NaN is not, and starts a timer.       *)
UnloadsNow(keepAlive) == keepAlive # None /\ AtMost(keepAlive, Zero)

(* The thread of a timer raises OverflowError, before it has waited, when   *)
(* its delay is longer than a thread can wait; NaN does not wait at all.    *)
TooLong(keepAlive) == Less(Number(TimeoutMax), keepAlive)
=============================================================================
