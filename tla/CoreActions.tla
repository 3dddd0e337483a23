----------------------------- MODULE CoreActions -----------------------------
(***************************************************************************)
(* The handlers of the core actions (src/internal/core/actions.go) and the *)
(* evaluation of JavaScript they use (src/internal/expression/resolver.go).*)
(* An input is abstracted to what the handler tells apart in it.  A field  *)
(* is <<"absent">>, <<"bad">> (of the wrong type), <<"text", n>> (with a   *)
(* unit), <<"number", n>> or <<"nan">>, the number that is none, as YAML   *)
(* and the text "NaN" give it (actions.go 193-196).                        *)
(***************************************************************************)
EXTENDS Integers, Sequences

CONSTANT Limit   \* 2^63 ns, scaled down: an int64 is in -Limit .. Limit - 1 milliseconds

ASSUME LimitAssumption == Limit \in Nat \ {0}

Present(field) == field # <<"absent">>

CoreName == {"core.if", "core.js", "core.sleep", "core.print", "core.stdPrint", "core.stdout"}
Printer == {"core.print", "core.stdPrint", "core.stdout"}

Failed == [ok |-> FALSE, branch |-> "", slept |-> 0]
Done == [Failed EXCEPT !.ok = TRUE]

(* ifAction: only a Boolean true takes the branch "true". *)
ifAction(input) ==
    CASE input.condition \in {"absent", "throws"} -> Failed
      [] input.condition = "true" -> [Done EXCEPT !.branch = "true"]
      [] OTHER -> [Done EXCEPT !.branch = "false"]

(* resolveScript: the text of the script, or what is wrong. *)
resolveScript(input) ==
    CASE input.script = "text" /\ input.scriptFile \in {"text", "blank", "missing"} -> "both"
      [] input.script = "text" /\ input.scriptFile \notin {"text", "blank", "missing"} -> "text"
      [] OTHER -> input.scriptFile    \* "text", or an error

(* EvalScript: what fails is evaluated again as the body of a function, so *)
(* that a script may "return".                                             *)
EvalScript(input) == input.asScript = "value" \/ input.asBody = "value"

jsAction(input) == IF resolveScript(input) = "text" /\ EvalScript(input) THEN Done ELSE Failed

(* A float64 that is no int64 is converted to whatever the processor makes *)
(* of it: the least int64 (amd64) or the nearest one (arm64).              *)
Duration(ms) == IF ms < Limit THEN {ms} ELSE {-Limit, Limit - 1}

(* A number of the field's unit; none if it is no number or negative.  NaN *)
(* is not negative, and its conversion too is the processor's affair.      *)
Number(field, unit) ==
    CASE field[1] = "number" /\ field[2] >= 0 -> Duration(field[2] * unit)
      [] field[1] = "nan" -> {-Limit, 0, Limit - 1}
      [] OTHER -> {}

(* A text with units of its own, which ParseDuration refuses beyond Limit. *)
Text(field) == IF field[1] = "text" THEN {field[2]} \cap 0..(Limit - 1) ELSE {}

SleepFallingBack(input) ==
    IF Number(input.duration, 1000) # {} THEN Number(input.duration, 1000)
    ELSE Number(input.seconds, 1000)

(* The first field that is there counts, wrong or not; the handler fails   *)
(* when this leaves no duration.                                           *)
resolveSleepDuration(input) ==
    CASE Present(input.duration) -> Text(input.duration) \cup Number(input.duration, 1000)
      [] ~Present(input.duration) /\ Present(input.seconds) -> Number(input.seconds, 1000)
      [] OTHER -> Number(input.milliseconds, 1)

sleepAction(input) ==
    IF resolveSleepDuration(input) = {} THEN {Failed}
    ELSE {[Done EXCEPT !.slept = ms] : ms \in resolveSleepDuration(input)}

(* formatOutput fails on a format it does not know, and the encoder on a   *)
(* payload that is no JSON.                                                *)
Formats(input) ==
    \/ input.format \in {"pretty", "text", "kv"}
    \/ input.format = "json" /\ input.encodable

printAction(input) == IF Formats(input) THEN Done ELSE Failed

(* What a handler may return, and do. *)
Handle(name, input) ==
    CASE name = "core.if"    -> {ifAction(input)}
      [] name = "core.js"    -> {jsAction(input)}
      [] name = "core.sleep" -> sleepAction(input)
      [] name \in Printer    -> {printAction(input)}

-----------------------------------------------------------------------------
(* What is asked of core.sleep: the amount and the unit of a field that has*)
(* no other before it.                                                     *)
Asked(input) ==
    IF Present(input.duration)
    THEN <<input.duration, IF input.duration[1] = "text" THEN 1 ELSE 1000>>
    ELSE IF Present(input.seconds) THEN <<input.seconds, 1000>> ELSE <<input.milliseconds, 1>>
=============================================================================
