----------------------------- MODULE Confidence ------------------------------
(* Verdicts of experiments and what they do to a confidence                   *)
(* (investigate/experiments.py).  A confidence is rounded to two decimals     *)
(* whenever it is stored, so it is modelled in hundredths, 0..100.            *)
EXTENDS Integers

Percent == 0 .. 100

Verdicts == {"supports", "contradicts", "inconclusive"}

(* The forms of Hypothesis.experiment: none at all; a command with            *)
(* supports_on_exit_zero true or false; a script; neither command nor script. *)
Shapes == {"none", "command", "command_negated", "script", "blank"}

(* What the executor hands back: whether the command timed out, whether its   *)
(* exit code is zero (a time-out reports -1), and the verdict line printed.   *)
CommandResults ==
  {r \in [timed_out: BOOLEAN, zero: BOOLEAN,
          says: {"supports", "contradicts", "nothing"}] : ~ (r.timed_out /\ r.zero)}

(* run_experiment's verdict.  A script is judged by what it printed, even     *)
(* when it timed out; a command by its exit code, unless it timed out.        *)
VerdictOf(shape, result) ==
  CASE shape \in {"command", "command_negated"} /\ result.timed_out -> "inconclusive"
    [] shape = "command" /\ ~ result.timed_out ->
         IF result.zero THEN "supports" ELSE "contradicts"
    [] shape = "command_negated" /\ ~ result.timed_out ->
         IF result.zero THEN "contradicts" ELSE "supports"
    [] shape = "script" /\ result.says # "nothing" -> result.says
    [] OTHER -> "inconclusive"

(* round(c + (1 - c) * SUPPORT_GAIN, 2) with SUPPORT_GAIN = 0.8: c/5 + 0.8,   *)
(* to the nearest hundredth (a fifth is never half way).                      *)
MutantSupported(c) == 80 + c
Supported(c) == 80 + ((c + 2) \div 5)

(* The confidences of the form 4q + 2 whose quarter, half way between two     *)
(* hundredths, round() takes up; it takes the others down.  Which way it goes *)
(* is decided by the binary value of the decimal.                             *)
HalvesRoundedUp == {2, 10, 14, 22, 26, 34, 38, 46, 54, 66, 78, 90}

(* round(c * CONTRADICT_FACTOR, 2) with CONTRADICT_FACTOR = 0.25.             *)
Contradicted(c) ==
  LET q == c \div 4
      r == c % 4
  IN  IF r = 3 \/ (r = 2 /\ c \in HalvesRoundedUp) THEN q + 1 ELSE q

(* The confidence update_confidence stores.                                   *)
Updated(c, verdict) ==
  CASE verdict = "supports"     -> Supported(c)
    [] verdict = "contradicts"  -> Contradicted(c)
    [] verdict = "inconclusive" -> c

(* The status it stores.  c * 0.25 is compared with REJECT_THRESHOLD = 0.15   *)
(* before it is rounded: a contradicted hypothesis survives from 0.60 on.     *)
StatusAfter(c, status, verdict) ==
  CASE verdict = "supports" -> "verified"
    [] verdict = "contradicts" /\ c < 60 -> "rejected"
    [] OTHER -> status
=============================================================================
