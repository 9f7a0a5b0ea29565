---------------------------- MODULE Investigation ----------------------------
(* What `repomedic investigate` promises its user, whatever goes wrong on the *)
(* way: the suite is run first; a cause is named only for a red suite; a      *)
(* patch is tried at most once and only for a named cause; and the exit code  *)
(* is zero only for a suite that was green or a patch that was accepted.      *)
EXTENDS Naturals

VARIABLES
  suite,      \* what running the suite showed
  diagnosis,  \* the hypothesis named as root cause, 0 for none
  trial,      \* what validating the patch showed
  answer      \* the exit code

investigationVars == <<suite, diagnosis, trial, answer>>

Init == suite = "unknown" /\ diagnosis = 0 /\ trial = "none" /\ answer = "none"

RunSuite == /\ suite = "unknown" /\ answer = "none"
            /\ suite' \in {"green", "red"}
            /\ UNCHANGED <<diagnosis, trial, answer>>

Diagnose == /\ suite = "red" /\ diagnosis = 0 /\ answer = "none"
            /\ diagnosis' \in Nat \ {0}
            /\ UNCHANGED <<suite, trial, answer>>

TryPatch == /\ diagnosis # 0 /\ trial = "none" /\ answer = "none"
            /\ trial' \in {"accepted", "rejected"}
            /\ UNCHANGED <<suite, diagnosis, answer>>

Succeed == /\ answer = "none"
           /\ suite = "green" \/ trial = "accepted"
           /\ answer' = "zero"
           /\ UNCHANGED <<suite, diagnosis, trial>>

Fail == /\ answer = "none"
        /\ answer' = "one"
        /\ UNCHANGED <<suite, diagnosis, trial>>

Next == RunSuite \/ Diagnose \/ TryPatch \/ Succeed \/ Fail

Spec == Init /\ [][Next]_investigationVars
=============================================================================
