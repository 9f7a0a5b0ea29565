------------------------ MODULE PatchValidationProofs -------------------------
(* An accepted patch works, for every test suite, every set of flaky tests,   *)
(* every effect of the patch and every way a command can end.                 *)
EXTENDS PatchValidation, TLAPS

Running == {"clear", "command", "collect", "judge"}
Over == {"cleanup", "done"}

(* Tests are run on the patched sources only.                                 *)
Patched == pc \in Running => tree = "patched"

(* An abandoned command belongs to the phase that is being collected, and     *)
(* that phase's run will not be green.                                        *)
OrphansAreOwn ==
  /\ orphans \subseteq {phase}
  /\ orphans # {} => ~ command.zero /\ pc \in {"collect", "judge"} \union Over

(* So a JUnit file found after a command is that command's.                   *)
FileIsOwn ==
  /\ pc = "command" => junit = NoJUnit
  /\ pc = "collect" => (junit.wellFormed => junit.by = phase)

(* Exit code zero: the selected tests passed, or failed at random.            *)
ZeroIsHonest ==
  pc \in {"collect", "judge"} /\ command.zero =>
    ~ command.timed_out /\ Selected(phase) \intersect broken \subseteq Flaky

Sound(p) == runs[p].by = p /\ runs[p].zero /\ ~ runs[p].timed_out

(* What has been recorded, and when.                                          *)
Recorded ==
  /\ pc = "judge" => /\ runs[phase].by = phase
                     /\ runs[phase].zero = command.zero
                     /\ runs[phase].timed_out = command.timed_out
  /\ phase = 2 => Sound(1)
  /\ result.original_run => runs[1].by = 1 /\ (phase = 2 \/ pc \in Over)
  /\ result.regression_run => runs[2].by = 2 /\ phase = 2 /\ pc \in Over

Accepted ==
  result.verdict = "accepted" =>
    /\ pc \in Over /\ phase = 2
    /\ tree = "patched" /\ broken \subseteq Flaky
    /\ Sound(1) /\ Sound(2)

(* The inductive invariant.                                                   *)
IInv == /\ TypeOK /\ Patched /\ OrphansAreOwn /\ FileIsOwn
        /\ ZeroIsHonest /\ Recorded /\ Accepted

(* The invariant holds when validate_patch is called.                        *)
LEMMA InitIInv == Init => IInv
<1> SUFFICES ASSUME Init PROVE IInv
  OBVIOUS
<1> USE DEF Init
<1>1. NoRun \in Runs /\ NoJUnit \in JUnitFiles /\ NoCommand \in CommandResults
  BY DEF NoRun, Runs, NoJUnit, JUnitFiles, NoCommand, CommandResults
<1>2. TypeOK
  <2>1. runs \in [1 .. 2 -> Runs]
    <3> DEFINE none == NoRun
    <3>1. none \in Runs
      BY <1>1
    <3> HIDE DEF none
    <3>2. <<none, none>> \in [1 .. 2 -> Runs]
      BY <3>1
    <3>3. QED
      BY <3>2 DEF none
  <2>2. result \in [verdict: {"not_run", "rejected_original", "rejected_regression", "accepted"},
                    original_run: BOOLEAN, original_passed: BOOLEAN,
                    regression_run: BOOLEAN, regression_passed: BOOLEAN]
    BY DEF NotRun
  <2>3. originals \subseteq Tests /\ targets \subseteq originals /\ broken \subseteq Tests
    OBVIOUS
  <2>4. junit \in JUnitFiles /\ orphans \subseteq 1 .. 2 /\ command \in CommandResults
    BY <1>1
  <2>5. /\ pc \in {"copy", "apply", "clear", "command", "collect", "judge", "cleanup", "done"}
        /\ phase \in 1 .. 2
        /\ workspace \in {"none", "live", "leaked", "removed", "left"}
        /\ tree \in {"original", "patched", "partly"}
    OBVIOUS
  <2>6. raised \in BOOLEAN
    OBVIOUS
  <2> HIDE DEF Init
  <2>7. QED
    BY <2>1, <2>2, <2>3, <2>4, <2>5, <2>6 DEF TypeOK
<1>3. Patched /\ OrphansAreOwn /\ FileIsOwn /\ ZeroIsHonest
  BY DEF Patched, OrphansAreOwn, FileIsOwn, ZeroIsHonest, Running
<1>4. Recorded /\ Accepted
  BY DEF Recorded, Accepted, NotRun
<1>5. QED
  BY <1>2, <1>3, <1>4 DEF IInv

(* The results the judgements write are results.                              *)
ResultRecords ==
  [verdict: {"not_run", "rejected_original", "rejected_regression", "accepted"},
   original_run: BOOLEAN, original_passed: BOOLEAN,
   regression_run: BOOLEAN, regression_passed: BOOLEAN]

(* Every step keeps the types.                                               *)
LEMMA TypeStep == TypeOK /\ [Next]_vars => TypeOK'
<1> SUFFICES ASSUME TypeOK, [Next]_vars PROVE TypeOK'
  OBVIOUS
<1>1. NoJUnit \in JUnitFiles
  BY DEF NoJUnit, JUnitFiles
<1>2. CASE UNCHANGED vars
  BY <1>2 DEF vars, inputs, place, answer, TypeOK
<1>3. CASE Copy
  <2>1. [by |-> 0, wellFormed |-> TRUE, failed |-> originals] \in JUnitFiles
    BY DEF TypeOK, JUnitFiles
  <2>2. QED
    BY <1>1, <1>3, <2>1 DEF Copy, inputs, answer, TypeOK
<1>4. CASE CopyFails \/ Apply \/ ApplyRaises
  BY <1>4 DEF CopyFails, Apply, ApplyRaises, Raise, inputs, answer, TypeOK
<1>5. CASE ApplyRefused
  BY <1>5 DEF ApplyRefused, inputs, place, TypeOK
<1>6. CASE ClearJUnit
  BY <1>1, <1>6 DEF ClearJUnit, inputs, place, answer, TypeOK
<1>7. CASE CommandEnds
  <2>1. PICK failed \in Outcomes(phase) :
          /\ command' = [zero |-> failed = {}, timed_out |-> FALSE, listed |-> failed]
          /\ junit' = [by |-> phase, wellFormed |-> TRUE, failed |-> failed]
    BY <1>7 DEF CommandEnds
  <2>2. failed \in SUBSET Tests /\ (failed = {}) \in BOOLEAN /\ phase \in 0 .. 2
    BY FlakyAssumption DEF Outcomes, Selected, TypeOK
  <2>3. command' \in CommandResults /\ junit' \in JUnitFiles
    BY <2>1, <2>2 DEF CommandResults, JUnitFiles
  <2>4. QED
    BY <1>7, <2>3 DEF CommandEnds, inputs, place, answer, TypeOK
<1>8. CASE CommandCrashes
  <2>1. PICK failed \in Outcomes(phase) : \E listed \in SUBSET failed :
          command' = [zero |-> FALSE, timed_out |-> FALSE, listed |-> listed]
    BY <1>8 DEF CommandCrashes
  <2>2. failed \in SUBSET Tests /\ phase \in 0 .. 2
    BY FlakyAssumption DEF Outcomes, Selected, TypeOK
  <2>3. command' \in CommandResults
    BY <2>1, <2>2 DEF CommandResults
  <2>4. [by |-> phase, wellFormed |-> FALSE, failed |-> {}] \in JUnitFiles
    BY <2>2 DEF JUnitFiles
  <2>5. junit' \in JUnitFiles /\ pc' = "collect"
    BY <1>8, <2>4 DEF CommandCrashes, TypeOK
  <2>6. UNCHANGED <<phase, inputs, place, orphans, answer>>
    BY <1>8 DEF CommandCrashes
  <2>7. QED
    BY <2>3, <2>5, <2>6 DEF inputs, place, answer, TypeOK
<1>9. CASE CommandTimesOut
  <2>1. command' \in CommandResults
    BY <1>9 DEF CommandTimesOut, CommandResults
  <2>2. QED
    BY <1>9, <2>1 DEF CommandTimesOut, inputs, place, answer, TypeOK
<1>10. CASE CommandRaises
  BY <1>10 DEF CommandRaises, Raise, inputs, place, TypeOK
<1>11. CASE OrphanWrites
  <2>1. PICK p \in orphans :
          /\ \E failed \in Outcomes(p) :
               junit' = [by |-> p, wellFormed |-> TRUE, failed |-> failed]
          /\ orphans' = orphans \ {p}
    BY <1>11 DEF OrphanWrites
  <2>2. PICK failed \in Outcomes(p) : junit' = [by |-> p, wellFormed |-> TRUE, failed |-> failed]
    BY <2>1
  <2>3. failed \in SUBSET Tests /\ p \in 0 .. 2
    BY FlakyAssumption DEF Outcomes, Selected, TypeOK
  <2>4. junit' \in JUnitFiles
    BY <2>2, <2>3 DEF JUnitFiles
  <2>5. QED
    BY <1>11, <2>1, <2>4 DEF OrphanWrites, inputs, place, answer, TypeOK
<1>12. CASE Collect
  <2>1. Parsed \in Runs
    BY DEF Parsed, Runs, TypeOK, JUnitFiles, CommandResults
  <2>2. runs' \in [1 .. 2 -> Runs]
    BY <1>12, <2>1 DEF Collect, TypeOK
  <2>3. QED
    BY <1>1, <1>12, <2>2 DEF Collect, inputs, place, TypeOK
<1>13. CASE JudgeOriginal \/ JudgeRegression
  <2>1. AllGreen(runs[1]) \in BOOLEAN /\ AllGreen(runs[2]) \in BOOLEAN
    BY DEF AllGreen, TypeOK, Runs
  <2>2. result' \in ResultRecords
    BY <1>13, <2>1 DEF JudgeOriginal, JudgeRegression, TypeOK, ResultRecords
  <2>3. QED
    BY <1>13, <2>2 DEF JudgeOriginal, JudgeRegression, inputs, place, TypeOK, ResultRecords
<1>14. CASE Cleanup
  <2>1. workspace' \in {"removed", "left"} /\ junit' \in {NoJUnit, junit}
    BY <1>14 DEF Cleanup, RemoveCopy
  <2>2. junit' \in JUnitFiles
    BY <1>1, <2>1 DEF TypeOK
  <2>3. QED
    BY <1>14, <2>1, <2>2 DEF Cleanup, inputs, answer, TypeOK
<1>15. CASE Done
  BY <1>15 DEF Done, vars, inputs, place, answer, TypeOK
<1>16. QED
  BY <1>2, <1>3, <1>4, <1>5, <1>6, <1>7, <1>8, <1>9, <1>10, <1>11, <1>12, <1>13, <1>14, <1>15
     DEF Next

-----------------------------------------------------------------------------
Rest == Patched /\ OrphansAreOwn /\ FileIsOwn /\ ZeroIsHonest /\ Recorded /\ Accepted

(* Every step keeps the conjuncts that are not about types.                   *)
LEMMA RestStep == IInv /\ [Next]_vars => Rest'
<1> SUFFICES ASSUME IInv, [Next]_vars PROVE Rest'
  OBVIOUS
<1> USE DEF IInv, Rest, inputs, place, answer
<1>1. CASE UNCHANGED vars
  BY <1>1 DEF vars, Patched, OrphansAreOwn, FileIsOwn, ZeroIsHonest, Selected, Recorded, Sound,
     Accepted, Running, Over
<1>2. CASE Copy \/ CopyFails
  <2>1. ~ (pc = "clear" \/ pc = "command" \/ pc = "collect" \/ pc = "judge" \/ pc \in Over)
    BY <1>2 DEF Copy, CopyFails, Over
  <2>2. orphans = {} /\ result.verdict # "accepted"
    BY <2>1 DEF OrphansAreOwn, Accepted
  <2>3. /\ UNCHANGED <<orphans, result, runs, phase>>
        /\ pc' \in {"apply", "done"}
    BY <1>2 DEF Copy, CopyFails
  <2>4. QED
    BY <2>1, <2>2, <2>3 DEF Patched, OrphansAreOwn, FileIsOwn, ZeroIsHonest, Recorded, Sound,
       Accepted, Running, Over
<1>3. CASE Apply \/ ApplyRefused \/ ApplyRaises
  <2>1. pc = "apply"
    BY <1>3 DEF Apply, ApplyRefused, ApplyRaises
  <2>2. orphans = {} /\ result.verdict # "accepted"
    BY <2>1 DEF OrphansAreOwn, Accepted, Over
  <2>3. /\ UNCHANGED <<orphans, runs, phase>>
        /\ pc' \in {"clear", "cleanup"}
        /\ pc' = "clear" => tree' = "patched"
    BY <1>3 DEF Apply, ApplyRefused, ApplyRaises, Raise
  <2>4. /\ result'.verdict # "accepted"
        /\ result'.original_run = result.original_run
        /\ result'.regression_run = result.regression_run
    BY <1>3, <2>2 DEF Apply, ApplyRefused, ApplyRaises, TypeOK
  <2>5. QED
    BY <2>1, <2>2, <2>3, <2>4 DEF Patched, OrphansAreOwn, FileIsOwn, ZeroIsHonest, Recorded,
       Sound, Accepted, Running, Over
<1>4. CASE ClearJUnit
  BY <1>4 DEF ClearJUnit, Patched, OrphansAreOwn, FileIsOwn, ZeroIsHonest, Recorded, Sound,
     Accepted, Running, Over
<1>5. CASE CommandEnds
  <2>1. PICK failed \in Outcomes(phase) :
          /\ command' = [zero |-> failed = {}, timed_out |-> FALSE, listed |-> failed]
          /\ junit' = [by |-> phase, wellFormed |-> TRUE, failed |-> failed]
    BY <1>5 DEF CommandEnds
  <2>2. /\ pc = "command" /\ pc' = "collect"
        /\ UNCHANGED <<phase, targets, tree, broken, orphans, runs, result>>
    BY <1>5 DEF CommandEnds
  <2>3. command'.zero => failed = {}
    BY <2>1
  <2>4. failed = {} => Selected(phase) \intersect broken \subseteq Flaky
    BY DEF Outcomes
  <2>5. ZeroIsHonest'
    BY <2>1, <2>2, <2>3, <2>4 DEF ZeroIsHonest, Selected
  <2>6. FileIsOwn'
    BY <2>1, <2>2 DEF FileIsOwn
  <2>7. QED
    BY <2>2, <2>5, <2>6 DEF Patched, OrphansAreOwn, Recorded, Sound, Accepted, Running, Over
<1>6. CASE CommandCrashes \/ CommandTimesOut
  <2>1. /\ pc = "command" /\ pc' = "collect" /\ ~ command'.zero
        /\ orphans' \in {orphans, orphans \union {phase}}
        /\ junit' \in {junit, [by |-> phase, wellFormed |-> FALSE, failed |-> {}]}
        /\ UNCHANGED <<phase, targets, tree, broken, runs, result>>
    BY <1>6 DEF CommandCrashes, CommandTimesOut
  <2>2. FileIsOwn'
    BY <2>1 DEF FileIsOwn, NoJUnit
  <2>3. OrphansAreOwn'
    BY <2>1 DEF OrphansAreOwn
  <2>4. QED
    BY <2>1, <2>2, <2>3 DEF Patched, ZeroIsHonest, Recorded, Sound, Accepted, Running, Over
<1>7. CASE CommandRaises
  BY <1>7 DEF CommandRaises, Raise, Patched, OrphansAreOwn, FileIsOwn, ZeroIsHonest, Recorded,
     Sound, Accepted, Running, Over
<1>8. CASE OrphanWrites
  <2>1. PICK p \in orphans : \E failed \in Outcomes(p) :
          junit' = [by |-> p, wellFormed |-> TRUE, failed |-> failed]
    BY <1>8 DEF OrphanWrites
  <2>2. /\ UNCHANGED <<pc, phase, targets, tree, broken, command, runs, result>>
        /\ orphans' \subseteq orphans
    BY <1>8 DEF OrphanWrites
  <2>3. junit'.by = phase /\ pc # "command"
    BY <2>1 DEF OrphansAreOwn, Over
  <2>4. QED
    BY <2>2, <2>3 DEF Patched, OrphansAreOwn, FileIsOwn, ZeroIsHonest, Selected, Recorded, Sound,
       Accepted, Running, Over
<1>9. CASE Collect
  <2>1. /\ pc = "collect" /\ pc' = "judge" /\ runs' = [runs EXCEPT ![phase] = Parsed]
        /\ UNCHANGED <<phase, targets, tree, broken, orphans, command, result>>
    BY <1>9 DEF Collect
  <2>2. /\ Parsed.by = phase /\ Parsed.zero = command.zero
        /\ Parsed.timed_out = command.timed_out
    BY <2>1 DEF Parsed, FileIsOwn
  <2>3. runs'[phase] = Parsed /\ (phase = 2 => runs'[1] = runs[1])
    BY <2>1 DEF TypeOK
  <2>4. Recorded'
    BY <2>1, <2>2, <2>3 DEF Recorded, Sound, Over
  <2>5. QED
    BY <2>1, <2>4 DEF Patched, OrphansAreOwn, FileIsOwn, ZeroIsHonest, Selected, Accepted,
       Running, Over
<1>10. CASE JudgeOriginal
  <2>1. /\ pc = "judge" /\ phase = 1 /\ result.verdict # "accepted"
        /\ runs[1].by = 1 /\ runs[1].zero = command.zero
        /\ runs[1].timed_out = command.timed_out /\ ~ result.regression_run
    BY <1>10 DEF JudgeOriginal, Recorded, Accepted, Over
  <2>2. /\ result'.verdict # "accepted"
        /\ result'.regression_run = result.regression_run
    BY <1>10, <2>1 DEF JudgeOriginal, TypeOK
  <2>3. UNCHANGED <<targets, tree, broken, junit, orphans, command, runs>>
    BY <1>10 DEF JudgeOriginal
  <2>4. CASE AllGreen(runs[1])
    <3>1. pc' = "clear" /\ phase' = 2
      BY <1>10, <2>4 DEF JudgeOriginal
    <3>2. orphans = {} /\ Sound(1)
      BY <2>1, <2>4 DEF AllGreen, OrphansAreOwn, ZeroIsHonest, Sound
    <3>3. QED
      BY <2>1, <2>2, <2>3, <3>1, <3>2 DEF Patched, OrphansAreOwn, FileIsOwn, ZeroIsHonest,
         Recorded, Sound, Accepted, Running, Over
  <2>5. CASE ~ AllGreen(runs[1])
    <3>1. pc' = "cleanup" /\ phase' = 1
      BY <1>10, <2>1, <2>5 DEF JudgeOriginal
    <3>2. QED
      BY <2>1, <2>2, <2>3, <3>1 DEF Patched, OrphansAreOwn, FileIsOwn, ZeroIsHonest, Recorded,
         Sound, Accepted, Running, Over
  <2>6. QED
    BY <2>4, <2>5
<1>11. CASE JudgeRegression
  <2>1. /\ pc = "judge" /\ phase = 2 /\ pc' = "cleanup" /\ tree = "patched"
        /\ runs[2].by = 2 /\ runs[2].zero = command.zero
        /\ runs[2].timed_out = command.timed_out /\ Sound(1)
    BY <1>11 DEF JudgeRegression, Recorded, Patched, Running
  <2>2. UNCHANGED <<phase, targets, tree, broken, junit, orphans, command, runs>>
    BY <1>11 DEF JudgeRegression
  <2>3. /\ result'.original_run = result.original_run
        /\ result'.verdict = "accepted" => AllGreen(runs[2])
    BY <1>11 DEF JudgeRegression, TypeOK
  <2>4. AllGreen(runs[2]) => Sound(2) /\ broken \subseteq Flaky
    BY <2>1 DEF AllGreen, ZeroIsHonest, Selected, Sound, TypeOK
  <2>5. Accepted'
    BY <2>1, <2>2, <2>3, <2>4 DEF Accepted, Sound, Over
  <2>6. QED
    BY <2>1, <2>2, <2>3, <2>5 DEF Patched, OrphansAreOwn, FileIsOwn, ZeroIsHonest, Recorded,
       Sound, Running, Over
<1>12. CASE Cleanup
  BY <1>12 DEF Cleanup, RemoveCopy, Patched, OrphansAreOwn, FileIsOwn, ZeroIsHonest, Recorded, Sound,
     Accepted, Running, Over
<1>13. CASE Done
  BY <1>13 DEF Done, vars, Patched, OrphansAreOwn, FileIsOwn, ZeroIsHonest, Selected, Recorded,
     Sound, Accepted, Running, Over
<1>14. QED
  BY <1>1, <1>2, <1>3, <1>4, <1>5, <1>6, <1>7, <1>8, <1>9, <1>10, <1>11, <1>12, <1>13 DEF Next

(* The invariant holds throughout every validation.                           *)
THEOREM Invariant == Spec => []IInv
<1>1. IInv /\ [Next]_vars => IInv'
  BY TypeStep, RestStep DEF IInv, Rest
<1>2. QED
  BY InitIInv, <1>1, PTL DEF Spec

(* Type correctness of every state of a validation.                           *)
THEOREM ValidationTypes == Spec => []TypeOK
<1>1. IInv => TypeOK
  BY DEF IInv
<1>2. QED
  BY Invariant, <1>1, PTL

(* A patch that validate_patch accepts works: on the patched sources only     *)
(* flaky tests fail, and both runs ended by themselves with exit code zero.   *)
THEOREM AcceptedPatchesWork == Spec => []AcceptedWorks
<1>1. IInv => AcceptedWorks
  <2> SUFFICES ASSUME IInv, Returned, result.verdict = "accepted"
               PROVE  /\ tree = "patched" /\ broken \subseteq Flaky
                      /\ \A p \in 1 .. 2 : Sound(p)
    BY DEF AcceptedWorks, Sound
  <2>1. /\ tree = "patched" /\ broken \subseteq Flaky /\ Sound(1) /\ Sound(2)
    BY DEF IInv, Accepted
  <2>2. \A p \in 1 .. 2 : p = 1 \/ p = 2
    OBVIOUS
  <2>3. QED
    BY <2>1, <2>2
<1>2. QED
  BY Invariant, <1>1, PTL

(* No run of a validation is read from a JUnit file that another command, or  *)
(* the repository, left in the working copy.                                  *)
THEOREM RunsReportThemselves == Spec => []RunsAreTheirOwn
<1>1. IInv => RunsAreTheirOwn
  BY DEF IInv, Recorded, RunsAreTheirOwn
<1>2. QED
  BY Invariant, <1>1, PTL

-----------------------------------------------------------------------------
(* What a phase can see fail: tests of the patched sources, or flaky ones.    *)
Real == broken \union Flaky

(* Nothing has been run before the patch is applied; after it, every failure  *)
(* in the file or the output about to be read, and in a recorded run, is      *)
(* real.                                                                      *)
Truthful ==
  /\ pc \in {"copy", "apply"} => phase = 1 /\ runs[1].failed = {} /\ runs[2].failed = {}
  /\ pc = "collect" => /\ junit.wellFormed => junit.failed \subseteq Real
                       /\ command.listed \subseteq Real
  /\ runs[1].failed \subseteq Real /\ runs[2].failed \subseteq Real

(* The suite is run only when the tests selected first no longer fail.        *)
Repaired == phase = 2 => Selected(1) \intersect broken \subseteq Flaky

(* A run is rejected for the regression suite only in the second phase.       *)
Phased == result.verdict = "rejected_regression" => phase = 2

JInv == Truthful /\ Repaired /\ Phased

(* Every command, also an abandoned one that goes on, reports real failures.  *)
LEMMA OutcomesAreReal ==
  ASSUME NEW p, NEW failed \in Outcomes(p)
  PROVE  failed \subseteq Real
BY DEF Outcomes, Real

(* Every step keeps the failures real.                                        *)
LEMMA JustStep == IInv /\ JInv /\ [Next]_vars => JInv'
<1> SUFFICES ASSUME IInv, JInv, [Next]_vars PROVE JInv'
  OBVIOUS
<1> USE DEF JInv, inputs, place, answer
<1>1. CASE UNCHANGED vars
  BY <1>1 DEF vars, Truthful, Repaired, Phased, Real, Selected
<1>2. CASE Copy \/ CopyFails
  BY <1>2 DEF Copy, CopyFails, Truthful, Repaired, Phased, Real, Selected
<1>3. CASE Apply \/ ApplyRefused \/ ApplyRaises
  <2>1. /\ pc = "apply" /\ UNCHANGED <<phase, runs>>
        /\ pc' \in {"clear", "cleanup"}
    BY <1>3 DEF Apply, ApplyRefused, ApplyRaises, Raise
  <2>2. result'.verdict \in {result.verdict, "rejected_original"}
    BY <1>3 DEF Apply, ApplyRefused, ApplyRaises, IInv, TypeOK
  <2>3. QED
    BY <2>1, <2>2 DEF Truthful, Repaired, Phased
<1>4. CASE ClearJUnit \/ CommandRaises
  BY <1>4 DEF ClearJUnit, CommandRaises, Raise, Truthful, Repaired, Phased, Real, Selected
<1>5. CASE CommandEnds
  <2>1. PICK failed \in Outcomes(phase) :
          /\ command' = [zero |-> failed = {}, timed_out |-> FALSE, listed |-> failed]
          /\ junit' = [by |-> phase, wellFormed |-> TRUE, failed |-> failed]
    BY <1>5 DEF CommandEnds
  <2>2. /\ pc = "command" /\ pc' = "collect"
        /\ UNCHANGED <<phase, targets, broken, runs, result>>
    BY <1>5 DEF CommandEnds
  <2>3. command'.listed \subseteq Real /\ junit'.failed \subseteq Real
    BY <2>1, OutcomesAreReal
  <2>4. QED
    BY <2>2, <2>3 DEF Truthful, Repaired, Phased, Real, Selected
<1>6. CASE CommandCrashes
  <2>1. PICK failed \in Outcomes(phase) : \E listed \in SUBSET failed :
          command' = [zero |-> FALSE, timed_out |-> FALSE, listed |-> listed]
    BY <1>6 DEF CommandCrashes
  <2>2. /\ pc = "command" /\ pc' = "collect"
        /\ junit' \in {junit, [by |-> phase, wellFormed |-> FALSE, failed |-> {}]}
        /\ UNCHANGED <<phase, targets, broken, runs, result>>
    BY <1>6 DEF CommandCrashes
  <2>3. command'.listed \subseteq Real
    BY <2>1, OutcomesAreReal
  <2>4. ~ junit'.wellFormed
    BY <2>2 DEF IInv, FileIsOwn, NoJUnit
  <2>5. QED
    BY <2>2, <2>3, <2>4 DEF Truthful, Repaired, Phased, Real, Selected
<1>7. CASE CommandTimesOut
  <2>1. /\ pc = "command" /\ pc' = "collect" /\ junit' = junit /\ command'.listed = {}
        /\ UNCHANGED <<phase, targets, broken, runs, result>>
    BY <1>7 DEF CommandTimesOut
  <2>2. ~ junit'.wellFormed
    BY <2>1 DEF IInv, FileIsOwn, NoJUnit
  <2>3. QED
    BY <2>1, <2>2 DEF Truthful, Repaired, Phased, Real, Selected
<1>8. CASE OrphanWrites
  <2>1. PICK p \in orphans : \E failed \in Outcomes(p) :
          junit' = [by |-> p, wellFormed |-> TRUE, failed |-> failed]
    BY <1>8 DEF OrphanWrites
  <2>2. junit'.failed \subseteq Real
    BY <2>1, OutcomesAreReal
  <2>3. UNCHANGED <<pc, phase, targets, broken, command, runs, result>>
    BY <1>8 DEF OrphanWrites
  <2>4. QED
    BY <2>2, <2>3 DEF Truthful, Repaired, Phased, Real, Selected
<1>9. CASE Collect
  <2>1. /\ pc = "collect" /\ pc' = "judge" /\ runs' = [runs EXCEPT ![phase] = Parsed]
        /\ UNCHANGED <<phase, targets, broken, result>>
    BY <1>9 DEF Collect
  <2>2. Parsed.failed \subseteq Real
    BY <2>1 DEF Parsed, Truthful
  <2>3. runs'[1].failed \subseteq Real /\ runs'[2].failed \subseteq Real
    BY <2>1, <2>2 DEF Truthful, IInv, TypeOK
  <2>4. QED
    BY <2>1, <2>3 DEF Truthful, Repaired, Phased, Real, Selected
<1>10. CASE JudgeOriginal
  <2>1. /\ pc = "judge" /\ phase = 1 /\ pc' \in {"clear", "cleanup"}
        /\ UNCHANGED <<targets, tree, broken, runs>>
    BY <1>10 DEF JudgeOriginal
  <2>2. runs[1].zero = command.zero /\ (phase' = 2 => AllGreen(runs[1]))
    BY <1>10, <2>1 DEF JudgeOriginal, IInv, Recorded
  <2>3. Repaired'
    BY <2>1, <2>2 DEF Repaired, AllGreen, IInv, ZeroIsHonest, Selected
  <2>4. result'.verdict # "rejected_regression"
    BY <1>10, <2>1 DEF JudgeOriginal, Phased, IInv, TypeOK
  <2>5. QED
    BY <2>1, <2>3, <2>4 DEF Truthful, Phased, Real
<1>11. CASE JudgeRegression
  BY <1>11 DEF JudgeRegression, Truthful, Repaired, Phased, Real, Selected
<1>12. CASE Cleanup
  BY <1>12 DEF Cleanup, RemoveCopy, Truthful, Repaired, Phased, Real, Selected
<1>13. CASE Done
  BY <1>13 DEF Done, vars, Truthful, Repaired, Phased, Real, Selected
<1>14. QED
  BY <1>1, <1>2, <1>3, <1>4, <1>5, <1>6, <1>7, <1>8, <1>9, <1>10, <1>11, <1>12, <1>13 DEF Next

(* Every failure a run reports is a real one, and a patch rejected by the     *)
(* regression suite broke a test that used to pass, or a test is flaky.       *)
THEOREM RejectionsAreJust == Spec => []RejectionIsJust
<1>1. Init => JInv
  BY DEF Init, JInv, Truthful, Repaired, Phased, NotRun, NoRun
<1>2. IInv /\ JInv => RejectionIsJust
  <2> SUFFICES ASSUME IInv, JInv PROVE RejectionIsJust
    OBVIOUS
  <2>1. \A p \in 1 .. 2 : runs[p].failed \subseteq broken \union Flaky
    <3>1. \A p \in 1 .. 2 : p = 1 \/ p = 2
      OBVIOUS
    <3>2. QED
      BY <3>1 DEF JInv, Truthful, Real
  <2>2. ASSUME result.verdict = "rejected_regression", runs[2].failed # {}, targets = originals
        PROVE  runs[2].failed \intersect ((broken \ originals) \union Flaky) # {}
    <3>1. Selected(1) \intersect broken \subseteq Flaky
      BY <2>2 DEF JInv, Phased, Repaired
    <3>2. originals \intersect broken \subseteq Flaky
      BY <2>2, <3>1 DEF Selected
    <3>3. PICK t \in runs[2].failed : t \in broken \union Flaky
      BY <2>1, <2>2
    <3>4. QED
      BY <3>2, <3>3
  <2>3. QED
    BY <2>1, <2>2 DEF RejectionIsJust
<1>3. QED
  BY <1>1, <1>2, Invariant, JustStep, PTL DEF Spec

-----------------------------------------------------------------------------
(* The result before the last judgement, and the working copy at each call.   *)
ResultSoFar ==
  IF phase = 2
    THEN [verdict |-> "not_run", original_run |-> TRUE, original_passed |-> TRUE,
          regression_run |-> FALSE, regression_passed |-> FALSE]
    ELSE NotRun

Reported ==
  /\ pc \in Over => raised \/ result \in ValidationResults
  /\ pc \notin Over => ~ raised /\ result = ResultSoFar

Housed ==
  /\ pc = "copy" => phase = 1
  /\ pc = "apply" => phase = 1
  /\ pc = "done" => workspace \in {"removed", "left"} \/ (workspace = "leaked" /\ raised)

(* Every step keeps the result one of those the engine knows.                 *)
LEMMA KnownStep == IInv /\ Reported /\ Housed /\ [Next]_vars => Reported' /\ Housed'
<1> SUFFICES ASSUME IInv, Reported, Housed, [Next]_vars PROVE Reported' /\ Housed'
  OBVIOUS
<1> USE DEF inputs, place, answer
<1>1. CASE UNCHANGED vars \/ Done
  BY <1>1 DEF Done, vars, Reported, ResultSoFar, Housed
<1>2. CASE Copy \/ CopyFails \/ Apply \/ ApplyRaises
  BY <1>2 DEF Copy, CopyFails, Apply, ApplyRaises, Raise, Reported, ResultSoFar, Housed, Over
<1>3. CASE ApplyRefused
  <2>1. /\ pc = "apply" /\ pc' = "cleanup" /\ phase = 1
        /\ result' = [result EXCEPT !.verdict = "rejected_original"]
    BY <1>3 DEF ApplyRefused, Housed
  <2>2. result = NotRun
    BY <2>1 DEF Reported, ResultSoFar, Over, NotRun
  <2>3. result' \in ValidationResults
    BY <2>1, <2>2 DEF NotRun, ValidationResults
  <2>4. QED
    BY <2>1, <2>3 DEF Reported, Housed, Over
<1>4. CASE ClearJUnit \/ CommandEnds \/ CommandCrashes \/ CommandTimesOut \/ Collect
  <2>1. /\ pc \notin Over /\ pc' \in {"command", "collect", "judge"}
        /\ UNCHANGED <<phase, result, raised>>
    BY <1>4 DEF ClearJUnit, CommandEnds, CommandCrashes, CommandTimesOut, Collect, Over
  <2>2. QED
    BY <2>1 DEF Reported, ResultSoFar, Housed, Over
<1>5. CASE CommandRaises
  BY <1>5 DEF CommandRaises, Raise, Reported, Housed, Over
<1>6. CASE OrphanWrites
  BY <1>6 DEF OrphanWrites, Reported, ResultSoFar, Housed
<1>7. CASE JudgeOriginal
  <2>1. /\ pc = "judge" /\ phase = 1 /\ ~ raised /\ result = NotRun /\ raised' = raised
    BY <1>7 DEF JudgeOriginal, Reported, ResultSoFar, Over, NotRun
  <2>2. AllGreen(runs[1]) \in BOOLEAN
    BY DEF AllGreen, IInv, TypeOK, Runs
  <2>3. CASE AllGreen(runs[1])
    <3>1. pc' = "clear" /\ phase' = 2
      BY <1>7, <2>3 DEF JudgeOriginal
    <3>2. result' = [verdict |-> "not_run", original_run |-> TRUE, original_passed |-> TRUE,
                     regression_run |-> FALSE, regression_passed |-> FALSE]
      BY <1>7, <2>1, <2>2, <2>3 DEF JudgeOriginal, NotRun
    <3>3. QED
      BY <2>1, <3>1, <3>2 DEF Reported, ResultSoFar, Housed, Over
  <2>4. CASE ~ AllGreen(runs[1])
    <3> AllGreen(runs[1]) = FALSE
      BY <2>2, <2>4
    <3>1. result' = [verdict |-> "rejected_original", original_run |-> TRUE,
                     original_passed |-> FALSE, regression_run |-> FALSE,
                     regression_passed |-> FALSE]
      BY <1>7, <2>1, <2>4 DEF JudgeOriginal, NotRun
    <3>2. result' \in ValidationResults
      BY <3>1 DEF ValidationResults
    <3>3. QED
      BY <1>7, <2>1, <2>4, <3>2 DEF JudgeOriginal, Reported, Housed, Over
  <2>5. QED
    BY <2>3, <2>4
<1>8. CASE JudgeRegression
  <2>1. /\ pc = "judge" /\ phase = 2 /\ pc' = "cleanup"
    BY <1>8 DEF JudgeRegression
  <2>2. result = [verdict |-> "not_run", original_run |-> TRUE, original_passed |-> TRUE,
                  regression_run |-> FALSE, regression_passed |-> FALSE]
    BY <2>1 DEF Reported, ResultSoFar, Over
  <2>3. AllGreen(runs[2]) \in BOOLEAN
    BY DEF AllGreen, IInv, TypeOK, Runs
  <2>4. result' = [verdict |-> IF AllGreen(runs[2]) THEN "accepted" ELSE "rejected_regression",
                   original_run |-> TRUE, original_passed |-> TRUE,
                   regression_run |-> TRUE, regression_passed |-> AllGreen(runs[2])]
    BY <1>8, <2>2 DEF JudgeRegression, NotRun
  <2>5. result' \in ValidationResults
    BY <2>3, <2>4 DEF ValidationResults
  <2>6. QED
    BY <2>1, <2>5 DEF Reported, Housed, Over
<1>9. CASE Cleanup
  BY <1>9 DEF Cleanup, RemoveCopy, Reported, Housed, Over
<1>10. QED
  BY <1>1, <1>2, <1>3, <1>4, <1>5, <1>6, <1>7, <1>8, <1>9 DEF Next

(* validate_patch returns a result the engine knows how to report, or raises; *)
(* either way the cleanup of its working copy was tried, unless the copy      *)
(* could not be made.                                                         *)
THEOREM ReturnsAreKnown == Spec => []ReturnsKnownResult
<1>1. Init => Reported /\ Housed
  BY DEF Init, Reported, ResultSoFar, Housed, Over, NotRun
<1>2. Reported /\ Housed => ReturnsKnownResult
  BY DEF Reported, Housed, ReturnsKnownResult, Over
<1>3. QED
  BY <1>1, <1>2, Invariant, KnownStep, PTL DEF Spec
=============================================================================
