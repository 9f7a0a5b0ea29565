--------------------------- MODULE PatchValidation ---------------------------
(* validate_patch with all it calls: the temporary Workspace, the diff        *)
(* applied to it, and two run_pytest calls that talk to pytest through a      *)
(* command and a JUnit file in the working copy.                              *)
(*                                                                            *)
(* A command that is timed out is abandoned, not undone: what it started (a   *)
(* container, a grandchild) may go on and write its JUnit file later.         *)
EXTENDS Naturals, FiniteSets, ValidationResults

CONSTANTS
  Tests,   \* the tests of the repository
  Flaky    \* those whose outcome changes from run to run

ASSUME FlakyAssumption == Flaky \subseteq Tests

VARIABLES
  pc,          \* the call validate_patch is about to make
  phase,       \* 1: the original failures, 2: the whole suite
  originals,   \* the tests that failed before the patch (history)
  targets,     \* failing_node_ids: those of them a node id was built for
  workspace,   \* the temporary copy: "none", "live", "leaked" when nobody
               \* holds it, and once cleaned "removed" or "left"
  tree,        \* its sources: "original", "patched" or "partly" patched
  broken,      \* the tests that fail on these sources
  junit,       \* the JUnit file in the copy
  orphans,     \* the phases whose abandoned command may still write it
  command,     \* the CommandResult of the last command
  runs,        \* result.original_run and result.regression_run
  result,      \* the ValidationResult
  raised       \* does an exception leave validate_patch?

inputs == <<originals, targets>>
place  == <<workspace, tree, broken>>
answer == <<runs, result, raised>>
vars == <<pc, phase, inputs, place, junit, orphans, command, answer>>

(* A JUnit file: which phase wrote it (0: it came with the repository),       *)
(* whether it parses, and the failures in it.                                 *)
JUnitFiles == [by: 0 .. 2, wellFormed: BOOLEAN, failed: SUBSET Tests]
NoJUnit == [by |-> 0, wellFormed |-> FALSE, failed |-> {}]

CommandResults == [zero: BOOLEAN, timed_out: BOOLEAN, listed: SUBSET Tests]
NoCommand == [zero |-> FALSE, timed_out |-> FALSE, listed |-> {}]

(* An ExecutionResult: whose report it was read from, the failures in it, and *)
(* how its command ended.                                                     *)
Runs == [by: 0 .. 2, failed: SUBSET Tests, zero: BOOLEAN, timed_out: BOOLEAN]
NoRun == [by |-> 0, failed |-> {}, zero |-> FALSE, timed_out |-> FALSE]

(* ExecutionResult.all_green                                                  *)
MutantGreenWithoutFailures(run) == run.failed = {}
AllGreen(run) == run.failed = {} /\ run.zero

Init ==
  /\ pc = "copy" /\ phase = 1
  /\ originals \in SUBSET Tests /\ targets \in SUBSET originals
  /\ workspace = "none" /\ tree = "original" /\ broken = originals
  /\ junit = NoJUnit /\ orphans = {} /\ command = NoCommand
  /\ runs = <<NoRun, NoRun>> /\ result = NotRun /\ raised = FALSE

-----------------------------------------------------------------------------
(* An exception passes through the with statement, which cleans up.           *)
Raise == pc' = "cleanup" /\ raised' = TRUE

(* Workspace(repo_root); the repository may hold a JUnit file of its own.     *)
Copy ==
  /\ pc = "copy"
  /\ workspace' = "live"
  /\ junit' \in {NoJUnit} \union {[by |-> 0, wellFormed |-> TRUE, failed |-> originals]}
  /\ pc' = "apply"
  /\ UNCHANGED <<phase, inputs, tree, broken, orphans, command, answer>>

(* copytree raises before the with statement has an object to exit.           *)
CopyFails ==
  /\ pc = "copy"
  /\ workspace' = "leaked"
  /\ raised' = TRUE /\ pc' = "done"
  /\ UNCHANGED <<phase, inputs, tree, broken, junit, orphans, command, runs, result>>

(* apply_unified_diff succeeds: the patch may fix and break any tests.        *)
Apply ==
  /\ pc = "apply"
  /\ tree' = "patched"
  /\ broken' \in SUBSET Tests
  /\ pc' = "clear"
  /\ UNCHANGED <<phase, inputs, workspace, junit, orphans, command, answer>>

MutantUnknownVerdict ==
  /\ pc = "apply"
  /\ result' = [result EXCEPT !.verdict = "patch_error"]
  /\ pc' = "cleanup"
  /\ UNCHANGED <<phase, inputs, place, junit, orphans, command, runs, raised>>

(* PatchError: nothing has been written and nothing is run.                   *)
ApplyRefused ==
  /\ pc = "apply"
  /\ result' = [result EXCEPT !.verdict = "rejected_original"]
  /\ pc' = "cleanup"
  /\ UNCHANGED <<phase, inputs, place, junit, orphans, command, runs, raised>>

(* A write fails after all hunks were verified.                               *)
ApplyRaises ==
  /\ pc = "apply"
  /\ tree' \in {"original", "partly"}
  /\ Raise
  /\ UNCHANGED <<phase, inputs, workspace, broken, junit, orphans, command, runs, result>>

-----------------------------------------------------------------------------
(* run_pytest                                                                 *)

MutantFirstTarget(p) ==
  IF p = 1 /\ targets # {} THEN {CHOOSE t \in targets : TRUE} ELSE Tests

(* An empty list of node ids selects the whole suite.                         *)
Selected(p) == IF p = 1 /\ targets # {} THEN targets ELSE Tests

MutantNoClear ==
  /\ pc = "clear"
  /\ pc' = "command"
  /\ UNCHANGED <<phase, inputs, place, junit, orphans, command, answer>>

ClearJUnit ==
  /\ pc = "clear"
  /\ junit' = NoJUnit
  /\ pc' = "command"
  /\ UNCHANGED <<phase, inputs, place, orphans, command, answer>>

(* The failures among the selected tests this time.                           *)
Outcomes(p) == {(Selected(p) \intersect (broken \ Flaky)) \union unlucky :
                  unlucky \in SUBSET (Selected(p) \intersect Flaky)}

(* pytest runs to its end: its exit code and its file agree.                  *)
CommandEnds ==
  /\ pc = "command"
  /\ \E failed \in Outcomes(phase) :
       /\ command' = [zero |-> failed = {}, timed_out |-> FALSE, listed |-> failed]
       /\ junit' = [by |-> phase, wellFormed |-> TRUE, failed |-> failed]
  /\ pc' = "collect"
  /\ UNCHANGED <<phase, inputs, place, orphans, answer>>

(* pytest dies (or refuses its arguments): no file or half a file, and some   *)
(* FAILED lines on stdout.                                                    *)
CommandCrashes ==
  /\ pc = "command"
  /\ \E failed \in Outcomes(phase) : \E listed \in SUBSET failed :
       command' = [zero |-> FALSE, timed_out |-> FALSE, listed |-> listed]
  /\ junit' \in {junit, [by |-> phase, wellFormed |-> FALSE, failed |-> {}]}
  /\ pc' = "collect"
  /\ UNCHANGED <<phase, inputs, place, orphans, answer>>

(* The executor gives up waiting.                                             *)
CommandTimesOut ==
  /\ pc = "command"
  /\ command' = [zero |-> FALSE, timed_out |-> TRUE, listed |-> {}]
  /\ orphans' \in {orphans, orphans \union {phase}}
  /\ pc' = "collect"
  /\ UNCHANGED <<phase, inputs, place, junit, answer>>

(* The executor raises (the runner image cannot be built).                    *)
CommandRaises ==
  /\ pc = "command"
  /\ Raise
  /\ UNCHANGED <<phase, inputs, place, junit, orphans, command, runs, result>>

(* As long as the copy is there, be it left behind by the cleanup.            *)
OrphanWrites ==
  /\ workspace \in {"live", "left"}
  /\ \E p \in orphans :
       /\ \E failed \in Outcomes(p) :
            junit' = [by |-> p, wellFormed |-> TRUE, failed |-> failed]
       /\ orphans' = orphans \ {p}
  /\ UNCHANGED <<pc, phase, inputs, place, command, answer>>

(* build_execution_result: the file if it is there and parses, else the       *)
(* FAILED lines of stdout.                                                    *)
Parsed ==
  [by |-> IF junit.wellFormed THEN junit.by ELSE phase,
   failed |-> IF junit.wellFormed THEN junit.failed ELSE command.listed,
   zero |-> command.zero, timed_out |-> command.timed_out]

(* The JUnit file is read and deleted, and the run recorded.                  *)
Collect ==
  /\ pc = "collect"
  /\ runs' = [runs EXCEPT ![phase] = Parsed]
  /\ junit' = NoJUnit
  /\ pc' = "judge"
  /\ UNCHANGED <<phase, inputs, place, orphans, command, result, raised>>

-----------------------------------------------------------------------------
(* The judgement between the phases and after the second.                     *)
JudgeOriginal ==
  /\ pc = "judge" /\ phase = 1
  /\ LET green == AllGreen(runs[1])
     IN  /\ result' = [result EXCEPT !.original_run = TRUE, !.original_passed = green,
                                     !.verdict = IF green THEN @ ELSE "rejected_original"]
         /\ IF green THEN pc' = "clear" /\ phase' = 2
                     ELSE pc' = "cleanup" /\ UNCHANGED phase
  /\ UNCHANGED <<inputs, place, junit, orphans, command, runs, raised>>

JudgeRegression ==
  /\ pc = "judge" /\ phase = 2
  /\ LET green == AllGreen(runs[2])
     IN  result' = [result EXCEPT !.regression_run = TRUE, !.regression_passed = green,
                                  !.verdict = IF green THEN "accepted" ELSE "rejected_regression"]
  /\ pc' = "cleanup"
  /\ UNCHANGED <<phase, inputs, place, junit, orphans, command, runs, raised>>

(* shutil.rmtree, told to ignore its errors: what cannot be deleted, or what  *)
(* an abandoned command still writes, stays behind and nothing says so.       *)
RemoveCopy ==
  \/ workspace' = "removed" /\ junit' = NoJUnit
  \/ workspace' = "left" /\ junit' \in {NoJUnit, junit}

MutantCleanupUnlessRaised ==
  /\ pc = "cleanup"
  /\ IF raised THEN UNCHANGED <<workspace, junit>> ELSE RemoveCopy
  /\ pc' = "done"
  /\ UNCHANGED <<phase, inputs, tree, broken, orphans, command, answer>>

(* Workspace.__exit__                                                         *)
Cleanup ==
  /\ pc = "cleanup"
  /\ RemoveCopy
  /\ pc' = "done"
  /\ UNCHANGED <<phase, inputs, tree, broken, orphans, command, answer>>

Done == pc = "done" /\ UNCHANGED vars

Next ==
  \/ Copy \/ CopyFails \/ Apply \/ ApplyRefused \/ ApplyRaises
  \/ ClearJUnit \/ CommandEnds \/ CommandCrashes \/ CommandTimesOut \/ CommandRaises
  \/ OrphanWrites \/ Collect \/ JudgeOriginal \/ JudgeRegression \/ Cleanup \/ Done

Spec == Init /\ [][Next]_vars

-----------------------------------------------------------------------------
TypeOK ==
  /\ pc \in {"copy", "apply", "clear", "command", "collect", "judge", "cleanup", "done"}
  /\ phase \in 1 .. 2
  /\ originals \subseteq Tests /\ targets \subseteq originals
  /\ workspace \in {"none", "live", "leaked", "removed", "left"}
  /\ tree \in {"original", "patched", "partly"}
  /\ broken \subseteq Tests
  /\ junit \in JUnitFiles /\ orphans \subseteq 1 .. 2
  /\ command \in CommandResults
  /\ runs \in [1 .. 2 -> Runs]
  /\ result \in [verdict: {"not_run", "rejected_original", "rejected_regression", "accepted"},
                 original_run: BOOLEAN, original_passed: BOOLEAN,
                 regression_run: BOOLEAN, regression_passed: BOOLEAN]
  /\ raised \in BOOLEAN

Returned == pc = "done" /\ ~ raised

(* An accepted patch works: on the patched sources no test fails, save those  *)
(* that fail at random, and both runs ended by themselves.  That holds when   *)
(* node ids were missing, commands crashed or late JUnit files turned up.     *)
AcceptedWorks ==
  Returned /\ result.verdict = "accepted" =>
    /\ tree = "patched" /\ broken \subseteq Flaky
    /\ \A p \in 1 .. 2 : runs[p].by = p /\ runs[p].zero /\ ~ runs[p].timed_out

(* A run reports on its own command: no result is read from the JUnit file of *)
(* another phase, or from one that came with the repository.                  *)
RunsAreTheirOwn ==
  /\ result.original_run => runs[1].by = 1
  /\ result.regression_run => runs[2].by = 2

(* A rejection is just: every failure a run reports is one of the patched     *)
(* sources (or a flaky test), and when each original failure had its node id, *)
(* a patch that the regression suite rejects for failing tests broke one that *)
(* used to pass.                                                              *)
RejectionIsJust ==
  /\ \A p \in 1 .. 2 : runs[p].failed \subseteq broken \union Flaky
  /\ Returned /\ result.verdict = "rejected_regression"
       /\ runs[2].failed # {} /\ targets = originals =>
       runs[2].failed \intersect ((broken \ originals) \union Flaky) # {}

(* What the engine takes for granted: a result that is returned is one of     *)
(* those it knows how to report, and every way out, also that of an exception *)
(* from the applier or the executor, goes through the cleanup of the copy,    *)
(* unless the copy could not be made.  (That its files are gone is more than  *)
(* rmtree promises here.)                                                     *)
ReturnsKnownResult ==
  pc = "done" => /\ ~ raised => result \in ValidationResults
                 /\ workspace \in {"removed", "left"} \/ (workspace = "leaked" /\ raised)
=============================================================================
