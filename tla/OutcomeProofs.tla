---------------------------- MODULE OutcomeProofs ----------------------------
(* What the user is told is true, and the engine keeps its promise: whatever  *)
(* is raised wherever, exit code zero is earned, the reports and the session  *)
(* row agree, the cleaning of every copy is tried, and nothing the report     *)
(* rests on is rewritten.                                                     *)
EXTENDS EngineProofs

-----------------------------------------------------------------------------
(* Who may change what, and when.                                             *)

SuiteEffect ==
  \/ initial' = initial /\ ~ (pc = "run_suite" /\ pc' \in {"no_failure", "observe"})
  \/ pc = "run_suite" /\ initial' = "green" /\ pc' # "observe"
  \/ pc = "run_suite" /\ initial' = "red" /\ pc' # "no_failure"

CauseEffect ==
  \/ rootCause' = rootCause /\ ~ (pc = "declare" /\ pc' = "patch")
  \/ pc = "declare" /\ rootCause'.hypothesis = chosen

PatchEffect ==
  \/ patch' = patch /\ ~ (pc = "propose" /\ pc' = "validate")
  \/ pc = "propose" /\ patch' = TRUE

ValidationEffect ==
  \/ validation' = validation
  \/ pc = "run_validation" /\ validation' \in ValidationResults

(* Only the handler and an unsupported repository set session.error.          *)
ErrorEffect ==
  \/ /\ error' = error
     /\ ~ (pc = "detect" /\ pc' = "unsupported")
     /\ pc = "handler" => pc' = "finally" /\ visited' = visited
  \/ pc \in {"detect", "handler"} /\ error' = TRUE

VisitedEffect ==
  \/ visited' = visited /\ ~ (pc = "no_failure" /\ pc' = "report")
  \/ pc = "no_failure" /\ visited' = visited \union {"NO_FAILURE"}
  \/ pc \in {"unsupported", "give_up", "handler"} /\ visited' = visited \union {"FAILED"}
  \/ /\ pc \notin {"unsupported", "give_up", "handler", "no_failure"}
     /\ \E to \in States \ {"NO_FAILURE", "FAILED"} : visited' = visited \union {to}

EvidenceEffect ==
  \/ evidence' = evidence
  \/ pc \in {"record_failures", "record_findings", "experiment", "run_validation"}

SessionEffects ==
  /\ SuiteEffect /\ CauseEffect /\ PatchEffect /\ ValidationEffect
  /\ ErrorEffect /\ EvidenceEffect

(* Transitions add their target to the history.                               *)
LEMMA HistoryGrows ==
  ASSUME NEW to, NEW next, Transition(to, next)
  PROVE  \/ visited' = visited \union {to}
         \/ visited' = visited /\ pc' \in {"handler", "finally"}
BY RaiseLeads DEF Transition, lifecycle

(* Who adds to the history: NO_FAILURE and FAILED have their own places.      *)
LEMMA StepVisits == Next => VisitedEffect
<1> SUFFICES ASSUME Next PROVE VisitedEffect
  OBVIOUS
<1>1. CASE UNCHANGED lifecycle /\ pc # "no_failure"
  BY <1>1 DEF lifecycle, VisitedEffect
<1>2. CASE EnterStage
  <2>1. PICK p \in DOMAIN Requests : pc = p /\ Transition(Requests[p], After[p])
    BY <1>2 DEF EnterStage
  <2>2. \/ p = "no_failure" /\ Requests[p] = "NO_FAILURE"
        \/ p \in {"unsupported", "give_up"} /\ Requests[p] = "FAILED"
        \/ /\ p \notin {"unsupported", "give_up", "handler", "no_failure"}
           /\ Requests[p] \in States \ {"NO_FAILURE", "FAILED"}
    BY DEF Requests, States
  <2>3. QED
    BY <2>1, <2>2, HistoryGrows DEF VisitedEffect
<1>3. CASE CatchException
  BY <1>1, <1>3, HistoryGrows DEF CatchException, VisitedEffect
<1>4. CASE StartReport \/ Complete
  BY <1>1, <1>4, HistoryGrows DEF StartReport, Complete, VisitedEffect, States
<1>5. CASE Interrupt
  BY <1>5 DEF Interrupt, lifecycle, VisitedEffect
<1>6. CASE CallRaises
  BY <1>1, <1>6 DEF CallRaises, Fallible
<1>7. CASE Detect \/ Unsupported \/ BuildGraph \/ CopyRepository \/ CopyFails \/ SuiteIsGreen
           \/ SuiteIsRed \/ RecordFailure \/ FailuresRecorded \/ Generate \/ RecordFinding
           \/ FindingsRecorded
  <2>1. pc # "no_failure"
    BY <1>7 DEF Detect, Unsupported, BuildGraph, CopyRepository, CopyFails, SuiteIsGreen,
       SuiteIsRed, RecordFailure, FailuresRecorded, Generate, RecordFinding, FindingsRecorded
  <2>2. QED
    BY <1>1, <1>7, <2>1, StageFlows
<1>8. CASE ChooseExperiment \/ ChooseRootCause \/ Inconclusive \/ RunExperiment
           \/ DeclareRootCause \/ NoPatch \/ ProposePatch \/ Validate \/ AnnounceRegression
  <2>1. pc # "no_failure"
    BY <1>8 DEF ChooseExperiment, ChooseRootCause, Inconclusive, RunExperiment,
       DeclareRootCause, NoPatch, ProposePatch, Validate, AnnounceRegression
  <2>2. QED
    BY <1>1, <1>8, <2>1, DecisionFlows
<1>9. CASE AnnounceError \/ ResolveState \/ WriteMarkdown \/ MarkdownCut \/ WriteJson \/ JsonCut
  <2>1. pc # "no_failure"
    BY <1>9 DEF AnnounceError, ResolveState, WriteMarkdown, MarkdownCut, WriteJson, JsonCut
  <2>2. QED
    BY <1>1, <1>9, <2>1, ReportFlows
<1>10. CASE Finally \/ SaveSession \/ SaveFails \/ InterruptInFinally \/ Exited
  <2>1. pc # "no_failure"
    BY <1>10 DEF Finally, SaveSession, SaveFails, InterruptInFinally, Exited
  <2>2. QED
    BY <1>1, <1>10, <2>1, EndFlows
<1>11. QED
  BY <1>2, <1>3, <1>4, <1>5, <1>6, <1>7, <1>8, <1>9, <1>10 DEF Next

(* Every step changes the session only where that is said.                    *)
LEMMA StepSession == Next => SessionEffects
<1> SUFFICES ASSUME Next PROVE SessionEffects
  OBVIOUS
<1> USE DEF SessionEffects, SuiteEffect, CauseEffect, PatchEffect, ValidationEffect,
            ErrorEffect, EvidenceEffect
<1>1. CASE /\ UNCHANGED <<execution, inquiry, repair, outcome>>
           /\ pc \notin {"run_suite", "declare", "propose", "detect", "handler"}
  BY <1>1 DEF execution, inquiry, repair, outcome
<1>2. CASE EnterStage
  <2>1. pc \notin {"run_suite", "declare", "propose", "detect", "handler"}
    BY <1>2 DEF EnterStage, Requests
  <2>2. QED
    BY <1>1, <1>2, <2>1 DEF EnterStage
<1>3. CASE Interrupt \/ CallRaises \/ NoPatch \/ Detect
  <2>1. UNCHANGED <<lifecycle, execution, inquiry, repair, outcome>>
    BY <1>3 DEF Interrupt, CallRaises, NoPatch, Detect
  <2>2. \/ pc' \in {"handler", "finally"} /\ (pc = "handler" => pc' = "finally")
        \/ pc = "propose" /\ pc' = "report"
        \/ pc = "detect" /\ pc' = "graph"
    BY <1>3, RaiseLeads, GoLeads DEF Interrupt, CallRaises, Fallible, NoPatch, Detect
  <2>3. QED
    BY <2>1, <2>2 DEF lifecycle, execution, inquiry, repair, outcome
<1>4. CASE BuildGraph \/ CopyRepository \/ CopyFails \/ FailuresRecorded \/ FindingsRecorded
           \/ Inconclusive \/ AnnounceRegression \/ AnnounceError \/ StartReport
           \/ WriteMarkdown \/ MarkdownCut \/ WriteJson \/ JsonCut \/ Complete
           \/ SaveSession \/ SaveFails
  <2>1. pc \notin {"run_suite", "declare", "propose", "detect", "handler"}
    BY <1>4 DEF BuildGraph, CopyRepository, CopyFails, FailuresRecorded, FindingsRecorded,
       Inconclusive, AnnounceRegression, AnnounceError, StartReport, WriteMarkdown,
       MarkdownCut, WriteJson, JsonCut, Complete, SaveSession, SaveFails
  <2>2. UNCHANGED <<execution, inquiry, repair, outcome>>
    BY <1>4 DEF BuildGraph, CopyRepository, CopyFails, FailuresRecorded, FindingsRecorded,
       Inconclusive, AnnounceRegression, AnnounceError, StartReport, WriteMarkdown,
       MarkdownCut, WriteJson, JsonCut, Complete, SaveSession, SaveFails
  <2>3. QED
    BY <1>1, <2>1, <2>2
<1>5. CASE Unsupported
  BY <1>5 DEF Unsupported, execution, inquiry, repair
<1>6. CASE SuiteIsGreen
  BY <1>6, GoLeads DEF SuiteIsGreen, inquiry, repair, outcome
<1>7. CASE SuiteIsRed
  BY <1>7, GoLeads DEF SuiteIsRed, inquiry, repair, outcome
<1>8. CASE RecordFailure \/ Generate \/ RecordFinding \/ ChooseExperiment \/ ChooseRootCause
  BY <1>8 DEF RecordFailure, Generate, RecordFinding, ChooseExperiment, ChooseRootCause,
     execution, repair, outcome
<1>9. CASE RunExperiment
  BY <1>9 DEF RunExperiment, execution, repair, outcome
<1>10. CASE DeclareRootCause
  BY <1>10 DEF DeclareRootCause, execution, inquiry, outcome
<1>11. CASE ProposePatch
  BY <1>11 DEF ProposePatch, execution, inquiry, outcome
<1>12. CASE Validate
  BY <1>12 DEF Validate, execution, outcome
<1>13. CASE CatchException
  BY <1>13 DEF CatchException, execution, inquiry, repair
<1>14. CASE ResolveState
  BY <1>14 DEF ResolveState, execution, inquiry, repair
<1>15. CASE Finally \/ InterruptInFinally
  BY <1>15 DEF Finally, InterruptInFinally, execution, inquiry, repair
<1>16. CASE Exited
  BY <1>16 DEF Exited, vars, execution, inquiry, repair, outcome
<1>17. QED
  BY <1>2, <1>3, <1>4, <1>5, <1>6, <1>7, <1>8, <1>9, <1>10, <1>11, <1>12, <1>13, <1>14,
     <1>15, <1>16 DEF Next

-----------------------------------------------------------------------------
(* The report files, the working copy, and the end of the run.                *)

StateEffect ==
  \/ state' = state /\ ~ (pc = "resolve" /\ pc' = "write_markdown")
  \/ pc = "resolve" /\ state' = ResolvedState
  \/ pc = "finally" /\ ~ reported

ReportedEffect ==
  \/ reported' = reported /\ ~ (pc = "write_json" /\ pc' = "complete")
  \/ pc = "write_json" /\ reported' = TRUE

MarkdownEffect ==
  \/ markdown' = markdown /\ ~ (pc = "write_markdown" /\ pc' = "write_json")
  \/ pc = "write_markdown" /\ (pc' = "write_json" => markdown' = Rendering)

JsonEffect ==
  \/ json' = json /\ ~ (pc = "write_json" /\ pc' = "complete")
  \/ pc = "write_json" /\ (pc' = "complete" => json' = Rendering)

WorkspaceEffect ==
  \/ workspace' = workspace /\ pc # "finally"
  \/ pc = "copy" /\ workspace' = "live" /\ pc' = "run_suite"
  \/ pc = "copy" /\ workspace' = "leaked" /\ pc' \in {"handler", "finally"}
  \/ pc = "finally" /\ workspace' \in Cleaned
  \/ pc = "finally" /\ exc' = "cut" /\ workspace' \in {workspace} \union Cleaned

ExitEffect ==
  \/ UNCHANGED <<saved, exitCode>> /\ pc' # "exited" /\ (pc = "finally" => exc # "escaped")
  \/ /\ pc = "finally" /\ pc' = "exited" /\ (exc = "escaped" \/ exc' = "cut")
     /\ saved' = saved /\ exitCode' = "one"
  \/ pc = "save" /\ pc' = "exited" /\ saved' = saved /\ exitCode' = "one"
  \/ /\ pc = "save" /\ pc' = "exited" /\ saved' = Rendering
     /\ exitCode' = IF ExitsZero THEN "zero" ELSE "one"

FileEffects == /\ StateEffect /\ ReportedEffect /\ MarkdownEffect /\ JsonEffect
               /\ WorkspaceEffect /\ ExitEffect

(* Where the run does not end or report, it leaves all of that alone.         *)
LEMMA QuietKeepsFiles ==
  ASSUME UNCHANGED <<state, files, cli>>, pc' # "exited",
         pc \notin {"resolve", "write_markdown", "write_json", "finally"}
  PROVE  FileEffects
BY DEF FileEffects, StateEffect, ReportedEffect, MarkdownEffect, JsonEffect, WorkspaceEffect,
   ExitEffect, files, cli

(* And the files, the working copy and the exit code.                         *)
LEMMA StepFiles == Next => FileEffects \/ UNCHANGED vars
<1> SUFFICES ASSUME Next PROVE FileEffects \/ UNCHANGED vars
  OBVIOUS
<1>1. CASE EnterStage
  <2>1. PICK p \in DOMAIN Requests : pc = p /\ Transition(Requests[p], After[p])
    BY <1>1 DEF EnterStage
  <2>2. pc' \in {After[p], "handler", "finally"}
    BY <2>1, TransitionLeads
  <2>3. /\ pc' # "exited"
        /\ pc \notin {"resolve", "write_markdown", "write_json", "finally"}
    BY <2>1, <2>2 DEF Requests, After
  <2>4. QED
    BY <1>1, <2>3, QuietKeepsFiles DEF EnterStage, outcome
<1>2. CASE CallRaises
  <2>1. pc' \in {"handler", "finally"} /\ pc # "finally" /\ pc # "resolve"
    BY <1>2, RaiseLeads DEF CallRaises, Fallible
  <2>2. UNCHANGED <<state, files, cli>>
    BY <1>2 DEF CallRaises, outcome
  <2>3. QED
    BY <2>1, <2>2 DEF files, cli, FileEffects, StateEffect, ReportedEffect, MarkdownEffect,
       JsonEffect, WorkspaceEffect, ExitEffect
<1>3. CASE Detect \/ BuildGraph \/ FindingsRecorded \/ Inconclusive \/ NoPatch \/ ProposePatch
           \/ AnnounceRegression \/ AnnounceError \/ DeclareRootCause \/ RunExperiment
           \/ SuiteIsGreen \/ SuiteIsRed
  <2>1. UNCHANGED <<state, files, cli>>
    BY <1>3 DEF Detect, BuildGraph, FindingsRecorded, Inconclusive, NoPatch, ProposePatch,
       AnnounceRegression, AnnounceError, DeclareRootCause, RunExperiment, SuiteIsGreen,
       SuiteIsRed, outcome
  <2>2. pc \notin {"resolve", "write_markdown", "write_json", "finally"}
    BY <1>3
       DEF Detect, BuildGraph, FindingsRecorded, Inconclusive, NoPatch, ProposePatch,
       AnnounceRegression, AnnounceError, DeclareRootCause, RunExperiment, SuiteIsGreen,
       SuiteIsRed
  <2>3. \E next \in Labels \ {"exited"} : Go(next)
    BY <1>3
       DEF Detect, BuildGraph, FindingsRecorded, Inconclusive, NoPatch, ProposePatch,
       AnnounceRegression, AnnounceError, DeclareRootCause, RunExperiment, SuiteIsGreen,
       SuiteIsRed, Labels
  <2>4. pc' # "exited"
    BY <2>3, GoLeads
  <2>5. QED
    BY <2>1, <2>2, <2>4, QuietKeepsFiles
<1>4. CASE Unsupported \/ FailuresRecorded \/ Generate \/ ChooseExperiment \/ ChooseRootCause
           \/ RecordFailure \/ RecordFinding
  BY <1>4, QuietKeepsFiles DEF Unsupported, FailuresRecorded, Generate, ChooseExperiment,
     ChooseRootCause, RecordFailure, RecordFinding, control, outcome
<1>5. CASE CopyRepository \/ CopyFails
  BY <1>5, RaiseLeads DEF CopyRepository, CopyFails, outcome, cli, FileEffects, StateEffect,
     ReportedEffect, MarkdownEffect, JsonEffect, WorkspaceEffect, ExitEffect
<1>6. CASE Validate
  <2>1. PICK v \in ValidationResults : Go(IF v.original_passed THEN "regression" ELSE "report")
    BY <1>6 DEF Validate
  <2>2. pc' # "exited" /\ pc = "run_validation"
    BY <1>6, <2>1, GoLeads DEF Validate
  <2>3. QED
    BY <1>6, <2>2, QuietKeepsFiles DEF Validate, outcome
<1>7. CASE CatchException \/ StartReport
  <2>1. pc' # "exited" /\ pc \in {"handler", "report"}
    BY <1>7, TransitionLeads DEF CatchException, StartReport
  <2>2. UNCHANGED <<state, files, cli>>
    BY <1>7 DEF CatchException, StartReport, outcome
  <2>3. QED
    BY <2>1, <2>2, QuietKeepsFiles
<1>8. CASE Complete
  <2>1. pc' # "exited" /\ pc = "complete"
    BY <1>8, TransitionLeads DEF Complete
  <2>2. QED
    BY <1>8, <2>1, QuietKeepsFiles DEF Complete, outcome
<1>9. CASE ResolveState
  BY <1>9, GoLeads DEF ResolveState, files, cli, FileEffects, StateEffect, ReportedEffect,
     MarkdownEffect, JsonEffect, WorkspaceEffect, ExitEffect
<1>10. CASE WriteMarkdown \/ MarkdownCut
  BY <1>10, RaiseLeads DEF WriteMarkdown, MarkdownCut, outcome, cli, FileEffects, StateEffect,
     ReportedEffect, MarkdownEffect, JsonEffect, WorkspaceEffect, ExitEffect
<1>11. CASE WriteJson \/ JsonCut
  <2>1. pc = "write_json" /\ pc' # "exited" /\ UNCHANGED <<state, markdown, workspace, cli>>
    BY <1>11, RaiseLeads, GoLeads DEF WriteJson, JsonCut, outcome
  <2>2. \/ json' = Rendering /\ reported' = TRUE
        \/ reported' = reported /\ pc' \in {"handler", "finally"}
    BY <1>11, RaiseLeads DEF WriteJson, JsonCut
  <2>3. QED
    BY <2>1, <2>2 DEF cli, FileEffects, StateEffect, ReportedEffect, MarkdownEffect,
       JsonEffect, WorkspaceEffect, ExitEffect
<1>12. CASE Finally \/ InterruptInFinally
  BY <1>12 DEF Finally, InterruptInFinally, FileEffects, StateEffect, ReportedEffect,
     MarkdownEffect, JsonEffect, WorkspaceEffect, ExitEffect
<1>13. CASE SaveSession \/ SaveFails
  BY <1>13 DEF SaveSession, SaveFails, outcome, files, FileEffects, StateEffect,
     ReportedEffect, MarkdownEffect, JsonEffect, WorkspaceEffect, ExitEffect
<1>14. CASE Interrupt
  BY <1>14 DEF Interrupt, outcome, cli, FileEffects, StateEffect, ReportedEffect,
     MarkdownEffect, JsonEffect, WorkspaceEffect, ExitEffect
<1>15. CASE Exited
  BY <1>15 DEF Exited
<1>16. QED
  BY <1>1, <1>2, <1>3, <1>4, <1>5, <1>6, <1>7, <1>8, <1>9, <1>10, <1>11, <1>12, <1>13,
     <1>14, <1>15 DEF Next

-----------------------------------------------------------------------------
(* The inductive invariant, in parts: the suite's outcome, the repair, the    *)
(* error, the state the user is told, the files, the working copy, the exit.  *)

Unseen == {"ingest", "detect", "unsupported", "graph", "build_graph", "execute", "copy",
           "run_suite"}
Pursuing == {"observe", "record_failures", "hypothesize", "generate", "record_findings",
             "rank", "choose", "verify", "experiment", "root_cause", "declare", "give_up",
             "patch", "propose", "validate", "run_validation", "regression", "announce"}
Wrapping == {"handler", "announce_error", "report", "resolve", "write_markdown",
             "write_json", "complete", "finally", "save", "exited"}
Trying == {"patch", "propose", "validate", "run_validation"}

(* No exception got past run's handler, and none struck after it.             *)
Returning == exc \notin {"escaped", "cut"}

SuiteFits ==
  /\ pc \in Unseen => initial = "none"
  /\ pc = "no_failure" => initial = "green"
  /\ pc \in Pursuing => initial = "red"
  /\ "NO_FAILURE" \in visited => initial = "green"
  /\ Declared => initial = "red"

RepairFits ==
  /\ pc \in Trying => Declared /\ validation = NotRun
  /\ pc \in {"validate", "run_validation"} => patch
  /\ patch => Declared
  /\ validation # NotRun => patch

(* FAILED is recorded with an error, or because nothing convinced; and the    *)
(* report is reached by an error, a green suite or a red one.                 *)
ErrorFits ==
  /\ exc = "caught" /\ pc # "handler" => error
  /\ pc = "handler" => exc = "caught"
  /\ exc = "escaped" => pc \in {"finally", "exited"}
  /\ exc = "cut" => pc = "exited"
  /\ pc \in {"unsupported", "announce_error"} => error
  /\ "FAILED" \in visited => /\ pc \in Wrapping
                             /\ error \/ (initial = "red" /\ validation = NotRun)
  /\ pc \in Wrapping \ {"handler"} /\ Returning =>
       error \/ "NO_FAILURE" \in visited \/ initial = "red"

StateFits ==
  /\ pc \in {"write_markdown", "write_json", "complete", "save"} => state = ResolvedState
  /\ pc = "complete" => reported
  /\ pc = "finally" /\ Returning => reported /\ state = ResolvedState
  /\ saved # NoFile => state = ResolvedState

FilesFit ==
  /\ pc \in {"write_json", "complete", "save"} => markdown = Rendering
  /\ pc \in {"complete", "save"} => json = Rendering
  /\ pc \in {"finally", "exited"} /\ Returning => markdown = Rendering /\ json = Rendering

WorkspaceFits ==
  /\ pc \in {"save", "exited"} /\ exc # "cut" => workspace # "live"
  /\ workspace = "leaked" => pc \in Wrapping /\ initial = "none" /\ exc # "none"

ExitFits ==
  /\ pc # "exited" => exitCode = "none" /\ saved = NoFile
  /\ saved # NoFile => Returning /\ saved = Rendering
  /\ exitCode = "zero" => saved # NoFile /\ ExitsZero
  /\ exitCode = "one" /\ saved # NoFile => ~ ExitsZero

OInv == /\ SuiteFits /\ RepairFits /\ ErrorFits /\ StateFits
        /\ FilesFit /\ WorkspaceFits /\ ExitFits

(* The invariant holds when the command starts.                               *)
LEMMA InitOutcome == Init => OInv
<1> SUFFICES ASSUME Init PROVE OInv
  OBVIOUS
<1> USE DEF Init
<1>1. SuiteFits /\ RepairFits /\ ErrorFits
  BY DEF SuiteFits, RepairFits, ErrorFits, Unseen, Pursuing, Wrapping, Trying, Declared
<1>2. StateFits /\ FilesFit /\ WorkspaceFits /\ ExitFits
  BY DEF StateFits, FilesFit, WorkspaceFits, ExitFits
<1>3. QED
  BY <1>1, <1>2 DEF OInv

(* A declared root cause has an index, so to declare one is to have one.      *)
LEMMA DeclaredHasIndex ==
  ASSUME TypeOK, RInv
  PROVE  /\ Declared <=> rootCause.hypothesis # 0
         /\ pc = "declare" => chosen # 0 /\ chosen \in Nat
         /\ pc \notin Settled => ~ Declared
<1>1. hypotheses \in Seq(Hypotheses)
  BY DEF TypeOK, InquiryType
<1>2. pc = "declare" => chosen # 0 /\ chosen \in Nat
  BY <1>1 DEF TypeOK, InquiryType, Deciding
<1>3. Declared => rootCause.hypothesis # 0
  BY <1>1 DEF RInv, Standing, RootCauseBacked, Live
<1>4. ~ Declared => rootCause.hypothesis = 0
  BY DEF Declared, NoRootCause
<1>5. pc \notin Settled => ~ Declared
  BY DEF RInv, Standing
<1>6. QED
  BY <1>2, <1>3, <1>4, <1>5

(* The suite's outcome is known from where it has been run on.                *)
LEMMA SuiteStep ==
  ASSUME RInv, SuiteFits, Moves, SuiteEffect, CauseEffect, VisitedEffect
  PROVE  SuiteFits'
<1>1. /\ pc' \in Unseen => pc \in Unseen \ {"run_suite"}
      /\ pc' = "no_failure" => pc = "run_suite"
      /\ pc' \in Pursuing => pc \in Pursuing \/ (pc = "run_suite" /\ pc' = "observe")
  BY DEF Moves, Thrown, Calm, Leads, Unseen, Pursuing
<1>2. /\ pc = "run_suite" => pc \in Unseen /\ pc \notin Settled
      /\ pc = "declare" => pc \in Pursuing
  BY DEF Unseen, Settled, Pursuing
<1>3. initial' # initial => pc = "run_suite" /\ rootCause' = rootCause
                            /\ "NO_FAILURE" \notin visited'
  BY <1>2 DEF SuiteEffect, CauseEffect, VisitedEffect, SuiteFits
<1>4. QED
  BY <1>1, <1>2, <1>3 DEF SuiteEffect, CauseEffect, VisitedEffect, SuiteFits, RInv, Standing,
     Declared

(* A patch is tried for a declared root cause, once.                          *)
LEMMA RepairStep ==
  ASSUME TypeOK, RInv, RepairFits, Moves,
         CauseEffect, PatchEffect, ValidationEffect
  PROVE  RepairFits'
<1>1. /\ pc' \in Trying => pc \in Trying \/ (pc = "declare" /\ pc' = "patch")
      /\ pc' = "validate" => pc = "propose"
      /\ pc' = "run_validation" => pc = "validate"
      /\ pc = "run_validation" => pc' \notin Trying
  BY DEF Moves, Thrown, Calm, Leads, Trying
<1>2. /\ pc \in {"propose", "run_validation", "validate"} => pc \in Trying
      /\ pc = "declare" => pc \notin Settled /\ pc \notin Trying
  BY DEF Trying, Settled
<1>3. /\ pc = "declare" => ~ Declared /\ ~ patch /\ validation = NotRun
      /\ rootCause' # rootCause => pc = "declare" /\ Declared'
      /\ pc = "declare" /\ pc' = "patch" => Declared'
  <2>1. pc = "declare" => ~ Declared /\ ~ patch /\ validation = NotRun
    BY <1>2, DeclaredHasIndex DEF RepairFits
  <2>2. pc = "declare" /\ rootCause'.hypothesis = chosen => Declared'
    BY DeclaredHasIndex DEF Declared, NoRootCause
  <2>3. QED
    BY <2>1, <2>2 DEF CauseEffect
<1>4. Declared => Declared'
  BY <1>3 DEF Declared
<1>5. pc = "declare" => UNCHANGED <<patch, validation>>
  BY DEF PatchEffect, ValidationEffect
<1>6. pc' \in Trying => Declared' /\ validation' = NotRun
  BY <1>1, <1>2, <1>3, <1>4, <1>5 DEF RepairFits, ValidationEffect
<1>7. /\ pc' \in {"validate", "run_validation"} => patch'
      /\ patch' => Declared'
      /\ validation' # NotRun => patch'
  BY <1>1, <1>2, <1>4 DEF RepairFits, PatchEffect, ValidationEffect
<1>8. QED
  BY <1>6, <1>7 DEF RepairFits

(* An exception caught is recorded; FAILED comes with one or for want of a    *)
(* convincing hypothesis.                                                     *)
LEMMA ErrorStep ==
  ASSUME TypeOK, RInv, SuiteFits, RepairFits, ErrorFits, Moves, SuiteEffect, ValidationEffect,
         ErrorEffect, VisitedEffect, ExitEffect
  PROVE  ErrorFits'
<1>1. error => error'
  BY DEF ErrorEffect
<1>2. /\ exc' = "caught" /\ pc' # "handler" => error'
      /\ pc' = "handler" => exc' = "caught"
      /\ exc' = "escaped" => pc' \in {"finally", "exited"}
      /\ exc' = "cut" => pc' = "exited"
      /\ pc' \in {"unsupported", "announce_error"} => error'
  <2>1. CASE Thrown
    BY <2>1 DEF Thrown
  <2>2. CASE Calm
    <3>1. /\ exc' = "caught" /\ pc' # "handler" => error'
          /\ pc' # "handler"
      BY <1>1, <2>2 DEF Calm, Leads, ErrorFits, ErrorEffect
    <3>2. exc' # "cut" /\ (exc' = "escaped" => pc' = "exited")
      BY <2>2 DEF Calm, Leads, ErrorFits, ExitEffect
    <3>3. pc' \in {"unsupported", "announce_error"} => error'
      BY <2>2 DEF Calm, Leads, ErrorEffect
    <3>4. QED
      BY <3>1, <3>2, <3>3
  <2>3. QED
    BY <2>1, <2>2 DEF Moves
<1>3. /\ pc \in Wrapping => pc' \in Wrapping
      /\ pc \in {"unsupported", "give_up", "handler"} => pc' \in Wrapping
  BY DEF Moves, Thrown, Calm, Leads, Wrapping
<1>4. ASSUME "FAILED" \in visited'
      PROVE  pc' \in Wrapping /\ (error' \/ (initial' = "red" /\ validation' = NotRun))
  <2>1. CASE "FAILED" \in visited
    <3>1. pc \in Wrapping
      BY <2>1 DEF ErrorFits
    <3>2. initial' = initial /\ validation' = validation
      BY <3>1 DEF SuiteEffect, ValidationEffect, Wrapping
    <3>3. QED
      BY <1>1, <1>3, <2>1, <3>1, <3>2 DEF ErrorFits
  <2>2. CASE "FAILED" \notin visited
    <3>1. pc \in {"unsupported", "give_up", "handler"}
      BY <1>4, <2>2 DEF VisitedEffect
    <3>2. CASE pc = "unsupported"
      BY <1>1, <1>3, <3>2 DEF ErrorFits
    <3>3. CASE pc = "give_up"
      <4>1. initial = "red" /\ ~ Declared
        BY <3>3, DeclaredHasIndex DEF SuiteFits, Pursuing, Settled
      <4>2. validation = NotRun
        BY <4>1 DEF RepairFits
      <4>3. QED
        BY <1>3, <3>3, <4>1, <4>2 DEF SuiteEffect, ValidationEffect
    <3>4. CASE pc = "handler"
      <4>1. error'
        BY <1>4, <2>2, <3>4 DEF ErrorEffect
      <4>2. QED
        BY <1>3, <3>4, <4>1
    <3>5. QED
      BY <3>1, <3>2, <3>3, <3>4
  <2>3. QED
    BY <2>1, <2>2
<1>5. ASSUME pc' \in Wrapping \ {"handler"}, Returning'
      PROVE  error' \/ "NO_FAILURE" \in visited' \/ initial' = "red"
  <2>1. Calm /\ Returning
    BY <1>5 DEF Returning, Moves, Thrown, Calm
  <2>2. pc \in (Wrapping \ {"handler"}) \union {"handler", "unsupported", "no_failure", "give_up",
                                             "propose", "run_validation", "announce"}
    BY <1>5, <2>1 DEF Calm, Leads, Wrapping
  <2>3. CASE pc \in Wrapping \ {"handler"}
    <3>1. initial' = initial
      BY <2>3 DEF SuiteEffect, Wrapping
    <3>2. "NO_FAILURE" \in visited => "NO_FAILURE" \in visited'
      BY DEF VisitedEffect
    <3>3. QED
      BY <1>1, <2>1, <2>3, <3>1, <3>2 DEF Returning, ErrorFits
  <2>4. CASE pc \in {"handler", "unsupported"}
    BY <1>1, <2>1, <2>4 DEF Calm, Leads, ErrorEffect, ErrorFits
  <2>5. CASE pc = "no_failure"
    BY <2>1, <2>5 DEF Calm, Leads, VisitedEffect
  <2>6. CASE pc \in {"give_up", "propose", "run_validation", "announce"}
    BY <2>6 DEF SuiteFits, SuiteEffect, Pursuing
  <2>7. QED
    BY <2>2, <2>3, <2>4, <2>5, <2>6
<1>6. QED
  BY <1>2, <1>4, <1>5 DEF Returning, ErrorFits

(* The state the user is told follows from the history alone, and what is     *)
(* added to the history once it is settled does not change it.                *)
LEMMA StateStep ==
  ASSUME StateFits, ExitFits, ErrorFits, Moves, StateEffect, ReportedEffect, VisitedEffect,
         ExitEffect
  PROVE  StateFits'
<1>1. pc \in {"write_markdown", "write_json", "complete", "finally", "save"} =>
        ResolvedState' = ResolvedState
  BY DEF VisitedEffect, ResolvedState
<1>2. ASSUME pc' \in {"write_markdown", "write_json", "complete", "save"}
      PROVE  state' = ResolvedState'
  <2>1. CASE pc' = "write_markdown"
    <3>1. pc = "resolve"
      BY <2>1 DEF Moves, Thrown, Calm, Leads
    <3>2. state' = ResolvedState /\ ResolvedState' = ResolvedState
      BY <2>1, <3>1 DEF StateEffect, VisitedEffect, ResolvedState
    <3>3. QED
      BY <3>2
  <2>2. CASE pc' # "write_markdown"
    <3>1. \/ pc \in {"write_markdown", "write_json"}
          \/ pc = "finally" /\ Returning
      BY <1>2, <2>2 DEF Returning, Moves, Thrown, Calm, Leads, ErrorFits, ExitEffect
    <3>2. state' = state /\ state = ResolvedState
      BY <3>1 DEF Returning, StateFits, StateEffect
    <3>3. QED
      BY <1>1, <3>1, <3>2
  <2>3. QED
    BY <2>1, <2>2
<1>3. pc' = "complete" => reported'
  BY DEF Moves, Thrown, Calm, Leads, ReportedEffect
<1>4. ASSUME pc' = "finally", Returning'
      PROVE  reported' /\ state' = ResolvedState'
  <2>1. pc = "complete"
    BY <1>4 DEF Returning, Moves, Thrown, Calm, Leads
  <2>2. QED
    BY <1>1, <2>1 DEF StateFits, StateEffect, ReportedEffect
<1>5. ASSUME saved' # NoFile
      PROVE  state' = ResolvedState'
  <2>1. pc # "exited"
    BY DEF Moves, Thrown, Calm, Leads
  <2>2. pc = "save"
    BY <1>5, <2>1 DEF ExitFits, ExitEffect
  <2>3. QED
    BY <1>1, <2>2 DEF StateFits, StateEffect
<1>6. QED
  BY <1>2, <1>3, <1>4, <1>5 DEF Returning, StateFits

(* What a rendering shows does not change once the first file is written.     *)
LEMMA RenderingKept ==
  ASSUME pc \in {"write_markdown", "write_json", "complete", "finally", "save"}, SessionEffects,
         StateEffect, pc = "finally" => reported
  PROVE  Rendering' = Rendering
BY DEF Rendering, SessionEffects, CauseEffect, PatchEffect, ValidationEffect, ErrorEffect,
   EvidenceEffect, StateEffect

(* So the files written show what the session still says.                     *)
LEMMA FilesStep ==
  ASSUME StateFits, ErrorFits, ExitFits, FilesFit, Moves, SessionEffects, FileEffects
  PROVE  FilesFit'
<1> USE DEF FileEffects
<1>1. ASSUME pc' = "write_json"
      PROVE  markdown' = Rendering'
  <2>1. pc = "write_markdown"
    BY <1>1 DEF Moves, Thrown, Calm, Leads
  <2>2. QED
    BY <1>1, <2>1, RenderingKept DEF MarkdownEffect
<1>2. ASSUME pc' = "complete"
      PROVE  markdown' = Rendering' /\ json' = Rendering'
  <2>1. pc = "write_json"
    BY <1>2 DEF Moves, Thrown, Calm, Leads
  <2>2. QED
    BY <1>2, <2>1, RenderingKept DEF FilesFit, MarkdownEffect, JsonEffect
<1>3. ASSUME pc' \in {"finally", "save", "exited"}, Returning'
      PROVE  markdown' = Rendering' /\ json' = Rendering'
  <2>1. Calm /\ Returning
    BY <1>3 DEF Returning, Moves, Thrown, Calm
  <2>2. pc \in {"complete", "finally", "save"}
    BY <1>3, <2>1 DEF Calm, Leads
  <2>3. markdown = Rendering /\ json = Rendering /\ (pc = "finally" => reported)
    BY <2>1, <2>2 DEF Returning, FilesFit, StateFits
  <2>4. QED
    BY <2>2, <2>3, RenderingKept DEF MarkdownEffect, JsonEffect
<1>4. pc' = "save" => Returning'
  BY DEF Returning, Moves, Thrown, Calm, Leads, ErrorFits, ExitEffect
<1>5. QED
  BY <1>1, <1>2, <1>3, <1>4 DEF Returning, FilesFit

(* The finally clause tries to remove the copy, whichever way it is reached.  *)
LEMMA WorkspaceStep ==
  ASSUME SuiteFits, ErrorFits, WorkspaceFits, Moves, SuiteEffect, WorkspaceEffect
  PROVE  WorkspaceFits'
<1>1. /\ pc' \in {"save", "exited"} => pc \in {"finally", "save"}
      /\ pc = "save" => exc' = exc
  BY DEF Moves, Thrown, Calm, Leads
<1>2. pc' \in {"save", "exited"} /\ exc' # "cut" => workspace' # "live"
  BY <1>1 DEF WorkspaceFits, WorkspaceEffect, Cleaned
<1>3. ASSUME workspace' = "leaked"
      PROVE  pc' \in Wrapping /\ initial' = "none" /\ exc' # "none"
  <2>1. CASE workspace = "leaked"
    <3>1. pc \in Wrapping /\ initial = "none" /\ exc # "none"
      BY <2>1 DEF WorkspaceFits
    <3>2. pc' \in Wrapping /\ exc' # "none"
      BY <3>1 DEF Moves, Thrown, Calm, Leads, Wrapping
    <3>3. QED
      BY <3>1, <3>2 DEF SuiteEffect, Wrapping
  <2>2. CASE workspace # "leaked"
    <3>1. pc = "copy" /\ pc' \in {"handler", "finally"}
      BY <1>3, <2>2 DEF WorkspaceEffect, Cleaned
    <3>2. initial' = "none"
      BY <3>1 DEF SuiteFits, SuiteEffect, Unseen
    <3>3. exc' # "none"
      BY <3>1 DEF Moves, Thrown, Calm, Leads
    <3>4. QED
      BY <3>1, <3>2, <3>3 DEF Wrapping
  <2>3. QED
    BY <2>1, <2>2
<1>4. QED
  BY <1>2, <1>3 DEF WorkspaceFits

(* The exit code is set once, by what was saved.                              *)
LEMMA ExitStep ==
  ASSUME ErrorFits, StateFits, ExitFits, Moves, SessionEffects, FileEffects
  PROVE  ExitFits'
<1> USE DEF FileEffects
<1>1. pc # "exited"
  BY DEF Moves, Thrown, Calm, Leads
<1>2. exitCode = "none" /\ saved = NoFile
  BY <1>1 DEF ExitFits
<1>3. CASE pc' # "exited"
  BY <1>2, <1>3 DEF ExitEffect, ExitFits
<1>4. CASE pc' = "exited" /\ saved' = saved /\ exitCode' = "one"
  BY <1>2, <1>4 DEF ExitFits
<1>5. CASE pc = "save" /\ pc' = "exited" /\ saved' = Rendering
           /\ exitCode' = IF ExitsZero THEN "zero" ELSE "one"
  <2>1. Rendering' = Rendering
    BY <1>5, RenderingKept
  <2>2. ExitsZero' <=> ExitsZero
    BY <1>5 DEF ExitsZero, StateEffect, SessionEffects, ValidationEffect
  <2>3. Rendering # NoFile
    BY DEF Rendering, NoFile
  <2>4. Returning'
    BY <1>5 DEF Returning, Moves, Thrown, Calm, ErrorFits
  <2>5. QED
    BY <1>5, <2>1, <2>2, <2>3, <2>4 DEF Returning, ExitFits
<1>6. QED
  BY <1>3, <1>4, <1>5 DEF ExitEffect

(* Every step keeps the invariant.                                            *)
LEMMA OutcomeStep == TypeOK /\ RInv /\ OInv /\ [Next]_vars => OInv'
<1> SUFFICES ASSUME TypeOK, RInv, OInv, [Next]_vars PROVE OInv'
  OBVIOUS
<1>1. CASE UNCHANGED vars
  <2>1. SuiteFits' /\ RepairFits' /\ ErrorFits'
    BY <1>1 DEF Returning, vars, control, lifecycle, execution, repair, outcome, OInv, SuiteFits,
       RepairFits, ErrorFits, Declared
  <2>2. StateFits' /\ FilesFit' /\ WorkspaceFits' /\ ExitFits'
    BY <1>1 DEF Returning, vars, control, lifecycle, execution, inquiry, repair, outcome,
       files, cli, OInv, StateFits, ResolvedState, FilesFit, Rendering, WorkspaceFits, ExitFits, ExitsZero
  <2>3. QED
    BY <2>1, <2>2 DEF OInv
<1>2. CASE Moves /\ SessionEffects /\ VisitedEffect /\ FileEffects
  <2>1. SuiteFits' /\ RepairFits'
    BY <1>2, SuiteStep, RepairStep DEF OInv, SessionEffects
  <2>2. ErrorFits'
    BY <1>2, ErrorStep DEF OInv, SessionEffects, FileEffects
  <2>3. StateFits' /\ WorkspaceFits'
    BY <1>2, StateStep, WorkspaceStep DEF OInv, SessionEffects, FileEffects
  <2>4. FilesFit' /\ ExitFits'
    BY <1>2, FilesStep, ExitStep DEF OInv
  <2>5. QED
    BY <2>1, <2>2, <2>3, <2>4 DEF OInv
<1>3. QED
  BY <1>1, <1>2, StepMoves, StepSession, StepVisits, StepFiles

-----------------------------------------------------------------------------
(* The outcome of every investigation is as the invariant says, for every     *)
(* suite, provider, budget and fault.                                         *)
THEOREM OutcomeInvariant == Spec => []OInv
<1>1. QED
  BY InitOutcome, TypeCorrect, RootCauseInvariant, OutcomeStep, PTL DEF Spec

(* The verdicts that accept and reject.                                       *)
LEMMA VerdictsMean ==
  ASSUME TypeOK
  PROVE  /\ validation.verdict = "accepted" => /\ validation # NotRun
                                              /\ validation.original_passed
                                              /\ validation.regression_passed
         /\ validation = NotRun => validation.verdict = "not_run"
BY DEF TypeOK, RepairType, NotRun, ValidationResults

(* Exit code zero is earned: no investigation that failed anywhere ends with  *)
(* it, only a green suite or an accepted patch for a declared root cause.     *)
THEOREM ZeroIsEarned == Spec => []ExitZeroEarned
<1>1. TypeOK /\ OInv => ExitZeroEarned
  <2> SUFFICES ASSUME TypeOK, OInv, exitCode = "zero" PROVE
         /\ "FAILED" \notin visited
         /\ saved = Rendering
         /\ \/ initial = "green" /\ ~ Declared /\ ~ patch
            \/ /\ initial = "red" /\ Declared /\ patch
               /\ validation.original_passed /\ validation.regression_passed
    BY DEF ExitZeroEarned
  <2>1. saved = Rendering /\ ExitsZero /\ state = ResolvedState
    BY DEF OInv, ExitFits, StateFits
  <2>2. "FAILED" \notin visited
    BY <2>1 DEF ExitsZero, ResolvedState
  <2>3. CASE state = "NO_FAILURE"
    <3>1. initial = "green"
      BY <2>1, <2>2, <2>3 DEF ResolvedState, OInv, SuiteFits
    <3>2. ~ Declared /\ ~ patch
      BY <3>1 DEF OInv, SuiteFits, RepairFits
    <3>3. QED
      BY <2>1, <2>2, <3>1, <3>2
  <2>4. CASE state = "COMPLETE" /\ validation.verdict = "accepted"
    <3>1. /\ validation # NotRun
          /\ validation.original_passed /\ validation.regression_passed
      BY <2>4, VerdictsMean
    <3>2. patch /\ Declared /\ initial = "red"
      BY <3>1 DEF OInv, RepairFits, SuiteFits
    <3>3. QED
      BY <2>1, <2>2, <3>1, <3>2
  <2>5. QED
    BY <2>1, <2>3, <2>4 DEF ExitsZero
<1>2. QED
  BY <1>1, TypeCorrect, OutcomeInvariant, PTL

(* And it is not withheld: exit code one after a saved session means that an  *)
(* exception was caught, or that the suite was red and no patch was accepted. *)
THEOREM OneIsExplained == Spec => []ExitOneExplained
<1>1. TypeOK /\ OInv => ExitOneExplained
  <2> SUFFICES ASSUME TypeOK, OInv, exitCode = "one", saved # NoFile, ~ error
               PROVE  initial = "red" /\ validation.verdict # "accepted"
    BY DEF ExitOneExplained
  <2>1. /\ pc = "exited" /\ Returning /\ ~ ExitsZero
        /\ state = ResolvedState
    BY DEF Returning, OInv, ExitFits, StateFits
  <2>2. CASE "FAILED" \in visited
    BY <2>2, VerdictsMean DEF OInv, ErrorFits
  <2>3. CASE "FAILED" \notin visited
    <3>1. "NO_FAILURE" \notin visited /\ validation.verdict # "accepted"
      BY <2>1, <2>3 DEF ExitsZero, ResolvedState
    <3>2. initial = "red"
      BY <2>1, <3>1 DEF Returning, OInv, ErrorFits, Wrapping
    <3>3. QED
      BY <3>1, <3>2
  <2>4. QED
    BY <2>2, <2>3
<1>2. QED
  BY <1>1, TypeCorrect, OutcomeInvariant, PTL

(* The two report files and the session row show one and the same session.    *)
THEOREM OneStory == Spec => []ReportsAgree
<1>1. OInv => ReportsAgree
  BY DEF OInv, ExitFits, FilesFit, ReportsAgree
<1>2. QED
  BY <1>1, OutcomeInvariant, PTL

(* An exception the engine swallowed is in session.error and in both reports. *)
THEOREM CaughtIsTold == Spec => []CaughtIsReported
<1>1. OInv => CaughtIsReported
  BY DEF Returning, OInv, ErrorFits, FilesFit, CaughtIsReported
<1>2. QED
  BY <1>1, OutcomeInvariant, PTL

(* Workspace.cleanup is run on every copy the engine holds, whatever was      *)
(* raised where, unless an interrupt strikes in the finally clause itself.    *)
THEOREM CleanupIsTried == Spec => []CleanupTried
<1>1. OInv => CleanupTried
  BY DEF OInv, WorkspaceFits, CleanupTried
<1>2. QED
  BY <1>1, OutcomeInvariant, PTL

-----------------------------------------------------------------------------
(* Every step is a step of the promise made to the user, or a stutter.        *)
LEMMA PromiseStep ==
  TypeOK /\ RInv /\ OInv /\ [Next]_vars => [I!Next]_(I!investigationVars)
<1> SUFFICES ASSUME TypeOK, RInv, OInv, [Next]_vars PROVE [I!Next]_(I!investigationVars)
  OBVIOUS
<1>1. CASE UNCHANGED <<initial, rootCause, validation, exitCode>>
  BY <1>1 DEF I!investigationVars
<1>2. CASE Moves /\ SessionEffects /\ VisitedEffect /\ FileEffects
  <2>1. pc # "exited" /\ exitCode = "none"
    BY <1>2 DEF Moves, Thrown, Calm, Leads, OInv, ExitFits
  <2>2. CASE initial' # initial
    <3>1. pc = "run_suite" /\ initial = "none" /\ initial' \in {"green", "red"}
      BY <1>2, <2>2 DEF SessionEffects, SuiteEffect, OInv, SuiteFits, Unseen
    <3>2. UNCHANGED <<rootCause, validation, exitCode>>
      BY <1>2, <3>1 DEF SessionEffects, CauseEffect, ValidationEffect, FileEffects, ExitEffect
    <3>3. I!RunSuite
      BY <2>1, <3>1, <3>2 DEF I!RunSuite
    <3>4. QED
      BY <3>3 DEF I!Next
  <2>3. CASE initial' = initial /\ rootCause' # rootCause
    <3>1. pc = "declare" /\ rootCause'.hypothesis = chosen
      BY <1>2, <2>3 DEF SessionEffects, CauseEffect
    <3>2. initial = "red" /\ rootCause.hypothesis = 0 /\ chosen \in Nat \ {0}
      BY <3>1, DeclaredHasIndex DEF OInv, SuiteFits, Pursuing, Settled
    <3>3. UNCHANGED <<validation, exitCode>>
      BY <1>2, <3>1 DEF SessionEffects, ValidationEffect, FileEffects, ExitEffect
    <3>4. I!Diagnose
      BY <2>1, <2>3, <3>1, <3>2, <3>3 DEF I!Diagnose
    <3>5. QED
      BY <3>4 DEF I!Next
  <2>4. CASE UNCHANGED <<initial, rootCause>> /\ validation' # validation
    <3>1. pc = "run_validation" /\ validation' \in ValidationResults
      BY <1>2, <2>4 DEF SessionEffects, ValidationEffect
    <3>2. rootCause.hypothesis # 0 /\ validation.verdict = "not_run"
      BY <3>1, DeclaredHasIndex DEF OInv, RepairFits, Trying, NotRun
    <3>3. validation'.verdict \in {"accepted", "rejected_original", "rejected_regression"}
      BY <3>1 DEF ValidationResults
    <3>4. exitCode' = exitCode
      BY <1>2, <3>1 DEF FileEffects, ExitEffect
    <3>5. I!TryPatch
      BY <2>1, <2>4, <3>2, <3>3, <3>4 DEF I!TryPatch
    <3>6. QED
      BY <3>5 DEF I!Next
  <2>5. CASE UNCHANGED <<initial, rootCause, validation>> /\ exitCode' # exitCode
    <3>1. \/ exitCode' = "one"
          \/ /\ pc = "save" /\ exitCode' = "zero" /\ ExitsZero
      BY <1>2, <2>5 DEF FileEffects, ExitEffect
    <3>2. CASE exitCode' = "one"
      BY <2>1, <2>5, <3>2 DEF I!Fail, I!Next
    <3>3. CASE pc = "save" /\ exitCode' = "zero" /\ ExitsZero
      <4>1. state = ResolvedState
        BY <3>3 DEF OInv, StateFits
      <4>2. initial = "green" \/ validation.verdict = "accepted"
        BY <3>3, <4>1 DEF ExitsZero, ResolvedState, OInv, SuiteFits
      <4>3. I!Succeed
        BY <2>1, <2>5, <3>3, <4>2 DEF I!Succeed
      <4>4. QED
        BY <4>3 DEF I!Next
    <3>4. QED
      BY <3>1, <3>2, <3>3
  <2>6. QED
    BY <1>1, <2>2, <2>3, <2>4, <2>5
<1>3. QED
  BY <1>1, <1>2, StepMoves, StepSession, StepVisits, StepFiles DEF vars, execution, repair, cli

(* The engine keeps the promise `repomedic investigate` makes: it implements  *)
(* Investigation, whatever is raised on the way.                              *)
THEOREM EngineKeepsPromise == Spec => InvestigationSpec
<1>1. Init => I!Init
  BY DEF Init, I!Init, NoRootCause, NotRun
<1>2. QED
  BY <1>1, PromiseStep, TypeCorrect, RootCauseInvariant, OutcomeInvariant, PTL
     DEF Spec, InvestigationSpec, I!Spec

-----------------------------------------------------------------------------
(* Nothing recorded is rewritten.                                             *)

Extended == /\ Len(evidence) <= Len(evidence')
            /\ SubSeq(evidence', 1, Len(evidence)) = evidence

(* Evidence that keeps its records begins with them.                          *)
LEMMA KeptBegins ==
  ASSUME TypeOK, TypeOK', DOMAIN evidence \subseteq DOMAIN evidence',
         \A e \in DOMAIN evidence : evidence'[e] = evidence[e]
  PROVE  Extended
<1>1. /\ evidence \in Seq(EvidenceRecords) /\ evidence' \in Seq(EvidenceRecords)
      /\ DOMAIN evidence = 1 .. Len(evidence) /\ Len(evidence) \in Nat
      /\ DOMAIN evidence' = 1 .. Len(evidence') /\ Len(evidence') \in Nat
  BY DEF TypeOK, InquiryType
<1>2. Len(evidence) <= Len(evidence')
  <2>1. Len(evidence) = 0 \/ Len(evidence) \in 1 .. Len(evidence')
    BY <1>1
  <2>2. QED
    BY <1>1, <2>1
<1>3. \A i \in 1 .. Len(evidence) : evidence'[i] \in EvidenceRecords
  BY <1>1
<1> DEFINE begin == SubSeq(evidence', 1, Len(evidence))
<1>4. /\ begin \in Seq(EvidenceRecords)
      /\ Len(begin) = IF 1 <= Len(evidence) THEN Len(evidence) - 1 + 1 ELSE 0
      /\ \A i \in 1 .. Len(evidence) - 1 + 1 : begin[i] = evidence'[1 + i - 1]
  BY <1>1, <1>3, SubSeqProperties, 1 \in Int
<1> HIDE DEF begin
<1>5. Len(begin) = Len(evidence) /\ \A i \in 1 .. Len(evidence) : begin[i] = evidence[i]
  BY <1>1, <1>4
<1>6. begin = evidence
  BY <1>1, <1>4, <1>5, SeqEqual
<1>7. QED
  BY <1>2, <1>6 DEF Extended, begin

(* Evidence only grows.                                                       *)
LEMMA StepExtends ==
  ASSUME TypeOK, TypeOK', Next
  PROVE  Extended
<1>1. evidence \in Seq(EvidenceRecords)
  BY DEF TypeOK, InquiryType
<1>2. CASE Generate
  BY <1>2, KeptBegins DEF Generate
<1>3. CASE RecordFinding
  <2>1. PICK h \in DOMAIN hypotheses :
          evidence' = Append(evidence, About("static_analysis", h, "none"))
    BY <1>3 DEF RecordFinding
  <2>2. About("static_analysis", h, "none") \in EvidenceRecords
    BY AboutType DEF TypeOK, InquiryType
  <2>3. QED
    BY <1>1, <2>1, <2>2, OneRecord, KeptBegins
<1>4. CASE RunExperiment
  <2>1. PICK verdict \in Verdicts :
          evidence' = Append(evidence, About("experiment", chosen, verdict))
    BY <1>4, ExperimentLeaves
  <2>2. About("experiment", chosen, verdict) \in EvidenceRecords
    BY AboutType DEF TypeOK, InquiryType
  <2>3. QED
    BY <1>1, <2>1, <2>2, OneRecord, KeptBegins
<1>5. QED
  BY <1>2, <1>3, <1>4, StepAside, KeptBegins DEF Aside

(* A rejected hypothesis stays as it is, a tested one keeps its confidence.   *)
LEMMA StepKeepsTested ==
  ASSUME TypeOK, LInv, Next, NEW h \in DOMAIN hypotheses
  PROVE  /\ hypotheses[h].status = "rejected" => hypotheses'[h] = hypotheses[h]
         /\ hypotheses[h].ran =>
              hypotheses'[h].ran /\ hypotheses'[h].confidence = hypotheses[h].confidence
<1>1. CASE Generate
  BY <1>1 DEF Generate, LInv, Blank, Early
<1>2. CASE RecordFinding
  BY <1>2 DEF RecordFinding, LInv, Fresh
<1>3. CASE RunExperiment
  <2>1. chosen \in Live /\ ~ hypotheses[chosen].ran
    BY <1>3 DEF RunExperiment, LInv, Tested, Candidates, Proposed
  <2>2. hypotheses[h].status = "rejected" \/ hypotheses[h].ran => h # chosen
    BY <2>1 DEF Live
  <2>3. QED
    BY <1>3, <2>2, ExperimentLeaves
<1>4. QED
  BY <1>1, <1>2, <1>3, StepAside DEF Aside

(* Nothing the report rests on is rewritten: evidence only grows, a rejected  *)
(* hypothesis never comes back, a tested one keeps its confidence, and the    *)
(* root cause and the verdict of validation stand, in every step of           *)
(* _verify_loop and of the stages around it.                                  *)
THEOREM RecordStands == Spec => NothingRewritten
<1> DEFINE Kept ==
      /\ Len(evidence) <= Len(evidence') /\ SubSeq(evidence', 1, Len(evidence)) = evidence
      /\ \A h \in DOMAIN hypotheses :
           /\ hypotheses[h].status = "rejected" => hypotheses'[h] = hypotheses[h]
           /\ hypotheses[h].ran =>
                hypotheses'[h].ran /\ hypotheses'[h].confidence = hypotheses[h].confidence
      /\ Declared => rootCause' = rootCause
      /\ validation # NotRun => validation' = validation
<1>1. TypeOK /\ TypeOK' /\ RInv /\ OInv /\ LInv /\ [Next]_vars => [Kept]_vars
  <2> SUFFICES ASSUME TypeOK, TypeOK', RInv, OInv, LInv, Next PROVE Kept
    OBVIOUS
  <2>1. Declared => rootCause' = rootCause
    BY StepSession, DeclaredHasIndex DEF SessionEffects, CauseEffect, Settled
  <2>2. validation # NotRun => validation' = validation
    BY StepSession DEF SessionEffects, ValidationEffect, OInv, RepairFits, Trying
  <2>3. QED
    BY <2>1, <2>2, StepExtends, StepKeepsTested DEF Extended
<1>2. QED
  BY <1>1, TypeCorrect, RootCauseInvariant, OutcomeInvariant, RecordInvariant, PTL
     DEF Spec, NothingRewritten

-----------------------------------------------------------------------------
(* A provider whose priors all stay below the threshold, as those of the      *)
(* shipped investigator do (InvestigatorProofs!OneExperiment).                *)
Cautious == \A p \in Proposals : \A h \in DOMAIN p : p[h].confidence < Threshold

(* With it, a confidence at the threshold was reached by an experiment.       *)
Earned ==
  \A h \in DOMAIN hypotheses : hypotheses[h].confidence >= Threshold =>
    hypotheses[h].status = "verified" /\ EvidenceFor(h, "experiment", "supports") # {}

(* What is recorded for a hypothesis is never lost.                           *)
LEMMA EvidenceStays ==
  ASSUME DOMAIN evidence \subseteq DOMAIN evidence',
         \A e \in DOMAIN evidence : evidence'[e] = evidence[e], NEW h
  PROVE  EvidenceFor(h, "experiment", "supports")
           \subseteq EvidenceFor(h, "experiment", "supports")'
BY DEF EvidenceFor

(* A finding changes no confidence.                                           *)
LEMMA FindingEarns ==
  ASSUME TypeOK, Earned, RecordFinding
  PROVE  Earned'
<1>1. PICK h \in DOMAIN hypotheses :
        /\ evidence' = Append(evidence, About("static_analysis", h, "none"))
        /\ hypotheses' = [hypotheses EXCEPT
             ![h].findings = @ - 1,
             ![h].supporting = @ \union {NextEvidenceId}]
  BY DEF RecordFinding
<1>2. /\ evidence \in Seq(EvidenceRecords) /\ hypotheses \in Seq(Hypotheses)
      /\ h \in Nat
  BY DEF TypeOK, InquiryType
<1>3. /\ DOMAIN evidence \subseteq DOMAIN evidence'
      /\ \A e \in DOMAIN evidence : evidence'[e] = evidence[e]
  BY <1>1, <1>2, AboutType, OneRecord
<1>4. /\ DOMAIN hypotheses' = DOMAIN hypotheses
      /\ \A g \in DOMAIN hypotheses :
           /\ hypotheses'[g].status = hypotheses[g].status
           /\ hypotheses'[g].confidence = hypotheses[g].confidence
  <2> DEFINE n == hypotheses[h].findings - 1
             ids == hypotheses[h].supporting \union {NextEvidenceId}
  <2>1. hypotheses' = [hypotheses EXCEPT ![h].findings = n, ![h].supporting = ids]
    BY <1>1
  <2> HIDE DEF n, ids
  <2>2. \A g \in DOMAIN hypotheses : hypotheses[g] \in Hypotheses
    BY <1>2
  <2>3. QED
    BY <2>1, <2>2 DEF Hypotheses
<1>5. QED
  BY <1>3, <1>4, EvidenceStays DEF Earned

(* One experiment: support verifies and is recorded, a contradiction takes    *)
(* the confidence below the threshold, and nothing else moves it.             *)
LEMMA ExperimentEarns ==
  ASSUME TypeOK, Earned, RunExperiment
  PROVE  Earned'
<1>1. InquiryType /\ pc = "experiment"
  BY DEF TypeOK, RunExperiment
<1>2. PICK verdict \in Verdicts :
        LET old == hypotheses[chosen]
        IN  /\ evidence' = Append(evidence, About("experiment", chosen, verdict))
            /\ hypotheses' = [hypotheses EXCEPT ![chosen] =
                 [old EXCEPT
                   !.ran = TRUE,
                   !.confidence = Updated(old.confidence, verdict),
                   !.status = StatusAfter(old.confidence, old.status, verdict),
                   !.supporting = IF verdict = "supports"
                                    THEN old.supporting \union {NextEvidenceId}
                                    ELSE old.supporting,
                   !.contradicting = IF verdict = "contradicts"
                                       THEN old.contradicting \union {NextEvidenceId}
                                       ELSE old.contradicting]]
  BY <1>1, ExperimentStep
<1>3. /\ evidence \in Seq(EvidenceRecords) /\ hypotheses \in Seq(Hypotheses)
      /\ chosen \in DOMAIN hypotheses /\ chosen \in Nat
      /\ hypotheses[chosen] \in Hypotheses
  BY <1>1 DEF InquiryType, Deciding
<1>4. /\ DOMAIN evidence \subseteq DOMAIN evidence'
      /\ \A e \in DOMAIN evidence : evidence'[e] = evidence[e]
      /\ NextEvidenceId \in DOMAIN evidence'
      /\ evidence'[NextEvidenceId] = About("experiment", chosen, verdict)
  BY <1>2, <1>3, AboutType, OneRecord
<1>5. /\ DOMAIN hypotheses' = DOMAIN hypotheses
      /\ \A g \in DOMAIN hypotheses \ {chosen} : hypotheses'[g] = hypotheses[g]
  BY <1>2, <1>3
<1>6. /\ hypotheses'[chosen].confidence = Updated(hypotheses[chosen].confidence, verdict)
      /\ hypotheses'[chosen].status
           = StatusAfter(hypotheses[chosen].confidence, hypotheses[chosen].status, verdict)
  <2> DEFINE old == hypotheses[chosen]
             c == Updated(old.confidence, verdict)
             st == StatusAfter(old.confidence, old.status, verdict)
             s == IF verdict = "supports" THEN old.supporting \union {NextEvidenceId}
                  ELSE old.supporting
             d == IF verdict = "contradicts" THEN old.contradicting \union {NextEvidenceId}
                  ELSE old.contradicting
  <2>1. hypotheses'[chosen] = [old EXCEPT !.ran = TRUE, !.confidence = c, !.status = st,
                                          !.supporting = s, !.contradicting = d]
    BY <1>2, <1>3
  <2>2. old \in Hypotheses
    BY <1>3
  <2> HIDE DEF old, c, st, s, d
  <2>3. hypotheses'[chosen].confidence = c /\ hypotheses'[chosen].status = st
    BY <2>1, <2>2 DEF Hypotheses
  <2>4. QED
    BY <2>3 DEF old, c, st
<1>7. hypotheses[chosen].confidence \in Percent
  BY <1>3 DEF Hypotheses
<1>8. ASSUME NEW h, h = chosen, hypotheses'[h].confidence >= Threshold
      PROVE  /\ hypotheses'[h].status = "verified"
             /\ EvidenceFor(h, "experiment", "supports")' # {}
  <2>1. CASE verdict = "supports"
    <3>1. hypotheses'[h].status = "verified"
      BY <1>6, <1>8, <2>1 DEF StatusAfter
    <3>2. NextEvidenceId \in EvidenceFor(h, "experiment", "supports")'
      BY <1>4, <1>8, <2>1 DEF EvidenceFor, About
    <3>3. QED
      BY <3>1, <3>2
  <2>2. CASE verdict = "contradicts"
    <3>1. hypotheses'[h].confidence \in 0 .. 25
      BY <1>6, <1>7, <1>8, <2>2, ContradictedRange DEF Updated
    <3>2. QED
      BY <1>8, <3>1, ThresholdAssumption DEF Percent
  <2>3. CASE verdict = "inconclusive"
    <3>1. /\ hypotheses'[h].confidence = hypotheses[h].confidence
          /\ hypotheses'[h].status = hypotheses[h].status
      BY <1>6, <1>8, <2>3 DEF Updated, StatusAfter
    <3>2. /\ hypotheses[h].status = "verified"
          /\ EvidenceFor(h, "experiment", "supports") # {}
      BY <1>3, <1>8, <3>1 DEF Earned
    <3>3. EvidenceFor(h, "experiment", "supports")
            \subseteq EvidenceFor(h, "experiment", "supports")'
      BY <1>4, EvidenceStays
    <3>4. QED
      BY <3>1, <3>2, <3>3
  <2>4. QED
    BY <2>1, <2>2, <2>3 DEF Verdicts
<1>9. ASSUME NEW g \in DOMAIN hypotheses \ {chosen}, hypotheses'[g].confidence >= Threshold
      PROVE  /\ hypotheses'[g].status = "verified"
             /\ EvidenceFor(g, "experiment", "supports")' # {}
  <2>1. /\ hypotheses'[g] = hypotheses[g] /\ hypotheses[g].status = "verified"
        /\ EvidenceFor(g, "experiment", "supports") # {}
    BY <1>5, <1>9 DEF Earned
  <2>2. EvidenceFor(g, "experiment", "supports")
          \subseteq EvidenceFor(g, "experiment", "supports")'
    BY <1>4, EvidenceStays
  <2>3. QED
    BY <2>1, <2>2
<1>10. SUFFICES ASSUME NEW g \in DOMAIN hypotheses', hypotheses'[g].confidence >= Threshold
                PROVE  /\ hypotheses'[g].status = "verified"
                       /\ EvidenceFor(g, "experiment", "supports")' # {}
  BY DEF Earned
<1>11. QED
  BY <1>5, <1>8, <1>9, <1>10

(* Every step keeps it.                                                       *)
LEMMA EarnedStep ==
  ASSUME Cautious, TypeOK, Earned, [Next]_vars
  PROVE  Earned'
<1>1. CASE UNCHANGED vars
  BY <1>1 DEF Earned, EvidenceFor, vars, inquiry
<1>2. CASE Generate
  <2>1. PICK p \in Proposals : hypotheses' = p
    BY <1>2 DEF Generate
  <2>2. ASSUME NEW h \in DOMAIN p PROVE ~ (p[h].confidence >= Threshold)
    <3>1. p \in Seq(Hypotheses)
      BY ProposalsAssumption
    <3>2. p[h] \in Hypotheses
      BY <3>1
    <3>3. p[h].confidence \in Percent
      BY <3>2 DEF Hypotheses
    <3>4. p[h].confidence \in Int /\ Threshold \in Int
      BY <3>3, ThresholdAssumption DEF Percent
    <3>5. p[h].confidence < Threshold
      BY DEF Cautious
    <3>6. QED
      BY <3>4, <3>5
  <2>3. QED
    BY <2>1, <2>2 DEF Earned
<1>3. CASE Next /\ ~ Generate /\ ~ RecordFinding /\ ~ RunExperiment
  <2>1. Aside
    BY <1>3, StepAside
  <2>2. QED
    BY <2>1, EvidenceStays DEF Aside, Earned
<1>4. QED
  BY <1>1, <1>2, <1>3, FindingEarns, ExperimentEarns

(* A declared root cause has been supported by an experiment of the session. *)
RootCauseTested ==
  Declared => EvidenceFor(rootCause.hypothesis, "experiment", "supports") # {}

(* If no prior reaches the threshold, patches are proposed for verified       *)
(* hypotheses only, as provider.py says: a prior and a static finding never   *)
(* do what the run engine_unverified shows of other providers, whatever the   *)
(* budget, the suite, the faults and the verdicts.                            *)
THEOREM CautiousProviders ==
  ASSUME Cautious
  PROVE  Spec => [](PatchForVerified /\ RootCauseTested)
<1>1. Init => Earned
  BY DEF Init, Earned
<1>2. TypeOK /\ Earned /\ [Next]_vars => Earned'
  BY EarnedStep
<1>3. RInv /\ OInv /\ Earned => PatchForVerified /\ RootCauseTested
  <2> SUFFICES ASSUME RInv, OInv, Earned, Declared
               PROVE  /\ hypotheses[rootCause.hypothesis].status = "verified"
                      /\ EvidenceFor(rootCause.hypothesis, "experiment", "supports") # {}
    BY DEF OInv, RepairFits, PatchForVerified, RootCauseTested
  <2>1. RootCauseBacked
    BY DEF RInv, Standing
  <2>2. /\ rootCause.hypothesis \in DOMAIN hypotheses
        /\ hypotheses[rootCause.hypothesis].confidence >= Threshold
    BY <2>1 DEF RootCauseBacked, Live
  <2>3. QED
    BY <2>2 DEF Earned
<1>4. QED
  BY <1>1, <1>2, <1>3, TypeCorrect, RootCauseInvariant, OutcomeInvariant, PTL DEF Spec
=============================================================================
