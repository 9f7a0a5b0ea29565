------------------------------- MODULE Engine --------------------------------
(* InvestigationEngine.run and the end of `repomedic investigate`: one        *)
(* investigation, from the first transition to the exit code.                 *)
(*                                                                            *)
(* Every emit calls sinks that write to a terminal and to SQLite, and the     *)
(* stages call the executor, the provider and the file system: each of them   *)
(* can raise, before or after the stage's effect.  Control is split at those  *)
(* calls.  An exception is caught once, by run's handler; one raised by the   *)
(* handler, or a KeyboardInterrupt, escapes through the finally clause.       *)
EXTENDS Sequences, Confidence, Transitions, ValidationResults

CONSTANTS
  MaxExperiments,  \* MAX_EXPERIMENTS, the experiment budget
  Threshold,       \* ROOT_CAUSE_THRESHOLD, in hundredths
  FailureLists,    \* the lists of failures a test run may report
  Proposals,       \* the lists of hypotheses a provider may return
  MaxFaults        \* bound: exceptions and interrupts in one investigation

(* What _observe asks of a parsed failure: has it a frame inside the          *)
(* repository, and could a pytest node id be built for it?                    *)
Failures == [frame: BOOLEAN, node: BOOLEAN]

Hypotheses ==
  [confidence: Percent, status: {"open", "verified", "rejected"},
   shape: Shapes, ran: BOOLEAN,       \* its experiment: form, and status RAN
   findings: Nat,                     \* static findings still to be recorded
   supporting: SUBSET Nat, contradicting: SUBSET Nat]

ASSUME BudgetAssumption    == MaxExperiments \in Nat
ASSUME ThresholdAssumption == Threshold \in Percent /\ Threshold > 25
ASSUME FailuresAssumption  == FailureLists \subseteq Seq(Failures)
ASSUME ProposalsAssumption ==
  \A p \in Proposals : /\ p \in Seq(Hypotheses)
                       /\ \A h \in DOMAIN p : /\ p[h].status = "open"
                                              /\ ~ p[h].ran
                                              /\ p[h].supporting = {}
                                              /\ p[h].contradicting = {}
ASSUME FaultsAssumption    == MaxFaults \in Nat

(* An Evidence record: its id is E<its position>.  `about` is the hypothesis  *)
(* it was recorded for, 0 when it belongs to none.                            *)
EvidenceRecords ==
  [kind: {"test_failure", "traceback", "static_analysis", "experiment", "validation"},
   about: Nat, verdict: Verdicts \union {"none"}]

NoRootCause == [hypothesis |-> 0, confidence |-> 0, evidence |-> {}]

VARIABLES
  pc,              \* the call the engine is about to make
  exc,             \* "none", "caught" by run's handler, "escaped" from it, or
                   \* an interrupt that "cut" the finally clause short
  faults,          \* exceptions and interrupts so far (history, for MaxFaults)
  fsm, visited,    \* StateMachine.state and the members of its history
  initial,         \* session.initial_execution: "none", "green" or "red"
  failures,        \* session.initial_execution.failures
  observed,        \* how many of them _observe has recorded
  targets,         \* len(_failing_node_ids)
  evidence,        \* session.evidence, in order of id
  hypotheses,      \* session.hypotheses
  experimentsRun,  \* _verify_loop's experiments_run
  chosen,          \* _verify_loop's candidate or top, by index
  rootCause,       \* session.root_cause
  patch,           \* is session.patch set?
  validation,      \* session.validation
  error,           \* is session.error set?
  state,           \* session.state
  markdown, json,  \* the two report files
  reported,        \* are the session's report paths set?
  workspace,       \* the run's temporary copy: "none", "live", "leaked" when
                   \* nobody holds it, and once cleaned "removed" or "left"
  saved,           \* the session row written by the CLI
  exitCode

control   == <<pc, exc, faults>>
lifecycle == <<fsm, visited>>
execution == <<initial, failures, observed, targets>>
inquiry   == <<evidence, hypotheses, experimentsRun, chosen>>
repair    == <<rootCause, patch, validation>>
outcome   == <<error, state>>
files     == <<markdown, json, reported, workspace>>
cli       == <<saved, exitCode>>
vars == <<control, lifecycle, execution, inquiry, repair, outcome, files, cli>>

NoFile == [kind |-> "absent"]
TruncatedFile == [kind |-> "truncated"]

(* What a rendering of the session shows, for the report as for the row.      *)
Rendering ==
  [kind |-> "session", state |-> state, error |-> error, cause |-> rootCause.hypothesis,
   patch |-> patch, verdict |-> validation.verdict, evidence |-> Len(evidence)]

Init ==
  /\ pc = "ingest" /\ exc = "none" /\ faults = 0
  /\ fsm = "CREATED" /\ visited = {"CREATED"}
  /\ initial = "none" /\ failures = <<>> /\ observed = 0 /\ targets = 0
  /\ evidence = <<>> /\ hypotheses = <<>> /\ experimentsRun = 0 /\ chosen = 0
  /\ rootCause = NoRootCause /\ patch = FALSE /\ validation = NotRun
  /\ error = FALSE /\ state = "CREATED"
  /\ markdown = NoFile /\ json = NoFile /\ reported = FALSE /\ workspace = "none"
  /\ saved = NoFile /\ exitCode = "none"

-----------------------------------------------------------------------------
(* Control flow and exceptions.                                               *)

MutantSwallowed == /\ faults < MaxFaults
                   /\ faults' = faults + 1
                   /\ exc' = "caught"
                   /\ pc' = "report"

(* An exception leaves the pipeline for the handler, and the handler for the  *)
(* finally clause.                                                            *)
Raise == /\ faults < MaxFaults
         /\ faults' = faults + 1
         /\ exc' = IF exc = "none" THEN "caught" ELSE "escaped"
         /\ pc' = IF exc = "none" THEN "handler" ELSE "finally"

(* A stage ends in an emit: control goes on, or a sink raises.                *)
Go(next) == \/ pc' = next /\ UNCHANGED <<exc, faults>>
            \/ Raise

(* StateMachine.transition: the state and the history move, then STATE is     *)
(* emitted.  An illegal request would raise before either moves.              *)
Transition(to, next) ==
  IF CanTransition(fsm, to)
    THEN /\ fsm' = to
         /\ visited' = visited \union {to}
         /\ Go(next)
    ELSE Raise /\ UNCHANGED lifecycle

(* The transitions the engine requests without asking can_transition first.   *)
Requests == [ingest |-> "INGEST", unsupported |-> "FAILED", graph |-> "GRAPH",
             execute |-> "EXECUTE", no_failure |-> "NO_FAILURE",
             observe |-> "OBSERVE", hypothesize |-> "HYPOTHESIZE", rank |-> "RANK",
             verify |-> "VERIFY", root_cause |-> "ROOT_CAUSE", give_up |-> "FAILED",
             patch |-> "PATCH", validate |-> "VALIDATE", regression |-> "REGRESSION"]

(* Where control goes once such a transition has been made.                   *)
After == [ingest |-> "detect", unsupported |-> "report", graph |-> "build_graph",
          execute |-> "copy", no_failure |-> "report", observe |-> "record_failures",
          hypothesize |-> "generate", rank |-> "choose", verify |-> "experiment",
          root_cause |-> "declare", give_up |-> "report", patch |-> "propose",
          validate |-> "run_validation", regression |-> "announce"]

EnterStage ==
  /\ pc \in DOMAIN Requests
  /\ Transition(Requests[pc], After[pc])
  /\ UNCHANGED <<execution, inquiry, repair, outcome, files, cli>>

(* The calls whose failure leaves no trace but the exception.                 *)
Fallible == {"detect", "build_graph", "copy", "run_suite", "generate", "experiment",
             "propose", "run_validation", "write_markdown", "write_json"}

CallRaises == /\ pc \in Fallible
              /\ Raise
              /\ UNCHANGED <<lifecycle, execution, inquiry, repair, outcome, files, cli>>

-----------------------------------------------------------------------------
(* INGEST, GRAPH, EXECUTE                                                     *)

Detect == /\ pc = "detect"
          /\ Go("graph")
          /\ UNCHANGED <<lifecycle, execution, inquiry, repair, outcome, files, cli>>

(* Not Python, or no test command: session.error is set once INGEST has been  *)
(* emitted, then the machine fails.                                           *)
Unsupported ==
  /\ pc = "detect"
  /\ error' = TRUE
  /\ pc' = "unsupported"
  /\ UNCHANGED <<exc, faults, state, lifecycle, execution, inquiry, repair, files, cli>>

BuildGraph ==
  /\ pc = "build_graph"
  /\ Go("execute")
  /\ UNCHANGED <<lifecycle, execution, inquiry, repair, outcome, files, cli>>

CopyRepository ==
  /\ pc = "copy"
  /\ workspace' = "live"
  /\ pc' = "run_suite"
  /\ UNCHANGED <<exc, faults, lifecycle, execution, inquiry, repair, outcome,
                 markdown, json, reported, cli>>

(* copytree raises inside Workspace.__init__: the temporary directory exists  *)
(* but the engine holds no Workspace to clean up.                             *)
CopyFails ==
  /\ pc = "copy"
  /\ workspace' = "leaked"
  /\ Raise
  /\ UNCHANGED <<lifecycle, execution, inquiry, repair, outcome,
                 markdown, json, reported, cli>>

(* run_pytest, up to session.initial_execution.  A red run may report no      *)
(* failure at all (a crash before the results are written).                   *)
SuiteIsGreen ==
  /\ pc = "run_suite"
  /\ initial' = "green"
  /\ Go("no_failure")
  /\ UNCHANGED <<failures, observed, targets, lifecycle, inquiry, repair, outcome,
                 files, cli>>

SuiteIsRed ==
  /\ pc = "run_suite"
  /\ initial' = "red"
  /\ \E fs \in FailureLists : failures' = fs
  /\ Go("observe")
  /\ UNCHANGED <<observed, targets, lifecycle, inquiry, repair, outcome, files, cli>>

-----------------------------------------------------------------------------
(* OBSERVE, HYPOTHESIZE                                                       *)

(* InvestigationSession.next_evidence_id: E1, E2, ...                         *)
MutantStaleEvidenceId == Len(evidence)
NextEvidenceId == Len(evidence) + 1

About(kind, h, verdict) == [kind |-> kind, about |-> h, verdict |-> verdict]

(* One turn of _observe's loop: the failure, its innermost frame in the       *)
(* repository if it has one, and its node id if one can be built.             *)
RecordFailure ==
  /\ pc = "record_failures"
  /\ observed < Len(failures)
  /\ LET f == failures[observed + 1]
         seen == Append(evidence, About("test_failure", 0, "none"))
     IN  /\ evidence' = IF f.frame THEN Append(seen, About("traceback", 0, "none")) ELSE seen
         /\ targets' = IF f.node THEN targets + 1 ELSE targets
  /\ observed' = observed + 1
  /\ UNCHANGED <<control, lifecycle, initial, failures, hypotheses, experimentsRun, chosen,
                 repair, outcome, files, cli>>

FailuresRecorded ==
  /\ pc = "record_failures"
  /\ observed = Len(failures)
  /\ pc' = "hypothesize"
  /\ UNCHANGED <<exc, faults, lifecycle, execution, inquiry, repair, outcome, files, cli>>

Generate ==
  /\ pc = "generate"
  /\ \E p \in Proposals : hypotheses' = p
  /\ pc' = "record_findings"
  /\ UNCHANGED <<exc, faults, lifecycle, execution, evidence, experimentsRun, chosen,
                 repair, outcome, files, cli>>

(* One turn of _hypothesize's loops: the next static finding of the first     *)
(* hypothesis that still has one becomes evidence that supports it.           *)
RecordFinding ==
  /\ pc = "record_findings"
  /\ \E h \in DOMAIN hypotheses :
       /\ hypotheses[h].findings > 0
       /\ \A g \in 1 .. h - 1 : hypotheses[g].findings = 0
       /\ evidence' = Append(evidence, About("static_analysis", h, "none"))
       /\ hypotheses' = [hypotheses EXCEPT
            ![h].findings = @ - 1,
            ![h].supporting = @ \union {NextEvidenceId}]
  /\ UNCHANGED <<control, lifecycle, execution, experimentsRun, chosen,
                 repair, outcome, files, cli>>

FindingsRecorded ==
  /\ pc = "record_findings"
  /\ \A h \in DOMAIN hypotheses : hypotheses[h].findings = 0
  /\ Go("rank")
  /\ UNCHANGED <<lifecycle, execution, inquiry, repair, outcome, files, cli>>

-----------------------------------------------------------------------------
(* RANK, VERIFY, ROOT_CAUSE                                                   *)

Live == {h \in DOMAIN hypotheses : hypotheses[h].status # "rejected"}

MutantProposedAgain(h) == hypotheses[h].shape # "none"
Proposed(h) == hypotheses[h].shape # "none" /\ ~ hypotheses[h].ran

MutantLowestFirst(h, S) ==
  h \in S /\ \A g \in S : hypotheses[g].confidence >= hypotheses[h].confidence

(* sorted by confidence, highest first; the sort is stable, so of two equals  *)
(* the one the provider listed first comes first.                             *)
First(h, S) ==
  /\ h \in S
  /\ \A g \in S : \/ hypotheses[g].confidence < hypotheses[h].confidence
                  \/ hypotheses[g].confidence = hypotheses[h].confidence /\ h <= g

(* What is left to test, as long as the budget lasts.                         *)
MutantOneTooMany == IF experimentsRun <= MaxExperiments THEN {h \in Live : Proposed(h)} ELSE {}
Candidates == IF experimentsRun < MaxExperiments THEN {h \in Live : Proposed(h)} ELSE {}

ChooseExperiment ==
  /\ pc = "choose"
  /\ \E h \in DOMAIN hypotheses : First(h, Candidates) /\ chosen' = h
  /\ pc' = "verify"
  /\ UNCHANGED <<exc, faults, lifecycle, execution, evidence, hypotheses, experimentsRun,
                 repair, outcome, files, cli>>

MutantConvincingAlone(h) == hypotheses[h].confidence >= Threshold
Convincing(h) == /\ hypotheses[h].confidence >= Threshold
                 /\ hypotheses[h].supporting # {}

ChooseRootCause ==
  /\ pc = "choose"
  /\ Candidates = {}
  /\ \E h \in DOMAIN hypotheses : First(h, Live) /\ Convincing(h) /\ chosen' = h
  /\ pc' = "root_cause"
  /\ UNCHANGED <<exc, faults, lifecycle, execution, evidence, hypotheses, experimentsRun,
                 repair, outcome, files, cli>>

MutantInconclusiveUnfailed ==
  /\ pc = "choose"
  /\ Candidates = {}
  /\ \A h \in Live : First(h, Live) => ~ Convincing(h)
  /\ Go("report")
  /\ UNCHANGED <<lifecycle, execution, inquiry, repair, outcome, files, cli>>

(* Nothing generated, everything rejected, or the best is not good enough:    *)
(* INVESTIGATE is emitted, then the machine fails.                            *)
Inconclusive ==
  /\ pc = "choose"
  /\ Candidates = {}
  /\ \A h \in Live : First(h, Live) => ~ Convincing(h)
  /\ Go("give_up")
  /\ UNCHANGED <<lifecycle, execution, inquiry, repair, outcome, files, cli>>

MutantRetryInconclusive ==
  /\ pc = "experiment"
  /\ Go("rank")
  /\ UNCHANGED <<lifecycle, execution, inquiry, repair, outcome, files, cli>>

(* run_experiment, update_confidence, and the evidence that records them.     *)
RunExperiment ==
  /\ pc = "experiment"
  /\ \E r \in CommandResults :
       LET h == chosen
           verdict == VerdictOf(hypotheses[h].shape, r)
           eid == NextEvidenceId
       IN  /\ evidence' = Append(evidence, About("experiment", h, verdict))
           /\ hypotheses' = [hypotheses EXCEPT
                ![h].ran = TRUE,
                ![h].confidence = Updated(@, verdict),
                ![h].status = StatusAfter(hypotheses[h].confidence, @, verdict),
                ![h].supporting = IF verdict = "supports" THEN @ \union {eid} ELSE @,
                ![h].contradicting = IF verdict = "contradicts" THEN @ \union {eid} ELSE @]
  /\ experimentsRun' = experimentsRun + 1
  /\ Go("rank")
  /\ UNCHANGED <<lifecycle, execution, chosen, repair, outcome, files, cli>>

DeclareRootCause ==
  /\ pc = "declare"
  /\ rootCause' = [hypothesis |-> chosen,
                   confidence |-> hypotheses[chosen].confidence,
                   evidence |-> hypotheses[chosen].supporting]
  /\ Go("patch")
  /\ UNCHANGED <<lifecycle, execution, inquiry, patch, validation, outcome, files, cli>>

-----------------------------------------------------------------------------
(* PATCH, VALIDATE, REGRESSION                                                *)

NoPatch ==
  /\ pc = "propose"
  /\ Go("report")
  /\ UNCHANGED <<lifecycle, execution, inquiry, repair, outcome, files, cli>>

ProposePatch ==
  /\ pc = "propose"
  /\ patch' = TRUE
  /\ Go("validate")
  /\ UNCHANGED <<lifecycle, execution, inquiry, rootCause, validation, outcome, files, cli>>

(* validate_patch, the evidence of its verdict, and the VALIDATE events.      *)
Validate ==
  /\ pc = "run_validation"
  /\ \E v \in ValidationResults :
       /\ validation' = v
       /\ Go(IF v.original_passed THEN "regression" ELSE "report")
  /\ evidence' = Append(evidence, About("validation", 0, "none"))
  /\ UNCHANGED <<lifecycle, execution, hypotheses, experimentsRun, chosen, rootCause, patch,
                 outcome, files, cli>>

(* The REGRESSION events; the verdict has been decided and both answers lead  *)
(* to the report.                                                             *)
AnnounceRegression ==
  /\ pc = "announce"
  /\ Go("report")
  /\ UNCHANGED <<lifecycle, execution, inquiry, repair, outcome, files, cli>>

-----------------------------------------------------------------------------
(* run's handler and _report                                                  *)

MutantCatchUnchecked ==
  /\ pc = "handler"
  /\ error' = TRUE
  /\ fsm' = "FAILED" /\ visited' = visited \union {"FAILED"}
  /\ Go("announce_error")
  /\ UNCHANGED <<state, execution, inquiry, repair, files, cli>>

CatchException ==
  /\ pc = "handler"
  /\ error' = TRUE
  /\ IF CanTransition(fsm, "FAILED")
       THEN Transition("FAILED", "announce_error")
       ELSE pc' = "report" /\ UNCHANGED <<exc, faults, lifecycle>>
  /\ UNCHANGED <<state, execution, inquiry, repair, files, cli>>

AnnounceError ==
  /\ pc = "announce_error"
  /\ Go("report")
  /\ UNCHANGED <<lifecycle, execution, inquiry, repair, outcome, files, cli>>

StartReport ==
  /\ pc = "report"
  /\ IF CanTransition(fsm, "REPORT")
       THEN Transition("REPORT", "resolve")
       ELSE pc' = "resolve" /\ UNCHANGED <<exc, faults, lifecycle>>
  /\ UNCHANGED <<execution, inquiry, repair, outcome, files, cli>>

(* The state the user is told.                                                *)
MutantFailureForgotten == IF "NO_FAILURE" \in visited THEN "NO_FAILURE" ELSE "COMPLETE"
ResolvedState == IF "FAILED" \in visited THEN "FAILED"
                 ELSE IF "NO_FAILURE" \in visited THEN "NO_FAILURE"
                 ELSE "COMPLETE"

(* It is settled before mkdir and the rendering.                              *)
ResolveState ==
  /\ pc = "resolve"
  /\ state' = ResolvedState
  /\ Go("write_markdown")
  /\ UNCHANGED <<error, lifecycle, execution, inquiry, repair, files, cli>>

MutantMarkdownOnce ==
  /\ pc = "write_markdown"
  /\ markdown' = IF markdown = NoFile THEN Rendering ELSE markdown
  /\ pc' = "write_json"
  /\ UNCHANGED <<exc, faults, lifecycle, execution, inquiry, repair, outcome,
                 json, reported, workspace, cli>>

WriteMarkdown ==
  /\ pc = "write_markdown"
  /\ markdown' = Rendering
  /\ pc' = "write_json"
  /\ UNCHANGED <<exc, faults, lifecycle, execution, inquiry, repair, outcome,
                 json, reported, workspace, cli>>

MarkdownCut ==
  /\ pc = "write_markdown"
  /\ markdown' = TruncatedFile
  /\ Raise
  /\ UNCHANGED <<lifecycle, execution, inquiry, repair, outcome,
                 json, reported, workspace, cli>>

(* The second file, the session's two report paths, and the REPORT event.     *)
WriteJson ==
  /\ pc = "write_json"
  /\ json' = Rendering
  /\ reported' = TRUE
  /\ Go("complete")
  /\ UNCHANGED <<lifecycle, execution, inquiry, repair, outcome, markdown, workspace, cli>>

JsonCut ==
  /\ pc = "write_json"
  /\ json' = TruncatedFile
  /\ Raise
  /\ UNCHANGED <<lifecycle, execution, inquiry, repair, outcome,
                 markdown, reported, workspace, cli>>

Complete ==
  /\ pc = "complete"
  /\ IF CanTransition(fsm, "COMPLETE")
       THEN Transition("COMPLETE", "finally")
       ELSE pc' = "finally" /\ UNCHANGED <<exc, faults, lifecycle>>
  /\ UNCHANGED <<execution, inquiry, repair, outcome, files, cli>>

-----------------------------------------------------------------------------
(* The finally clause and the CLI                                             *)

(* Workspace.cleanup, when the engine holds a workspace.  rmtree is told to    *)
(* ignore its errors: a file it may not delete, or that a container still     *)
(* writes, stays behind and nobody is told.                                   *)
MutantCleanedOnSuccess ==
  IF workspace = "live" /\ exc = "none" THEN {"removed", "left"} ELSE {workspace}
Cleaned == IF workspace = "live" THEN {"removed", "left"} ELSE {workspace}

Finally ==
  /\ pc = "finally"
  /\ workspace' \in Cleaned
  /\ state' = IF reported THEN state ELSE fsm
  /\ pc' = IF exc = "escaped" THEN "exited" ELSE "save"
  /\ exitCode' = IF exc = "escaped" THEN "one" ELSE exitCode
  /\ UNCHANGED <<exc, faults, lifecycle, execution, inquiry, repair, error,
                 markdown, json, reported, saved>>

MutantZeroOnComplete == state \in {"COMPLETE", "NO_FAILURE"}
MutantZeroOnPatchOnly == state = "COMPLETE" /\ validation.verdict = "accepted"
ExitsZero == \/ state = "COMPLETE" /\ validation.verdict = "accepted"
             \/ state = "NO_FAILURE"

(* store.save_session, then sys.exit.                                         *)
SaveSession ==
  /\ pc = "save"
  /\ saved' = Rendering
  /\ exitCode' = IF ExitsZero THEN "zero" ELSE "one"
  /\ pc' = "exited"
  /\ UNCHANGED <<exc, faults, lifecycle, execution, inquiry, repair, outcome, files>>

(* The row cannot be written (a locked database, a full disk).                *)
SaveFails ==
  /\ pc = "save"
  /\ faults < MaxFaults
  /\ faults' = faults + 1
  /\ exitCode' = "one"
  /\ pc' = "exited"
  /\ UNCHANGED <<exc, lifecycle, execution, inquiry, repair, outcome, files, saved>>

(* A KeyboardInterrupt is no Exception: run's handler does not see it.  What  *)
(* it cuts short is left as the failing call would leave it.  Once run has    *)
(* returned, only the failing save is modelled.                               *)
Interrupt ==
  /\ pc \notin {"finally", "save", "exited"}
  /\ faults < MaxFaults
  /\ faults' = faults + 1
  /\ exc' = "escaped"
  /\ pc' = "finally"
  /\ workspace' \in IF pc = "copy" THEN {workspace, "leaked"} ELSE {workspace}
  /\ markdown' \in IF pc = "write_markdown" THEN {markdown, TruncatedFile} ELSE {markdown}
  /\ json' \in IF pc = "write_json" THEN {json, TruncatedFile} ELSE {json}
  /\ UNCHANGED <<lifecycle, execution, inquiry, repair, outcome, reported, cli>>

(* One that strikes in the finally clause: before rmtree has begun, on its    *)
(* way, or after it, and before or after the state is set.  It leaves run,    *)
(* and the process, at once.                                                  *)
InterruptInFinally ==
  /\ pc = "finally"
  /\ faults < MaxFaults
  /\ faults' = faults + 1
  /\ exc' = "cut"
  /\ pc' = "exited"
  /\ exitCode' = "one"
  /\ workspace' \in {workspace} \union Cleaned
  /\ state' \in {state, IF reported THEN state ELSE fsm}
  /\ UNCHANGED <<lifecycle, execution, inquiry, repair, error, markdown, json, reported, saved>>

Exited == pc = "exited" /\ UNCHANGED vars

-----------------------------------------------------------------------------
Next ==
  \/ EnterStage \/ CallRaises
  \/ Detect \/ Unsupported \/ BuildGraph
  \/ CopyRepository \/ CopyFails \/ SuiteIsGreen \/ SuiteIsRed
  \/ RecordFailure \/ FailuresRecorded \/ Generate \/ RecordFinding \/ FindingsRecorded
  \/ ChooseExperiment \/ ChooseRootCause \/ Inconclusive
  \/ RunExperiment \/ DeclareRootCause
  \/ NoPatch \/ ProposePatch \/ Validate \/ AnnounceRegression
  \/ CatchException \/ AnnounceError
  \/ StartReport \/ ResolveState \/ WriteMarkdown \/ MarkdownCut \/ WriteJson \/ JsonCut
  \/ Complete \/ Finally \/ SaveSession \/ SaveFails
  \/ Interrupt \/ InterruptInFinally \/ Exited

Spec == Init /\ [][Next]_vars

(* The process runs until it exits: nothing it waits for is unbounded, since  *)
(* the executor bounds every command by a time-out.                           *)
FairSpec == Spec /\ WF_vars(Next)
=============================================================================
