-------------------------- MODULE EngineProperties ---------------------------
(* What must hold of an investigation, whatever the tests, the provider, the  *)
(* executor, the sinks and the file system do.                                *)
EXTENDS Engine, FiniteSets

Labels ==
  {"ingest", "detect", "unsupported", "graph", "build_graph", "execute", "copy",
   "run_suite", "no_failure", "observe", "record_failures", "hypothesize", "generate",
   "record_findings", "rank", "choose", "verify", "experiment", "root_cause", "declare",
   "give_up", "patch", "propose", "validate", "run_validation", "regression", "announce",
   "handler", "announce_error", "report", "resolve", "write_markdown", "write_json",
   "complete", "finally", "save", "exited"}

Renderings ==
  [kind: {"session"}, state: States, error: BOOLEAN, cause: Nat, patch: BOOLEAN,
   verdict: {"not_run", "rejected_original", "rejected_regression", "accepted"},
   evidence: Nat]

ReportFiles == Renderings \union {NoFile, TruncatedFile}

(* Where _verify_loop has made its choice and is about to act on it.          *)
Deciding == {"verify", "experiment", "root_cause", "declare"}

ControlType ==
  /\ pc \in Labels
  /\ exc \in {"none", "caught", "escaped", "cut"}
  /\ faults \in Nat

LifecycleType == fsm \in States /\ visited \subseteq States

ExecutionType ==
  /\ initial \in {"none", "green", "red"}
  /\ failures \in Seq(Failures)
  /\ observed \in Nat /\ targets \in Nat

InquiryType ==
  /\ evidence \in Seq(EvidenceRecords)
  /\ hypotheses \in Seq(Hypotheses)
  /\ experimentsRun \in Nat
  /\ chosen \in Nat
  /\ pc \in Deciding => chosen \in DOMAIN hypotheses

RepairType ==
  /\ rootCause \in [hypothesis: Nat, confidence: Percent, evidence: SUBSET Nat]
  /\ patch \in BOOLEAN
  /\ validation \in ValidationResults \union {NotRun}

OutcomeType == error \in BOOLEAN /\ state \in States

FilesType ==
  /\ markdown \in ReportFiles /\ json \in ReportFiles
  /\ reported \in BOOLEAN
  /\ workspace \in {"none", "live", "leaked", "removed", "left"}

CliType ==
  /\ saved \in Renderings \union {NoFile}
  /\ exitCode \in {"none", "zero", "one"}

(* The values the session, the machine and the report files can take; and the *)
(* loop's choice is a hypothesis whenever it is used.                         *)
TypeOK == /\ ControlType /\ LifecycleType /\ ExecutionType /\ InquiryType
          /\ RepairType /\ OutcomeType /\ FilesType /\ CliType

-----------------------------------------------------------------------------
(* No exception, wherever it strikes, brings the engine to request a          *)
(* transition that TRANSITIONS forbids: InvalidTransition is never raised.    *)
(* And _report always finds the machine in a state it can report from.        *)
LegalRequests ==
  /\ pc \in DOMAIN Requests => CanTransition(fsm, Requests[pc])
  /\ pc \in {"resolve", "write_markdown", "write_json", "complete"} =>
       fsm \in {"REPORT", "COMPLETE"}

EvidenceFor(h, kind, verdict) ==
  {e \in DOMAIN evidence : evidence[e] = About(kind, h, verdict)}

(* A hypothesis's evidence lists are exactly the records made about it: each  *)
(* id it cites exists, is about it and points the right way, and no finding   *)
(* or experiment is left out.                                                 *)
EvidenceLinked ==
  \A h \in DOMAIN hypotheses :
    /\ hypotheses[h].supporting = EvidenceFor(h, "static_analysis", "none")
                                  \union EvidenceFor(h, "experiment", "supports")
    /\ hypotheses[h].contradicting = EvidenceFor(h, "experiment", "contradicts")

Declared == rootCause # NoRootCause

(* A declared root cause is a hypothesis that stands: not rejected, never     *)
(* contradicted, at or above the threshold, backed by recorded evidence, and  *)
(* with the confidence and the evidence the session still gives it.           *)
RootCauseBacked ==
  Declared =>
    LET h == rootCause.hypothesis
    IN  /\ h \in Live
        /\ hypotheses[h].contradicting = {}
        /\ rootCause.confidence >= Threshold
        /\ rootCause.confidence = hypotheses[h].confidence
        /\ rootCause.evidence # {}
        /\ rootCause.evidence = hypotheses[h].supporting
        /\ rootCause.evidence \subseteq DOMAIN evidence

(* The root cause was decided last: no experiment the budget allows is left   *)
(* to run, and no hypothesis still standing is more credible.                 *)
RootCauseIsBest ==
  Declared =>
    /\ Candidates = {}
    /\ \A h \in Live : hypotheses[h].confidence <= rootCause.confidence

(* The experiments are accounted for: as many as the budget allows, each      *)
(* hypothesis's at most once, and one record for each that was run.           *)
ExperimentsAccounted ==
  LET ran == {h \in DOMAIN hypotheses : hypotheses[h].ran}
      records == {e \in DOMAIN evidence : evidence[e].kind = "experiment"}
  IN  /\ experimentsRun <= MaxExperiments
      /\ Cardinality(ran) = experimentsRun
      /\ Cardinality(records) = experimentsRun
      /\ {evidence[e].about : e \in records} = ran

(* Exit code zero is earned: the machine never failed, and either the suite   *)
(* was green and nothing was patched, or a declared root cause was patched    *)
(* and both validation runs passed.                                           *)
ExitZeroEarned ==
  exitCode = "zero" =>
    /\ "FAILED" \notin visited
    /\ saved = Rendering
    /\ \/ initial = "green" /\ ~ Declared /\ ~ patch
       \/ /\ initial = "red" /\ Declared /\ patch
          /\ validation.original_passed /\ validation.regression_passed

(* And it is not withheld: a run that ends with a saved session and exit code *)
(* one had no accepted patch and no green suite, or caught an exception.      *)
ExitOneExplained ==
  exitCode = "one" /\ saved # NoFile =>
    \/ error
    \/ initial = "red" /\ validation.verdict # "accepted"

(* The two report files and the stored session tell the same story, however   *)
(* often the report had to be written.                                        *)
ReportsAgree == saved # NoFile => markdown = saved /\ json = saved

(* An exception the engine swallowed is on record: session.error is set, and  *)
(* both reports were written with it.                                         *)
CaughtIsReported ==
  exc = "caught" /\ pc \in {"save", "exited"} =>
    error /\ markdown = Rendering /\ json = Rendering

(* The engine tries to remove every copy it holds before it ends, whatever    *)
(* was raised where: only an interrupt in the finally clause itself keeps     *)
(* Workspace.cleanup from running to its end, and only a copy whose making    *)
(* failed is one the engine does not hold.  (That the files are gone is more  *)
(* than cleanup promises: it may return with the copy "left".)                *)
CleanupTried ==
  /\ pc \in {"save", "exited"} /\ exc # "cut" => workspace # "live"
  /\ workspace = "leaked" => initial = "none" /\ exc # "none"

-----------------------------------------------------------------------------
(* Nothing the report rests on is rewritten: evidence is only appended, a     *)
(* rejected hypothesis never comes back, an experiment never runs again, and  *)
(* root cause and validation verdict, once recorded, stand.                   *)
NothingRewritten ==
  [][/\ Len(evidence) <= Len(evidence') /\ SubSeq(evidence', 1, Len(evidence)) = evidence
     /\ \A h \in DOMAIN hypotheses :
          /\ hypotheses[h].status = "rejected" => hypotheses'[h] = hypotheses[h]
          /\ hypotheses[h].ran =>
               hypotheses'[h].ran /\ hypotheses'[h].confidence = hypotheses[h].confidence
     /\ Declared => rootCause' = rootCause
     /\ validation # NotRun => validation' = validation]_vars

(* The engine drives StateMachine as its contract says.                       *)
L == INSTANCE Lifecycle
LifecycleSpec == L!Spec

(* The outcomes _report chooses between never compete, whatever is raised     *)
(* when: no investigation was both FAILED and NO_FAILURE.                     *)
OutcomesExclusive == L!OutcomesExclusive

(* The engine keeps the promise made to the user.                             *)
I == INSTANCE Investigation
       WITH suite <- IF initial = "none" THEN "unknown" ELSE initial,
            diagnosis <- rootCause.hypothesis,
            trial <- CASE validation.verdict = "not_run"  -> "none"
                       [] validation.verdict = "accepted" -> "accepted"
                       [] OTHER -> "rejected",
            answer <- exitCode
InvestigationSpec == I!Spec

(* Every investigation ends.                                                  *)
Termination == <>(pc = "exited")

(* AgentProvider.propose_patch is asked for a patch only for a hypothesis     *)
(* that an experiment has verified, as its docstring says.                    *)
PatchForVerified ==
  patch => hypotheses[rootCause.hypothesis].status = "verified"

(* The comment of run's handler: an exception makes the investigation FAILED. *)
CaughtMeansFailed ==
  exc = "caught" /\ pc = "exited" /\ saved # NoFile => saved.state = "FAILED"
=============================================================================
