---------------------------- MODULE EngineProofs -----------------------------
(* Proofs about the engine, for every budget, threshold above 0.25, provider  *)
(* and test suite, and any number of exceptions and interrupts.               *)
EXTENDS EngineProperties, TLAPS, SequenceTheorems, FiniteSetTheorems

(* What one experiment can do to a confidence, for every confidence.  These   *)
(* facts carry the engine's root-cause argument: one contradiction takes a    *)
(* hypothesis below any threshold above 0.25, one support above any up to 0.8. *)

(* The rounding of quarters, without the case distinction.                    *)
LEMMA QuarterBounds ==
  ASSUME NEW c \in Percent
  PROVE  /\ Contradicted(c) \in Nat
         /\ 4 * Contradicted(c) <= c + 2
         /\ c <= 4 * Contradicted(c) + 2
<1>1. /\ c \in Int /\ 0 <= c /\ c <= 100
      /\ c \div 4 \in Int /\ c % 4 \in 0 .. 3 /\ c = 4 * (c \div 4) + (c % 4)
  BY DEF Percent
<1>2. CASE c % 4 = 3 \/ (c % 4 = 2 /\ c \in HalvesRoundedUp)
  BY <1>1, <1>2 DEF Contradicted
<1>3. CASE ~ (c % 4 = 3 \/ (c % 4 = 2 /\ c \in HalvesRoundedUp))
  BY <1>1, <1>3 DEF Contradicted
<1>4. QED
  BY <1>2, <1>3

(* A supporting verdict leaves a confidence of 0.80 to 1.00, never below what *)
(* it was.                                                                    *)
LEMMA SupportedRange ==
  ASSUME NEW c \in Percent
  PROVE  Supported(c) \in 80 .. 100 /\ Supported(c) >= c
BY DEF Percent, Supported

(* A contradicting verdict leaves a confidence of at most 0.25, never above   *)
(* what it was.                                                               *)
LEMMA ContradictedRange ==
  ASSUME NEW c \in Percent
  PROVE  Contradicted(c) \in 0 .. 25 /\ Contradicted(c) <= c
<1>1. c \in Int /\ 0 <= c /\ c <= 100
  BY DEF Percent
<1>2. CASE c = 0
  BY <1>1, <1>2 DEF Contradicted, HalvesRoundedUp
<1>3. CASE c > 0
  BY <1>1, <1>3, QuarterBounds
<1>4. QED
  BY <1>1, <1>2, <1>3

(* The stored confidence stays a confidence, whatever the verdict.            *)
THEOREM UpdatedIsPercent ==
  ASSUME NEW c \in Percent, NEW verdict \in Verdicts
  PROVE  Updated(c, verdict) \in Percent
<1>1. CASE verdict = "supports"
  BY <1>1, SupportedRange DEF Updated, Percent
<1>2. CASE verdict = "contradicts"
  BY <1>2, ContradictedRange DEF Updated, Percent
<1>3. CASE verdict = "inconclusive"
  BY <1>3 DEF Updated
<1>4. QED
  BY <1>1, <1>2, <1>3 DEF Verdicts

(* Support outranks: a hypothesis an experiment supported is more credible    *)
(* than any that one contradicted, however their priors compared.             *)
THEOREM SupportOutranksContradiction ==
  ASSUME NEW c \in Percent, NEW d \in Percent
  PROVE  Updated(c, "supports") > Updated(d, "contradicts")
<1>1. Updated(c, "supports") = Supported(c) /\ Updated(d, "contradicts") = Contradicted(d)
  BY DEF Updated
<1>2. QED
  BY <1>1, SupportedRange, ContradictedRange

(* Every shape of experiment gets a verdict, whatever its command did.        *)
LEMMA VerdictOfType ==
  ASSUME NEW shape \in Shapes, NEW r \in CommandResults
  PROVE  VerdictOf(shape, r) \in Verdicts
<1>1. /\ r.timed_out \in BOOLEAN /\ r.zero \in BOOLEAN
      /\ r.says \in {"supports", "contradicts", "nothing"}
  BY DEF CommandResults
<1>2. CASE shape = "command" \/ shape = "command_negated"
  BY <1>1, <1>2 DEF VerdictOf, Verdicts
<1>3. CASE shape = "script"
  BY <1>1, <1>3 DEF VerdictOf, Verdicts
<1>4. CASE shape = "none" \/ shape = "blank"
  BY <1>1, <1>4 DEF VerdictOf, Verdicts
<1>5. QED
  BY <1>2, <1>3, <1>4 DEF Shapes

-----------------------------------------------------------------------------

(* The table of requested transitions names states and labels.                *)
LEMMA TablesType ==
  ASSUME NEW p \in DOMAIN Requests
  PROVE  Requests[p] \in States /\ After[p] \in Labels
BY DEF Requests, After, States, Labels

(* Raising and going on keep the control variables in range.                  *)
LEMMA RaiseControl ==
  ASSUME ControlType, Raise
  PROVE  ControlType' /\ pc' \in {"handler", "finally"}
BY DEF ControlType, Raise, Labels

(* Going on to a known label does, too.                                      *)
LEMMA GoControl ==
  ASSUME ControlType, NEW next \in Labels, Go(next)
  PROVE  ControlType' /\ pc' \in {next, "handler", "finally"}
BY RaiseControl DEF ControlType, Go

(* A transition keeps the machine's variables in range.                      *)
LEMMA TransitionType ==
  ASSUME ControlType, LifecycleType, NEW to \in States, NEW next \in Labels,
         Transition(to, next)
  PROVE  ControlType' /\ LifecycleType' /\ pc' \in {next, "handler", "finally"}
BY RaiseControl, GoControl DEF LifecycleType, Transition, lifecycle

(* What an action leaves alone keeps its type.                                *)
LEMMA KeptTypes ==
  ASSUME TypeOK
  PROVE  /\ UNCHANGED control => ControlType'
         /\ UNCHANGED lifecycle => LifecycleType'
         /\ UNCHANGED execution => ExecutionType'
         /\ UNCHANGED inquiry /\ (pc' \in Deciding => pc \in Deciding) => InquiryType'
         /\ UNCHANGED repair => RepairType'
         /\ UNCHANGED outcome => OutcomeType'
         /\ UNCHANGED files => FilesType'
         /\ UNCHANGED cli => CliType'
<1> USE DEF TypeOK
<1>1. UNCHANGED control => ControlType'
  BY DEF control, ControlType
<1>2. UNCHANGED lifecycle => LifecycleType'
  BY DEF lifecycle, LifecycleType
<1>3. UNCHANGED execution => ExecutionType'
  BY DEF execution, ExecutionType
<1>4. UNCHANGED inquiry /\ (pc' \in Deciding => pc \in Deciding) => InquiryType'
  BY DEF inquiry, InquiryType
<1>5. UNCHANGED repair => RepairType'
  BY DEF repair, RepairType
<1>6. UNCHANGED outcome => OutcomeType'
  BY DEF outcome, OutcomeType
<1>7. UNCHANGED files => FilesType'
  BY DEF files, FilesType
<1>8. UNCHANGED cli => CliType'
  BY DEF cli, CliType
<1>9. QED
  BY <1>1, <1>2, <1>3, <1>4, <1>5, <1>6, <1>7, <1>8

(* No step that only moves control towards the handler or the report enters   *)
(* the loop's decisions.                                                      *)
LEMMA StageTypes ==
  ASSUME TypeOK, EnterStage
  PROVE  TypeOK'
<1>1. PICK p \in DOMAIN Requests : pc = p
  BY DEF EnterStage
<1>2. ControlType' /\ LifecycleType' /\ pc' \in {After[p], "handler", "finally"}
  BY <1>1, TablesType, TransitionType DEF EnterStage, TypeOK
<1>3. pc' \in Deciding => pc \in Deciding
  BY <1>1, <1>2 DEF Deciding, After, Requests
<1>4. QED
  BY <1>2, <1>3, KeptTypes DEF EnterStage, TypeOK

(* The steps that touch nothing but control and lifecycle.                    *)
LEMMA PassageTypes ==
  ASSUME TypeOK,
         CallRaises \/ Detect \/ BuildGraph \/ FailuresRecorded \/ FindingsRecorded
           \/ Inconclusive \/ NoPatch \/ AnnounceRegression \/ AnnounceError
           \/ StartReport \/ Complete
  PROVE  TypeOK'
<1>1. ControlType /\ LifecycleType
  BY DEF TypeOK
<1>2. /\ UNCHANGED <<execution, inquiry, repair, outcome, files, cli>>
      /\ ControlType' /\ LifecycleType' /\ pc' \notin Deciding
  <2>1. CASE CallRaises
    BY <1>1, <2>1, RaiseControl, KeptTypes DEF CallRaises, Deciding
  <2>2. CASE Detect
    BY <1>1, <2>2, GoControl, KeptTypes DEF Detect, Deciding, Labels
  <2>3. CASE BuildGraph
    BY <1>1, <2>3, GoControl, KeptTypes DEF BuildGraph, Deciding, Labels
  <2>4. CASE FailuresRecorded
    BY <1>1, <2>4, KeptTypes DEF FailuresRecorded, Deciding, Labels, ControlType
  <2>5. CASE FindingsRecorded
    BY <1>1, <2>5, GoControl, KeptTypes DEF FindingsRecorded, Deciding, Labels
  <2>6. CASE Inconclusive
    BY <1>1, <2>6, GoControl, KeptTypes DEF Inconclusive, Deciding, Labels
  <2>7. CASE NoPatch
    BY <1>1, <2>7, GoControl, KeptTypes DEF NoPatch, Deciding, Labels
  <2>8. CASE AnnounceRegression
    BY <1>1, <2>8, GoControl, KeptTypes DEF AnnounceRegression, Deciding, Labels
  <2>9. CASE AnnounceError
    BY <1>1, <2>9, GoControl, KeptTypes DEF AnnounceError, Deciding, Labels
  <2>10. CASE StartReport
    <3>1. UNCHANGED <<execution, inquiry, repair, outcome, files, cli>>
      BY <2>10 DEF StartReport
    <3>2. CASE Transition("REPORT", "resolve")
      BY <1>1, <3>1, <3>2, TransitionType DEF Deciding, Labels, States
    <3>3. CASE pc' = "resolve" /\ UNCHANGED <<exc, faults, lifecycle>>
      BY <1>1, <3>1, <3>3 DEF Deciding, Labels, ControlType, LifecycleType, lifecycle
    <3>4. QED
      BY <2>10, <3>2, <3>3 DEF StartReport
  <2>11. CASE Complete
    <3>1. UNCHANGED <<execution, inquiry, repair, outcome, files, cli>>
      BY <2>11 DEF Complete
    <3>2. CASE Transition("COMPLETE", "finally")
      BY <1>1, <3>1, <3>2, TransitionType DEF Deciding, Labels, States
    <3>3. CASE pc' = "finally" /\ UNCHANGED <<exc, faults, lifecycle>>
      BY <1>1, <3>1, <3>3 DEF Deciding, Labels, ControlType, LifecycleType, lifecycle
    <3>4. QED
      BY <2>11, <3>2, <3>3 DEF Complete
  <2>12. QED
    BY <2>1, <2>2, <2>3, <2>4, <2>5, <2>6, <2>7, <2>8, <2>9, <2>10, <2>11
<1>3. QED
  BY <1>2, KeptTypes DEF TypeOK

(* The steps that change one group of variables besides control.              *)
LEMMA ExecutionTypes ==
  ASSUME TypeOK, SuiteIsGreen \/ SuiteIsRed
  PROVE  TypeOK'
<1>1. ControlType /\ ExecutionType
  BY DEF TypeOK
<1>2. /\ UNCHANGED <<lifecycle, inquiry, repair, outcome, files, cli>>
      /\ ControlType' /\ ExecutionType' /\ pc' \notin Deciding
  <2>1. CASE SuiteIsGreen
    BY <1>1, <2>1, GoControl DEF SuiteIsGreen, ExecutionType, Deciding, Labels
  <2>2. CASE SuiteIsRed
    BY <1>1, <2>2, GoControl, FailuresAssumption
       DEF SuiteIsRed, ExecutionType, Deciding, Labels
  <2>3. QED
    BY <2>1, <2>2
<1>3. QED
  BY <1>2, KeptTypes DEF TypeOK

(* The steps that write the error, the state or the outcome.                 *)
LEMMA OutcomeTypes ==
  ASSUME TypeOK, Unsupported \/ CatchException \/ ResolveState
  PROVE  TypeOK'
<1>1. ControlType /\ LifecycleType /\ OutcomeType
  BY DEF TypeOK
<1>2. /\ UNCHANGED <<execution, inquiry, repair, files, cli>>
      /\ ControlType' /\ LifecycleType' /\ OutcomeType' /\ pc' \notin Deciding
  <2>1. CASE Unsupported
    BY <1>1, <2>1, KeptTypes
       DEF Unsupported, ControlType, OutcomeType, Deciding, Labels
  <2>2. CASE CatchException
    <3>1. UNCHANGED <<execution, inquiry, repair, files, cli>> /\ OutcomeType'
      BY <1>1, <2>2 DEF CatchException, OutcomeType
    <3>2. CASE CanTransition(fsm, "FAILED")
      <4>1. Transition("FAILED", "announce_error")
        BY <2>2, <3>2 DEF CatchException
      <4>2. /\ ControlType' /\ LifecycleType'
            /\ pc' \in {"announce_error", "handler", "finally"}
        BY <1>1, <4>1, TransitionType DEF Labels, States
      <4>3. QED
        BY <3>1, <4>2 DEF Deciding
    <3>3. CASE ~ CanTransition(fsm, "FAILED")
      <4>1. pc' = "report" /\ UNCHANGED <<exc, faults, fsm, visited>>
        BY <2>2, <3>3 DEF CatchException, lifecycle
      <4>2. QED
        BY <1>1, <3>1, <4>1 DEF Deciding, ControlType, LifecycleType, Labels
    <3>4. QED
      BY <3>2, <3>3
  <2>3. CASE ResolveState
    BY <1>1, <2>3, GoControl, KeptTypes
       DEF ResolveState, ResolvedState, OutcomeType, Deciding, Labels, States
  <2>4. QED
    BY <2>1, <2>2, <2>3
<1>3. QED
  BY <1>2, KeptTypes DEF TypeOK

(* What the reports and the row show of a well-typed session.                 *)
LEMMA RenderingType ==
  ASSUME TypeOK
  PROVE  Rendering \in Renderings
<1>1. /\ state \in States /\ error \in BOOLEAN /\ patch \in BOOLEAN
      /\ rootCause.hypothesis \in Nat /\ Len(evidence) \in Nat
  BY DEF TypeOK, OutcomeType, RepairType, InquiryType
<1>2. validation.verdict \in {"not_run", "rejected_original", "rejected_regression", "accepted"}
  BY DEF TypeOK, RepairType, ValidationResults, NotRun
<1>3. QED
  BY <1>1, <1>2 DEF Rendering, Renderings

(* The steps that write the report files, the row and the workspace.         *)
LEMMA FilesTypes ==
  ASSUME TypeOK,
         CopyRepository \/ CopyFails \/ WriteMarkdown \/ MarkdownCut \/ WriteJson \/ JsonCut
  PROVE  TypeOK'
<1>1. ControlType /\ FilesType /\ Rendering \in Renderings
  BY RenderingType DEF TypeOK
<1>2. /\ UNCHANGED <<lifecycle, execution, inquiry, repair, outcome, cli>>
      /\ ControlType' /\ FilesType' /\ pc' \notin Deciding
  <2>1. CASE CopyRepository
    BY <1>1, <2>1 DEF CopyRepository, ControlType, FilesType, Deciding, Labels
  <2>2. CASE CopyFails
    BY <1>1, <2>2, RaiseControl DEF CopyFails, FilesType, Deciding
  <2>3. CASE WriteMarkdown
    BY <1>1, <2>3 DEF WriteMarkdown, ControlType, FilesType, ReportFiles, Deciding, Labels
  <2>4. CASE MarkdownCut
    BY <1>1, <2>4, RaiseControl DEF MarkdownCut, FilesType, ReportFiles, Deciding
  <2>5. CASE WriteJson
    BY <1>1, <2>5, GoControl DEF WriteJson, FilesType, ReportFiles, Deciding, Labels
  <2>6. CASE JsonCut
    BY <1>1, <2>6, RaiseControl DEF JsonCut, FilesType, ReportFiles, Deciding
  <2>7. QED
    BY <2>1, <2>2, <2>3, <2>4, <2>5, <2>6
<1>3. QED
  BY <1>2, KeptTypes DEF TypeOK

(* The steps that record evidence or decide about hypotheses.                 *)
LEMMA AppendEvidence ==
  ASSUME TypeOK, NEW e \in EvidenceRecords
  PROVE  Append(evidence, e) \in Seq(EvidenceRecords)
BY AppendProperties DEF TypeOK, InquiryType

(* A record about a hypothesis is an evidence record.                        *)
LEMMA AboutType ==
  ASSUME NEW h \in Nat, NEW verdict \in Verdicts \union {"none"},
         NEW kind \in {"test_failure", "traceback", "static_analysis", "experiment", "validation"}
  PROVE  About(kind, h, verdict) \in EvidenceRecords
BY DEF About, EvidenceRecords

(* Recording a failure's evidence.                                           *)
LEMMA RecordFailureTypes ==
  ASSUME TypeOK, RecordFailure
  PROVE  TypeOK'
<1>1. ExecutionType /\ InquiryType
  BY DEF TypeOK
<1>2. observed + 1 \in DOMAIN failures
  BY <1>1 DEF RecordFailure, ExecutionType
<1>3. failures[observed + 1] \in Failures
  BY <1>1, <1>2 DEF ExecutionType
<1>4. ExecutionType'
  BY <1>1, <1>3 DEF RecordFailure, ExecutionType, Failures
<1>5. evidence' \in Seq(EvidenceRecords)
  <2> DEFINE seen == Append(evidence, About("test_failure", 0, "none"))
  <2>1. seen \in Seq(EvidenceRecords)
    BY AppendEvidence, AboutType
  <2>2. Append(seen, About("traceback", 0, "none")) \in Seq(EvidenceRecords)
    BY <2>1, AboutType, AppendProperties
  <2>3. QED
    BY <2>1, <2>2 DEF RecordFailure
<1>6. InquiryType'
  BY <1>1, <1>5 DEF RecordFailure, InquiryType, control, Deciding
<1>7. QED
  BY <1>4, <1>6, KeptTypes DEF RecordFailure, TypeOK

(* Rewriting one hypothesis keeps the list a list of hypotheses.              *)
LEMMA Rewritten ==
  ASSUME NEW s \in Seq(Hypotheses), NEW h \in DOMAIN s, NEW new \in Hypotheses
  PROVE  /\ [s EXCEPT ![h] = new] \in Seq(Hypotheses)
         /\ DOMAIN [s EXCEPT ![h] = new] = DOMAIN s
BY ExceptSeq

(* The provider's list is taken over as it is.                               *)
LEMMA GenerateTypes ==
  ASSUME TypeOK, Generate
  PROVE  TypeOK'
<1>1. ControlType /\ InquiryType
  BY DEF TypeOK
<1>2. ControlType' /\ InquiryType'
  BY <1>1, ProposalsAssumption
     DEF Generate, ControlType, InquiryType, Deciding, Labels
<1>3. QED
  BY <1>2, KeptTypes DEF Generate, TypeOK

(* The two ways the engine rewrites a hypothesis leave a hypothesis.          *)
LEMMA FoundHypothesis ==
  ASSUME NEW r \in Hypotheses, NEW n \in Nat, NEW ids \in SUBSET Nat
  PROVE  [r EXCEPT !.findings = n, !.supporting = ids] \in Hypotheses
BY DEF Hypotheses

(* A tested hypothesis is a hypothesis.                                      *)
LEMMA TestedHypothesis ==
  ASSUME NEW r \in Hypotheses, NEW c \in Percent,
         NEW status \in {"open", "verified", "rejected"},
         NEW s \in SUBSET Nat, NEW d \in SUBSET Nat
  PROVE  [r EXCEPT !.ran = TRUE, !.confidence = c, !.status = status,
                   !.supporting = s, !.contradicting = d] \in Hypotheses
BY DEF Hypotheses

(* Recording a static finding for a hypothesis.                              *)
LEMMA RecordFindingTypes ==
  ASSUME TypeOK, RecordFinding
  PROVE  TypeOK'
<1>1. InquiryType
  BY DEF TypeOK
<1>2. PICK h \in DOMAIN hypotheses :
        /\ hypotheses[h].findings > 0
        /\ evidence' = Append(evidence, About("static_analysis", h, "none"))
        /\ hypotheses' = [hypotheses EXCEPT
             ![h].findings = @ - 1,
             ![h].supporting = @ \union {NextEvidenceId}]
  BY DEF RecordFinding
<1>3. /\ hypotheses \in Seq(Hypotheses) /\ hypotheses[h] \in Hypotheses
      /\ h \in Nat /\ NextEvidenceId \in Nat
  BY <1>1 DEF InquiryType, NextEvidenceId
<1> DEFINE n == hypotheses[h].findings - 1
           ids == hypotheses[h].supporting \union {NextEvidenceId}
<1>4. n \in Nat /\ ids \in SUBSET Nat
  BY <1>2, <1>3 DEF Hypotheses
<1>5. hypotheses' = [hypotheses EXCEPT ![h].findings = n, ![h].supporting = ids]
  BY <1>2
<1> HIDE DEF n, ids
<1>6. hypotheses' = [hypotheses EXCEPT
                      ![h] = [hypotheses[h] EXCEPT !.findings = n, !.supporting = ids]]
  BY <1>3, <1>5
<1>7. hypotheses' \in Seq(Hypotheses) /\ DOMAIN hypotheses' = DOMAIN hypotheses
  BY <1>3, <1>4, <1>6, FoundHypothesis, Rewritten
<1>8. evidence' \in Seq(EvidenceRecords)
  BY <1>2, <1>3, AppendEvidence, AboutType
<1>9. InquiryType'
  BY <1>1, <1>7, <1>8 DEF RecordFinding, InquiryType, control, Deciding
<1>10. QED
  BY <1>9, KeptTypes DEF RecordFinding, TypeOK

(* What one experiment does, as a rewriting of the chosen hypothesis.         *)
LEMMA ExperimentStep ==
  ASSUME InquiryType, RunExperiment
  PROVE  \E verdict \in Verdicts :
           LET old == hypotheses[chosen]
           IN  /\ evidence' = Append(evidence, About("experiment", chosen, verdict))
               /\ hypotheses' = [hypotheses EXCEPT ![chosen] =
                    [old EXCEPT
                      !.ran = TRUE,
                      !.confidence = Updated(old.confidence, verdict),
                      !.status = StatusAfter(old.confidence, old.status, verdict),
                      !.supporting = IF verdict = "supports"
                                       THEN old.supporting \union {NextEvidenceId}
                                       ELSE old.supporting,
                      !.contradicting = IF verdict = "contradicts"
                                          THEN old.contradicting \union {NextEvidenceId}
                                          ELSE old.contradicting]]
<1>1. PICK r \in CommandResults :
        LET h == chosen
            verdict == VerdictOf(hypotheses[h].shape, r)
            eid == NextEvidenceId
        IN  /\ evidence' = Append(evidence, About("experiment", h, verdict))
            /\ hypotheses' = [hypotheses EXCEPT
                 ![h].ran = TRUE,
                 ![h].confidence = Updated(@, verdict),
                 ![h].status = StatusAfter(hypotheses[h].confidence, @, verdict),
                 ![h].supporting = IF verdict = "supports" THEN @ \union {eid} ELSE @,
                 ![h].contradicting = IF verdict = "contradicts" THEN @ \union {eid} ELSE @]
  BY DEF RunExperiment
<1> DEFINE old == hypotheses[chosen]
           verdict == VerdictOf(old.shape, r)
           c == Updated(old.confidence, verdict)
           st == StatusAfter(old.confidence, old.status, verdict)
           s == IF verdict = "supports" THEN old.supporting \union {NextEvidenceId}
                ELSE old.supporting
           d == IF verdict = "contradicts" THEN old.contradicting \union {NextEvidenceId}
                ELSE old.contradicting
<1>2. /\ hypotheses \in Seq(Hypotheses) /\ chosen \in DOMAIN hypotheses
      /\ old \in Hypotheses
  BY DEF InquiryType, RunExperiment, Deciding
<1>3. verdict \in Verdicts
  BY <1>2, VerdictOfType DEF Hypotheses
<1>4. hypotheses' = [hypotheses EXCEPT ![chosen].ran = TRUE, ![chosen].confidence = c,
                       ![chosen].status = st, ![chosen].supporting = s,
                       ![chosen].contradicting = d]
  BY <1>1
<1>5. evidence' = Append(evidence, About("experiment", chosen, verdict))
  BY <1>1
<1>6. hypotheses' = [hypotheses EXCEPT ![chosen] =
                       [old EXCEPT !.ran = TRUE, !.confidence = c, !.status = st,
                                   !.supporting = s, !.contradicting = d]]
  <2> HIDE DEF c, st, s, d
  <2>1. QED
    BY <1>2, <1>4
<1>7. QED
  BY <1>3, <1>5, <1>6

(* An update leaves a known status.                                          *)
LEMMA StatusAfterType ==
  ASSUME NEW c \in Percent, NEW status \in {"open", "verified", "rejected"},
         NEW verdict \in Verdicts
  PROVE  StatusAfter(c, status, verdict) \in {"open", "verified", "rejected"}
BY Zenon DEF StatusAfter

(* Running an experiment.                                                    *)
LEMMA RunExperimentTypes ==
  ASSUME TypeOK, RunExperiment
  PROVE  TypeOK'
<1>1. ControlType /\ InquiryType
  BY DEF TypeOK
<1>2. PICK verdict \in Verdicts :
        LET old == hypotheses[chosen]
        IN  /\ evidence' = Append(evidence, About("experiment", chosen, verdict))
            /\ hypotheses' = [hypotheses EXCEPT ![chosen] =
                 [old EXCEPT
                   !.ran = TRUE,
                   !.confidence = Updated(old.confidence, verdict),
                   !.status = StatusAfter(old.confidence, old.status, verdict),
                   !.supporting = IF verdict = "supports"
                                    THEN old.supporting \union {NextEvidenceId}
                                    ELSE old.supporting,
                   !.contradicting = IF verdict = "contradicts"
                                       THEN old.contradicting \union {NextEvidenceId}
                                       ELSE old.contradicting]]
  BY <1>1, ExperimentStep
<1> DEFINE old == hypotheses[chosen]
           c == Updated(old.confidence, verdict)
           st == StatusAfter(old.confidence, old.status, verdict)
           s == IF verdict = "supports" THEN old.supporting \union {NextEvidenceId}
                ELSE old.supporting
           d == IF verdict = "contradicts" THEN old.contradicting \union {NextEvidenceId}
                ELSE old.contradicting
<1>3. /\ hypotheses \in Seq(Hypotheses) /\ chosen \in DOMAIN hypotheses
      /\ old \in Hypotheses /\ chosen \in Nat /\ NextEvidenceId \in Nat
  BY <1>1 DEF InquiryType, RunExperiment, Deciding, NextEvidenceId
<1>4. /\ old.confidence \in Percent /\ old.status \in {"open", "verified", "rejected"}
      /\ old.supporting \in SUBSET Nat /\ old.contradicting \in SUBSET Nat
  BY <1>3 DEF Hypotheses
<1>5. c \in Percent
  BY <1>4, UpdatedIsPercent
<1>6. st \in {"open", "verified", "rejected"}
  BY <1>4, StatusAfterType
<1>7. s \in SUBSET Nat /\ d \in SUBSET Nat
  BY <1>3, <1>4
<1>8. hypotheses' = [hypotheses EXCEPT ![chosen] =
                       [old EXCEPT !.ran = TRUE, !.confidence = c, !.status = st,
                                   !.supporting = s, !.contradicting = d]]
  BY <1>2
<1>9. evidence' \in Seq(EvidenceRecords)
  BY <1>2, <1>3, AppendEvidence, AboutType
<1> HIDE DEF old, c, st, s, d
<1>10. [old EXCEPT !.ran = TRUE, !.confidence = c, !.status = st,
                   !.supporting = s, !.contradicting = d] \in Hypotheses
  BY <1>3, <1>5, <1>6, <1>7, TestedHypothesis
<1>11. hypotheses' \in Seq(Hypotheses) /\ DOMAIN hypotheses' = DOMAIN hypotheses
  BY <1>3, <1>8, <1>10, Rewritten
<1>12. ControlType' /\ pc' \notin Deciding
  BY <1>1, GoControl DEF RunExperiment, Labels, Deciding
<1>13. InquiryType'
  BY <1>1, <1>9, <1>11, <1>12 DEF RunExperiment, InquiryType
<1>14. QED
  BY <1>12, <1>13, KeptTypes DEF RunExperiment, TypeOK

(* The loop chooses hypotheses of the list only.                             *)
LEMMA ChooseTypes ==
  ASSUME TypeOK, ChooseExperiment \/ ChooseRootCause
  PROVE  TypeOK'
<1>1. ControlType /\ InquiryType
  BY DEF TypeOK
<1>2. /\ UNCHANGED <<lifecycle, execution, repair, outcome, files, cli>>
      /\ ControlType' /\ InquiryType'
  <2>1. CASE ChooseExperiment
    BY <1>1, <2>1 DEF ChooseExperiment, ControlType, InquiryType, Labels
  <2>2. CASE ChooseRootCause
    BY <1>1, <2>2 DEF ChooseRootCause, ControlType, InquiryType, Labels
  <2>3. QED
    BY <2>1, <2>2
<1>3. QED
  BY <1>2, KeptTypes DEF TypeOK

(* Declaring the root cause, proposing and validating a patch.               *)
LEMMA RepairTypes ==
  ASSUME TypeOK, DeclareRootCause \/ ProposePatch \/ Validate
  PROVE  TypeOK'
<1>1. ControlType /\ InquiryType /\ RepairType
  BY DEF TypeOK
<1>2. CASE DeclareRootCause
  <2>1. /\ chosen \in Nat /\ hypotheses[chosen] \in Hypotheses
    BY <1>1, <1>2 DEF DeclareRootCause, InquiryType, Deciding
  <2>2. RepairType'
    BY <1>1, <1>2, <2>1 DEF DeclareRootCause, RepairType, Hypotheses
  <2>3. ControlType' /\ pc' \notin Deciding
    BY <1>1, <1>2, GoControl DEF DeclareRootCause, Labels, Deciding
  <2>4. QED
    BY <1>2, <2>2, <2>3, KeptTypes DEF DeclareRootCause, TypeOK
<1>3. CASE ProposePatch
  <2>1. RepairType' /\ ControlType' /\ pc' \notin Deciding
    BY <1>1, <1>3, GoControl DEF ProposePatch, RepairType, Labels, Deciding
  <2>2. QED
    BY <1>3, <2>1, KeptTypes DEF ProposePatch, TypeOK
<1>4. CASE Validate
  <2>1. PICK v \in ValidationResults :
          validation' = v /\ Go(IF v.original_passed THEN "regression" ELSE "report")
    BY <1>4 DEF Validate
  <2>2. (IF v.original_passed THEN "regression" ELSE "report") \in {"regression", "report"}
    OBVIOUS
  <2>3. ControlType' /\ pc' \notin Deciding
    BY <1>1, <2>1, <2>2, GoControl DEF Labels, Deciding
  <2>4. RepairType'
    BY <1>1, <1>4, <2>1 DEF Validate, RepairType
  <2>5. InquiryType'
    BY <1>1, <1>4, <2>3, AppendEvidence, AboutType DEF Validate, InquiryType
  <2>6. QED
    BY <1>4, <2>3, <2>4, <2>5, KeptTypes DEF Validate, TypeOK
<1>5. QED
  BY <1>2, <1>3, <1>4

(* The report, the finally clause and the CLI.                               *)
LEMMA EndingTypes ==
  ASSUME TypeOK,
         Finally \/ SaveSession \/ SaveFails \/ Interrupt \/ InterruptInFinally \/ Exited
  PROVE  TypeOK'
<1>1. ControlType /\ LifecycleType /\ OutcomeType /\ FilesType /\ CliType
      /\ Rendering \in Renderings
  BY RenderingType DEF TypeOK
<1>2. CASE Finally
  <2>1. ControlType' /\ pc' \notin Deciding
    BY <1>1, <1>2 DEF Finally, ControlType, Labels, Deciding
  <2>2. OutcomeType' /\ FilesType' /\ CliType'
    BY <1>1, <1>2
       DEF Finally, Cleaned, OutcomeType, FilesType, CliType, LifecycleType
  <2>3. QED
    BY <1>2, <2>1, <2>2, KeptTypes DEF Finally, TypeOK
<1>3. CASE SaveSession
  <2>1. ControlType' /\ CliType' /\ pc' \notin Deciding
    BY <1>1, <1>3 DEF SaveSession, ControlType, CliType, Labels, Deciding
  <2>2. QED
    BY <1>3, <2>1, KeptTypes DEF SaveSession, TypeOK
<1>4. CASE SaveFails
  <2>1. ControlType' /\ CliType' /\ pc' \notin Deciding
    BY <1>1, <1>4 DEF SaveFails, ControlType, CliType, Labels, Deciding
  <2>2. QED
    BY <1>4, <2>1, KeptTypes DEF SaveFails, TypeOK
<1>5. CASE Interrupt
  <2>1. ControlType' /\ pc' \notin Deciding
    BY <1>1, <1>5 DEF Interrupt, ControlType, Labels, Deciding
  <2>2. FilesType'
    BY <1>1, <1>5 DEF Interrupt, FilesType, ReportFiles
  <2>3. QED
    BY <1>5, <2>1, <2>2, KeptTypes DEF Interrupt, TypeOK
<1>6. CASE InterruptInFinally
  <2>1. ControlType' /\ pc' \notin Deciding
    BY <1>1, <1>6 DEF InterruptInFinally, ControlType, Labels, Deciding
  <2>2. OutcomeType' /\ FilesType' /\ CliType'
    BY <1>1, <1>6
       DEF InterruptInFinally, Cleaned, OutcomeType, FilesType, CliType, LifecycleType
  <2>3. QED
    BY <1>6, <2>1, <2>2, KeptTypes DEF InterruptInFinally, TypeOK
<1>7. CASE Exited
  BY <1>7, KeptTypes DEF Exited, vars, control, TypeOK
<1>8. QED
  BY <1>2, <1>3, <1>4, <1>5, <1>6, <1>7

(* A new session is well typed.                                              *)
LEMMA InitType == Init => TypeOK
<1> SUFFICES ASSUME Init PROVE TypeOK
  OBVIOUS
<1> USE DEF Init
<1>1. ControlType /\ LifecycleType /\ OutcomeType
  BY DEF ControlType, LifecycleType, OutcomeType, Labels, States
<1>2. ExecutionType /\ InquiryType
  BY DEF ExecutionType, InquiryType, Deciding
<1>3. RepairType
  <2>1. NoRootCause \in [hypothesis: Nat, confidence: Percent, evidence: SUBSET Nat]
    BY DEF NoRootCause, Percent
  <2>2. QED
    BY <2>1 DEF RepairType
<1>4. FilesType /\ CliType
  BY DEF FilesType, CliType, ReportFiles
<1>5. QED
  BY <1>1, <1>2, <1>3, <1>4 DEF TypeOK

(* Every step keeps the types.                                               *)
LEMMA TypeStep == TypeOK /\ [Next]_vars => TypeOK'
<1> SUFFICES ASSUME TypeOK, [Next]_vars PROVE TypeOK'
  OBVIOUS
<1>1. CASE UNCHANGED vars
  BY <1>1, KeptTypes DEF vars, control, TypeOK
<1>2. CASE Next
  BY <1>2, StageTypes, PassageTypes, ExecutionTypes, OutcomeTypes, FilesTypes,
     RecordFailureTypes, GenerateTypes, RecordFindingTypes, RunExperimentTypes,
     ChooseTypes, RepairTypes, EndingTypes
     DEF Next
<1>3. QED
  BY <1>1, <1>2

(* Every value the engine, its session and its files take is one the models   *)
(* know, and the loop acts only on a hypothesis of the list.                  *)
THEOREM TypeCorrect == Spec => []TypeOK
BY InitType, TypeStep, PTL DEF Spec

-----------------------------------------------------------------------------
(* What the transition table guarantees, whoever drives the machine.          *)

(* Where the machine can be after what it has been through.                   *)
MachineReached ==
  /\ "FAILED" \in visited => fsm \in {"FAILED", "REPORT", "COMPLETE"}
  /\ "NO_FAILURE" \in visited => fsm \in {"NO_FAILURE", "REPORT", "COMPLETE"}
  /\ fsm \in {"RANK", "VERIFY", "ROOT_CAUSE", "PATCH", "VALIDATE", "REGRESSION"}
       => "RANK" \in visited
  /\ fsm \in {"EXECUTE", "OBSERVE", "HYPOTHESIZE", "RANK", "VERIFY", "ROOT_CAUSE",
              "PATCH", "VALIDATE", "REGRESSION"}
       => "EXECUTE" \in visited
  /\ fsm \in {"PATCH", "VALIDATE", "REGRESSION"} => "ROOT_CAUSE" \in visited

(* The machine's inductive invariant.                                         *)
MachineInv == L!TypeOK /\ MachineReached /\ L!OutcomesExclusive /\ L!PatchNeedsRootCause

(* An edge leads from a state to one the table lists for it.                  *)
LEMMA MoveEdge ==
  ASSUME NEW to \in L!States, fsm \in L!States, L!Move(to)
  PROVE  /\ fsm' = to /\ visited' = visited \union {to}
         /\ <<fsm, to>> \in L!TRANSITIONS
BY DEF L!Move, L!CanTransition

(* The machine's state, its history and where they can have been stay in      *)
(* step.                                                                      *)
THEOREM MachineInvariance == L!Spec => []MachineInv
<1>1. L!Init => MachineInv
  BY DEF L!Init, MachineInv, L!TypeOK, MachineReached, L!OutcomesExclusive,
         L!PatchNeedsRootCause, L!States
<1>2. MachineInv /\ [L!Next]_(L!lifecycleVars) => MachineInv'
  <2> SUFFICES ASSUME MachineInv, [L!Next]_(L!lifecycleVars) PROVE MachineInv'
    OBVIOUS
  <2>1. CASE UNCHANGED L!lifecycleVars
    BY <2>1 DEF L!lifecycleVars, MachineInv, L!TypeOK, MachineReached, L!OutcomesExclusive,
                L!PatchNeedsRootCause
  <2>2. ASSUME NEW to \in L!States, L!Move(to) PROVE MachineInv'
    <3>1. /\ fsm' = to /\ visited' = visited \union {to}
          /\ <<fsm, to>> \in L!TRANSITIONS
      BY <2>2, MoveEdge DEF MachineInv, L!TypeOK
    <3>2. L!TypeOK'
      BY <3>1 DEF MachineInv, L!TypeOK
    <3>3. MachineReached'
      BY <3>1 DEF MachineInv, L!TypeOK, MachineReached, L!TRANSITIONS, L!States
    <3>4. L!OutcomesExclusive'
      BY <3>1 DEF MachineInv, L!TypeOK, MachineReached, L!OutcomesExclusive, L!TRANSITIONS,
                  L!States
    <3>5. L!PatchNeedsRootCause'
      BY <3>1 DEF MachineInv, L!TypeOK, MachineReached, L!PatchNeedsRootCause, L!TRANSITIONS,
                  L!States
    <3>6. QED
      BY <3>2, <3>3, <3>4, <3>5 DEF MachineInv
  <2>3. QED
    BY <2>1, <2>2 DEF L!Next
<1>3. QED
  BY <1>1, <1>2, PTL DEF L!Spec

(* An investigation never collects two verdicts: _report's choice between     *)
(* FAILED and NO_FAILURE does not depend on the order of its tests.           *)
THEOREM VerdictExclusive == L!Spec => []L!OutcomesExclusive
BY MachineInvariance, PTL DEF MachineInv

(* Once FAILED or NO_FAILURE, the machine only reports and completes.         *)
THEOREM VerdictFinal == L!Spec => []L!VerdictsAreFinal
<1>1. MachineInv => L!VerdictsAreFinal
  BY DEF MachineInv, MachineReached, L!VerdictsAreFinal
<1>2. QED
  BY <1>1, MachineInvariance, PTL

(* No patch without a root cause, and no root cause without a test run.       *)
THEOREM PatchAfterRootCause == L!Spec => []L!PatchNeedsRootCause
BY MachineInvariance, PTL DEF MachineInv

-----------------------------------------------------------------------------
(* The engine and its state machine: whatever is raised wherever, it requests *)
(* only transitions the table allows, and so implements Lifecycle.            *)

(* Where the machine can be when control is at a call.  Nothing is said of    *)
(* the handler and the finally clause: an exception brings control there from *)
(* everywhere.                                                                *)
At == [ingest |-> {"CREATED"}, detect |-> {"INGEST"}, unsupported |-> {"INGEST"},
       graph |-> {"INGEST"}, build_graph |-> {"GRAPH"}, execute |-> {"GRAPH"},
       copy |-> {"EXECUTE"}, run_suite |-> {"EXECUTE"}, no_failure |-> {"EXECUTE"},
       observe |-> {"EXECUTE"}, record_failures |-> {"OBSERVE"}, hypothesize |-> {"OBSERVE"},
       generate |-> {"HYPOTHESIZE"}, record_findings |-> {"HYPOTHESIZE"},
       rank |-> {"HYPOTHESIZE", "VERIFY"}, choose |-> {"RANK"}, verify |-> {"RANK"},
       root_cause |-> {"RANK"}, give_up |-> {"RANK"}, experiment |-> {"VERIFY"},
       declare |-> {"ROOT_CAUSE"}, patch |-> {"ROOT_CAUSE"}, propose |-> {"PATCH"},
       validate |-> {"PATCH"}, run_validation |-> {"VALIDATE"}, regression |-> {"VALIDATE"},
       announce |-> {"REGRESSION"}, announce_error |-> {"FAILED"},
       report |-> {"NO_FAILURE", "FAILED", "PATCH", "VALIDATE", "REGRESSION", "REPORT",
                   "COMPLETE"},
       resolve |-> {"REPORT", "COMPLETE"}, write_markdown |-> {"REPORT", "COMPLETE"},
       write_json |-> {"REPORT", "COMPLETE"}, complete |-> {"REPORT", "COMPLETE"}]

PcAgrees == pc \in DOMAIN At => fsm \in At[pc]

(* That is what makes every request legal.                                    *)
LEMMA AgreementIsLegal == PcAgrees => LegalRequests
<1>1. ASSUME PcAgrees, pc \in DOMAIN Requests PROVE CanTransition(fsm, Requests[pc])
  BY <1>1 DEF PcAgrees, At, Requests, CanTransition, TRANSITIONS
<1>2. ASSUME PcAgrees, pc \in {"resolve", "write_markdown", "write_json", "complete"}
      PROVE  fsm \in {"REPORT", "COMPLETE"}
  BY <1>2 DEF PcAgrees, At
<1>3. QED
  BY <1>1, <1>2 DEF LegalRequests

(* An exception leads to the handler or the finally clause.                  *)
LEMMA RaiseLeads == Raise => pc' \in {"handler", "finally"}
BY DEF Raise

(* Going on leads to the next call, or where an exception leads.             *)
LEMMA GoLeads == ASSUME NEW next, Go(next) PROVE pc' \in {next, "handler", "finally"}
BY RaiseLeads DEF Go

(* So does a transition, legal or not.                                       *)
LEMMA TransitionLeads ==
  ASSUME NEW to, NEW next, Transition(to, next)
  PROVE  \/ pc' \in {"handler", "finally"}
         \/ pc' = next /\ fsm' = to /\ CanTransition(fsm, to)
BY RaiseLeads, GoLeads DEF Transition

(* No claim is made where an exception leads.                                 *)
LEMMA CaughtAgrees == pc' \in {"handler", "finally", "save", "exited"} => PcAgrees'
BY DEF PcAgrees, At

(* Where control goes by the steps that leave the machine alone.              *)
Flow == {<<"detect", "graph">>, <<"detect", "unsupported">>, <<"build_graph", "execute">>,
         <<"copy", "run_suite">>, <<"run_suite", "no_failure">>, <<"run_suite", "observe">>,
         <<"record_failures", "hypothesize">>, <<"generate", "record_findings">>,
         <<"record_findings", "rank">>, <<"choose", "verify">>, <<"choose", "root_cause">>,
         <<"choose", "give_up">>, <<"experiment", "rank">>, <<"declare", "patch">>,
         <<"propose", "report">>, <<"propose", "validate">>,
         <<"run_validation", "regression">>, <<"run_validation", "report">>,
         <<"announce", "report">>, <<"announce_error", "report">>,
         <<"resolve", "write_markdown">>, <<"write_markdown", "write_json">>,
         <<"write_json", "complete">>}

Flows == pc' \in {pc, "handler", "finally"} \/ <<pc, pc'>> \in Flow

(* A step that leaves the machine alone keeps pc and state in agreement.     *)
LEMMA FlowAgrees ==
  ASSUME PcAgrees, UNCHANGED lifecycle, Flows
  PROVE  PcAgrees'
<1>1. CASE pc' = pc
  BY <1>1 DEF PcAgrees, lifecycle
<1>2. CASE pc' \in {"handler", "finally"}
  BY <1>2, CaughtAgrees
<1>3. CASE <<pc, pc'>> \in Flow
  BY <1>3 DEF PcAgrees, At, lifecycle, Flow
<1>4. QED
  BY <1>1, <1>2, <1>3 DEF Flows

(* The stages' own steps leave the machine alone.                            *)
LEMMA StageFlows ==
  ASSUME CallRaises \/ Detect \/ Unsupported \/ BuildGraph \/ CopyRepository \/ CopyFails
           \/ SuiteIsGreen \/ SuiteIsRed \/ RecordFailure \/ FailuresRecorded \/ Generate
           \/ RecordFinding \/ FindingsRecorded
  PROVE  Flows /\ UNCHANGED lifecycle
<1>1. CASE CallRaises \/ CopyFails
  BY <1>1, RaiseLeads DEF CallRaises, CopyFails, Flows
<1>2. CASE Detect \/ BuildGraph \/ FindingsRecorded
  BY <1>2, GoLeads DEF Detect, BuildGraph, FindingsRecorded, Flows, Flow
<1>3. CASE Unsupported \/ CopyRepository \/ FailuresRecorded \/ Generate
  BY <1>3 DEF Unsupported, CopyRepository, FailuresRecorded, Generate, Flows, Flow
<1>4. CASE SuiteIsGreen \/ SuiteIsRed
  BY <1>4, GoLeads DEF SuiteIsGreen, SuiteIsRed, Flows, Flow
<1>5. CASE RecordFailure \/ RecordFinding
  BY <1>5 DEF RecordFailure, RecordFinding, Flows, control
<1>6. QED
  BY <1>1, <1>2, <1>3, <1>4, <1>5

(* So do the steps of _verify_loop and of the patch stages.                  *)
LEMMA DecisionFlows ==
  ASSUME ChooseExperiment \/ ChooseRootCause \/ Inconclusive \/ RunExperiment
           \/ DeclareRootCause \/ NoPatch \/ ProposePatch \/ Validate
           \/ AnnounceRegression
  PROVE  Flows /\ UNCHANGED lifecycle
<1>1. CASE ChooseExperiment \/ ChooseRootCause
  BY <1>1 DEF ChooseExperiment, ChooseRootCause, Flows, Flow
<1>2. CASE Inconclusive \/ RunExperiment \/ DeclareRootCause
  BY <1>2, GoLeads DEF Inconclusive, RunExperiment, DeclareRootCause, Flows, Flow
<1>3. CASE NoPatch \/ ProposePatch \/ AnnounceRegression
  BY <1>3, GoLeads DEF NoPatch, ProposePatch, AnnounceRegression, Flows, Flow
<1>4. CASE Validate
  <2>1. PICK v \in ValidationResults :
          Go(IF v.original_passed THEN "regression" ELSE "report")
    BY <1>4 DEF Validate
  <2>2. pc' \in {"regression", "report", "handler", "finally"}
    BY <2>1, GoLeads
  <2>3. QED
    BY <1>4, <2>2 DEF Validate, Flows, Flow
<1>5. QED
  BY <1>1, <1>2, <1>3, <1>4

(* So do the handler's announcement and what _report derives and writes.     *)
LEMMA ReportFlows ==
  ASSUME AnnounceError \/ ResolveState \/ WriteMarkdown \/ MarkdownCut \/ WriteJson
           \/ JsonCut
  PROVE  Flows /\ UNCHANGED lifecycle
<1>1. CASE AnnounceError \/ ResolveState \/ WriteJson
  BY <1>1, GoLeads DEF AnnounceError, ResolveState, WriteJson, Flows, Flow
<1>2. CASE WriteMarkdown
  BY <1>2 DEF WriteMarkdown, Flows, Flow
<1>3. CASE MarkdownCut \/ JsonCut
  BY <1>3, RaiseLeads DEF MarkdownCut, JsonCut, Flows
<1>4. QED
  BY <1>1, <1>2, <1>3

(* So do an interrupt, the finally clause and the CLI.                       *)
LEMMA EndFlows ==
  ASSUME Finally \/ SaveSession \/ SaveFails \/ Interrupt \/ InterruptInFinally \/ Exited
  PROVE  (pc' \in {"finally", "save", "exited"} \/ Flows) /\ UNCHANGED lifecycle
BY DEF Finally, SaveSession, SaveFails, Interrupt, InterruptInFinally, Exited, vars, control, Flows

(* The steps that move the machine.                                           *)
LEMMA StageAgrees ==
  ASSUME EnterStage
  PROVE  PcAgrees'
<1>1. PICK p \in DOMAIN Requests : pc = p /\ Transition(Requests[p], After[p])
  BY DEF EnterStage
<1>2. CASE pc' \in {"handler", "finally"}
  BY <1>2, CaughtAgrees
<1>3. CASE pc' = After[p] /\ fsm' = Requests[p]
  BY <1>3 DEF PcAgrees, At, After, Requests
<1>4. QED
  BY <1>1, <1>2, <1>3, TransitionLeads

(* So do the handler's FAILED and _report's REPORT and COMPLETE.             *)
LEMMA VerdictAgrees ==
  ASSUME fsm \in States, PcAgrees, CatchException \/ StartReport \/ Complete
  PROVE  PcAgrees'
<1>1. CASE CatchException
  <2>1. CASE CanTransition(fsm, "FAILED")
    BY <1>1, <2>1, TransitionLeads, CaughtAgrees DEF CatchException, PcAgrees, At
  <2>2. CASE ~ CanTransition(fsm, "FAILED")
    BY <1>1, <2>2
       DEF CatchException, PcAgrees, At, lifecycle, CanTransition, TRANSITIONS, States
  <2>3. QED
    BY <2>1, <2>2
<1>2. CASE StartReport
  <2>1. CASE CanTransition(fsm, "REPORT")
    BY <1>2, <2>1, TransitionLeads, CaughtAgrees DEF StartReport, PcAgrees, At
  <2>2. CASE ~ CanTransition(fsm, "REPORT")
    BY <1>2, <2>2
       DEF StartReport, PcAgrees, At, lifecycle, CanTransition, TRANSITIONS
  <2>3. QED
    BY <2>1, <2>2
<1>3. CASE Complete
  BY <1>3, TransitionLeads, CaughtAgrees DEF Complete, PcAgrees, At
<1>4. QED
  BY <1>1, <1>2, <1>3

(* Every step keeps pc and state in agreement.                               *)
LEMMA AgreementStep == TypeOK /\ PcAgrees /\ [Next]_vars => PcAgrees'
<1> SUFFICES ASSUME TypeOK, PcAgrees, [Next]_vars PROVE PcAgrees'
  OBVIOUS
<1>1. fsm \in States
  BY DEF TypeOK, LifecycleType
<1>2. CASE UNCHANGED vars
  BY <1>2, FlowAgrees DEF vars, control, Flows
<1>3. CASE Next
  BY <1>1, <1>3, StageFlows, DecisionFlows, ReportFlows, EndFlows, FlowAgrees, CaughtAgrees,
     StageAgrees, VerdictAgrees
     DEF Next
<1>4. QED
  BY <1>2, <1>3

(* InvalidTransition is never raised, and _report always finds the machine    *)
(* where it can report, for any number of exceptions and interrupts.          *)
THEOREM RequestsAreLegal == Spec => []LegalRequests
<1>1. Init => PcAgrees
  BY DEF Init, PcAgrees, At
<1>2. QED
  BY <1>1, TypeCorrect, AgreementStep, AgreementIsLegal, PTL DEF Spec

-----------------------------------------------------------------------------
(* Every step of the engine moves the machine along an edge or leaves it.     *)
LEMMA TransitionMoves ==
  ASSUME NEW to \in States, NEW next, Transition(to, next)
  PROVE  [L!Next]_(L!lifecycleVars)
BY DEF Transition, lifecycle, L!Next, L!Move, L!lifecycleVars, L!CanTransition, CanTransition,
       L!States, States, L!TRANSITIONS, TRANSITIONS

(* Every step is a step of the abstract state machine, or a stutter.         *)
LEMMA LifecycleStep == [Next]_vars => [L!Next]_(L!lifecycleVars)
<1> SUFFICES ASSUME [Next]_vars PROVE [L!Next]_(L!lifecycleVars)
  OBVIOUS
<1>1. CASE UNCHANGED lifecycle
  BY <1>1 DEF lifecycle, L!lifecycleVars
<1>2. CASE EnterStage
  <2>1. PICK p \in DOMAIN Requests : Transition(Requests[p], After[p])
    BY <1>2 DEF EnterStage
  <2>2. QED
    BY <2>1, TablesType, TransitionMoves
<1>3. CASE CatchException \/ StartReport \/ Complete
  BY <1>1, <1>3, TransitionMoves DEF CatchException, StartReport, Complete, States
<1>4. CASE UNCHANGED vars
  BY <1>1, <1>4 DEF vars
<1>5. QED
  BY <1>1, <1>2, <1>3, <1>4, StageFlows, DecisionFlows, ReportFlows, EndFlows DEF Next

(* The engine implements its state machine's contract.                        *)
THEOREM EngineKeepsLifecycle == Spec => LifecycleSpec
<1>1. Init => L!Init
  BY DEF Init, L!Init
<1>2. QED
  BY <1>1, LifecycleStep, PTL DEF Spec, LifecycleSpec, L!Spec

(* So _report's choice of an outcome is never a matter of order: a run is not *)
(* both FAILED and NO_FAILURE.                                                *)
THEOREM EngineOutcomes == Spec => []OutcomesExclusive
BY EngineKeepsLifecycle, VerdictExclusive, PTL DEF LifecycleSpec, OutcomesExclusive

-----------------------------------------------------------------------------
(* Where control goes, and how an exception leads away.                       *)

Thrown ==
  \/ /\ pc \notin {"finally", "save", "exited"}
     /\ \/ exc = "none" /\ exc' = "caught" /\ pc' = "handler"
        \/ exc' = "escaped" /\ pc' = "finally"
  \/ pc = "finally" /\ exc' = "cut" /\ pc' = "exited"

Leads ==
  \/ pc = "ingest" /\ pc' = "detect"
  \/ pc = "detect" /\ pc' \in {"graph", "unsupported"}
  \/ pc = "unsupported" /\ pc' = "report"
  \/ pc = "graph" /\ pc' = "build_graph"
  \/ pc = "build_graph" /\ pc' = "execute"
  \/ pc = "execute" /\ pc' = "copy"
  \/ pc = "copy" /\ pc' = "run_suite"
  \/ pc = "run_suite" /\ pc' \in {"no_failure", "observe"}
  \/ pc = "no_failure" /\ pc' = "report"
  \/ pc = "observe" /\ pc' = "record_failures"
  \/ pc = "record_failures" /\ pc' \in {"record_failures", "hypothesize"}
  \/ pc = "hypothesize" /\ pc' = "generate"
  \/ pc = "generate" /\ pc' = "record_findings"
  \/ pc = "record_findings" /\ pc' \in {"record_findings", "rank"}
  \/ pc = "rank" /\ pc' = "choose"
  \/ pc = "choose" /\ pc' \in {"verify", "root_cause", "give_up"}
  \/ pc = "verify" /\ pc' = "experiment"
  \/ pc = "experiment" /\ pc' = "rank"
  \/ pc = "root_cause" /\ pc' = "declare"
  \/ pc = "declare" /\ pc' = "patch"
  \/ pc = "give_up" /\ pc' = "report"
  \/ pc = "patch" /\ pc' = "propose"
  \/ pc = "propose" /\ pc' \in {"report", "validate"}
  \/ pc = "validate" /\ pc' = "run_validation"
  \/ pc = "run_validation" /\ pc' \in {"regression", "report"}
  \/ pc = "regression" /\ pc' = "announce"
  \/ pc = "announce" /\ pc' = "report"
  \/ pc = "handler" /\ pc' \in {"announce_error", "report"}
  \/ pc = "announce_error" /\ pc' = "report"
  \/ pc = "report" /\ pc' = "resolve"
  \/ pc = "resolve" /\ pc' = "write_markdown"
  \/ pc = "write_markdown" /\ pc' = "write_json"
  \/ pc = "write_json" /\ pc' = "complete"
  \/ pc = "complete" /\ pc' = "finally"
  \/ pc = "finally" /\ pc' \in {"save", "exited"}
  \/ pc = "save" /\ pc' = "exited"

Calm == exc' = exc /\ Leads

(* An exception is thrown, or control goes on.                                *)
Moves == Thrown \/ Calm

(* Where a call can raise.                                                    *)
LEMMA RaiseThrows == Raise /\ pc \notin {"finally", "save", "exited"} => Thrown
BY DEF Raise, Thrown

(* Going on throws, or leads to the next call.                                *)
LEMMA GoMoves ==
  ASSUME NEW next, Go(next), pc \notin {"finally", "save", "exited"}
  PROVE  Thrown \/ (exc' = exc /\ pc' = next)
BY RaiseThrows DEF Go

(* So does a transition.                                                      *)
LEMMA TransitionGoes ==
  ASSUME NEW to, NEW next, Transition(to, next), pc \notin {"finally", "save", "exited"}
  PROVE  Thrown \/ (exc' = exc /\ pc' = next)
BY RaiseThrows, GoMoves DEF Transition

(* Every step either throws or follows the calls' order.                      *)
LEMMA StepMoves == Next => Moves \/ UNCHANGED vars
<1> SUFFICES ASSUME Next PROVE Moves \/ UNCHANGED vars
  OBVIOUS
<1>1. CASE EnterStage
  <2>1. PICK p \in DOMAIN Requests : pc = p /\ Transition(Requests[p], After[p])
    BY <1>1 DEF EnterStage
  <2>2. Thrown \/ (exc' = exc /\ pc' = After[p])
    BY <2>1, TransitionGoes DEF Requests
  <2>3. QED
    BY <2>1, <2>2 DEF Moves, Calm, Leads, Requests, After
<1>2. CASE CallRaises \/ CopyFails \/ MarkdownCut \/ JsonCut
  BY <1>2, RaiseThrows DEF CallRaises, Fallible, CopyFails, MarkdownCut, JsonCut, Moves
<1>3. CASE Detect \/ BuildGraph \/ FindingsRecorded \/ Inconclusive \/ NoPatch \/ ProposePatch
  <2>1. \/ Thrown
        \/ exc' = exc /\ \/ pc = "detect" /\ pc' = "graph"
                         \/ pc = "build_graph" /\ pc' = "execute"
                         \/ pc = "record_findings" /\ pc' = "rank"
                         \/ pc = "choose" /\ pc' = "give_up"
                         \/ pc = "propose" /\ pc' \in {"report", "validate"}
    BY <1>3, GoMoves
       DEF Detect, BuildGraph, FindingsRecorded, Inconclusive, NoPatch, ProposePatch
  <2>2. QED
    BY <2>1 DEF Moves, Calm, Leads
<1>4. CASE AnnounceRegression \/ AnnounceError \/ ResolveState \/ WriteJson \/ DeclareRootCause
  <2>1. \/ Thrown
        \/ exc' = exc /\ \/ pc \in {"announce", "announce_error"} /\ pc' = "report"
                         \/ pc = "resolve" /\ pc' = "write_markdown"
                         \/ pc = "write_json" /\ pc' = "complete"
                         \/ pc = "declare" /\ pc' = "patch"
    BY <1>4, GoMoves
       DEF AnnounceRegression, AnnounceError, ResolveState, WriteJson, DeclareRootCause
  <2>2. QED
    BY <2>1 DEF Moves, Calm, Leads
<1>5. CASE SuiteIsGreen \/ SuiteIsRed \/ RunExperiment
  <2>1. \/ Thrown
        \/ exc' = exc /\ \/ pc = "run_suite" /\ pc' \in {"no_failure", "observe"}
                         \/ pc = "experiment" /\ pc' = "rank"
    BY <1>5, GoMoves DEF SuiteIsGreen, SuiteIsRed, RunExperiment
  <2>2. QED
    BY <2>1 DEF Moves, Calm, Leads
<1>6. CASE Validate
  <2>1. PICK v \in ValidationResults : Go(IF v.original_passed THEN "regression" ELSE "report")
    BY <1>6 DEF Validate
  <2>2. pc = "run_validation"
    BY <1>6 DEF Validate
  <2>3. Thrown \/ (exc' = exc /\ pc' \in {"regression", "report"})
    BY <2>1, <2>2, GoMoves
  <2>4. QED
    BY <2>2, <2>3 DEF Moves, Calm, Leads
<1>7. CASE Unsupported \/ CopyRepository \/ FailuresRecorded \/ Generate \/ ChooseExperiment
           \/ ChooseRootCause \/ WriteMarkdown
  BY <1>7 DEF Unsupported, CopyRepository, FailuresRecorded, Generate, ChooseExperiment,
     ChooseRootCause, WriteMarkdown, Moves, Calm, Leads
<1>8. CASE RecordFailure \/ RecordFinding
  <2>1. pc \in {"record_failures", "record_findings"} /\ pc' = pc /\ exc' = exc
    BY <1>8 DEF RecordFailure, RecordFinding, control
  <2>2. QED
    BY <2>1 DEF Moves, Calm, Leads
<1>9. CASE CatchException \/ StartReport \/ Complete
  <2>1. CASE CatchException
    BY <1>9, <2>1, TransitionGoes DEF CatchException, Moves, Calm, Leads
  <2>2. CASE StartReport
    BY <1>9, <2>2, TransitionGoes DEF StartReport, Moves, Calm, Leads
  <2>3. CASE Complete
    BY <1>9, <2>3, TransitionGoes DEF Complete, Moves, Calm, Leads
  <2>4. QED
    BY <1>9, <2>1, <2>2, <2>3
<1>10. CASE Finally \/ SaveSession \/ SaveFails
  BY <1>10 DEF Finally, SaveSession, SaveFails, Moves, Calm, Leads
<1>11. CASE Interrupt \/ InterruptInFinally
  BY <1>11 DEF Interrupt, InterruptInFinally, Moves, Thrown
<1>12. CASE Exited
  BY <1>12 DEF Exited
<1>13. QED
  BY <1>1, <1>2, <1>3, <1>4, <1>5, <1>6, <1>7, <1>8, <1>9, <1>10, <1>11, <1>12 DEF Next

-----------------------------------------------------------------------------
(* A root cause is only ever declared for the best hypothesis left standing,  *)
(* backed by recorded evidence and never contradicted, and what is recorded   *)
(* is what was found and run: for every budget, every threshold above 0.25,   *)
(* every list of hypotheses and every fault.                                  *)

(* The calls after _verify_loop: nothing there touches a hypothesis.          *)
Settled == {"patch", "propose", "validate", "run_validation", "regression", "announce",
            "handler", "announce_error", "report", "resolve", "write_markdown",
            "write_json", "complete", "finally", "save", "exited"}

(* What holds of each hypothesis: one not yet tested is not contradicted, a   *)
(* contradicted one has had its confidence cut, and what supports it exists.  *)
Untested == \A h \in DOMAIN hypotheses :
              ~ hypotheses[h].ran => hypotheses[h].contradicting = {}
Cut == \A h \in DOMAIN hypotheses :
         hypotheses[h].contradicting # {} => hypotheses[h].confidence <= 25
Cited == \A h \in DOMAIN hypotheses : hypotheses[h].supporting \subseteq DOMAIN evidence

(* What holds of the loop's choice until it is acted on.                      *)
Testing == pc \in {"verify", "experiment"} => ~ hypotheses[chosen].ran
Decided == pc \in {"root_cause", "declare"} =>
             Candidates = {} /\ First(chosen, Live) /\ Convincing(chosen)

(* And of what has been declared.                                             *)
Standing == Declared => pc \in Settled /\ RootCauseBacked /\ RootCauseIsBest

(* The inductive invariant.                                                   *)
RInv == Untested /\ Cut /\ Cited /\ Testing /\ Decided /\ Standing

(* A step outside the loop's three actions on hypotheses: it leaves them, the *)
(* budget and the root cause alone, and may record more evidence.             *)
Undisturbed ==
  /\ UNCHANGED <<hypotheses, experimentsRun, rootCause>>
  /\ DOMAIN evidence \subseteq DOMAIN evidence'
  /\ pc' \in {"verify", "experiment"} => pc \in {"verify", "experiment"} /\ UNCHANGED chosen
  /\ pc' \in {"root_cause", "declare"} => pc \in {"root_cause", "declare"} /\ UNCHANGED chosen
  /\ pc \in Settled => pc' \in Settled

(* Such a step keeps the invariant.                                          *)
LEMMA UndisturbedKeeps ==
  ASSUME RInv, Undisturbed
  PROVE  RInv'
<1> USE DEF Undisturbed, RInv
<1>1. Untested' /\ Cut' /\ Cited'
  BY DEF Untested, Cut, Cited
<1>2. Testing'
  BY DEF Testing
<1>3. Live' = Live /\ Candidates' = Candidates
  BY DEF Live, Candidates, Proposed
<1>4. Decided'
  BY <1>3 DEF Decided, First, Convincing
<1>5. Standing'
  BY <1>3 DEF Standing, Declared, RootCauseBacked, RootCauseIsBest
<1>6. QED
  BY <1>1, <1>2, <1>4, <1>5

(* Once the loop is over, control never goes back into it.                   *)
LEMMA SettledFlows == Flows /\ pc \in Settled => pc' \in Settled
BY DEF Flows, Flow, Settled

(* Entering a stage disturbs nothing.                                        *)
LEMMA StageUndisturbed ==
  ASSUME EnterStage
  PROVE  Undisturbed
<1>1. PICK p \in DOMAIN Requests : pc = p /\ Transition(Requests[p], After[p])
  BY DEF EnterStage
<1>2. pc' \in {After[p], "handler", "finally"}
  BY <1>1, TransitionLeads
<1>3. /\ pc' \in {"verify", "experiment"} => pc = "verify"
      /\ pc' \in {"root_cause", "declare"} => pc = "root_cause"
      /\ pc \in Settled => pc' \in Settled
  BY <1>1, <1>2 DEF After, Requests, Settled
<1>4. QED
  BY <1>3 DEF EnterStage, Undisturbed, inquiry, repair

(* The steps that touch neither the session's inquiry nor its repair.         *)
LEMMA PassageUndisturbed ==
  ASSUME TypeOK, UNCHANGED <<inquiry, rootCause>>,
         CallRaises \/ Detect \/ Unsupported \/ BuildGraph \/ CopyRepository \/ CopyFails
           \/ SuiteIsGreen \/ SuiteIsRed \/ FailuresRecorded \/ FindingsRecorded
           \/ Inconclusive \/ NoPatch \/ ProposePatch \/ AnnounceRegression
           \/ AnnounceError \/ ResolveState \/ WriteMarkdown \/ MarkdownCut
           \/ WriteJson \/ JsonCut
  PROVE  Undisturbed
<1>1. Flows
  BY StageFlows, DecisionFlows, ReportFlows
<1>2. pc' \notin {"verify", "root_cause", "experiment", "declare"}
  BY RaiseLeads, GoLeads
     DEF CallRaises, Detect, Unsupported, BuildGraph, CopyRepository, CopyFails,
         SuiteIsGreen, SuiteIsRed, FailuresRecorded, FindingsRecorded, Inconclusive,
         NoPatch, ProposePatch, AnnounceRegression, AnnounceError, ResolveState,
         WriteMarkdown, MarkdownCut, WriteJson, JsonCut
<1>3. QED
  BY <1>1, <1>2, SettledFlows DEF Undisturbed, inquiry

(* Neither does any other step but the loop's own.                           *)
LEMMA OtherUndisturbed ==
  ASSUME TypeOK,
         RecordFailure \/ Validate \/ CatchException \/ StartReport \/ Complete
           \/ Finally \/ SaveSession \/ SaveFails \/ Interrupt \/ InterruptInFinally \/ Exited
  PROVE  Undisturbed
<1>1. evidence \in Seq(EvidenceRecords)
  BY DEF TypeOK, InquiryType
<1>2. CASE RecordFailure
  <2>1. DOMAIN evidence \subseteq DOMAIN evidence'
    BY <1>1, <1>2, AboutType, AppendProperties DEF RecordFailure
  <2>2. QED
    BY <1>2, <2>1 DEF RecordFailure, control, repair, Undisturbed
<1>3. CASE Validate
  <2>1. DOMAIN evidence \subseteq DOMAIN evidence'
    BY <1>1, <1>3, AboutType, AppendProperties DEF Validate
  <2>2. pc' \in {"regression", "report", "handler", "finally"}
    BY <1>3, GoLeads DEF Validate
  <2>3. QED
    BY <1>3, <2>1, <2>2 DEF Validate, Undisturbed, Settled
<1>4. CASE CatchException \/ StartReport \/ Complete
  <2>1. pc' \in Settled \ {"verify", "root_cause", "experiment", "declare"}
    BY <1>4, TransitionLeads DEF CatchException, StartReport, Complete, Settled
  <2>2. QED
    BY <1>4, <2>1
       DEF CatchException, StartReport, Complete, Undisturbed, inquiry, repair
<1>5. CASE Finally \/ SaveSession \/ SaveFails \/ Interrupt \/ InterruptInFinally
  BY <1>5 DEF Finally, SaveSession, SaveFails, Interrupt, InterruptInFinally, Undisturbed,
              Settled, inquiry, repair
<1>6. CASE Exited
  BY <1>6 DEF Exited, vars, control, inquiry, repair, Undisturbed
<1>7. QED
  BY <1>2, <1>3, <1>4, <1>5, <1>6

-----------------------------------------------------------------------------
(* The steps that change hypotheses or decide about them.  None of them       *)
(* follows a declared root cause.                                             *)
LEMMA GenerateKeeps ==
  ASSUME RInv, Generate
  PROVE  RInv'
<1>1. pc' = "record_findings" /\ ~ Declared'
  BY DEF Generate, RInv, Standing, Settled, Declared, repair
<1>2. \A h \in DOMAIN hypotheses' : /\ hypotheses'[h].contradicting = {}
                                   /\ hypotheses'[h].supporting = {}
  BY ProposalsAssumption DEF Generate
<1>3. Untested' /\ Cut' /\ Cited'
  BY <1>2 DEF Untested, Cut, Cited
<1>4. QED
  BY <1>1, <1>3 DEF RInv, Testing, Decided, Standing

(* A finding adds a record and cites it, and nothing has been decided.       *)
LEMMA RecordFindingKeeps ==
  ASSUME TypeOK, RInv, RecordFinding
  PROVE  RInv'
<1>1. PICK h \in DOMAIN hypotheses :
        /\ evidence' = Append(evidence, About("static_analysis", h, "none"))
        /\ hypotheses' = [hypotheses EXCEPT
             ![h].findings = @ - 1,
             ![h].supporting = @ \union {NextEvidenceId}]
  BY DEF RecordFinding
<1>2. /\ evidence \in Seq(EvidenceRecords) /\ hypotheses \in Seq(Hypotheses)
      /\ h \in Nat
  BY DEF TypeOK, InquiryType
<1>3. DOMAIN evidence' = DOMAIN evidence \union {NextEvidenceId}
  <2>1. Len(evidence') = Len(evidence) + 1 /\ evidence' \in Seq(EvidenceRecords)
    BY <1>1, <1>2, AboutType, AppendProperties
  <2>2. QED
    BY <1>2, <2>1 DEF NextEvidenceId
<1>4. /\ DOMAIN hypotheses' = DOMAIN hypotheses
      /\ \A g \in DOMAIN hypotheses :
           /\ hypotheses'[g].ran = hypotheses[g].ran
           /\ hypotheses'[g].contradicting = hypotheses[g].contradicting
           /\ hypotheses'[g].confidence = hypotheses[g].confidence
           /\ hypotheses'[g].supporting
                \subseteq hypotheses[g].supporting \union {NextEvidenceId}
  <2> DEFINE n == hypotheses[h].findings - 1
             ids == hypotheses[h].supporting \union {NextEvidenceId}
  <2>1. hypotheses' = [hypotheses EXCEPT ![h].findings = n, ![h].supporting = ids]
    BY <1>1
  <2> HIDE DEF n
  <2>2. hypotheses[h] \in Hypotheses
    BY <1>2
  <2>3. QED
    BY <1>2, <2>1, <2>2 DEF Hypotheses
<1>5. Untested' /\ Cut'
  BY <1>4 DEF RInv, Untested, Cut
<1>6. Cited'
  BY <1>3, <1>4 DEF RInv, Cited
<1>7. pc = "record_findings" /\ pc' = pc /\ rootCause' = rootCause
  BY DEF RecordFinding, control, repair
<1>8. QED
  BY <1>5, <1>6, <1>7 DEF RInv, Testing, Decided, Standing, Settled, Declared

(* The choice is an untested hypothesis, or the best when none is left.      *)
LEMMA ChooseKeeps ==
  ASSUME RInv, ChooseExperiment \/ ChooseRootCause
  PROVE  RInv'
<1>1. /\ pc = "choose" /\ UNCHANGED <<evidence, hypotheses, experimentsRun, rootCause>>
      /\ pc' \in {"verify", "root_cause"}
  BY DEF ChooseExperiment, ChooseRootCause, repair
<1>2. Untested' /\ Cut' /\ Cited'
  BY <1>1 DEF RInv, Untested, Cut, Cited
<1>3. Live' = Live /\ Candidates' = Candidates
  BY <1>1 DEF Live, Candidates, Proposed
<1>4. Standing'
  BY <1>1 DEF RInv, Standing, Settled, Declared
<1>5. Testing'
  BY <1>1 DEF Testing, ChooseExperiment, ChooseRootCause, First, Candidates, Proposed
<1>6. Decided'
  BY <1>1, <1>3 DEF Decided, ChooseExperiment, ChooseRootCause, First, Convincing
<1>7. QED
  BY <1>2, <1>4, <1>5, <1>6 DEF RInv

(* One experiment: it ran on a hypothesis nothing contradicted yet, so a      *)
(* contradicted confidence is one the contradiction has just cut.             *)
LEMMA RunExperimentKeeps ==
  ASSUME TypeOK, RInv, RunExperiment
  PROVE  RInv'
<1>1. InquiryType /\ pc = "experiment" /\ ~ hypotheses[chosen].ran
  BY DEF TypeOK, RInv, Testing, RunExperiment
<1>2. PICK verdict \in Verdicts :
        LET old == hypotheses[chosen]
        IN  /\ evidence' = Append(evidence, About("experiment", chosen, verdict))
            /\ hypotheses' = [hypotheses EXCEPT ![chosen] =
                 [old EXCEPT
                   !.ran = TRUE,
                   !.confidence = Updated(old.confidence, verdict),
                   !.status = StatusAfter(old.confidence, old.status, verdict),
                   !.supporting = IF verdict = "supports"
                                    THEN old.supporting \union {NextEvidenceId}
                                    ELSE old.supporting,
                   !.contradicting = IF verdict = "contradicts"
                                       THEN old.contradicting \union {NextEvidenceId}
                                       ELSE old.contradicting]]
  BY <1>1, ExperimentStep
<1>3. /\ evidence \in Seq(EvidenceRecords) /\ hypotheses \in Seq(Hypotheses)
      /\ chosen \in DOMAIN hypotheses /\ chosen \in Nat
      /\ hypotheses[chosen] \in Hypotheses
  BY <1>1 DEF InquiryType, Deciding
<1>4. DOMAIN evidence' = DOMAIN evidence \union {NextEvidenceId}
  <2>1. Len(evidence') = Len(evidence) + 1 /\ evidence' \in Seq(EvidenceRecords)
    BY <1>2, <1>3, AboutType, AppendProperties
  <2>2. QED
    BY <1>3, <2>1 DEF NextEvidenceId
<1>5. /\ DOMAIN hypotheses' = DOMAIN hypotheses
      /\ \A g \in DOMAIN hypotheses \ {chosen} : hypotheses'[g] = hypotheses[g]
  BY <1>2, <1>3
<1>6. /\ hypotheses'[chosen].ran
      /\ hypotheses'[chosen].confidence = Updated(hypotheses[chosen].confidence, verdict)
      /\ hypotheses'[chosen].supporting
           \subseteq hypotheses[chosen].supporting \union {NextEvidenceId}
      /\ verdict # "contradicts" =>
           hypotheses'[chosen].contradicting = hypotheses[chosen].contradicting
  <2> DEFINE old == hypotheses[chosen]
             c == Updated(old.confidence, verdict)
             st == StatusAfter(old.confidence, old.status, verdict)
             s == IF verdict = "supports" THEN old.supporting \union {NextEvidenceId}
                  ELSE old.supporting
             d == IF verdict = "contradicts" THEN old.contradicting \union {NextEvidenceId}
                  ELSE old.contradicting
  <2>1. hypotheses'[chosen] = [old EXCEPT !.ran = TRUE, !.confidence = c, !.status = st,
                                          !.supporting = s, !.contradicting = d]
    BY <1>2, <1>3
  <2>2. /\ s \subseteq old.supporting \union {NextEvidenceId}
        /\ verdict # "contradicts" => d = old.contradicting
    OBVIOUS
  <2>3. old \in Hypotheses
    BY <1>3
  <2> HIDE DEF old, c, st, s, d
  <2>4. /\ hypotheses'[chosen].ran = TRUE /\ hypotheses'[chosen].confidence = c
        /\ hypotheses'[chosen].supporting = s /\ hypotheses'[chosen].contradicting = d
    BY <2>1, <2>3 DEF Hypotheses
  <2>5. QED
    BY <2>2, <2>4 DEF old, c
<1>7. hypotheses'[chosen].contradicting # {} => hypotheses'[chosen].confidence <= 25
  <2>1. CASE verdict = "contradicts"
    <3>1. hypotheses[chosen].confidence \in Percent
      BY <1>3 DEF Hypotheses
    <3>2. Updated(hypotheses[chosen].confidence, verdict)
            = Contradicted(hypotheses[chosen].confidence)
      BY <2>1 DEF Updated
    <3>3. QED
      BY <1>6, <3>1, <3>2, ContradictedRange
  <2>2. CASE verdict # "contradicts"
    BY <1>1, <1>3, <1>6, <2>2 DEF RInv, Untested
  <2>3. QED
    BY <2>1, <2>2
<1>8. Untested' /\ Cut'
  BY <1>5, <1>6, <1>7 DEF RInv, Untested, Cut
<1>9. Cited'
  BY <1>4, <1>5, <1>6 DEF RInv, Cited
<1>10. pc' \in {"rank", "handler", "finally"} /\ rootCause' = rootCause
  BY GoLeads DEF RunExperiment, repair
<1>11. QED
  BY <1>1, <1>8, <1>9, <1>10 DEF RInv, Testing, Decided, Standing, Settled, Declared

(* What was decided is what is declared.                                      *)
LEMMA DeclareKeeps ==
  ASSUME TypeOK, RInv, DeclareRootCause
  PROVE  RInv'
<1>1. /\ pc = "declare" /\ UNCHANGED <<evidence, hypotheses, experimentsRun>>
      /\ pc' \in {"patch", "handler", "finally"}
  BY GoLeads DEF DeclareRootCause, inquiry
<1>2. Untested' /\ Cut' /\ Cited'
  BY <1>1 DEF RInv, Untested, Cut, Cited
<1>3. Live' = Live /\ Candidates' = Candidates
  BY <1>1 DEF Live, Candidates, Proposed
<1>4. /\ Candidates = {} /\ First(chosen, Live) /\ Convincing(chosen)
      /\ chosen \in DOMAIN hypotheses /\ hypotheses \in Seq(Hypotheses)
  BY <1>1 DEF RInv, Decided, TypeOK, InquiryType, Deciding
<1>5. /\ rootCause'.hypothesis = chosen
      /\ rootCause'.confidence = hypotheses[chosen].confidence
      /\ rootCause'.evidence = hypotheses[chosen].supporting
  BY DEF DeclareRootCause
<1>6. \A h \in DOMAIN hypotheses : hypotheses[h].confidence \in Int
  <2> SUFFICES ASSUME NEW h \in DOMAIN hypotheses PROVE hypotheses[h].confidence \in Int
    OBVIOUS
  <2>1. hypotheses[h] \in Hypotheses
    BY <1>4
  <2>2. hypotheses[h].confidence \in Percent
    BY <2>1 DEF Hypotheses
  <2>3. QED
    BY <2>2 DEF Percent
<1>7. RootCauseBacked'
  <2>1. hypotheses[chosen].confidence \in Int /\ Threshold \in Int /\ Threshold > 25
    BY <1>4, <1>6, ThresholdAssumption DEF Percent
  <2>2. hypotheses[chosen].confidence >= Threshold /\ hypotheses[chosen].supporting # {}
    BY <1>4 DEF Convincing
  <2>3. hypotheses[chosen].contradicting = {}
    BY <1>4, <2>1, <2>2 DEF RInv, Cut
  <2>4. chosen \in Live /\ hypotheses[chosen].supporting \subseteq DOMAIN evidence
    BY <1>4 DEF First, RInv, Cited
  <2>5. QED
    BY <1>1, <1>3, <1>5, <2>2, <2>3, <2>4 DEF RootCauseBacked
<1>8. RootCauseIsBest'
  <2>1. \A h \in Live : hypotheses[h].confidence <= hypotheses[chosen].confidence
    <3> SUFFICES ASSUME NEW h \in Live
                 PROVE  hypotheses[h].confidence <= hypotheses[chosen].confidence
      OBVIOUS
    <3>1. hypotheses[h].confidence \in Int /\ hypotheses[chosen].confidence \in Int
      BY <1>4, <1>6 DEF Live
    <3>2. QED
      BY <1>4, <3>1 DEF First
  <2>2. QED
    BY <1>1, <1>3, <1>4, <1>5, <2>1 DEF RootCauseIsBest
<1>9. QED
  BY <1>1, <1>2, <1>7, <1>8 DEF RInv, Testing, Decided, Standing, Settled

(* Every step but those six is undisturbing.                                 *)
LEMMA StepDisturbs ==
  ASSUME TypeOK, [Next]_vars
  PROVE  \/ Undisturbed
         \/ Generate \/ RecordFinding \/ ChooseExperiment \/ ChooseRootCause
         \/ RunExperiment \/ DeclareRootCause
<1>1. CASE UNCHANGED vars
  BY <1>1 DEF vars, control, inquiry, repair, Undisturbed
<1>2. CASE CallRaises \/ Detect \/ Unsupported \/ BuildGraph \/ CopyRepository
           \/ CopyFails \/ SuiteIsGreen \/ SuiteIsRed \/ FailuresRecorded
           \/ FindingsRecorded \/ Inconclusive \/ NoPatch \/ ProposePatch
           \/ AnnounceRegression \/ AnnounceError \/ ResolveState \/ WriteMarkdown
           \/ MarkdownCut \/ WriteJson \/ JsonCut
  <2>1. UNCHANGED <<inquiry, rootCause>>
    BY <1>2
       DEF CallRaises, Detect, Unsupported, BuildGraph, CopyRepository, CopyFails,
           SuiteIsGreen, SuiteIsRed, FailuresRecorded, FindingsRecorded, Inconclusive,
           NoPatch, ProposePatch, AnnounceRegression, AnnounceError, ResolveState,
           WriteMarkdown, MarkdownCut, WriteJson, JsonCut, repair
  <2>2. QED
    BY <1>2, <2>1, PassageUndisturbed
<1>3. CASE EnterStage
  BY <1>3, StageUndisturbed
<1>4. CASE RecordFailure \/ Validate \/ CatchException \/ StartReport \/ Complete
           \/ Finally \/ SaveSession \/ SaveFails \/ Interrupt \/ InterruptInFinally \/ Exited
  BY <1>4, OtherUndisturbed
<1>5. QED
  BY <1>1, <1>2, <1>3, <1>4 DEF Next

(* Every step keeps the invariant.                                           *)
LEMMA RStep == TypeOK /\ RInv /\ [Next]_vars => RInv'
BY StepDisturbs, UndisturbedKeeps, GenerateKeeps, RecordFindingKeeps, ChooseKeeps,
   RunExperimentKeeps, DeclareKeeps

(* The choice, the evidence and the declared root cause stay in step.         *)
THEOREM RootCauseInvariant == Spec => []RInv
<1>1. Init => RInv
  BY DEF Init, RInv, Untested, Cut, Cited, Testing, Decided, Standing, Declared
<1>2. QED
  BY <1>1, TypeCorrect, RStep, PTL DEF Spec

(* No root cause without recorded evidence: a declared one stands, at or      *)
(* above the threshold, uncontradicted, with the confidence and the evidence  *)
(* the session still gives it.                                                *)
THEOREM RootCausesAreBacked == Spec => []RootCauseBacked
<1>1. RInv => RootCauseBacked
  BY DEF RInv, Standing, RootCauseBacked
<1>2. QED
  BY <1>1, RootCauseInvariant, PTL

(* It is declared last and for the best: no experiment the budget allows is   *)
(* left, and no hypothesis still standing is more credible.                   *)
THEOREM RootCausesAreBest == Spec => []RootCauseIsBest
<1>1. RInv => RootCauseIsBest
  BY DEF RInv, Standing, RootCauseIsBest
<1>2. QED
  BY <1>1, RootCauseInvariant, PTL

-----------------------------------------------------------------------------
(* The session's record: evidence and the hypotheses that cite it.            *)

(* The calls before _hypothesize has its list.                                *)
Early == {"ingest", "detect", "unsupported", "graph", "build_graph", "execute", "copy",
          "run_suite", "no_failure", "observe", "record_failures", "hypothesize", "generate"}

Ran == {h \in DOMAIN hypotheses : hypotheses[h].ran}
Records == {e \in DOMAIN evidence : evidence[e].kind = "experiment"}

Accounted ==
  /\ experimentsRun <= MaxExperiments
  /\ Cardinality(Ran) = experimentsRun /\ Cardinality(Records) = experimentsRun
  /\ {evidence[e].about : e \in Records} = Ran

(* Until then nothing is recorded but failures; until the last finding is     *)
(* recorded every hypothesis is as the provider made it; and what is about to *)
(* be tested is a candidate of the loop.                                      *)
Blank == pc \in Early =>
           /\ hypotheses = <<>> /\ experimentsRun = 0
           /\ \A e \in DOMAIN evidence : evidence[e].kind \in {"test_failure", "traceback"}
Fresh == pc = "record_findings" =>
           \A h \in DOMAIN hypotheses : hypotheses[h].status = "open" /\ ~ hypotheses[h].ran
Tested == pc \in {"verify", "experiment"} => chosen \in Candidates

(* The inductive invariant.                                                   *)
LInv == Blank /\ Fresh /\ Tested /\ EvidenceLinked /\ Accounted

(* A step that records no finding and no experiment.                          *)
Aside ==
  /\ UNCHANGED <<hypotheses, experimentsRun>>
  /\ DOMAIN evidence \subseteq DOMAIN evidence'
  /\ \A e \in DOMAIN evidence : evidence'[e] = evidence[e]
  /\ \A e \in DOMAIN evidence' \ DOMAIN evidence :
       evidence'[e].kind \in IF pc \in Early THEN {"test_failure", "traceback"}
                             ELSE {"validation"}

(* What an appended record changes.                                           *)
LEMMA OneRecord ==
  ASSUME NEW r \in EvidenceRecords, evidence \in Seq(EvidenceRecords),
         evidence' = Append(evidence, r)
  PROVE  /\ DOMAIN evidence' = DOMAIN evidence \union {NextEvidenceId}
         /\ NextEvidenceId \notin DOMAIN evidence
         /\ \A e \in DOMAIN evidence : evidence'[e] = evidence[e]
         /\ evidence'[NextEvidenceId] = r
         /\ Len(evidence') = Len(evidence) + 1
         /\ evidence' \in Seq(EvidenceRecords)
BY AppendProperties DEF NextEvidenceId

(* Which steps add to the evidence.                                           *)
LEMMA StepRecords ==
  Next => \/ evidence' = evidence
          \/ RecordFailure \/ RecordFinding \/ RunExperiment \/ Validate
<1> SUFFICES ASSUME Next, ~ RecordFailure, ~ RecordFinding, ~ RunExperiment, ~ Validate
             PROVE  evidence' = evidence
  OBVIOUS
<1>1. CASE EnterStage \/ CallRaises \/ Detect \/ Unsupported \/ BuildGraph
           \/ CopyRepository \/ CopyFails \/ SuiteIsGreen \/ SuiteIsRed
  BY <1>1 DEF EnterStage, CallRaises, Detect, Unsupported, BuildGraph, CopyRepository,
     CopyFails, SuiteIsGreen, SuiteIsRed, inquiry
<1>2. CASE FailuresRecorded \/ Generate \/ FindingsRecorded \/ ChooseExperiment
           \/ ChooseRootCause \/ Inconclusive \/ DeclareRootCause \/ NoPatch
           \/ ProposePatch \/ AnnounceRegression
  BY <1>2 DEF FailuresRecorded, Generate, FindingsRecorded, ChooseExperiment,
     ChooseRootCause, Inconclusive, DeclareRootCause, NoPatch, ProposePatch,
     AnnounceRegression, inquiry
<1>3. CASE CatchException \/ AnnounceError \/ StartReport \/ ResolveState \/ WriteMarkdown
           \/ MarkdownCut \/ WriteJson \/ JsonCut \/ Complete \/ Finally \/ SaveSession
           \/ SaveFails \/ Interrupt \/ InterruptInFinally \/ Exited
  BY <1>3 DEF CatchException, AnnounceError, StartReport, ResolveState, WriteMarkdown,
     MarkdownCut, WriteJson, JsonCut, Complete, Finally, SaveSession, SaveFails, Interrupt,
     InterruptInFinally, Exited, vars, inquiry
<1>4. QED
  BY <1>1, <1>2, <1>3 DEF Next

(* A failure's records are one or two, of the kinds that belong to no         *)
(* hypothesis.                                                                *)
LEMMA FailureAside ==
  ASSUME TypeOK, RecordFailure \/ Validate
  PROVE  Aside
<1>1. evidence \in Seq(EvidenceRecords)
  BY DEF TypeOK, InquiryType
<1>2. /\ About("test_failure", 0, "none") \in EvidenceRecords
      /\ About("traceback", 0, "none") \in EvidenceRecords
      /\ About("validation", 0, "none") \in EvidenceRecords
  BY AboutType
<1>3. CASE Validate
  <2>1. evidence' = Append(evidence, About("validation", 0, "none"))
    BY <1>3 DEF Validate
  <2>2. /\ DOMAIN evidence' = DOMAIN evidence \union {NextEvidenceId}
        /\ \A e \in DOMAIN evidence : evidence'[e] = evidence[e]
        /\ evidence'[NextEvidenceId].kind = "validation"
    BY <1>1, <1>2, <2>1, OneRecord DEF About
  <2>3. pc \notin Early /\ UNCHANGED <<hypotheses, experimentsRun>>
    BY <1>3 DEF Validate, Early
  <2>4. QED
    BY <2>2, <2>3 DEF Aside
<1>4. CASE RecordFailure
  <2> DEFINE seen == Append(evidence, About("test_failure", 0, "none"))
             both == Append(seen, About("traceback", 0, "none"))
  <2>1. evidence' \in {seen, both}
    BY <1>4 DEF RecordFailure
  <2>2. /\ seen \in Seq(EvidenceRecords) /\ Len(seen) = Len(evidence) + 1
        /\ \A e \in 1 .. Len(evidence) : seen[e] = evidence[e]
        /\ seen[Len(evidence) + 1].kind = "test_failure"
    BY <1>1, <1>2, AppendProperties DEF About
  <2> HIDE DEF seen
  <2>3. /\ both \in Seq(EvidenceRecords) /\ Len(both) = Len(evidence) + 2
        /\ \A e \in 1 .. Len(evidence) + 1 : both[e] = seen[e]
        /\ both[Len(evidence) + 2].kind = "traceback"
    <3>1. Len(seen) + 1 = Len(evidence) + 2
      BY <1>1, <2>2
    <3>2. /\ both \in Seq(EvidenceRecords) /\ Len(both) = Len(seen) + 1
          /\ \A e \in 1 .. Len(seen) : both[e] = seen[e]
          /\ both[Len(seen) + 1].kind = "traceback"
      BY <1>2, <2>2, AppendProperties DEF About
    <3>3. QED
      BY <2>2, <3>1, <3>2
  <2> HIDE DEF both
  <2>4. pc \in Early /\ UNCHANGED <<hypotheses, experimentsRun>>
    BY <1>4 DEF RecordFailure, Early, control
  <2>5. Len(evidence) \in Nat /\ DOMAIN evidence = 1 .. Len(evidence)
    BY <1>1
  <2>6. CASE evidence' = seen
    <3>1. DOMAIN evidence' = DOMAIN evidence \union {Len(evidence) + 1}
      BY <2>2, <2>5, <2>6
    <3>2. QED
      BY <2>2, <2>4, <2>5, <2>6, <3>1 DEF Aside
  <2>7. CASE evidence' = both
    <3>1. DOMAIN evidence' = DOMAIN evidence \union {Len(evidence) + 1, Len(evidence) + 2}
      BY <2>3, <2>5, <2>7
    <3>2. \A e \in DOMAIN evidence : evidence'[e] = evidence[e]
      BY <2>2, <2>3, <2>5, <2>7
    <3>3. /\ evidence'[Len(evidence) + 1].kind = "test_failure"
          /\ evidence'[Len(evidence) + 2].kind = "traceback"
      BY <2>2, <2>3, <2>5, <2>7
    <3>4. QED
      BY <2>4, <2>5, <3>1, <3>2, <3>3 DEF Aside
  <2>8. QED
    BY <2>1, <2>6, <2>7
<1>5. QED
  BY <1>3, <1>4

(* Every step but the loop's and the provider's passes the record by.         *)
LEMMA StepAside ==
  ASSUME TypeOK, Next, ~ Generate, ~ RecordFinding, ~ RunExperiment
  PROVE  Aside
<1>1. UNCHANGED <<hypotheses, experimentsRun>>
  <2>1. CASE EnterStage \/ CallRaises \/ Detect \/ Unsupported \/ BuildGraph
             \/ CopyRepository \/ CopyFails \/ SuiteIsGreen \/ SuiteIsRed
    BY <2>1 DEF EnterStage, CallRaises, Detect, Unsupported, BuildGraph, CopyRepository,
       CopyFails, SuiteIsGreen, SuiteIsRed, inquiry
  <2>2. CASE RecordFailure \/ FailuresRecorded \/ FindingsRecorded \/ ChooseExperiment
             \/ ChooseRootCause \/ Inconclusive \/ DeclareRootCause \/ NoPatch
             \/ ProposePatch \/ Validate \/ AnnounceRegression
    BY <2>2 DEF RecordFailure, FailuresRecorded, FindingsRecorded, ChooseExperiment,
       ChooseRootCause, Inconclusive, DeclareRootCause, NoPatch, ProposePatch, Validate,
       AnnounceRegression, inquiry
  <2>3. CASE CatchException \/ AnnounceError \/ StartReport \/ ResolveState \/ WriteMarkdown
             \/ MarkdownCut \/ WriteJson \/ JsonCut \/ Complete \/ Finally \/ SaveSession
             \/ SaveFails \/ Interrupt \/ InterruptInFinally \/ Exited
    BY <2>3 DEF CatchException, AnnounceError, StartReport, ResolveState, WriteMarkdown,
       MarkdownCut, WriteJson, JsonCut, Complete, Finally, SaveSession, SaveFails, Interrupt,
       InterruptInFinally, Exited, vars, inquiry
  <2>4. QED
    BY <2>1, <2>2, <2>3 DEF Next
<1>2. QED
  BY <1>1, StepRecords, FailureAside DEF Aside

(* Who makes the loop's choice.                                               *)
LEMMA OnlyChoices ==
  Next => UNCHANGED chosen \/ ChooseExperiment \/ ChooseRootCause
<1> SUFFICES ASSUME Next, ~ ChooseExperiment, ~ ChooseRootCause PROVE chosen' = chosen
  OBVIOUS
<1>1. CASE EnterStage \/ CallRaises \/ Detect \/ Unsupported \/ BuildGraph
           \/ CopyRepository \/ CopyFails \/ SuiteIsGreen \/ SuiteIsRed
  BY <1>1 DEF EnterStage, CallRaises, Detect, Unsupported, BuildGraph, CopyRepository,
     CopyFails, SuiteIsGreen, SuiteIsRed, inquiry
<1>2. CASE RecordFailure \/ FailuresRecorded \/ Generate \/ RecordFinding
           \/ FindingsRecorded \/ Inconclusive \/ RunExperiment \/ DeclareRootCause
           \/ NoPatch \/ ProposePatch \/ Validate \/ AnnounceRegression
  BY <1>2 DEF RecordFailure, FailuresRecorded, Generate, RecordFinding, FindingsRecorded,
     Inconclusive, RunExperiment, DeclareRootCause, NoPatch, ProposePatch, Validate,
     AnnounceRegression, inquiry
<1>3. CASE CatchException \/ AnnounceError \/ StartReport \/ ResolveState \/ WriteMarkdown
           \/ MarkdownCut \/ WriteJson \/ JsonCut \/ Complete \/ Finally \/ SaveSession
           \/ SaveFails \/ Interrupt \/ InterruptInFinally \/ Exited
  BY <1>3 DEF CatchException, AnnounceError, StartReport, ResolveState, WriteMarkdown,
     MarkdownCut, WriteJson, JsonCut, Complete, Finally, SaveSession, SaveFails, Interrupt,
     InterruptInFinally, Exited, vars, inquiry
<1>4. QED
  BY <1>1, <1>2, <1>3 DEF Next

(* VERIFY is only entered for an experiment that was chosen.                 *)
LEMMA OnlyExperiments ==
  ASSUME TypeOK, Next, pc = "choose", pc' = "verify"
  PROVE  ChooseExperiment
<1>1. ~ EnterStage
  BY DEF EnterStage, Requests
<1>2. CASE Undisturbed
  BY <1>2 DEF Undisturbed
<1>3. CASE Generate \/ RecordFinding \/ ChooseRootCause \/ RunExperiment \/ DeclareRootCause
  BY <1>3 DEF Generate, RecordFinding, ChooseRootCause, RunExperiment, DeclareRootCause
<1>4. QED
  BY <1>1, <1>2, <1>3, StepDisturbs

(* The choice the loop acts on is one of its candidates.                     *)
LEMMA TestedKept ==
  ASSUME TypeOK, Tested, Next, hypotheses' = hypotheses, experimentsRun' = experimentsRun
  PROVE  Tested'
<1>1. Candidates' = Candidates
  BY DEF Candidates, Live, Proposed
<1>2. CASE UNCHANGED vars
  BY <1>1, <1>2 DEF Tested, vars, control, inquiry
<1>3. CASE Moves /\ pc' \in {"verify", "experiment"}
  <2>1. pc \in {"choose", "verify"} /\ (pc' = "verify" <=> pc = "choose")
    BY <1>3 DEF Moves, Thrown, Calm, Leads
  <2>2. CASE pc = "verify"
    <3>1. chosen' = chosen
      BY <2>2, OnlyChoices DEF ChooseExperiment, ChooseRootCause
    <3>2. QED
      BY <1>1, <2>2, <3>1 DEF Tested
  <2>3. CASE pc = "choose"
    <3>1. ChooseExperiment
      BY <2>1, <2>3, OnlyExperiments
    <3>2. QED
      BY <1>1, <3>1 DEF ChooseExperiment, First, Tested
  <2>4. QED
    BY <2>1, <2>2, <2>3
<1>4. QED
  BY <1>2, <1>3, StepMoves DEF Tested

(* A step aside keeps the record's invariant.                                 *)
LEMMA AsideKeeps ==
  ASSUME TypeOK, LInv, Next, Aside
  PROVE  LInv'
<1>1. Tested'
  BY TestedKept DEF LInv, Aside
<1>2. /\ pc' \in Early => pc \in Early
      /\ pc' = "record_findings" => pc = "record_findings" \/ pc = "generate"
  BY StepMoves DEF Moves, Thrown, Calm, Leads, Early, vars, control
<1>3. Blank'
  BY <1>2 DEF LInv, Blank, Aside
<1>4. Fresh'
  BY <1>2 DEF LInv, Fresh, Blank, Early, Aside
<1>5. /\ Ran' = Ran
      /\ Records' = Records
      /\ \A e \in Records : evidence'[e] = evidence[e]
  BY DEF Ran, Records, Aside
<1>6. \A h \in DOMAIN hypotheses : 
        /\ EvidenceFor(h, "static_analysis", "none")' = EvidenceFor(h, "static_analysis", "none")
        /\ EvidenceFor(h, "experiment", "supports")' = EvidenceFor(h, "experiment", "supports")
        /\ EvidenceFor(h, "experiment", "contradicts")'
             = EvidenceFor(h, "experiment", "contradicts")
  BY DEF EvidenceFor, About, Aside
<1>7. EvidenceLinked'
  BY <1>6 DEF LInv, EvidenceLinked, Aside
<1>8. Accounted'
  <2>1. {evidence[e].about : e \in Records}' = {evidence[e].about : e \in Records}
    BY <1>5
  <2>2. QED
    BY <1>5, <2>1 DEF LInv, Accounted, Aside
<1>9. QED
  BY <1>1, <1>3, <1>4, <1>7, <1>8 DEF LInv

(* What a record adds to the evidence about a hypothesis.                     *)
LEMMA RecordsFor ==
  ASSUME NEW kind, NEW of, NEW verdict, About(kind, of, verdict) \in EvidenceRecords,
         evidence \in Seq(EvidenceRecords),
         evidence' = Append(evidence, About(kind, of, verdict))
  PROVE  \A k, h, v : EvidenceFor(h, k, v)' = EvidenceFor(h, k, v) \union
            (IF k = kind /\ h = of /\ v = verdict THEN {NextEvidenceId} ELSE {})
<1>1. /\ DOMAIN evidence' = DOMAIN evidence \union {NextEvidenceId}
      /\ NextEvidenceId \notin DOMAIN evidence
      /\ \A e \in DOMAIN evidence : evidence'[e] = evidence[e]
      /\ evidence'[NextEvidenceId] = About(kind, of, verdict)
  BY OneRecord
<1> SUFFICES ASSUME NEW k, NEW h, NEW v
             PROVE  EvidenceFor(h, k, v)' = EvidenceFor(h, k, v) \union
                      (IF k = kind /\ h = of /\ v = verdict THEN {NextEvidenceId} ELSE {})
  OBVIOUS
<1>2. About(k, h, v) = About(kind, of, verdict) <=> k = kind /\ h = of /\ v = verdict
  BY DEF About
<1>3. QED
  BY <1>1, <1>2 DEF EvidenceFor

(* The provider's list starts the record: nothing cited, nothing run.        *)
LEMMA GenerateLinks ==
  ASSUME LInv, Generate
  PROVE  LInv'
<1>1. /\ experimentsRun = 0
      /\ \A e \in DOMAIN evidence : evidence[e].kind \in {"test_failure", "traceback"}
  BY DEF Generate, LInv, Blank, Early
<1>2. \A h \in DOMAIN hypotheses' : /\ hypotheses'[h].status = "open"
                                    /\ ~ hypotheses'[h].ran
                                    /\ hypotheses'[h].supporting = {}
                                    /\ hypotheses'[h].contradicting = {}
  BY ProposalsAssumption DEF Generate
<1>3. pc' = "record_findings" /\ UNCHANGED <<evidence, experimentsRun>>
  BY DEF Generate
<1>4. Blank' /\ Fresh' /\ Tested'
  BY <1>2, <1>3 DEF Blank, Fresh, Tested, Early
<1>5. EvidenceLinked'
  BY <1>1, <1>2, <1>3 DEF EvidenceLinked, EvidenceFor, About
<1>6. Accounted'
  <2>1. Ran' = {} /\ Records' = {}
    BY <1>1, <1>2, <1>3 DEF Ran, Records
  <2>2. {evidence[e].about : e \in Records}' = {}
    BY <2>1
  <2>3. QED
    BY <1>1, <1>3, <2>1, <2>2, FS_EmptySet, BudgetAssumption DEF Accounted
<1>7. QED
  BY <1>4, <1>5, <1>6 DEF LInv

(* A finding is cited by its hypothesis, and is no experiment.               *)
LEMMA RecordFindingLinks ==
  ASSUME TypeOK, LInv, RecordFinding
  PROVE  LInv'
<1>1. PICK h \in DOMAIN hypotheses :
        /\ evidence' = Append(evidence, About("static_analysis", h, "none"))
        /\ hypotheses' = [hypotheses EXCEPT
             ![h].findings = @ - 1,
             ![h].supporting = @ \union {NextEvidenceId}]
  BY DEF RecordFinding
<1>2. /\ evidence \in Seq(EvidenceRecords) /\ hypotheses \in Seq(Hypotheses)
      /\ h \in Nat /\ About("static_analysis", h, "none") \in EvidenceRecords
  BY AboutType DEF TypeOK, InquiryType
<1>3. pc = "record_findings" /\ pc' = pc /\ UNCHANGED experimentsRun
  BY DEF RecordFinding, control
<1>4. /\ DOMAIN hypotheses' = DOMAIN hypotheses
      /\ \A g \in DOMAIN hypotheses :
           /\ hypotheses'[g].ran = hypotheses[g].ran
           /\ hypotheses'[g].status = hypotheses[g].status
           /\ hypotheses'[g].contradicting = hypotheses[g].contradicting
           /\ hypotheses'[g].supporting =
                hypotheses[g].supporting \union (IF g = h THEN {NextEvidenceId} ELSE {})
  <2> DEFINE n == hypotheses[h].findings - 1
             ids == hypotheses[h].supporting \union {NextEvidenceId}
  <2>1. hypotheses' = [hypotheses EXCEPT ![h].findings = n, ![h].supporting = ids]
    BY <1>1
  <2> HIDE DEF n
  <2>2. hypotheses[h] \in Hypotheses
    BY <1>2
  <2>3. QED
    BY <1>2, <2>1, <2>2 DEF Hypotheses
<1>5. Blank' /\ Fresh' /\ Tested'
  BY <1>3, <1>4 DEF LInv, Blank, Fresh, Tested, Early
<1>6. EvidenceLinked'
  <2> SUFFICES ASSUME NEW g \in DOMAIN hypotheses
               PROVE  /\ hypotheses'[g].supporting =
                            EvidenceFor(g, "static_analysis", "none")'
                              \union EvidenceFor(g, "experiment", "supports")'
                      /\ hypotheses'[g].contradicting =
                            EvidenceFor(g, "experiment", "contradicts")'
    BY <1>4 DEF EvidenceLinked
  <2>1. /\ hypotheses[g].supporting = EvidenceFor(g, "static_analysis", "none")
                                       \union EvidenceFor(g, "experiment", "supports")
        /\ hypotheses[g].contradicting = EvidenceFor(g, "experiment", "contradicts")
    BY DEF LInv, EvidenceLinked
  <2>2. \A k, v : EvidenceFor(g, k, v)' = EvidenceFor(g, k, v) \union
          (IF k = "static_analysis" /\ g = h /\ v = "none" THEN {NextEvidenceId} ELSE {})
    BY <1>1, <1>2, RecordsFor
  <2>3. /\ EvidenceFor(g, "static_analysis", "none")' =
             EvidenceFor(g, "static_analysis", "none") \union
               (IF g = h THEN {NextEvidenceId} ELSE {})
        /\ EvidenceFor(g, "experiment", "supports")' = EvidenceFor(g, "experiment", "supports")
        /\ EvidenceFor(g, "experiment", "contradicts")'
             = EvidenceFor(g, "experiment", "contradicts")
    BY <2>2
  <2>4. QED
    BY <1>4, <2>1, <2>3
<1>7. Accounted'
  <2>1. Ran' = Ran
    BY <1>4 DEF Ran
  <2>2. Records' = Records /\ \A e \in Records : evidence'[e] = evidence[e]
    BY <1>1, <1>2, OneRecord DEF Records, About
  <2>3. {evidence[e].about : e \in Records}' = {evidence[e].about : e \in Records}
    BY <2>2
  <2>4. QED
    BY <1>3, <2>1, <2>2, <2>3 DEF LInv, Accounted
<1>8. QED
  BY <1>5, <1>6, <1>7 DEF LInv

(* What a step does to the hypothesis it tests.                               *)
LEMMA ExperimentLeaves ==
  ASSUME TypeOK, RunExperiment
  PROVE  \E verdict \in Verdicts :
           /\ evidence' = Append(evidence, About("experiment", chosen, verdict))
           /\ DOMAIN hypotheses' = DOMAIN hypotheses
           /\ \A g \in DOMAIN hypotheses \ {chosen} : hypotheses'[g] = hypotheses[g]
           /\ hypotheses'[chosen].ran
           /\ hypotheses'[chosen].supporting = hypotheses[chosen].supporting
                \union (IF verdict = "supports" THEN {NextEvidenceId} ELSE {})
           /\ hypotheses'[chosen].contradicting = hypotheses[chosen].contradicting
                \union (IF verdict = "contradicts" THEN {NextEvidenceId} ELSE {})
<1>1. InquiryType /\ pc = "experiment"
  BY DEF TypeOK, RunExperiment
<1>2. PICK verdict \in Verdicts :
        LET old == hypotheses[chosen]
        IN  /\ evidence' = Append(evidence, About("experiment", chosen, verdict))
            /\ hypotheses' = [hypotheses EXCEPT ![chosen] =
                 [old EXCEPT
                   !.ran = TRUE,
                   !.confidence = Updated(old.confidence, verdict),
                   !.status = StatusAfter(old.confidence, old.status, verdict),
                   !.supporting = IF verdict = "supports"
                                    THEN old.supporting \union {NextEvidenceId}
                                    ELSE old.supporting,
                   !.contradicting = IF verdict = "contradicts"
                                       THEN old.contradicting \union {NextEvidenceId}
                                       ELSE old.contradicting]]
  BY <1>1, ExperimentStep
<1>3. /\ hypotheses \in Seq(Hypotheses)
      /\ chosen \in DOMAIN hypotheses /\ hypotheses[chosen] \in Hypotheses
  BY <1>1 DEF InquiryType, Deciding
<1>4. /\ DOMAIN hypotheses' = DOMAIN hypotheses
      /\ \A g \in DOMAIN hypotheses \ {chosen} : hypotheses'[g] = hypotheses[g]
  BY <1>2, <1>3
<1> DEFINE old == hypotheses[chosen]
           c == Updated(old.confidence, verdict)
           st == StatusAfter(old.confidence, old.status, verdict)
           s == IF verdict = "supports" THEN old.supporting \union {NextEvidenceId}
                ELSE old.supporting
           d == IF verdict = "contradicts" THEN old.contradicting \union {NextEvidenceId}
                ELSE old.contradicting
<1>5. hypotheses'[chosen] = [old EXCEPT !.ran = TRUE, !.confidence = c, !.status = st,
                                        !.supporting = s, !.contradicting = d]
  BY <1>2, <1>3
<1>6. /\ s = old.supporting \union (IF verdict = "supports" THEN {NextEvidenceId} ELSE {})
      /\ d = old.contradicting
               \union (IF verdict = "contradicts" THEN {NextEvidenceId} ELSE {})
  OBVIOUS
<1>7. old \in Hypotheses
  BY <1>3
<1> HIDE DEF old, c, st, s, d
<1>8. /\ hypotheses'[chosen].ran = TRUE
      /\ hypotheses'[chosen].supporting = s /\ hypotheses'[chosen].contradicting = d
  BY <1>5, <1>7 DEF Hypotheses
<1>9. QED
  BY <1>2, <1>4, <1>6, <1>8 DEF old

(* An experiment is one more of those run, on a hypothesis not tested before. *)
LEMMA RunExperimentLinks ==
  ASSUME TypeOK, LInv, RunExperiment
  PROVE  LInv'
<1>1. PICK verdict \in Verdicts :
           /\ evidence' = Append(evidence, About("experiment", chosen, verdict))
           /\ DOMAIN hypotheses' = DOMAIN hypotheses
           /\ \A g \in DOMAIN hypotheses \ {chosen} : hypotheses'[g] = hypotheses[g]
           /\ hypotheses'[chosen].ran
           /\ hypotheses'[chosen].supporting = hypotheses[chosen].supporting
                \union (IF verdict = "supports" THEN {NextEvidenceId} ELSE {})
           /\ hypotheses'[chosen].contradicting = hypotheses[chosen].contradicting
                \union (IF verdict = "contradicts" THEN {NextEvidenceId} ELSE {})
  BY ExperimentLeaves
<1>2. /\ evidence \in Seq(EvidenceRecords) /\ hypotheses \in Seq(Hypotheses)
      /\ chosen \in Nat /\ experimentsRun \in Nat /\ pc = "experiment"
      /\ About("experiment", chosen, verdict) \in EvidenceRecords
  BY AboutType DEF TypeOK, InquiryType, RunExperiment
<1>3. pc' \in {"rank", "handler", "finally"} /\ experimentsRun' = experimentsRun + 1
  BY GoLeads DEF RunExperiment
<1>4. chosen \in DOMAIN hypotheses /\ ~ hypotheses[chosen].ran
      /\ experimentsRun < MaxExperiments
  BY <1>2 DEF LInv, Tested, Candidates, Live, Proposed
<1>5. Blank' /\ Fresh' /\ Tested'
  BY <1>3 DEF Blank, Fresh, Tested, Early
<1>6. EvidenceLinked'
  <2> SUFFICES ASSUME NEW h \in DOMAIN hypotheses
               PROVE  /\ hypotheses'[h].supporting =
                            EvidenceFor(h, "static_analysis", "none")'
                              \union EvidenceFor(h, "experiment", "supports")'
                      /\ hypotheses'[h].contradicting =
                            EvidenceFor(h, "experiment", "contradicts")'
    BY <1>1 DEF EvidenceLinked
  <2>1. /\ hypotheses[h].supporting = EvidenceFor(h, "static_analysis", "none")
                                       \union EvidenceFor(h, "experiment", "supports")
        /\ hypotheses[h].contradicting = EvidenceFor(h, "experiment", "contradicts")
    BY DEF LInv, EvidenceLinked
  <2>2. \A k, v : EvidenceFor(h, k, v)' = EvidenceFor(h, k, v) \union
          (IF k = "experiment" /\ h = chosen /\ v = verdict THEN {NextEvidenceId} ELSE {})
    BY <1>1, <1>2, RecordsFor
  <2>3. /\ EvidenceFor(h, "static_analysis", "none")'
             = EvidenceFor(h, "static_analysis", "none")
        /\ EvidenceFor(h, "experiment", "supports")' =
             EvidenceFor(h, "experiment", "supports") \union
               (IF h = chosen /\ verdict = "supports" THEN {NextEvidenceId} ELSE {})
        /\ EvidenceFor(h, "experiment", "contradicts")' =
             EvidenceFor(h, "experiment", "contradicts") \union
               (IF h = chosen /\ verdict = "contradicts" THEN {NextEvidenceId} ELSE {})
    BY <2>2
  <2>4. QED
    BY <1>1, <2>1, <2>3
<1>7. Accounted'
  <2>1. Ran' = Ran \union {chosen} /\ chosen \notin Ran
    BY <1>1, <1>4 DEF Ran
  <2>2. /\ Records' = Records \union {NextEvidenceId}
        /\ NextEvidenceId \notin Records
        /\ \A e \in Records : evidence'[e] = evidence[e]
        /\ evidence'[NextEvidenceId].about = chosen
    BY <1>1, <1>2, OneRecord DEF Records, About
  <2>3. IsFiniteSet(Ran) /\ IsFiniteSet(Records)
    <3>1. /\ DOMAIN hypotheses = 1 .. Len(hypotheses) /\ Len(hypotheses) \in Int
          /\ DOMAIN evidence = 1 .. Len(evidence) /\ Len(evidence) \in Int
      BY <1>2
    <3>2. IsFiniteSet(DOMAIN hypotheses) /\ IsFiniteSet(DOMAIN evidence)
      BY <3>1, FS_Interval, 1 \in Int
    <3>3. Ran \in SUBSET DOMAIN hypotheses /\ Records \in SUBSET DOMAIN evidence
      BY DEF Ran, Records
    <3>4. QED
      BY <3>2, <3>3, FS_Subset
  <2>4. /\ Cardinality(Ran') = Cardinality(Ran) + 1
        /\ Cardinality(Records') = Cardinality(Records) + 1
    BY <2>1, <2>2, <2>3, FS_AddElement
  <2>5. {evidence[e].about : e \in Records}' = {evidence[e].about : e \in Records} \union {chosen}
    BY <2>2
  <2>6. experimentsRun' <= MaxExperiments
    BY <1>2, <1>3, <1>4, BudgetAssumption
  <2>7. QED
    BY <1>3, <2>1, <2>4, <2>5, <2>6 DEF LInv, Accounted
<1>8. QED
  BY <1>5, <1>6, <1>7 DEF LInv

(* Every step keeps the record's invariant.                                   *)
LEMMA RecordStep == TypeOK /\ LInv /\ [Next]_vars => LInv'
<1> SUFFICES ASSUME TypeOK, LInv, [Next]_vars PROVE LInv'
  OBVIOUS
<1>1. CASE UNCHANGED vars
  BY <1>1 DEF vars, control, inquiry, LInv, Blank, Fresh, Tested, Candidates, Live, Proposed,
     EvidenceLinked, EvidenceFor, Accounted, Ran, Records
<1>2. CASE Next
  BY <1>2, StepAside, AsideKeeps, GenerateLinks, RecordFindingLinks, RunExperimentLinks
<1>3. QED
  BY <1>1, <1>2

(* Evidence, citations and experiments stay in step, whatever is raised.      *)
THEOREM RecordInvariant == Spec => []LInv
<1>1. Init => LInv
  <2> SUFFICES ASSUME Init PROVE LInv
    OBVIOUS
  <2>1. Ran = {} /\ Records = {}
    BY DEF Init, Ran, Records
  <2>2. Accounted
    BY <2>1, FS_EmptySet, BudgetAssumption DEF Init, Accounted
  <2>3. QED
    BY <2>2 DEF Init, LInv, Blank, Fresh, Tested, EvidenceLinked, Early
<1>2. QED
  BY <1>1, TypeCorrect, RecordStep, PTL DEF Spec

(* A hypothesis cites exactly the records made about it: no finding and no    *)
(* experiment of _hypothesize and _verify_loop is lost or put on another.     *)
THEOREM CitationsAreExact == Spec => []EvidenceLinked
<1>1. LInv => EvidenceLinked
  BY DEF LInv
<1>2. QED
  BY <1>1, RecordInvariant, PTL

(* The experiments of _verify_loop are within its budget, each hypothesis is  *)
(* tested at most once, and each test has left one record.                    *)
THEOREM ExperimentsInBudget == Spec => []ExperimentsAccounted
<1>1. LInv => ExperimentsAccounted
  BY DEF LInv, Accounted, Ran, Records, ExperimentsAccounted
<1>2. QED
  BY <1>1, RecordInvariant, PTL
=============================================================================
