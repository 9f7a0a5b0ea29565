# RepoMedic: a verification in TLA+

RepoMedic (`src/repomedic/`) investigates the failing tests of a Python
repository: it runs the suite in a temporary copy, draws up hypotheses, runs an
experiment for each, names a root cause, proposes a patch, validates the patch
in a second copy, and leaves a report, a row in a SQLite store and an exit code.

The models follow the code in `src/repomedic/`. TLC checks them on small
instances; TLAPS proves the central results for every value of the constants.
`PROJECT.json` maps each definition to the lines it models.

## 1. The system

### 1.1 Components

| Component | Source | State it keeps | Operations | Modelled in |
|---|---|---|---|---|
| State machine | `investigate/state_machine.py` | current state, history | `transition`, `can_transition` | `Transitions`, `Lifecycle` |
| Investigation engine | `engine.py` | the session, the failing node ids, its workspace, the machine | `run`, the stages, `_report` | `Engine` |
| Experiments, confidence | `investigate/experiments.py` | none (it edits a hypothesis) | `run_experiment`, `update_confidence` | `Confidence` |
| Session model | `models/` | records | `add_evidence`, `next_evidence_id`, `all_green` | `Engine`, `ValidationResults` |
| Patch validation | `patch/validator.py` | a workspace, a `ValidationResult` | `validate_patch` | `PatchValidation` |
| Execution layer | `execute/` | the working copy, the JUnit file in it | `Workspace`, `run`, `run_pytest` | `PatchValidation`, `Engine` |
| Event bus | `events.py` | a counter, the list of sinks | `emit`, `subscribe` | `SessionStore`, `Engine` |
| Session store | `store/db.py` | tables `sessions` and `events` | `next_session_id`, `save_session`, `append_event`, reads | `SessionStore` |
| CLI | `cli.py` | none | `investigate`; `sessions`, `show`, `dashboard` only read | `Engine`, `SessionStore` |
| Provider | `investigate/provider.py` | none | `generate_hypotheses`, `propose_patch` | a choice in `Engine` |
| Deterministic investigator | `investigate/heuristics.py` | the drafts of one call | its rules, deduplication, ranking | `Investigator` |
| Patch generator | `patch/generator.py` | none | three templates, the diff | `PatchGenerator`, `UnifiedDiff` |
| Patch applier | `patch/applier.py` | the tree it writes | `apply_unified_diff` | `PatchApplier`; its outcomes, in `PatchValidation` |
| Ingest | `ingest/` | none | `detect`, `build_repo_model` | `RepoModel`; its outcomes, in `Engine` |
| Reports | `report/` | two files | `render`, `write_json` | what they show, in `Engine` |
| Dashboard | `dashboard/app.py` | none | read-only pages | no |

### 1.2 How they interact

* The CLI takes an id from the store, builds bus, provider, executor and
  engine, calls `engine.run()`, saves the returned session and turns it into an
  exit code.
* The engine calls everything else. Each stage is a transition of the machine,
  some calls, and one or more `emit`s. `emit` calls its sinks in the caller's
  thread: console, SQLite, and the list the engine keeps for the report's
  timeline.
* The provider reads the model of the repository that the ingest built, and the
  failures that the parser made of the first run; its patch is the generator's
  diff of a file as it is then, and the applier meets that file later, in another
  copy.
* The executor and the parser talk through one JUnit file of a fixed name in
  the working copy.
* Two invocations of the CLI on one repository share the SQLite file and the
  reports directory.

### 1.3 What is hard

Nothing here runs in parallel inside one process. The difficulty is failure
and order:

* **An exception can come out of nearly every line.** Each `emit` writes to a
  terminal and to SQLite; each stage runs commands, parses, copies trees. `run`
  has one handler, which reports from whatever state is left, may raise itself,
  and does not see a `KeyboardInterrupt`; the `finally` clause then tidies up.
  The exit code is computed later from two fields that different stages wrote.
* **The loop of experiments re-ranks** after every verdict, under a budget.
* **Commands are abandoned, not undone, when they time out**, and may write
  the JUnit file later.
* **Session ids are row counts**, rows are written last, and runs die or
  overlap before that.
* **A diff is made by one component and read by another.** The generator edits
  a list of lines by numbers taken from a syntax tree, `difflib` prints it, and
  the applier parses the print by prefixes, line by line, with no use of the
  counts in the hunks; lines that look like headers, missing line ends and page
  breaks mean different things to each. Files are written one after the other.
* **Names are guessed.** Imports become dotted names, dotted names become
  modules by their longest known prefix, test ids become modules the same way,
  and drafts of several failures about one place are merged by the first.

`PROJECT.json` lists the hazards with their lines and with the properties that
would catch them.

### 1.4 What makes each component correct

* *State machine*: the outcomes FAILED and NO_FAILURE exclude each other and are
  final; no patch without a root cause.
* *Engine*: no illegal transition is ever requested; exit code, row and reports
  agree with what happened; a root cause is backed and is the best available;
  experiments stay in budget, each hypothesis tested at most once; every
  copy of the repository that it holds is cleaned up; every run ends.
* *Confidence*: stays within 0..1; support always outranks contradiction.
* *Patch validation*: what is accepted works; what is rejected is rejected for a
  reason; no result is read from another command's file.
* *Generator and applier*: a diff that is refused changes nothing; one that is
  applied does what it shows and nothing else; the generator's diffs do what the
  template means.
* *Ingest and investigator*: the map of a test lies between what it reaches without
  the `__init__`s of packages and all that Python runs for it; nothing is suspected that its failure does not implicate, and every failure that passes
  through the repository gets a suspect; one experiment decides a hypothesis.
* *Store*: a saved session is never overwritten by a later run; a run's events
  are all there, and are the report's.

## 2. Modules

```
Transitions ── Lifecycle
ValidationResults ── PatchValidation ── MCPatchValidation, PatchValidationProofs

Transitions, Confidence, ValidationResults
  └── Engine ── EngineProperties ── MCEngine
                 │  (INSTANCEs Lifecycle, Investigation)
                 └── EngineProofs ── OutcomeProofs

RepoModel, Confidence, Lists
  └── Investigator ── MCInvestigator, InvestigatorProofs

PatchApplier, Lists
  └── UnifiedDiff ── PatchGenerator ── PatchPipeline ── MCPatchPipeline
                                          └── PatchApplierProofs ── PatchPipelineProofs

Lists ── ListProofs ── InvestigatorProofs, PatchApplierProofs

SessionStore ── MCSessionStore, SessionStoreProofs
```

**`Transitions`, `Lifecycle`.** The table `TRANSITIONS` and the machine as an
abstract specification: a state and the set of states its history has.
`Lifecycle` is what the engine is shown to implement; `EngineProofs` proves about it
what the table alone guarantees, and carries that over to the engine.

**`Investigation`.** What `repomedic investigate` promises: the suite is run
first, a cause is named only for a red suite, a patch is tried at most once and
only for a named cause, exit code zero only for a green suite or an accepted
patch. Also implemented by the engine.

**`Confidence`.** `run_experiment`'s verdict and `update_confidence`'s
arithmetic, in hundredths. `round(c * 0.25, 2)` lands half way for every fourth
hundredth; which way Python rounds is decided by the binary value, so
`HalvesRoundedUp` tabulates it. Both operators agree with the Python functions
for all of 0..100. The rejection test compares the unrounded product, so a
contradicted hypothesis survives from 0.60 on.

**`Engine`.** `pc` is the call the engine is about to make. `control`,
`lifecycle`, `execution`, `inquiry`, `repair`, `outcome`, `files` and `cli` group
the variables as the code does: the machine, the initial run, evidence and
hypotheses, root cause with patch and validation, the session's `error` and
`state`, the report files and the workspace, the row and the exit code.

| Code | Actions |
|---|---|
| `sm.transition(X)` at the start of a stage | `EnterStage` (`Requests`, `After`) |
| `_ingest`, `_graph` | `Detect`, `Unsupported`, `BuildGraph` |
| `_execute` | `CopyRepository`, `CopyFails`, `SuiteIsGreen`, `SuiteIsRed` |
| `_observe` | `RecordFailure`, `FailuresRecorded` |
| `_hypothesize` | `Generate`, `RecordFinding`, `FindingsRecorded` |
| `_verify_loop` | `ChooseExperiment`, `RunExperiment`, `ChooseRootCause`, `DeclareRootCause`, `Inconclusive` |
| `_patch_and_validate` | `NoPatch`, `ProposePatch`, `Validate`, `AnnounceRegression` |
| `run`'s handler | `CatchException`, `AnnounceError` |
| `_report` | `StartReport`, `ResolveState`, `WriteMarkdown`, `MarkdownCut`, `WriteJson`, `JsonCut`, `Complete` |
| `run`'s `finally`, the CLI | `Finally`, `InterruptInFinally`, `SaveSession`, `SaveFails` |
| any raising call; Ctrl-C | `CallRaises`, the `Raise` in `Go`; `Interrupt` |

An emit at the end of a stage is `Go`: control goes on, or a sink raises after
the stage's effect. Emits between which nothing changes are one. An exception
is caught once; a second one, or an interrupt, escapes through `Finally`, and an
interrupt may cut that short as well. `Workspace.cleanup` deletes with
`ignore_errors=True` (`execute/base.py:49`), so the copy is `"removed"` or `"left"`
afterwards, here and in `PatchValidation`, where an abandoned command may go on to
write in a copy that was left.

**`PatchValidation`.** `validate_patch` with `Workspace`, the applier's outcomes
and two `run_pytest` calls, each clearing the JUnit file, running a command,
reading and deleting the file. A command ends, crashes with half a file or none,
times out (leaving an orphan that may write later), or raises. `broken` is the
set of tests that fail on the current sources, so that "the patch works" can be
said independently of what the runs report. `ValidationResults` is the result as
the engine sees it; `PatchValidation` shows that nothing else is returned, which
is what allows the engine's model to replace the call by a choice.

**`SessionStore`.** Any number of runs of the CLI that share the store: taking an
id, emitting (counter, then sinks in order), the report, the row; dying at any
point, also between two sinks.

**`PatchApplier`.** `apply_unified_diff`, from the lines of a diff to the files it
wrote. Its three phases are the values of `pc`:

| Code | Actions |
|---|---|
| `parse_unified_diff` | `FileHeader`, `MalformedHeader`, `HunkHeader`, `OrphanHunk`, `HunkLine`, `SkippedLine`, `ParseEnds`, `NothingParsed` |
| rendering each file in memory | `Render`, `RenderRefuses`, `RenderRaises`, `RenderEnds` |
| writing the rendered files | `Write`, `WriteRaises`, `WriteEnds` |

A file is a sequence of lines with a body and an end (`\n`, `\r\n`, a form feed,
none), since `splitlines(keepends=True)` splits at all of them. A line of a diff
has the prefix the parser looks at; a deleted line that begins with `-- ` is read
as a header here as it is there, and if an added line behind it begins with `++ `, the
two are the header of the file that the second names, which may be one of the tree
(`Plussed`).

**`UnifiedDiff`, `PatchGenerator`.** A script is a sequence of kept, deleted and
added lines; `Printed` is the diff of it with `Context` lines around each change,
as `difflib.unified_diff` cuts it into hunks, and `Replayed` is what the script
says the new text is, the definition that the applier is held against. The
generator's three templates are scripts over the rows of a file, with the
difference between a row of the syntax tree and an index of `splitlines()`, and
with the order of its insertion and its deletion. `difflib` searches for long common
blocks and leaves equal lines unmatched where they do not fit; `Aligns` therefore allows
every alignment of the two texts. A finding says where the statement really begins,
decorators included (`begins`), which row `ast` gives for it (`first`), and whether its
row holds other code as well (`shared`), as a function of one row does: `Intended` speaks
of the first, the templates know only the second.

**`PatchPipeline`** composes them: a job is a script of the generator or of
another hand, the file it was made from, and the tree the applier meets.

**`RepoModel`, `Investigator`.** `detect` and `build_repo_model` as functions of a
repository (files with the imports and the defects their syntax trees hold), and
`generate_hypotheses` over the failures of a run: the rules, `_touched_modules`,
the merging of drafts and the stable sort. `ReachedFrom` is what Python runs for
a test: an import runs the packages around the module it names before the module
(`Around`), dots are counted from the package of the file, and of a module and a
package of one name the package is taken. The test map is compared with it.

**`Lists`.** `sorted` and `filter` as the set of what comes out, with its order: the
library's `SortSeq` and `SelectSeq` say the same by recursion, which hides it from
the provers. `ListProofs` has the facts about them, about finite sets in an order
and about lists of lists, that other proofs cite.

### Abstractions

* Messages, descriptions, locations and the reports' layout are left out. A
  rendering keeps state, error, root cause, patch, verdict and the number of
  evidence records.
* An evidence id is a position; `about` records for which hypothesis the record
  was made, which the code says in the record's text.
* `hypotheses` is set by `Generate`; in the code it is a local list until the
  findings are recorded and is then assigned to the session. Nothing raises in
  between, and only an interrupt (after which no row is saved) could tell.
* The provider returns any list of `Proposals`: fresh hypotheses, whose
  confidence is a multiple of 0.01, as `DeterministicInvestigator` rounds it.
* `Investigator` does not feed `Engine`: the engine's model takes any list of fresh
  hypotheses, and `OneExperimentDecides` says what the shipped provider's lists
  are in addition. Its priors (0.20 to 0.55) stay below the threshold, which is
  `Cautious`, the hypothesis of the theorem `CautiousProviders` about the engine.
* Whole lines stand for the text of a file: columns, quoting and indentation
  are left out. Whether two keys are alike (`keys_similar`) is a parameter.
* A test either fails on given sources, passes, or is flaky.
* A patch may fix and break any tests.

## 3. Runs

| Run | Instance | Properties | Distinct states |
|---|---|---|---|
| `engine_faults` | two faults; every list of up to two out of 12 hypotheses | `TypeOK`, `LegalRequests`, `ExitZeroEarned`, `ExitOneExplained`, `ReportsAgree`, `CaughtIsReported`, `CleanupTried`, `OutcomesExclusive`; refines `Lifecycle` and `Investigation` | 874 331 |
| `engine_budget` | one fault; twelve lists of four hypotheses, a budget of two; fairness | `EvidenceLinked`, `RootCauseBacked`, `RootCauseIsBest`, `ExperimentsAccounted`, `NothingRewritten`, `Termination` | 114 041 |
| `engine_caught` | one fault | `CaughtMeansFailed`: violated | |
| `engine_unverified` | no fault | `PatchForVerified`: violated | |
| `validation` | three tests, one of them flaky | `TypeOK`, `AcceptedWorks`, `RunsAreTheirOwn`, `RejectionIsJust`, `ReturnsKnownResult` | 15 885 |
| `store_overlap` | three overlapping runs, two events each | `TypeOK`, `SavedIdsHaveNoGap`, `PlacesTaken`, `StreamMatchesReport`, `RowMatchesReport`, `FreshId` | 65 151 |
| `store_serial` | three runs one after the other | `StoreSeesEveryEvent`: violated | |
| `pipeline` | two files, one line of context; generated and foreign diffs, fresh and stale | `TypeOK`, `AllOrNothing`, `OneTornFile`, `AppliedIsReplayed`, `FreshDiffApplies`, `PatchedAsIntended`, `Terminates` | 163 430 |
| `pipeline_tail` | the generated ones of them | `GeneratedDiffApplies`: violated | |
| `pipeline_headers` | the foreign ones | `ContextVerified`: violated | |
| `investigator` | 8 192 repositories with their failures | `TypeOK`, `TestMapBounds`, `OneHypothesisPerPlace`, `EveryFailureExplained`, `SuspectsAreImplicated`, `OneExperimentDecides` | 47 912 |
| `investigator_imports` | the same | `ReachedIsMapped`: violated | |

What they show:

* **`engine_faults`**: wherever exceptions and interrupts strike, the engine asks
  the machine only for edges it has; exit code zero means a green suite or a
  patch that passed both validation runs, and never a FAILED investigation;
  exit code one with a saved session has a reason; the two reports and the row
  agree; a swallowed exception is on record; and the clean-up of the working copy
  is run, except when making the copy failed half way (`execute/base.py:40`) or an
  interrupt strikes in the `finally` clause itself. Whether the files are gone then
  is not claimed: `rmtree` ignores its errors.
* **`engine_budget`**: every evidence link is right, a root cause was never
  contradicted and is the best hypothesis standing when the budget is used up or
  nothing is left to test, and every investigation ends.
* **`validation`**: an accepted patch leaves only flaky tests failing, even with
  incomplete node ids, crashes, time-outs and late JUnit files; a regression
  verdict with complete node ids names a test that used to pass, or a flaky one;
  the copy is cleaned up on every way out, as far as `rmtree` can.
* **`store_overlap`**: a saved session's id is never given out again, although
  ids are row counts and nothing reserves them; runs that overlap can share an
  id, and then the second's events are dropped, but never without an event of
  the same id and number in their place.

* **`pipeline`**: a refused diff leaves every file as it was, and no file is
  written before every hunk of every file was verified; a failing write tears at
  most its own file. An applied diff, stale or fresh, without a false header agrees
  with the lines it replaces and does what it shows; a fresh one is refused only for reasons that
  `FreshDiffApplies` lists (no line end at the end of a file, a form feed, a line
  that looks like a header). The generator's patch changes the template's lines
  only, wherever the attribute and the `__init__` stand, in files without form feeds
  where attribute and first statement have rows of their own and no decorators. On
  the others (the jobs have them, too) the template goes wrong as the code does: it puts
  its line above the `def` of a function of one row, or between a decorator and its
  `def`; the validation has to reject what comes of it.
* **`investigator`**: where no name stands for two files (`OneFilePerName`), the test map
  holds every source module that a test reaches through modules that are no package
  (`ReachedPlainly`), and nothing that Python would not run, unless dots that
  `_resolve_import` miscounts spell the name of some other module (`NoNamesakes`); under
  both conditions every suspect
  is implicated by the failure it was made for; every failure that passes through
  the repository has a suspect it implicates, although drafts of different failures
  compete for a place; one supporting experiment lifts each hypothesis that has
  one to the threshold, one contradicting experiment rejects it, and none passes
  without.

### Where code and documents disagree

* `engine_caught`: the handler's comment (`engine.py:72`) says that an exception
  makes the investigation FAILED. NO_FAILURE, REPORT and COMPLETE have no edge
  to FAILED; an exception from there is recorded in `session.error`, but the
  state stays NO_FAILURE or COMPLETE, and the exit code may be zero.
* `engine_unverified`: `provider.py:39` speaks of a patch for a verified
  hypothesis. A prior of at least 0.60 and one static finding are enough: the
  hypothesis may have no experiment, or an inconclusive one. The shipped
  investigator's priors stay below 0.60 (`OneExperimentDecides`), so it takes
  another provider to see it: `CautiousProviders` proves that with priors below the
  threshold every patch is for a hypothesis that is verified and that an experiment
  of the session supports.
* `store_serial`: `CONTRIBUTING.md` promises that the store sees every event the
  reports see. A run that dies before its row is saved leaves its events under
  an id that the next run gets; `INSERT OR IGNORE` then drops the next run's
  events, and `show` prints the dead run's.

* `pipeline_tail`: `applier.py:10` and `generator.py:6` present generator and applier
  as a pair. `difflib` marks no missing final newline (`generator.py:21`): when an
  edit deletes or changes the last line of a file without one, two lines of
  the diff run together, and the applier refuses it on the very file it was made
  from. Nothing is damaged; the patch is lost.
* `pipeline_headers`: `applier.py:4` says that context lines are verified before any
  file is written. The parser looks for headers before it looks at the open hunk
  (`applier.py:51`): a deleted `-- g` and an added `++ g` behind it are read as the
  header of `g`, the hunk ends there, and if the tree has a file `g` the diff is
  applied, with the lines behind neither verified nor changed.
* `investigator_imports`: `ingest/graph.py:5` maps a test to all it transitively
  reaches. `_resolve_import` (`graph.py:119`) finds one module for an import, so the
  `__init__` of a package, which `import pkg.a` runs first, is missing, and so is what
  only it imports. And it counts the dots (`graph.py:115`) from the importer's name, which for an `__init__.py` is already the package: `from .b import f` in
  `pkg/__init__.py` becomes `b` instead of `pkg.b`.

### Bounds

* `MaxFaults`: two in `engine_faults`, which is all there can be: the first
  exception is caught, and the second escapes or fails the save, either of which
  ends the process. One where lists of hypotheses are long. None in
  `engine_unverified`, whose violation needs none.
* `MaxExperiments` = 2 for the code's 4: the loop's guard depends on the
  difference only; with four hypotheses the budget runs out before candidates
  do, and with two it does not. The proofs hold for every budget.
* `Threshold` = 60 as in the code. Confidences 10, 30, 55, 60, 70 and 100 lie
  below, at and above it, and on both sides of where a contradiction rejects.
* `PairProposals` has ties and the empty list; all forms of experiment occur in
  `PairProposals` and `LongProposals` together.
* `FailureLists`: none, one and two failures, with and without frame and node id.
* Three tests, one flaky, let a patch fix one, break one and leave one; two of
  them can be targets with or without a node id.
* `Context` = 1 for difflib's 3: files of up to four lines then have all
  positions of a change with, without and with cut context, and the longer scripts
  have two hunks that stay apart or merge. All scripts of up to four lines are
  tried, alone, before a second edit of the same file, and before one of another
  file; the files have since gained, lost or changed a line, lost their last line
  end, or disappeared. Two files are enough for a write that fails between them.
* The generated jobs place attribute, `__init__`, mutable default and key at the start,
  in the middle and at the end of a file, with a page break above, below or nowhere. First
  statements with a decorator and functions of one row are among them. `PatchedAsIntended`
  leaves both out: the first break it, and of the second it could say nothing, since
  a line is not added inside a row here.
* `MC_Spare` = 1: a generated diff gives up at most one pair of equal lines that a longest
  alignment would keep. The proof is of all alignments.
* Lines that look like headers: of no file, and of the second of the two.
* `MCInvestigator`: a package, two modules in it, a top-level module that shares the
  name of one, every choice of imports among four forms per module, two tests; six
  sets of defects in two modules with every pair out of fourteen failures; other
  ecosystems, a file that does not parse, and a module beside a package of its
  name. Two failures are what it takes to compete for a place, and two modules to
  lead to the wrong one.
* Three runs and two events each: one run dies, its successor takes the id, a
  third overlaps with either. `MaxEvents` only cuts the streams.

### Fairness

Only `Termination` and `Terminates` need it. `FairSpec` has `WF_vars(Next)`: the
engine is one thread that goes on until it exits. It waits for nothing but
commands, and the executors give each a time-out; the provider and the file system
are assumed to answer. `PipelineSpec` has weak fairness of its step for the same
reason: the applier is a plain call that waits for no one but the file system. No
branch is assumed to be taken.

## 4. Proofs

All by TLAPS, for every value of the constants under the named assumptions:
`FlakyAssumption`, `RunsAssumption` (finitely many runs), and for the engine
`BudgetAssumption`, `ThresholdAssumption` (a percentage above 25),
`FailuresAssumption`, `ProposalsAssumption` (a provider returns fresh
hypotheses) and `FaultsAssumption`. For the investigator `CasesAssumption`: the
repositories and suites are finite, of any size; and its own `ThresholdAssumption`:
`ROOT_CAUSE_THRESHOLD` (0.60 in the code) lies where one verdict decides, from 0.56,
above every prior the rules give, to 0.88, which the weakest reaches by one support.
For the patches `JobsAssumption`: a proposal is a list of edit scripts, one at least,
in one of the forms a model writes, and each script deletes and keeps the lines of
the file it was made from, of which only the last may have no end. A proposal that the
generator made is of one file: its script is one of those `difflib` may find between
the file and the text of the template, and what the syntax tree said of the file is true
(`TrueOf`: its rows are rows of the file, a statement begins no later than in the row
`ast` gives for it, an attribute is in the row of the first statement only if that row is
said to be `shared`, a default stands in the row it has for one, and a function has a
body). And no line of that file has a body that `Glued` gives. `Glued` says what the body
of a line becomes when the next line of the diff runs together with it. In the code such a
row is the text of a line, the sign of the next row and what follows it; the hunk
compares it with the line it starts with, which is shorter, so the two always differ. In
the model it is a function of the one line, and the assumption keeps its values apart
from the lines of files.
`ContextAssumption`, `GluedAssumption`, `BodyAssumption`,
`StatementsAssumption` and `PathAssumption` give the lines of context, the bodies of
lines and the paths.

| Module | Theorem | Says |
|---|---|---|
| `EngineProofs` | `VerdictExclusive`, `VerdictFinal`, `PatchAfterRootCause` | what the table alone guarantees |
| | `UpdatedIsPercent`, `SupportOutranksContradiction` | the arithmetic, for every prior |
| | `TypeCorrect` | the engine's types |
| | `RequestsAreLegal` | no request is illegal, with any number of faults |
| | `EngineKeepsLifecycle` | `Engine` implements `Lifecycle` |
| | `EngineOutcomes` | never both FAILED and NO_FAILURE |
| | `RootCausesAreBacked`, `RootCausesAreBest` | for every budget, threshold, list and verdict |
| | `CitationsAreExact`, `ExperimentsInBudget` | evidence, citations and experiments agree |
| `OutcomeProofs` | `ZeroIsEarned`, `OneIsExplained` | the exit code, whatever is raised |
| | `OneStory`, `CaughtIsTold`, `CleanupIsTried` | reports, row, and the clean-up of the copy |
| | `EngineKeepsPromise` | `Engine` implements `Investigation` |
| | `RecordStands` | nothing recorded is rewritten |
| | `CautiousProviders` | priors below the threshold: patches only for what is verified and tested |
| `PatchValidationProofs` | `ValidationTypes`, `AcceptedPatchesWork`, `RunsReportThemselves` | for every suite and any flaky tests |
| | `RejectionsAreJust`, `ReturnsAreKnown` | the other verdicts, and the interface to `Engine` |
| `PatchApplierProofs` | `ApplierTypes`, `NothingHalfVerified`, `TornFileIsTheLast` | for every diff, every tree, every failing read or write |
| | `PipelineApplies` | generator and applier together are the applier at work |
| | `RenderedIsReplayed` | one file rendered from the hunks of a script is what the script says, whatever the file has become |
| `PatchPipelineProofs` | `LegibleIsReplayed` | the same from the proposal's scripts to the files, through printing, parsing and writing, where no header is a false one |
| | `FreshApplies` | a clean diff of the files as they are is never refused |
| | `PatchesAsIntended` | what a generated patch leaves is what its template is meant to make, however the file ends and whichever lines `difflib` keeps |
| `SessionStoreProofs` | `StoreTypes`, `NoGap`, `FreshIds`, `EveryPlaceTaken` | for any number of runs and events |
| | `StreamsMatchReports`, `RowsMatchReports` | store and report agree |
| `InvestigatorProofs` | `ReachableIsClosure` | the search behind the test map misses no module, for every finite graph |
| | `TestMapIsBounded`, `TestMapIsComplete` | the test map, between two readings of Python's imports, and by itself |
| | `NoInnocentSuspected`, `NoFailureUnexplained`, `NoDefectMissed` | suspects and failures fit each other, whatever is merged |
| | `NoPlaceTwice`, `OneExperiment`, `InvestigatorType` | the list handed to the engine |

How they go:

* **Lifecycle.** Where the machine is tells where it has been (`Reached`); the
  three results follow.
* **Engine and machine.** `PcAgrees` says in which machine states each call of
  the engine can find it: one state inside the pipeline (two where the loop
  begins), several in `_report`, any in the handler. It is inductive: `Flow` lists where control goes by the steps that leave the machine
  alone, and those keep the agreement; the steps that move it are
  looked at one by one. Legality follows, since the request at each call is an
  edge from its state. The refinement needs no invariant, since `Transition`
  asks the table; with it, `VerdictExclusive` carries over to the engine.
* **Root cause.** "Backed" is not inductive. `RInv` adds that an untested
  hypothesis is not contradicted, that a contradicted one has at most 0.25
  (so the threshold assumption keeps it from being chosen, although it keeps its
  supporting findings and may keep its status), that cited evidence exists, that
  the chosen hypothesis is untested until its experiment, and that the decision
  still holds when it is declared. The steps outside the loop are `Undisturbed`
  and handled by one lemma; the loop's own each have one.
* **The record.** That citations are exact needs to know when evidence starts:
  until a list is generated, only failures are recorded (`Blank`), and until the
  last finding is recorded no hypothesis is tested or rejected (`Fresh`). What the
  loop is about to test is a candidate (`Tested`), hence within the budget and not
  tested before; so an experiment adds one to each of three counts.
* **Outcome.** Lemmas classify the steps, whatever action they are: where
  control goes (`Moves`: an exception is thrown, or the next call follows), who
  may change what of the session (`SessionEffects`, `VisitedEffect`), and of the
  files (`FileEffects`). The invariant `OInv` relates places to facts in seven
  parts: the suite's outcome, the repair, the error, the state told, the files,
  the working copy, the exit. `ErrorFits` carries the exit codes: FAILED is in the
  history only with an error, or after a red suite without a validation, and the
  report is reached only with an error, a green suite or a red one. The refinement of `Investigation` is proved step by step
  from the same effects.
* **Patch validation.** `AcceptedWorks` speaks of the end; the invariant carries
  it through the phases: an orphan belongs to the phase under way, and only when
  its command did not end with zero (`OrphansAreOwn`), so a file found after a
  command is that command's (`FileIsOwn`), a zero exit code means that the
  selected tests are flaky or pass (`ZeroIsHonest`), the recorded runs say so
  (`Recorded`), and the second phase selects every test.
  A verdict of regression is just because every failure a run reports is real
  (`Truthful`), and in the second phase the selected tests work (`Repaired`).
  `Reported` gives the result at each call, from which the engine's choices follow.
* **Applier.** Until the writing begins the tree is what it was, and the staged
  files are the renderings of verified parts, made from the tree as it was
  (`IPhase`, `IStaged`). The writer puts them down in order, so at most the one
  under way is torn. Every step of `PatchPipeline` is one of `PatchApplier`'s, and
  each of its diffs and trees is one of those it starts with.
* **Rendering.** `RenderedIsReplayed` follows the renderer through a file. Hunks *show*
  a script when each covers a stretch of its entries, in order, and every entry
  that `difflib` would show is covered; the last may end in a blank line of context,
  which is what the parser makes of a line between two files. The renderer's cursor
  is then `OldLine` of the next entry: by induction over the entries of a hunk, over
  the hunks, and over the gaps between them, where all entries are kept. The number a
  hunk begins with is the only one the code uses, and it counts old lines; that is
  what makes the result independent of what the file has become since.
* **Parsing.** The lines of the diff come from parts (files), rows (entries) and the
  two lines of a header. `Places` numbers them: the place of a line, the place of the
  next, and where the last one is. `Reading` says what the parser has in its
  hands at a place: the patches of all earlier parts, and of the one it is in
  the hunks up to the entry it has read. `LineByLine` shows that the next line,
  whatever it is, takes the parser from one place to the next. There is one
  exception: a deleted line that begins with `-- ` is printed with a third dash and
  read as a header. Then either the parser has a patch for a file that is none, and the
  renderer refuses the diff, or the line behind it names a file (`FalseHeader`). Both are
  `Spoiled`, and nothing is claimed of the second. `PInv` joins this (`IRead`) with what the call
  was given (`IJob`), what the writer has written so far (`IFiles`) and what becomes of
  illegible diffs (`IGlued`, `IEmpty`).
* **Legible.** `LegibleIsReplayed` is about diffs in which every part shows something
  and no two lines run together, and its conclusion leaves out a false header. Lines run together when a shown line without a line
  end is not the last of the diff; such a line is neither line to the parser. What
  becomes of another provider's diff then depends on which lines those are; TLC checks
  those cases, and those of parts that change nothing. `FreshApplies` needs no such
  hypothesis: its own conditions imply it (`CleanIsLegible`).
* **Templates.** `PatchesAsIntended` joins four facts. What `generate_patch` arrives at is,
  row by row, what was intended (`PatchedMade`, `IntendedText`): here an insertion that moves
  the attribute, or a row of `ast` that is no row of `splitlines()`, would show.
  Whatever alignment `difflib` finds, its new text is that text (`Aligns`). On a file that has not changed, the replay
  of a script is its new text, if each line it adds ends in a newline (`ReplayedFresh`).
  And each does if the diff is legible (`AddedEnds`): a template writes newlines, so an added
  line without one is the file's own last line, moved or changed (`AddedLast`); then the old
  last line is deleted, and its row runs together with the next. The rest is
  `LegibleIsReplayed`, in the exact form of its invariant (`AppliedExactly`).
  Not covered, and excluded by name: form feeds, rows shared with other code, decorated
  first statements, false headers.
* **Illegible templates.** A generated diff that is not legible is never applied. The first
  line that runs together with another is not an added one: if it were, it would be the
  file's last line, the old one would be deleted behind it, and `difflib` deletes what the
  new text has no more before it adds between two lines it keeps (`AlignsOrdered`). So that line is kept or deleted, and all before it is read
  as it was printed (`SplitFirst`, `IllegibleIsGlued`). The invariant `IGlued` follows the
  parser: either it is on its way to that line, with a hunk open (`Towards`), or it has a
  patch that is of no use (`Unusable`), because a hunk wants a line that no file has or a
  deleted line was taken for the header of a file. Such a patch is not staged
  (`UnusableNotStaged`), so nothing is written. `IEmpty` says the same of a diff of nothing.
* **Cautious providers.** The finding above needs a hypothesis that is chosen
  untested. With priors below the threshold, confidence above it is `Earned`: a
  finding alone leaves a hypothesis at its prior, so what reaches the threshold has
  been tested, and evidence of its test is on record; evidence stays.
* **Investigator.** The test map is computed by as many rounds of union as there
  are modules. That this is the closure is counting: a round that adds nothing ends
  the search, and each other round adds a module. The graph of imports lies between two
  graphs of what Python runs (`GraphBounds`). One edge of it is the module that the name
  in an import means (`LongestKnown`), and Python runs that module, besides
  the packages around it; this needs that no name stands for two files (`NamesTellFiles`).
  The name is misspelled only by dots counted in an `__init__`, which the lower bound
  leaves out and `NoNamesakes` excludes from the upper. The
  invariant has seven parts. `Given` and `Flow` say what is known at each place;
  `Drafts`, that no key occurs twice and that the drafts come in the order of their
  failures. "Every failure has a suspect" is not inductive: a draft may be dropped
  because an earlier failure made one of the same key. So `Explained` asks for
  *some* draft the failure implicates, whoever made it, and `Founded` for every
  draft that the failure it is about implicates it; `Found` does the same for each
  defect of a reached module. `Ranked` says that the final list is a rearrangement of
  the drafts, by an injection that is monotone among equal priors, so what holds of
  drafts holds of hypotheses.
* **Lists.** `ListProofs` shows that `InOrder` enumerates a finite set without gaps
  or repetition when the order is strict and total on it, that `Kept` keeps exactly
  the elements at the given places, and what `FlattenSeq` and `SetToSeq` of the
  libraries hold, what two lists have in common that are laid out of the same pieces, and
where the elements are after an insertion or a removal. Induction is by the least element of a set of counterexamples, from
  `NatLessThanWellFounded` and `WFMin`.
* **Store.** Saved ids are an initial segment and a run under way has an id in
  it or just after it; so the number of rows plus one is never a saved id. Events
  are stored under their run's id (`Placed`); a run that shares its id with no
  other fills its own places (`Streams`); and while runs do not overlap, the one
  under way has an id no row has, so its report replaces none that belongs to a row
  (`Alone`).

### Only model-checked

* `Termination` and `Terminates`: liveness under fairness is out of the prover's
  reach.
* `AppliedIsReplayed` of other providers' diffs that are not `Legible` (of diffs with a
  false header nothing is claimed, and `pipeline_headers` shows why): what such a diff
  still does depends on how its lines run together.
* What the refutation runs refute.

No module declares a RECURSIVE operator; recursion is by functions and folds.

## 5. Not modelled, and why

* **Columns, quoting and indentation** in the generator: an edit is of whole
  lines. `col_offset` counts bytes where the code cuts characters
  (`generator.py:119`); what comes of it no longer parses or no longer passes, and
  is rejected by the validation.
* **What a syntax tree says**: the rules look for defects that the model's files
  carry as records. The AST walkers that find them are pattern matching without
  state.
* **`keys_similar`** is a parameter: it is a comparison of strings.
* **Parsing** of JUnit XML, of stdout and of tracebacks: only which source is
  trusted when, and what a failure then has.
* **What events and reports say**: a sink's exceptions and order are modelled, the
  texts are not, save what a rendering shows of the session.
* The **dashboard** and the reading commands change no state.
* The **local executor's process handling**: a command ends, crashes or is given
  up; the details of killing a process group are the operating system's.

## 6. How the project grew

In this order: the machine and its proofs; confidence; the engine with faults, its
properties and refinements; patch validation; the store; proofs of all of them;
then generator and applier, ingest and investigator; then the proofs of the
applier, of the outcome with the refinement of `Investigation`, of the record, and
of what validation and store return; then the proofs of the investigator, with the
lemmas about lists, of cautious providers, of the way from a proposal to the files, and
of the templates.

What could follow: an executor with processes that outlive their time-out across
two working copies, and an abstract specification of the applier (a diff is
applied whole or not at all) that the written files refine step by step.
