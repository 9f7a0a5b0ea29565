---------------------------- MODULE Investigator -----------------------------
(* DeterministicInvestigator.generate_hypotheses, with the ingest and the     *)
(* test run that feed it: from a repository to the ranked hypotheses that the *)
(* engine verifies.                                                           *)
EXTENDS RepoModel, Confidence, Lists

CONSTANTS
  Cases,          \* bound: repositories, each with what its tests report
  Similar(_, _),  \* keys_similar
  Threshold       \* ROOT_CAUSE_THRESHOLD, in hundredths

(* A place of the repository or, when it is not in it, elsewhere.             *)
Frames == [name: Names, init: BOOLEAN, line: 1 .. MaxLine, in_repo: BOOLEAN]

(* What the parser makes of a failing test: `head` is the dotted form of what *)
(* stands before the `::` of its id, which is a path or a class name.         *)
Failures == [head: Names, isPath: BOOLEAN, frames: Seq(Frames),
             keyError: BOOLEAN, key: Keys \union {""}]

(* A case is a finite repository and the failures of its suite.               *)
ASSUME CasesAssumption ==
  \A case \in Cases :
    /\ case.repo \in Repositories /\ IsFiniteSet(case.repo.files)
    /\ \A f \in case.repo.files : IsFiniteSet(f.defects)
    /\ case.suite \in Seq(Failures)

(* The threshold, 60 in the code, lies between what a rule's prior can be and *)
(* what support makes of the least prior that has an experiment.              *)
ASSUME ThresholdAssumption == Threshold \in 56 .. 88

Categories == {"schema_key_mismatch", "mutable_default_argument",
               "shared_mutable_class_attr", "unlocalized_failure"}

VARIABLES
  pc,
  repo, suite,   \* the repository and what its tests would report
  detection,     \* Detection
  testMap,       \* RepoModel.test_map
  execution,     \* all_green and the failures of the ExecutionResult
  n,             \* the next failure
  drafts,        \* the drafts kept so far
  hypotheses     \* the hypotheses returned

vars == <<pc, repo, suite, detection, testMap, execution, n, drafts, hypotheses>>

Init ==
  /\ pc = "ingest"
  /\ \E case \in Cases : repo = case.repo /\ suite = case.suite
  /\ detection = [language |-> "unknown", framework |-> "unknown"] /\ testMap = <<>>
  /\ execution = [green |-> FALSE, failures |-> <<>>]
  /\ n = 1 /\ drafts = <<>> /\ hypotheses = <<>>

-----------------------------------------------------------------------------
(* detect and build_repo_model; the engine stops where it cannot go on.       *)
Ingest ==
  /\ pc = "ingest"
  /\ detection' = Detect(repo)
  /\ IF Eligible(Detect(repo)) THEN testMap' = TestMap(repo) /\ pc' = "execute"
                                ELSE pc' = "done" /\ UNCHANGED testMap
  /\ UNCHANGED <<repo, suite, execution, n, drafts, hypotheses>>

(* run_pytest with the detected command, to which it appends the place and    *)
(* the form of the JUnit file as pytest is told of them: unittest refuses     *)
(* these arguments, runs nothing and reports nothing.                         *)
Execute ==
  /\ pc = "execute"
  /\ execution' = IF detection.framework = "pytest"
                  THEN [green |-> suite = <<>>, failures |-> suite]
                  ELSE [green |-> FALSE, failures |-> <<>>]
  /\ pc' = IF execution'.green THEN "done" ELSE "inspect"
  /\ UNCHANGED <<repo, suite, detection, testMap, n, drafts, hypotheses>>

-----------------------------------------------------------------------------
MutantTestModule(failure) ==
  LET module == LongestKnown(failure.head, Known(repo))
  IN  IF module = {} THEN DOMAIN testMap ELSE module

(* The module an id's head begins with, if any.                               *)
TestModule(failure) == LongestKnown(failure.head, Known(repo))

InRepo(failure) ==
  Kept(failure.frames, {k \in DOMAIN failure.frames : failure.frames[k].in_repo})

(* deepest_repo_frame, as a set of at most one.                               *)
Deepest(failure) ==
  IF InRepo(failure) = <<>> THEN {} ELSE {Last(InRepo(failure))}

FileOf(place) == [name |-> place.name, init |-> place.init]

(* _touched_modules: those of the frames from the deepest up, then those the  *)
(* test reaches (here in some order), each once.                              *)
Touched(failure) ==
  LET framed == Reverse(InRepo(failure))
      at == [k \in DOMAIN framed |->
              {m \in Modules(repo) : FileOf(m) = FileOf(framed[k]) /\ ~ m.test}]
      first == Kept(at, {k \in DOMAIN at : at[k] # {} /\ \A j \in 1 .. (k - 1) : at[j] # at[k]})
      deep == [k \in DOMAIN first |-> CHOOSE m \in first[k] : TRUE]
      mapped == UNION {testMap[t] : t \in TestModule(failure) \intersect DOMAIN testMap}
  IN  deep \o SetToSeq({m \in Modules(repo) : m.name \in mapped /\ ~ \E k \in DOMAIN deep : deep[k] = m})

(* _pytest_node_id: can the failing test be run alone?                        *)
HasNodeId(failure) == failure.isPath \/ TestModule(failure) # {}

-----------------------------------------------------------------------------
(* A failing test is run alone when it can be.                                *)
IsolationExperiment(failure) == IF HasNodeId(failure) THEN "command" ELSE "none"

(* The rules.  A draft suspects a place; `about` is the failure it is for.    *)
Draft(category, place, prior, experiment, findings) ==
  [category |-> category, name |-> place.name, init |-> place.init, line |-> place.line,
   prior |-> prior, experiment |-> experiment, findings |-> findings, about |-> n]

Place(m, line) == [name |-> m.name, init |-> m.init, line |-> line]

DefectsOf(m, category) == SetToSeq({d \in m.defects : d.category = category})

MutantWeight(here) == IF here THEN 60 ELSE 40
Weight(here) == IF here THEN 55 ELSE 40

(* _rule_mutable_default and _rule_shared_class_attr: a defect in the file    *)
(* where the traceback ends weighs more and has one more finding.             *)
StateRule(failure, category) ==
  LET Of(m) ==
        LET here == \E f \in Deepest(failure) : FileOf(f) = FileOf(m)
        IN  [k \in DOMAIN DefectsOf(m, category) |->
              Draft(category, Place(m, DefectsOf(m, category)[k].line),
                    Weight(here), IsolationExperiment(failure), IF here THEN 2 ELSE 1)]
  IN  FlattenSeq([k \in DOMAIN Touched(failure) |-> Of(Touched(failure)[k])])

(* _find_similar_key_producers                                                *)
Producers(m, missing) ==
  SetToSeq({d \in m.defects : d.category = "producer" /\ Similar(d.key, missing)})

(* _rule_schema_key_mismatch                                                  *)
SchemaRule(failure) ==
  LET producers(m) == Producers(m, failure.key)
      Of(m) == [k \in DOMAIN producers(m) |->
                 Draft("schema_key_mismatch", Place(m, producers(m)[k].line), 45, "script", 1)]
  IN  IF failure.keyError /\ failure.key # ""
        THEN FlattenSeq([k \in DOMAIN Touched(failure) |-> Of(Touched(failure)[k])])
        ELSE <<>>

(* _rule_fallback                                                             *)
Fallback(failure) ==
  IF Deepest(failure) = {} THEN <<>>
  ELSE <<Draft("unlocalized_failure", Last(InRepo(failure)), 20, "none", 1)>>

Produced(failure) ==
  LET found == SchemaRule(failure)
               \o StateRule(failure, "mutable_default_argument")
               \o StateRule(failure, "shared_mutable_class_attr")
  IN  IF found = <<>> THEN Fallback(failure) ELSE found

MutantKey(draft) == <<draft.category, draft.line>>

(* The key drafts are told apart by.                                          *)
Key(draft) == <<draft.category, draft.name, draft.init, draft.line>>

(* Drafts with a new key; the first draft for a key is kept.                  *)
NewDrafts(kept, produced) ==
  Kept(produced,
       {k \in DOMAIN produced :
          /\ \A j \in DOMAIN kept : Key(kept[j]) # Key(produced[k])
          /\ \A j \in 1 .. (k - 1) : Key(produced[j]) # Key(produced[k])})

MutantInspect ==
  /\ pc = "inspect" /\ n <= Len(execution.failures)
  /\ drafts' = drafts \o NewDrafts(drafts, Produced(execution.failures[n]))
  /\ n' = n + 2
  /\ UNCHANGED <<pc, repo, suite, detection, testMap, execution, hypotheses>>

(* One turn of the loop over the failures.                                    *)
Inspect ==
  /\ pc = "inspect" /\ n <= Len(execution.failures)
  /\ drafts' = drafts \o NewDrafts(drafts, Produced(execution.failures[n]))
  /\ n' = n + 1
  /\ UNCHANGED <<pc, repo, suite, detection, testMap, execution, hypotheses>>

(* drafts.sort(key=prior, reverse=True): a stable sort.                       *)
Before(a, b) == \/ drafts[a].prior > drafts[b].prior
                \/ drafts[a].prior = drafts[b].prior /\ a < b

MutantRank ==
  /\ pc = "inspect" /\ n > Len(execution.failures)
  /\ hypotheses' = drafts
  /\ pc' = "done"
  /\ UNCHANGED <<repo, suite, detection, testMap, execution, n, drafts>>

Rank ==
  /\ pc = "inspect" /\ n > Len(execution.failures)
  /\ hypotheses' = LET order == InOrder(DOMAIN drafts, Before)
                   IN  [k \in DOMAIN order |-> drafts[order[k]]]
  /\ pc' = "done"
  /\ UNCHANGED <<repo, suite, detection, testMap, execution, n, drafts>>

Done == pc = "done" /\ UNCHANGED vars

Next == Ingest \/ Execute \/ Inspect \/ Rank \/ Done

Spec == Init /\ [][Next]_vars

-----------------------------------------------------------------------------
Hypothesised == [category: Categories, name: Names, init: BOOLEAN, line: 1 .. MaxLine,
                 prior: Percent, experiment: Shapes, findings: 1 .. 2, about: Nat \ {0}]

TypeOK ==
  /\ pc \in {"ingest", "execute", "inspect", "done"}
  /\ DOMAIN testMap \subseteq Known(repo)
  /\ n \in 1 .. (Len(execution.failures) + 1)
  /\ hypotheses \in Seq(Hypothesised)

(* The test map against what Python runs for a test.  It holds every source   *)
(* module reached through modules that are no package's __init__, and, where  *)
(* the dots that _resolve_import miscounts spell no other module's name,      *)
(* nothing that Python would not run.  (Of what an __init__ is, or imports,   *)
(* it may lack some: ReachedIsMapped.)                                        *)
TestMapBounds ==
  OneFilePerName(repo) =>
    \A t \in DOMAIN testMap :
      /\ ReachedPlainly(repo, t) \subseteq testMap[t] \union DOMAIN testMap
      /\ NoNamesakes(repo) => testMap[t] \subseteq ReachedFrom(repo, t)

(* No two hypotheses are about the same defect at the same place, the best    *)
(* prior comes first, and each speaks of the first failure that suspects its  *)
(* place: its prior, its findings and its experiment are those of that one.   *)
OneHypothesisPerPlace ==
  \A a, b \in DOMAIN hypotheses : a < b =>
    LET g == hypotheses[a]  h == hypotheses[b]
    IN  /\ <<g.category, g.name, g.init, g.line>> # <<h.category, h.name, h.init, h.line>>
        /\ g.prior >= h.prior
        /\ g.prior = h.prior => g.about <= h.about

(* Is the place a hypothesis suspects one that the failure speaks for: its    *)
(* traceback passes through the file, or its test reaches the module?         *)
Implicates(failure, h) ==
  \/ \E k \in DOMAIN failure.frames :
       failure.frames[k].in_repo /\ FileOf(failure.frames[k]) = FileOf(h)
  \/ \E t \in LongestKnown(failure.head, Known(repo)) : h.name \in ReachedFrom(repo, t)

(* Where the test map holds nothing that is not reached.                      *)
PlainNames(r) == OneFilePerName(r) /\ NoNamesakes(r)

(* When the investigator is done, each failure that passes through a file of  *)
(* the repository has a hypothesis about a file it implicates, however its    *)
(* drafts fared against those of other failures, in a repository where        *)
(* miscounted dots lead to no other module.                                   *)
EveryFailureExplained ==
  pc = "done" /\ PlainNames(repo) =>
    \A k \in DOMAIN execution.failures :
      InRepo(execution.failures[k]) # <<>> =>
        \E a \in DOMAIN hypotheses : Implicates(execution.failures[k], hypotheses[a])

(* No innocent file is suspected, in such a repository: each hypothesis is    *)
(* about a file that the failure it was made for implicates.  (Elsewhere a    *)
(* module that only shares a name with one imported may be.)                  *)
SuspectsAreImplicated ==
  PlainNames(repo) =>
    \A a \in DOMAIN hypotheses :
      Implicates(execution.failures[hypotheses[a].about], hypotheses[a])

(* One experiment decides: no hypothesis passes the threshold by its prior,   *)
(* support lifts each one that has an experiment to it, and one contradiction *)
(* rejects it.  What has no experiment can never be selected.                 *)
OneExperimentDecides ==
  \A a \in DOMAIN hypotheses :
    LET h == hypotheses[a]
    IN  /\ h.prior < Threshold
        /\ h.experiment # "none" =>
             /\ Updated(h.prior, "supports") >= Threshold
             /\ StatusAfter(h.prior, "open", "contradicts") = "rejected"
             /\ Updated(h.prior, "contradicts") < Threshold

(* The claim of the module graph: a test is mapped to every source module it  *)
(* transitively reaches.  The packages around what is imported refute it, and *)
(* the relative imports of an __init__.py.                                    *)
ReachedIsMapped ==
  \A t \in DOMAIN testMap : ReachedFrom(repo, t) \subseteq testMap[t] \union DOMAIN testMap
=============================================================================
