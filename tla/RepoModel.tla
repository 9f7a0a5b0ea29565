----------------------------- MODULE RepoModel -------------------------------
(* Repository ingest: the detector (language, test framework, test command),  *)
(* the module graph of the repository's imports, and the map from each test   *)
(* module to the source modules it reaches.                                   *)
(*                                                                            *)
(* A dotted name is the sequence of its parts.  A file is told by the name    *)
(* its path spells and by whether it is an __init__.py.                       *)
EXTENDS Integers, SequencesExt

CONSTANTS
  Parts,   \* the parts of dotted names
  Keys,    \* the dict keys and the attribute names of the sources
  MaxLine  \* bound: the lines a defect or a frame can be on

Names == Seq(Parts)

(* `from <level dots><base> import <names>`; `import <base>` has no names.    *)
Imports == [level: Nat, base: Names, names: SUBSET Parts]

(* What the rules look for: a function with mutable defaults, a mutable       *)
(* class attribute, told by its name, a function that returns a dict with a   *)
(* key.  `a = b = {}` is two attributes on one line.                          *)
Defects == [category: {"mutable_default_argument", "shared_mutable_class_attr", "producer"},
            line: 1 .. MaxLine, key: Keys \union {""}]

Files == [name: Names \ {<<>>}, init: BOOLEAN, test: BOOLEAN, parses: BOOLEAN,
          framework: {"pytest", "unittest", "none"},  \* what its text imports
          imports: SUBSET Imports, defects: SUBSET Defects]

Repositories == [files: SUBSET Files, packageJson: BOOLEAN, configured: BOOLEAN]

-----------------------------------------------------------------------------
(* detect: package managers make no difference to anything.                   *)
TestFramework(repo) ==
  LET tests == {f \in repo.files : f.test}
  IN  CASE repo.configured \/ (\E f \in tests : f.framework = "pytest") -> "pytest"
        [] ~ repo.configured /\ (\A f \in tests : f.framework # "pytest") ->
             IF \E f \in tests : f.framework = "unittest" THEN "unittest"
             ELSE IF tests # {} THEN "pytest" ELSE "unknown"

Detect(repo) ==
  IF repo.files # {} THEN [language |-> "python", framework |-> TestFramework(repo)]
  ELSE [language |-> IF repo.packageJson THEN "javascript" ELSE "unknown",
        framework |-> "unknown"]

(* What the engine goes on with: Python, and some test command.               *)
Eligible(detection) == detection.language = "python" /\ detection.framework # "unknown"

-----------------------------------------------------------------------------
(* model.modules: pkg.py is parsed after pkg/__init__.py and takes its place. *)
Modules(repo) == {f \in repo.files : f.init => ~ \E g \in repo.files : g.name = f.name /\ ~ g.init}
Known(repo) == {f.name : f \in Modules(repo)}

(* The raw imports of a file: the base, and the base with each name.  A file  *)
(* that does not parse has none.                                              *)
RawImports(f) ==
  IF ~ f.parses THEN {}
  ELSE UNION {{[level |-> s.level, name |-> s.base]}
              \union {[level |-> s.level, name |-> Append(s.base, n)] : n \in s.names} :
                s \in f.imports}

(* The longest prefix of a name in a set of names, if any.                    *)
LongestKnown(name, known) ==
  LET cuts == {n \in 1 .. Len(name) : SubSeq(name, 1, n) \in known}
  IN  IF cuts = {} THEN {} ELSE {SubSeq(name, 1, Max(cuts))}

MutantResolveImport(raw, importer, known) ==
  LET cut == Len(importer) - raw.level + 1
      anchor == IF raw.level > 0 /\ cut >= 0 THEN SubSeq(importer, 1, cut) ELSE <<>>
  IN  LongestKnown(anchor \o raw.name, known \ {importer})

(* _resolve_import: a relative import counts its dots from the name of the    *)
(* importing module, that of a package's __init__ included.                   *)
ResolveImport(raw, importer, known) ==
  LET cut == Len(importer) - raw.level
      anchor == IF raw.level > 0 /\ cut >= 0 THEN SubSeq(importer, 1, cut) ELSE <<>>
  IN  LongestKnown(anchor \o raw.name, known \ {importer})

(* build_repo_model: the edges, and for each test module the source modules   *)
(* that can be reached from it.                                               *)
Edges(repo) ==
  UNION {{f.name} \X UNION {ResolveImport(raw, f.name, Known(repo)) : raw \in RawImports(f)} :
           f \in Modules(repo)}

Reachable(edges, from) ==
  LET within[n \in Nat] ==
        IF n = 0 THEN {from}
        ELSE LET near == within[n - 1]
             IN  near \union {e[2] : e \in {d \in edges : d[1] \in near}}
  IN  within[Cardinality(edges)]

TestMap(repo) ==
  LET edges == Edges(repo)
      tests == {f.name : f \in {g \in Modules(repo) : g.test}}
  IN  [t \in tests |-> Reachable(edges, t) \ tests]

-----------------------------------------------------------------------------
(* Python's own reading.  Of a module and a package of one name it takes the  *)
(* package.                                                                   *)
Importable(repo) ==
  {f \in repo.files : ~ f.init => ~ \E g \in repo.files : g.name = f.name /\ g.init}

(* The dots of an import are counted from the package of the importing file,  *)
(* which for an __init__.py is the module itself; an import whose dots leave  *)
(* the top package is an error and names nothing.                             *)
Meant(raw, f) ==
  LET package == IF f.init THEN f.name ELSE Front(f.name)
      cut == Len(package) - (raw.level - 1)
  IN  IF raw.level = 0 THEN raw.name
      ELSE IF cut >= 1 THEN SubSeq(package, 1, cut) \o raw.name ELSE <<>>

(* To import a name is to run the packages around it first, then it.          *)
Around(name) == {SubSeq(name, 1, n) : n \in 1 .. Len(name)}

(* The modules, out of a set of names, that a file and its import statements  *)
(* make Python run.                                                           *)
Executed(f, names) ==
  names \intersect UNION ({Around(f.name)} \union {Around(Meant(raw, f)) : raw \in RawImports(f)})

ReachedFrom(repo, t) ==
  Reachable(UNION {{f.name} \X Executed(f, Known(repo)) : f \in Importable(repo)}, t)

(* What is reached without passing through the __init__ of a package.         *)
PlainEdges(repo) ==
  LET plain == {f \in Modules(repo) : ~ f.init}
  IN  {<<f.name, m.name>> : f \in plain, m \in plain}
        \intersect UNION {{f.name} \X Executed(f, Known(repo)) : f \in plain}

ReachedPlainly(repo, t) == Reachable(PlainEdges(repo), t)

-----------------------------------------------------------------------------
(* No name stands for two files, and nothing lies inside a module that is no  *)
(* package.                                                                   *)
OneFilePerName(repo) ==
  \A f, g \in repo.files : f # g /\ ~ f.init => f.name \notin Around(g.name)

(* What _resolve_import does not count as Python does: dots in an __init__,   *)
(* and dots that leave the top package.                                       *)
Miscounted(raw, f) == raw.level > 0 /\ (f.init \/ raw.level >= Len(f.name))

(* Such an import is lost, or found among the packages around the file, but   *)
(* no other module happens to have the name that the miscounted dots spell.   *)
NoNamesakes(repo) ==
  \A f \in repo.files : \A raw \in RawImports(f) :
    Miscounted(raw, f) => ResolveImport(raw, f.name, Known(repo)) \subseteq Around(f.name)
=============================================================================
