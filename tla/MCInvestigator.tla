--------------------------- MODULE MCInvestigator ----------------------------
(* A small instance of Investigator: a package of two modules, a module       *)
(* beside it that shares a name with one of them, and two test modules.       *)
EXTENDS Investigator

MC_Similar(a, b) == a = "username" /\ b = "user_name"

Pkg  == <<"pkg">>
A    == <<"pkg", "a">>
B    == <<"pkg", "b">>
TopB == <<"b">>
T1   == <<"tests", "test_a">>
T2   == <<"tests", "test_b">>

Import(level, base, names) == [level |-> level, base |-> base, names |-> names]

Source(name, init, imports, defects) ==
  [name |-> name, init |-> init, test |-> FALSE, parses |-> TRUE, framework |-> "none",
   imports |-> imports, defects |-> defects]
Test(name, framework, imports) ==
  [Source(name, FALSE, imports, {}) EXCEPT !.test = TRUE, !.framework = framework]

Default(line)  == [category |-> "mutable_default_argument", line |-> line, key |-> ""]
Attr(line, name) == [category |-> "shared_mutable_class_attr", line |-> line, key |-> name]
Producer(line) == [category |-> "producer", line |-> line, key |-> "username"]

Frame(name, init, line, inRepo) ==
  [name |-> name, init |-> init, line |-> line, in_repo |-> inRepo]
Failure(head, isPath, frames, key) ==
  [head |-> head, isPath |-> isPath, frames |-> frames, keyError |-> key # "", key |-> key]

Repo(files) == [files |-> files, packageJson |-> FALSE, configured |-> FALSE]

Lists(S) == {<<>>} \union {<<a>> : a \in S} \union {<<a, b>> : a, b \in S}

-----------------------------------------------------------------------------
(* Every way the modules may import one another, one defect.                  *)
PkgImports  == {{}, {Import(1, <<"b">>, {"f"})}, {Import(0, B, {"f"})}, {Import(0, TopB, {})}}
AImports    == {{}, {Import(1, <<>>, {"b"})}, {Import(1, <<"b">>, {"f"})}, {Import(2, TopB, {})}}
BImports    == {{}, {Import(0, A, {})}}
TestImports == {{Import(0, A, {})}, {Import(0, Pkg, {"a"})}, {Import(0, Pkg, {"f"})}}
TopFiles    == {{}, {Source(TopB, FALSE, {}, {Default(1)})}}

ImportRepos ==
  {Repo({Source(Pkg, TRUE, p, {}), Source(A, FALSE, a, {}), Source(B, FALSE, b, {Default(1)}),
         Test(T1, "pytest", t)} \union top) :
     p \in PkgImports, a \in AImports, b \in BImports, t \in TestImports, top \in TopFiles}

ImportCases ==
  {[repo |-> r, suite |-> <<Failure(T1, FALSE, frames, "")>>] :
     r \in ImportRepos,
     frames \in {<<>>, <<Frame(T1, FALSE, 2, TRUE)>>,
                 <<Frame(T1, FALSE, 2, TRUE), Frame(B, FALSE, 1, TRUE), Frame(<<"other">>, FALSE, 1, FALSE)>>}}

-----------------------------------------------------------------------------
(* Every small set of defects in two modules, every pair of failures.         *)
DefectSets == {{}, {Default(1)}, {Attr(1, "age")}, {Producer(2)},
               {Default(1), Attr(2, "age"), Attr(2, "username")},
               {Default(1), Default(2), Producer(1)}}

DefectRepos ==
  {Repo({Source(A, FALSE, {Import(1, <<>>, {"b"})}, a), Source(B, FALSE, {}, b),
         Test(T1, "none", {Import(0, A, {})}), Test(T2, "none", {Import(0, B, {})})}) :
     a \in DefectSets, b \in DefectSets}

ManyFailures ==
  {Failure(head, FALSE, frames, key) :
     head \in {T1, Append(T2, "Case"), <<"other">>},
     frames \in {<<>>, <<Frame(T1, FALSE, 2, TRUE), Frame(A, FALSE, 1, TRUE)>>},
     key \in {"", "user_name"}}
  \union {Failure(T1, TRUE, <<Frame(B, FALSE, 2, TRUE), Frame(A, FALSE, 1, TRUE)>>, ""),
          Failure(T2, FALSE, <<Frame(T2, FALSE, 1, TRUE)>>, "age")}

DefectCases == {[repo |-> r, suite |-> s] : r \in DefectRepos, s \in Lists(ManyFailures)}

-----------------------------------------------------------------------------
(* Other ecosystems, other test frameworks, a file that does not parse, and a *)
(* module beside a package of its name.                                       *)
OddRepos ==
  {[files |-> {}, packageJson |-> json, configured |-> FALSE] : json \in BOOLEAN}
  \union {[files |-> {Source(A, FALSE, {}, {})} \union t, packageJson |-> TRUE, configured |-> c] :
            c \in BOOLEAN,
            t \in {{}, {Test(T1, "unittest", {Import(0, A, {})})},
                   {Test(T1, "unittest", {}), Test(T2, "pytest", {Import(0, A, {})})}}}
  \union {Repo({[Source(A, FALSE, {}, {}) EXCEPT !.parses = FALSE],
                Test(T1, "none", {Import(0, A, {})})}),
          Repo({Source(Pkg, TRUE, {}, {Default(1)}), Source(Pkg, FALSE, {}, {}),
                Test(T1, "none", {Import(0, Pkg, {})})})}

OddCases == {[repo |-> r, suite |-> s] :
               r \in OddRepos, s \in {<<>>, <<Failure(T1, FALSE, <<Frame(T1, FALSE, 1, TRUE)>>, "")>>}}

MC_Cases == ImportCases \union DefectCases \union OddCases
=============================================================================
