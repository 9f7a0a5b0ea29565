------------------------- MODULE InvestigatorProofs --------------------------
(* The deterministic investigator: its hypotheses are about files that their  *)
(* failures implicate, every failure that touches the repository gets one, no *)
(* place is suspected twice, and one experiment decides: for every repository *)
(* with finitely many files, every suite and every number of failures.        *)
EXTENDS Investigator, ListProofs

(* The test map and Python's reading of the imports.                          *)

(* A raw import has a level and a name.                                       *)
LEMMA RawImportType ==
  ASSUME NEW r \in Repositories, NEW f \in Modules(r), NEW raw \in RawImports(f)
  PROVE  /\ f \in r.files /\ f.name \in Seq(Parts)
         /\ raw.level \in Nat /\ raw.name \in Seq(Parts)
         /\ \E s \in f.imports : raw.level = s.level
<1>1. f \in r.files /\ f \in Files
  BY DEF Modules, Repositories
<1>2. f.name \in Seq(Parts) /\ f.imports \in SUBSET Imports
  BY <1>1 DEF Files, Names
<1>3. PICK s \in f.imports :
        /\ raw.level = s.level
        /\ raw.name = s.base \/ \E p \in s.names : raw.name = Append(s.base, p)
  BY DEF RawImports
<1>4. s.level \in Nat /\ s.base \in Seq(Parts) /\ s.names \in SUBSET Parts
  BY <1>2 DEF Imports, Names
<1>5. ASSUME NEW p \in s.names, raw.name = Append(s.base, p) PROVE raw.name \in Seq(Parts)
  BY <1>4, <1>5, AppendProperties
<1>6. raw.name \in Seq(Parts)
  BY <1>3, <1>4, <1>5
<1> QED
  BY <1>1, <1>2, <1>3, <1>4, <1>6

(* Where the dots are counted as Python counts them, the longest known prefix *)
(* of what is meant is found.                                                 *)
LEMMA CountsAlike ==
  ASSUME NEW r \in Repositories, NEW f \in Modules(r), NEW raw \in RawImports(f),
         ~ Miscounted(raw, f)
  PROVE  /\ ResolveImport(raw, f.name, Known(r)) = LongestKnown(Meant(raw, f), Known(r) \ {f.name})
         /\ Meant(raw, f) \in Names
<1>1. f.name \in Seq(Parts) /\ raw.level \in Nat /\ raw.name \in Seq(Parts)
  BY RawImportType
<1>2. raw.level > 0 => ~ f.init /\ raw.level < Len(f.name)
  BY <1>1, LenProperties DEF Miscounted
<1>3. CASE raw.level = 0
  <2>1. <<>> \o raw.name = raw.name
    BY <1>1, ConcatEmptySeq
  <2> QED BY <1>1, <1>3, <2>1 DEF ResolveImport, Meant, Names
<1>4. CASE raw.level > 0
  <2> DEFINE name == f.name
             cut == Len(name) - raw.level
             package == Front(name)
  <2>1. Len(name) \in Nat /\ cut \in Nat /\ cut >= 1 /\ cut <= Len(name) - 1
    BY <1>1, <1>2, <1>4, LenProperties
  <2>2. package \in Seq(Parts) /\ Len(package) = Len(name) - 1
        /\ \A i \in 1 .. Len(name) - 1 : package[i] = name[i]
    BY <1>1, <2>1, SubSeqProperties DEF Front
  <2>3. SubSeq(package, 1, cut) = SubSeq(name, 1, cut) /\ SubSeq(name, 1, cut) \in Seq(Parts)
    <3>1. \A i \in 1 .. cut : package[i] = name[i]
      BY <2>1, <2>2
    <3>2. SubSeq(package, 1, cut) = [i \in 1 .. cut |-> package[i]]
      BY <2>1, <2>2, SubSeqProperties
    <3>3. SubSeq(name, 1, cut) = [i \in 1 .. cut |-> name[i]] /\ SubSeq(name, 1, cut) \in Seq(Parts)
      BY <1>1, <2>1, SubSeqProperties
    <3> QED BY <3>1, <3>2, <3>3
  <2>4. Len(package) - (raw.level - 1) = cut
    BY <1>1, <2>1, <2>2
  <2>5. Meant(raw, f) = SubSeq(name, 1, cut) \o raw.name
    <3>1. ~ f.init /\ raw.level # 0
      BY <1>1, <1>2, <1>4
    <3>2. Meant(raw, f) = SubSeq(package, 1, cut) \o raw.name
      BY <2>1, <2>4, <3>1 DEF Meant
    <3> QED BY <2>3, <3>2
  <2>6. ResolveImport(raw, name, Known(r))
          = LongestKnown(SubSeq(name, 1, cut) \o raw.name, Known(r) \ {name})
    BY <1>4, <2>1 DEF ResolveImport
  <2>7. SubSeq(name, 1, cut) \o raw.name \in Names
    BY <1>1, <2>3, ConcatProperties DEF Names
  <2> QED BY <2>5, <2>6, <2>7
<1> QED
  BY <1>1, <1>3, <1>4

(* Where no name stands for two files, a module that is no package is told by *)
(* its name.                                                                  *)
LEMMA NamesTellFiles ==
  ASSUME NEW r \in Repositories, OneFilePerName(r),
         NEW f \in r.files, NEW g \in r.files, f.name = g.name, ~ f.init
  PROVE  f = g
<1>1. g.name \in Seq(Parts) /\ Len(g.name) \in Nat /\ Len(g.name) # 0
  <2>1. g.name \in Seq(Parts) \ {<<>>}
    BY DEF Repositories, Files, Names
  <2> QED BY <2>1, EmptySeq, LenProperties
<1>2. SubSeq(g.name, 1, Len(g.name)) = g.name
  BY <1>1, SubSeqFull
<1>3. f.name \in Around(g.name)
  BY <1>1, <1>2 DEF Around
<1> QED
  BY <1>3 DEF OneFilePerName

(* And every file is a module, to Python and to the map.                      *)
LEMMA FilesAreModules ==
  ASSUME NEW r \in Repositories, OneFilePerName(r)
  PROVE  Modules(r) = r.files /\ Importable(r) = r.files
BY NamesTellFiles DEF Modules, Importable

-----------------------------------------------------------------------------
(* Reachability: the iteration stops after as many rounds as there are edges, *)
(* and that is enough.                                                        *)

(* No edge leaves a set.                                                      *)
Closed(S, edges) == \A e \in edges : e[1] \in S => e[2] \in S

(* One round.                                                                 *)
Near(S, edges) == S \union {e[2] : e \in {d \in edges : d[1] \in S}}

WithinIs(g, edges, from) ==
  g = [p \in Nat |-> IF p = 0 THEN {from}
                     ELSE g[p - 1] \union {e[2] : e \in {d \in edges : d[1] \in g[p - 1]}}]

(* The rounds, as a function that exists.                                     *)
Goes(f, edges, from) ==
  /\ f[0] = {from} /\ \A p \in Nat : f[p + 1] = Near(f[p], edges)
  /\ \A p \in Nat : f[p] \subseteq {from} \union {e[2] : e \in edges}
  /\ Cardinality(edges) \in Nat => Reachable(edges, from) = f[Cardinality(edges)]

(* The recursion inside Reachable has that function.                          *)
LEMMA Rounds ==
  ASSUME NEW edges, NEW from
  PROVE  \E f : Goes(f, edges, from)
<1> DEFINE V == {from} \union {e[2] : e \in edges}
           X == SUBSET V
           start == {from}
           step == [p \in Nat |-> [S \in X |-> Near(S, edges)]]
<1>1. start \in X /\ step \in [Nat -> [X -> X]]
  <2>1. \A S \in X : Near(S, edges) \in X
    BY DEF Near
  <2> HIDE DEF X
  <2>2. step \in [Nat -> [X -> X]]
    BY <2>1
  <2> QED BY <2>2 DEF X
<1>2. \A p \in Nat : \A S \in X : step[p][S] = Near(S, edges)
  OBVIOUS
<1> HIDE DEF X, start, step
<1>3. PICK f : Follows(f, X, start, step)
  BY <1>1, Recursion
<1>4. f \in [Nat -> X] /\ f[0] = {from} /\ \A p \in Nat : f[p + 1] = Near(f[p], edges)
  BY <1>2, <1>3 DEF Follows, start
<1>5. WithinIs(f, edges, from)
  <2> DEFINE Round(p) == IF p = 0 THEN {from} ELSE Near(f[p - 1], edges)
  <2>1. \A p \in Nat : f[p] = Round(p)
    <3> TAKE p \in Nat
    <3>1. p # 0 => p - 1 \in Nat /\ (p - 1) + 1 = p
      OBVIOUS
    <3> QED BY <1>4, <3>1
  <2>2. f = [p \in Nat |-> Round(p)]
    <3> HIDE DEF Round
    <3> QED BY <1>4, <2>1
  <2> QED BY <2>2 DEF WithinIs, Near
<1> DEFINE within == CHOOSE g : WithinIs(g, edges, from)
<1>6. WithinIs(within, edges, from)
  BY <1>5, Zenon
<1>7. Reachable(edges, from) = within[Cardinality(edges)]
  BY DEF Reachable, WithinIs
<1> HIDE DEF within
<1>8. within[0] = {from} /\ \A p \in Nat : within[p + 1] = Near(within[p], edges)
  <2> DEFINE Round(p) == IF p = 0 THEN {from} ELSE Near(within[p - 1], edges)
  <2>1. within = [p \in Nat |-> Round(p)]
    BY <1>6 DEF WithinIs, Near
  <2> HIDE DEF Round
  <2>2. \A p \in Nat : within[p] = Round(p)
    BY <2>1
  <2>3. \A p \in Nat : p + 1 \in Nat /\ p + 1 # 0 /\ (p + 1) - 1 = p
    OBVIOUS
  <2>4. \A p \in Nat : Round(p + 1) = Near(within[p], edges)
    BY <2>3 DEF Round
  <2> QED BY <2>2, <2>3, <2>4 DEF Round
<1> DEFINE T == {p \in Nat : within[p] = f[p]}
<1>9. 0 \in T
  BY <1>4, <1>8
<1>10. ASSUME NEW p \in Nat, p \in T PROVE p + 1 \in T
  <2>1. within[p] = f[p]
    BY <1>10
  <2>2. within[p + 1] = Near(within[p], edges) /\ f[p + 1] = Near(f[p], edges)
    BY <1>4, <1>8
  <2> QED BY <2>1, <2>2
<1> HIDE DEF T
<1>11. Nat \subseteq T
  BY <1>9, <1>10, SetInduction
<1>12. \A p \in Nat : within[p] = f[p]
  BY <1>11 DEF T
<1> QED
  BY <1>4, <1>7, <1>12 DEF X, Goes

(* What is reachable is the least set that is closed under the edges and      *)
(* holds the start: build_repo_model's search, whatever the graph.            *)
IsClosure(R, edges, from) ==
  /\ from \in R /\ Closed(R, edges)
  /\ \A S : from \in S /\ Closed(S, edges) => R \subseteq S

(* The search goes on for as many rounds as there are edges, and no more are  *)
(* ever needed: by then it is complete.                                       *)
THEOREM ReachableIsClosure ==
  ASSUME NEW edges, IsFiniteSet(edges), NEW from
  PROVE  IsClosure(Reachable(edges, from), edges, from)
<1> DEFINE N == Cardinality(edges)
           heads == {e[2] : e \in edges}
           V == {from} \union heads
<1>1. N \in Nat
  BY FS_CardinalityType
<1>2. IsFiniteSet(heads) /\ Cardinality(heads) <= N /\ Cardinality(heads) \in Nat
  <2> DEFINE head == [e \in edges |-> e[2]]
  <2>1. head \in Surjection(edges, heads)
    BY DEF Surjection
  <2>2. IsFiniteSet(heads) /\ Cardinality(heads) <= N
    <3> HIDE DEF head, heads
    <3> QED BY <2>1, FS_Surjection DEF ExistsSurjection
  <2> QED BY <2>2, FS_CardinalityType
<1>3. IsFiniteSet(V) /\ Cardinality(V) \in Nat /\ Cardinality(V) <= N + 1
  <2>1. /\ IsFiniteSet(heads \union {from})
        /\ \/ Cardinality(heads \union {from}) = Cardinality(heads)
           \/ Cardinality(heads \union {from}) = Cardinality(heads) + 1
    <3> HIDE DEF heads
    <3> QED BY <1>2, FS_AddElement
  <2>2. V = heads \union {from}
    OBVIOUS
  <2> HIDE DEF V, heads, N
  <2> QED BY <1>1, <1>2, <2>1, <2>2
<1>0. PICK f : Goes(f, edges, from)
  BY Rounds
<1>4. /\ f[0] = {from} /\ \A p \in Nat : f[p + 1] = Near(f[p], edges)
      /\ Reachable(edges, from) = f[N]
  BY <1>1, <1>0 DEF Goes
<1>5. \A p \in Nat : Closed(f[p], edges) => f[p + 1] = f[p]
  <2>1. \A S : Closed(S, edges) => Near(S, edges) = S
    BY DEF Closed, Near
  <2> QED BY <1>4, <2>1
<1>6. Closed(V, edges)
  BY DEF Closed
<1>7. \A p \in Nat : f[p] \subseteq V /\ f[p] \subseteq f[p + 1]
  BY <1>4, <1>0 DEF Near, Goes
<1> HIDE DEF N, heads, V
<1>8. \A S \in SUBSET V : /\ IsFiniteSet(S) /\ Cardinality(S) \in Nat
                          /\ Cardinality(S) <= Cardinality(V)
                          /\ Cardinality(S) = Cardinality(V) => S = V
  BY <1>3, FS_Subset, FS_CardinalityType
<1> DEFINE T == {p \in Nat : /\ from \in f[p]
                             /\ Closed(f[p], edges) \/ Cardinality(f[p]) >= p + 1}
<1>9. 0 \in T
  <2>1. Cardinality({from}) = 1
    BY FS_Singleton
  <2> QED BY <1>4, <2>1
<1>10. ASSUME NEW p \in Nat, p \in T PROVE p + 1 \in T
  <2>1. from \in f[p + 1]
    BY <1>7, <1>10
  <2>2. CASE Closed(f[p], edges)
    BY <1>5, <2>1, <2>2
  <2>3. CASE ~ Closed(f[p], edges)
    <3>1. PICK e \in edges : e[1] \in f[p] /\ e[2] \notin f[p]
      BY <2>3 DEF Closed
    <3>2. e[2] \in f[p + 1]
      BY <1>4, <3>1 DEF Near
    <3> DEFINE more == f[p] \union {e[2]}
    <3>3. more \subseteq f[p + 1] /\ f[p + 1] \subseteq V
      BY <1>7, <3>2
    <3>4. /\ IsFiniteSet(f[p]) /\ IsFiniteSet(f[p + 1])
          /\ Cardinality(f[p]) \in Nat /\ Cardinality(f[p + 1]) \in Nat
      BY <1>7, <1>8
    <3>5. Cardinality(more) = Cardinality(f[p]) + 1
      <4> DEFINE S == f[p]  x == e[2]
      <4>1. IsFiniteSet(S) /\ x \notin S
        BY <3>1, <3>4
      <4> HIDE DEF S, x
      <4>2. Cardinality(S \union {x}) = Cardinality(S) + 1
        BY <4>1, FS_AddElement
      <4> QED BY <4>2 DEF S, x
    <3>6. Cardinality(more) <= Cardinality(f[p + 1])
      BY <3>3, <3>4, FS_Subset
    <3>7. Cardinality(f[p]) >= p + 1
      BY <1>10, <2>3
    <3> HIDE DEF more
    <3>8. Cardinality(f[p + 1]) >= (p + 1) + 1
      BY <3>4, <3>5, <3>6, <3>7
    <3> QED BY <2>1, <3>8
  <2> QED BY <2>2, <2>3
<1> HIDE DEF T
<1>11. Nat \subseteq T
  BY <1>9, <1>10, SetInduction
<1>12. from \in f[N] /\ Closed(f[N], edges)
  <2>1. from \in f[N] /\ (Closed(f[N], edges) \/ Cardinality(f[N]) >= N + 1)
    BY <1>1, <1>11 DEF T
  <2>2. ASSUME Cardinality(f[N]) >= N + 1 PROVE f[N] = V
    <3>1. f[N] \in SUBSET V
      BY <1>1, <1>7
    <3>2. Cardinality(f[N]) = Cardinality(V)
      BY <1>1, <1>3, <1>8, <2>2, <3>1
    <3> QED BY <1>8, <3>1, <3>2
  <2> QED BY <1>6, <2>1, <2>2
<1>13. ASSUME NEW S, from \in S, Closed(S, edges) PROVE f[N] \subseteq S
  <2> DEFINE U == {p \in Nat : f[p] \subseteq S}
  <2>1. 0 \in U
    BY <1>4, <1>13
  <2>2. ASSUME NEW p \in Nat, p \in U PROVE p + 1 \in U
    BY <1>4, <1>13, <2>2 DEF Closed, Near
  <2> HIDE DEF U
  <2>3. Nat \subseteq U
    BY <2>1, <2>2, SetInduction
  <2> QED BY <1>1, <2>3 DEF U
<1> QED
  BY <1>4, <1>12, <1>13 DEF IsClosure

(* The longest known prefix of a name, and that no known prefix is longer.    *)
LEMMA LongestIsKnown ==
  ASSUME NEW name \in Names, NEW known
  PROVE  /\ LongestKnown(name, known) \subseteq known \intersect Around(name)
         /\ \A shorter \in known \intersect Around(name) :
              \E longest \in LongestKnown(name, known) : shorter \in Around(longest)
<1> DEFINE cuts == {p \in 1 .. Len(name) : SubSeq(name, 1, p) \in known}
<1>1. Len(name) \in Nat /\ name \in Seq(Parts)
  BY LenProperties DEF Names
<1>2. CASE cuts = {}
  BY <1>2 DEF LongestKnown, Around
<1>3. CASE cuts # {}
  <2> DEFINE T == {Len(name) - p : p \in cuts}
  <2>1. PICK x \in T : \A y \in T : x <= y
    <3>1. T \in SUBSET Nat /\ T # {}
      BY <1>1, <1>3
    <3> HIDE DEF T
    <3> QED BY <3>1, LeastNumber
  <2>2. PICK p \in cuts : x = Len(name) - p
    OBVIOUS
  <2>3. \A q \in cuts : p >= q
    <3> TAKE q \in cuts
    <3>1. Len(name) - p <= Len(name) - q
      BY <2>1, <2>2
    <3> QED BY <1>1, <3>1
  <2>4. Max(cuts) \in cuts /\ \A q \in cuts : Max(cuts) >= q
    <3> HIDE DEF cuts
    <3> QED BY <2>3, Zenon DEF Max
  <2> DEFINE longest == SubSeq(name, 1, Max(cuts))
  <2>5. LongestKnown(name, known) = {longest}
    BY <1>3 DEF LongestKnown
  <2>6. longest \in known \intersect Around(name)
    BY <2>4 DEF Around
  <2>7. ASSUME NEW shorter \in known \intersect Around(name) PROVE shorter \in Around(longest)
    <3>1. PICK q \in 1 .. Len(name) : shorter = SubSeq(name, 1, q)
      BY DEF Around
    <3>2. q \in cuts
      BY <3>1
    <3> DEFINE m == Max(cuts)
    <3>3. m \in 1 .. Len(name) /\ q <= m
      BY <2>4, <3>2
    <3> HIDE DEF m
    <3>4. /\ SubSeq(name, 1, m) \in Seq(Parts) /\ Len(SubSeq(name, 1, m)) = m
          /\ \A i \in 1 .. m : SubSeq(name, 1, m)[i] = name[i]
      BY <1>1, <3>3, SubSeqProperties
    <3>5. SubSeq(SubSeq(name, 1, m), 1, q) = SubSeq(name, 1, q)
      <4>1. SubSeq(SubSeq(name, 1, m), 1, q) = [i \in 1 .. q |-> SubSeq(name, 1, m)[i]]
        BY <3>1, <3>3, <3>4, SubSeqProperties
      <4>2. SubSeq(name, 1, q) = [i \in 1 .. q |-> name[i]]
        BY <1>1, <3>1, SubSeqProperties
      <4> QED BY <3>3, <3>4, <4>1, <4>2
    <3>6. q \in 1 .. m
      BY <3>1, <3>3
    <3>7. shorter \in Around(SubSeq(name, 1, m))
      BY <3>1, <3>4, <3>5, <3>6 DEF Around
    <3> QED BY <3>7 DEF m
  <2> QED BY <2>5, <2>6, <2>7
<1> QED
  BY <1>2, <1>3

(* A repository of finitely many files has finitely many known names.         *)
LEMMA KnownFinite ==
  ASSUME NEW r \in Repositories, IsFiniteSet(r.files)
  PROVE  IsFiniteSet(Known(r))
<1> DEFINE modules == Modules(r)
           name == [f \in modules |-> f.name]
<1>1. IsFiniteSet(modules)
  BY FS_Subset DEF Modules
<1>2. name \in Surjection(modules, Known(r))
  BY DEF Surjection, Known
<1> HIDE DEF modules, name
<1> QED
  BY <1>1, <1>2, FS_Surjection

(* What an import resolves to is a known module.                              *)
LEMMA ResolvedIsKnown ==
  ASSUME NEW r \in Repositories, NEW f \in Modules(r), NEW raw \in RawImports(f)
  PROVE  ResolveImport(raw, f.name, Known(r)) \subseteq Known(r)
<1>1. f.name \in Seq(Parts) /\ raw.level \in Nat /\ raw.name \in Seq(Parts)
  BY RawImportType
<1> DEFINE cut == Len(f.name) - raw.level
           anchor == IF raw.level > 0 /\ cut >= 0 THEN SubSeq(f.name, 1, cut) ELSE <<>>
<1>2. anchor \in Seq(Parts)
  <2>1. CASE raw.level > 0 /\ cut >= 0
    <3>1. cut \in Nat /\ \A i \in 1 .. cut : f.name[i] \in Parts
      BY <1>1, <2>1, LenProperties
    <3> QED BY <2>1, <3>1, SubSeqProperties
  <2>2. CASE ~ (raw.level > 0 /\ cut >= 0)
    <3>1. anchor = <<>>
      BY <2>2
    <3>2. <<>> \in Seq(Parts)
      OBVIOUS
    <3> QED BY <3>1, <3>2, Zenon
  <2> QED BY <2>1, <2>2
<1> HIDE DEF anchor
<1>3. anchor \o raw.name \in Names
  BY <1>1, <1>2, ConcatProperties DEF Names
<1>4. LongestKnown(anchor \o raw.name, Known(r) \ {f.name}) \subseteq Known(r)
  BY <1>3, LongestIsKnown
<1> QED BY <1>4 DEF ResolveImport, anchor

(* A repository of finitely many files has finitely many edges.               *)
LEMMA EdgesFinite ==
  ASSUME NEW r \in Repositories, IsFiniteSet(r.files)
  PROVE  IsFiniteSet(Edges(r))
<1>1. IsFiniteSet(Known(r))
  BY KnownFinite
<1>2. IsFiniteSet(Known(r) \X Known(r))
  BY <1>1, FS_Product
<1>3. \A f \in Modules(r) : \A raw \in RawImports(f) :
        ResolveImport(raw, f.name, Known(r)) \subseteq Known(r)
  BY ResolvedIsKnown
<1>4. Edges(r) \subseteq Known(r) \X Known(r)
  <2> DEFINE Found(f) == UNION {ResolveImport(raw, f.name, Known(r)) : raw \in RawImports(f)}
  <2>1. \A f \in Modules(r) : Found(f) \subseteq Known(r) /\ f.name \in Known(r)
    BY <1>3 DEF Known
  <2>2. Edges(r) = UNION {{f.name} \X Found(f) : f \in Modules(r)}
    BY DEF Edges
  <2> HIDE DEF Found
  <2> QED BY <2>1, <2>2
<1> QED
  BY <1>2, <1>4, FS_Subset

(* More edges reach more, whether or not modules import themselves.           *)
LEMMA MoreIsReached ==
  ASSUME NEW fewer, IsFiniteSet(fewer), NEW more, IsFiniteSet(more), NEW from,
         \A e \in fewer : e \in more \/ e[1] = e[2]
  PROVE  Reachable(fewer, from) \subseteq Reachable(more, from)
<1> DEFINE R == Reachable(more, from)
<1>1. IsClosure(R, more, from) /\ IsClosure(Reachable(fewer, from), fewer, from)
  BY ReachableIsClosure
<1> HIDE DEF R
<1>2. from \in R /\ Closed(R, fewer)
  BY <1>1 DEF IsClosure, Closed
<1> QED
  BY <1>1, <1>2 DEF IsClosure, R

(* An import that spells no namesake is resolved to what Python runs for it.  *)
LEMMA ResolvedIsExecuted ==
  ASSUME NEW r \in Repositories, OneFilePerName(r), NoNamesakes(r),
         NEW f \in Modules(r), NEW raw \in RawImports(f)
  PROVE  ResolveImport(raw, f.name, Known(r)) \subseteq Executed(f, Known(r))
<1> DEFINE found == ResolveImport(raw, f.name, Known(r))
<1>1. CASE Miscounted(raw, f)
  <2>1. found \subseteq Around(f.name)
    BY <1>1 DEF NoNamesakes, Modules
  <2>2. found \subseteq Known(r)
    BY ResolvedIsKnown
  <2> QED BY <2>1, <2>2 DEF Executed
<1>2. CASE ~ Miscounted(raw, f)
  <2>1. /\ found = LongestKnown(Meant(raw, f), Known(r) \ {f.name})
        /\ Meant(raw, f) \in Names
    BY <1>2, CountsAlike
  <2>2. found \subseteq Known(r) /\ found \subseteq Around(Meant(raw, f))
    BY <2>1, LongestIsKnown
  <2> QED BY <2>2 DEF Executed
<1> QED
  BY <1>1, <1>2

(* What a plain module runs for an import, and is no package's __init__, is   *)
(* what the import is resolved to: nothing lies inside it.                    *)
LEMMA PlainIsResolved ==
  ASSUME NEW r \in Repositories, OneFilePerName(r),
         NEW f \in Modules(r), ~ f.init, NEW m \in Modules(r), ~ m.init,
         m.name \in Executed(f, Known(r)), m.name # f.name
  PROVE  \E raw \in RawImports(f) : m.name \in ResolveImport(raw, f.name, Known(r))
<1>1. f \in r.files /\ m \in r.files
  BY DEF Modules
<1>2. m.name \notin Around(f.name)
  BY <1>1 DEF OneFilePerName
<1>3. PICK raw \in RawImports(f) : m.name \in Around(Meant(raw, f))
  BY <1>2 DEF Executed
<1>4. ~ Miscounted(raw, f)
  <2> SUFFICES ASSUME Miscounted(raw, f) PROVE Around(Meant(raw, f)) = {}
    BY <1>3
  <2>1. f.name \in Seq(Parts) /\ f.name # <<>> /\ Len(f.name) \in Nat /\ raw.level \in Nat
    BY <1>1, RawImportType, LenProperties DEF Repositories, Files
  <2>2. Len(f.name) >= 1
    BY <2>1, EmptySeq
  <2>3. raw.level > 0 /\ raw.level >= Len(f.name)
    BY DEF Miscounted
  <2>4. Len(Front(f.name)) = Len(f.name) - 1
    BY <2>1, <2>2, SubSeqProperties DEF Front
  <2>5. ~ (Len(Front(f.name)) - (raw.level - 1) >= 1) /\ raw.level # 0
    BY <2>1, <2>3, <2>4
  <2>6. Meant(raw, f) = <<>>
    BY <2>5 DEF Meant
  <2> QED BY <2>6 DEF Around
<1>5. /\ ResolveImport(raw, f.name, Known(r)) = LongestKnown(Meant(raw, f), Known(r) \ {f.name})
      /\ Meant(raw, f) \in Names
  BY <1>4, CountsAlike
<1>6. m.name \in Known(r) \ {f.name}
  BY DEF Known
<1>7. PICK longest \in LongestKnown(Meant(raw, f), Known(r) \ {f.name}) : m.name \in Around(longest)
  BY <1>3, <1>5, <1>6, LongestIsKnown
<1>8. PICK g \in Modules(r) : g.name = longest
  <2>1. longest \in Known(r)
    BY <1>5, <1>7, LongestIsKnown
  <2> QED BY <2>1 DEF Known
<1>9. m = g
  BY <1>1, <1>7, <1>8 DEF OneFilePerName, Modules
<1> QED
  BY <1>5, <1>7, <1>8, <1>9

(* So the module graph lies between the two graphs of what Python runs.       *)
LEMMA GraphBounds ==
  ASSUME NEW r \in Repositories, IsFiniteSet(r.files), OneFilePerName(r), NEW t
  PROVE  /\ ReachedPlainly(r, t) \subseteq Reachable(Edges(r), t)
         /\ NoNamesakes(r) => Reachable(Edges(r), t) \subseteq ReachedFrom(r, t)
<1> DEFINE Found(f) == UNION {ResolveImport(raw, f.name, Known(r)) : raw \in RawImports(f)}
           runs == UNION {{f.name} \X Executed(f, Known(r)) : f \in Importable(r)}
           K == Known(r)
<1>1. /\ Edges(r) = UNION {{f.name} \X Found(f) : f \in Modules(r)}
      /\ ReachedFrom(r, t) = Reachable(runs, t)
      /\ ReachedPlainly(r, t) = Reachable(PlainEdges(r), t)
  BY DEF Edges, ReachedFrom, ReachedPlainly
<1>2. IsFiniteSet(Edges(r)) /\ IsFiniteSet(K \X K)
  BY EdgesFinite, KnownFinite, FS_Product
<1>3. IsFiniteSet(PlainEdges(r))
  <2>1. PlainEdges(r) \subseteq K \X K
    BY DEF PlainEdges, Known
  <2> QED BY <1>2, <2>1, FS_Subset
<1>4. IsFiniteSet(runs)
  <2>1. \A f \in Importable(r) : f.name \in K /\ Executed(f, K) \subseteq K
    BY FilesAreModules DEF Known, Executed
  <2>2. runs \subseteq K \X K
    <3> HIDE DEF K
    <3> QED BY <2>1 DEF K
  <2> HIDE DEF runs
  <2> QED BY <1>2, <2>2, FS_Subset
<1>5. \A e \in PlainEdges(r) : e \in Edges(r) \/ e[1] = e[2]
  <2> SUFFICES ASSUME NEW e \in PlainEdges(r), e[1] # e[2] PROVE e \in Edges(r)
    OBVIOUS
  <2>1. PICK f \in Modules(r), m \in Modules(r) : e = <<f.name, m.name>> /\ ~ f.init /\ ~ m.init
    BY DEF PlainEdges
  <2>2. m.name \in Executed(f, K)
    <3>1. PICK g \in Modules(r) : ~ g.init /\ e \in {g.name} \X Executed(g, K)
      BY DEF PlainEdges
    <3>2. g.name = f.name /\ m.name \in Executed(g, K)
      BY <2>1, <3>1
    <3>3. g = f
      BY <2>1, <3>1, <3>2, NamesTellFiles DEF Modules
    <3> QED BY <3>2, <3>3
  <2>3. m.name \in Found(f)
    BY <2>1, <2>2, PlainIsResolved
  <2> HIDE DEF Found
  <2> QED BY <1>1, <2>1, <2>3
<1>6. ASSUME NoNamesakes(r) PROVE \A e \in Edges(r) : e \in runs
  <2>1. \A f \in Modules(r) : Found(f) \subseteq Executed(f, Known(r))
    BY <1>6, ResolvedIsExecuted
  <2>2. Modules(r) = Importable(r)
    BY FilesAreModules
  <2> HIDE DEF Found
  <2> QED BY <1>1, <2>1, <2>2
<1> HIDE DEF runs
<1>7. Reachable(PlainEdges(r), t) \subseteq Reachable(Edges(r), t)
  BY <1>2, <1>3, <1>5, MoreIsReached
<1>8. NoNamesakes(r) => Reachable(Edges(r), t) \subseteq Reachable(runs, t)
  BY <1>2, <1>4, <1>6, MoreIsReached
<1> QED
  BY <1>1, <1>7, <1>8

(* And the test map between what each test reaches plainly and all it runs.   *)
LEMMA TestMapReaches ==
  ASSUME NEW r \in Repositories, IsFiniteSet(r.files)
  PROVE  /\ DOMAIN TestMap(r) \subseteq Known(r)
         /\ OneFilePerName(r) =>
              \A t \in DOMAIN TestMap(r) :
                /\ ReachedPlainly(r, t) \subseteq TestMap(r)[t] \union DOMAIN TestMap(r)
                /\ NoNamesakes(r) => TestMap(r)[t] \subseteq ReachedFrom(r, t)
<1> DEFINE tests == {f.name : f \in {g \in Modules(r) : g.test}}
<1>1. TestMap(r) = [t \in tests |-> Reachable(Edges(r), t) \ tests]
  BY DEF TestMap
<1>2. tests \subseteq Known(r)
  BY DEF Known
<1> HIDE DEF tests
<1>3. ASSUME OneFilePerName(r), NEW t \in tests
      PROVE  /\ ReachedPlainly(r, t) \subseteq TestMap(r)[t] \union tests
             /\ NoNamesakes(r) => TestMap(r)[t] \subseteq ReachedFrom(r, t)
  BY <1>1, <1>3, GraphBounds
<1> QED
  BY <1>1, <1>2, <1>3

-----------------------------------------------------------------------------
(* What the rules make of a failure.                                          *)

(* What is given: a finite repository and the failures of its suite.          *)
Given ==
  /\ repo \in Repositories /\ IsFiniteSet(repo.files)
  /\ \A f \in repo.files : IsFiniteSet(f.defects)
  /\ suite \in Seq(Failures)

(* The frames of a failure that are in the repository.                        *)
OwnFrames(failure) ==
  {f \in Frames : f.in_repo /\ \E k \in DOMAIN failure.frames : failure.frames[k] = f}

(* InRepo keeps exactly those.                                                *)
LEMMA InRepoType ==
  ASSUME NEW failure \in Failures
  PROVE  InRepo(failure) \in Seq(OwnFrames(failure))
<1> DEFINE list == failure.frames
           places == {k \in DOMAIN list : list[k].in_repo}
           kept == Kept(list, places)
<1>1. list \in Seq(Frames)
  BY DEF Failures
<1>2. DOMAIN list = 1 .. Len(list) /\ Len(list) \in Nat /\ \A k \in DOMAIN list : list[k] \in Frames
  BY <1>1, LenProperties
<1>3. \A k \in places : list[k] \in OwnFrames(failure)
  BY <1>2 DEF OwnFrames
<1>4. places \subseteq DOMAIN list
  OBVIOUS
<1> HIDE DEF places, list
<1>5. /\ kept \in Seq(Frames)
      /\ \E at \in [DOMAIN kept -> places] : \A k \in DOMAIN at : kept[k] = list[at[k]]
  BY <1>1, <1>4, KeptElements
<1> HIDE DEF kept
<1>6. \A k \in DOMAIN kept : kept[k] \in OwnFrames(failure)
  BY <1>3, <1>5
<1>7. kept \in Seq(OwnFrames(failure))
  <2>1. /\ DOMAIN kept = 1 .. Len(kept) /\ Len(kept) \in Nat
        /\ kept = [k \in 1 .. Len(kept) |-> kept[k]]
    BY <1>5, LenProperties
  <2> QED BY <1>6, <2>1
<1> QED
  BY <1>7 DEF InRepo, kept, places, list

(* The modules that the test of a failure reaches, and what names a defect.   *)
ReachedBy(r, failure) ==
  {m \in Modules(r) : \E t \in LongestKnown(failure.head, Known(r)) \intersect DOMAIN TestMap(r) :
                        m.name \in TestMap(r)[t]}

DefectKey(m, d) == <<d.category, m.name, m.init, d.line>>

(* The modules a failure implicates, where the test map is right.             *)
Suspects(failure) ==
  {m \in Modules(repo) : PlainNames(repo) => Implicates(failure, m)}

(* The touched modules are implicated, and all a test reaches are touched.    *)
LEMMA TouchedSuspects ==
  ASSUME Given, testMap = TestMap(repo), NEW failure \in Failures
  PROVE  /\ Touched(failure) \in Seq(Suspects(failure))
         /\ \A m \in ReachedBy(repo, failure) :
              \E k \in DOMAIN Touched(failure) : Touched(failure)[k] = m
<1> DEFINE framed == Reverse(InRepo(failure))
           at == [k \in DOMAIN framed |->
                   {m \in Modules(repo) : FileOf(m) = FileOf(framed[k]) /\ ~ m.test}]
           places == {k \in DOMAIN at : at[k] # {} /\ \A j \in 1 .. (k - 1) : at[j] # at[k]}
           first == Kept(at, places)
           deep == [k \in DOMAIN first |-> CHOOSE m \in first[k] : TRUE]
           mapped == UNION {testMap[t] : t \in TestModule(failure) \intersect DOMAIN testMap}
           rest == {m \in Modules(repo) : m.name \in mapped /\ ~ \E k \in DOMAIN deep : deep[k] = m}
           Own == OwnFrames(failure)
           Sus == Suspects(failure)
<1>1. InRepo(failure) \in Seq(Own)
  BY InRepoType
<1>2. framed \in Seq(Own)
  <2> DEFINE list == InRepo(failure)
  <2>1. list \in Seq(Own) /\ Len(list) \in Nat /\ DOMAIN list = 1 .. Len(list)
    BY <1>1, LenProperties
  <2> HIDE DEF list, Own
  <2>2. \A k \in 1 .. Len(list) : list[(Len(list) - k) + 1] \in Own
    BY <2>1
  <2>3. framed = [k \in 1 .. Len(list) |-> list[(Len(list) - k) + 1]]
    BY DEF Reverse, list
  <2> HIDE DEF framed
  <2> QED BY <2>1, <2>2, <2>3
<1>3. \A k \in DOMAIN framed : framed[k] \in Own
  BY <1>2
<1>4. \A f \in Own, m \in Modules(repo) : FileOf(m) = FileOf(f) => m \in Sus
  BY DEF OwnFrames, Suspects, Implicates
<1>5. at \in Seq(SUBSET Sus)
  <2>1. \A k \in DOMAIN framed : at[k] \in SUBSET Sus
    BY <1>3, <1>4
  <2>2. DOMAIN framed = 1 .. Len(framed) /\ Len(framed) \in Nat
    BY <1>2, LenProperties
  <2> QED BY <2>1, <2>2
<1>6. /\ first \in Seq(SUBSET Sus)
      /\ \A k \in DOMAIN first : first[k] # {}
  <2>1. places \subseteq DOMAIN at
    OBVIOUS
  <2>2. \A k \in places : at[k] # {}
    OBVIOUS
  <2> HIDE DEF at, places, Sus
  <2> QED BY <1>5, <2>1, <2>2, KeptElements
<1>7. deep \in Seq(Sus)
  <2> HIDE DEF first, Sus
  <2>1. \A k \in DOMAIN first : deep[k] \in Sus
    BY <1>6
  <2>2. DOMAIN first = 1 .. Len(first) /\ Len(first) \in Nat
    BY <1>6, LenProperties
  <2> QED BY <2>1, <2>2
<1>8. rest \subseteq Sus
  <2> SUFFICES ASSUME NEW m \in rest, PlainNames(repo) PROVE Implicates(failure, m)
    BY DEF Suspects
  <2>1. PICK t \in LongestKnown(failure.head, Known(repo)) \intersect DOMAIN testMap :
               m.name \in testMap[t]
    BY DEF TestModule
  <2>2. m.name \in ReachedFrom(repo, t)
    BY <2>1, TestMapReaches DEF Given, PlainNames
  <2> QED BY <2>1, <2>2 DEF Implicates
<1>9. /\ SetToSeq(rest) \in Seq(Sus)
      /\ \A m \in rest : \E k \in DOMAIN SetToSeq(rest) : SetToSeq(rest)[k] = m
  <2>1. IsFiniteSet(rest)
    <3>1. rest \subseteq repo.files
      BY DEF Modules
    <3> QED BY <3>1, FS_Subset DEF Given
  <2> HIDE DEF rest, Sus
  <2>2. /\ SetToSeq(rest) \in Seq(rest)
        /\ \A m \in rest : \E k \in DOMAIN SetToSeq(rest) : SetToSeq(rest)[k] = m
    BY <2>1, SetToSeqElements
  <2> QED BY <1>8, <2>2
<1>10. Touched(failure) = deep \o SetToSeq(rest)
  BY DEF Touched
<1>11. \A m \in ReachedBy(repo, failure) : m \in rest \/ \E k \in DOMAIN deep : deep[k] = m
  BY DEF ReachedBy, TestModule
<1> HIDE DEF deep, rest, Sus
<1>12. deep \o SetToSeq(rest) \in Seq(Sus)
  BY <1>7, <1>9, ConcatProperties
<1>13. ASSUME NEW m \in ReachedBy(repo, failure)
       PROVE  \E k \in DOMAIN Touched(failure) : Touched(failure)[k] = m
  <2> DEFINE tail == SetToSeq(rest)
             all == deep \o tail
  <2>1. \/ \E k \in DOMAIN tail : tail[k] = m
        \/ \E k \in DOMAIN deep : deep[k] = m
    BY <1>9, <1>11
  <2>2. /\ \A k \in DOMAIN deep : k \in DOMAIN all /\ all[k] = deep[k]
        /\ \A k \in DOMAIN tail : Len(deep) + k \in DOMAIN all /\ all[Len(deep) + k] = tail[k]
    BY <1>7, <1>9, ConcatElements
  <2> HIDE DEF tail, all
  <2>3. \E k \in DOMAIN all : all[k] = m
    BY <2>1, <2>2
  <2> QED BY <1>10, <2>3 DEF all, tail
<1> QED
  BY <1>10, <1>12, <1>13 DEF Sus

(* The drafts a failure can be given now: about it, and about a place that it *)
(* implicates.  Only a fallback has a prior of 20, and it has no experiment.  *)
Drafted ==
  {d \in [category: Categories, name: Names, init: BOOLEAN, line: 1 .. MaxLine,
          prior: {20, 40, 45, 55}, experiment: {"none", "command", "script"},
          findings: 1 .. 2, about: Nat \ {0}] :
     d.prior = 20 => d.experiment = "none"}

DraftsFor(failure) ==
  {d \in Drafted : d.about = n /\ (PlainNames(repo) => Implicates(failure, d))}

(* A defect of a suspected module makes such a draft.                         *)
LEMMA DefectDraft ==
  ASSUME Given, n \in Nat \ {0}, NEW failure \in Failures, NEW m \in Suspects(failure),
         NEW d \in m.defects,
         NEW category \in Categories, NEW prior \in {40, 45, 55},
         NEW experiment \in {"none", "command", "script"}, NEW findings \in 1 .. 2
  PROVE  Draft(category, Place(m, d.line), prior, experiment, findings) \in DraftsFor(failure)
<1> DEFINE draft == Draft(category, Place(m, d.line), prior, experiment, findings)
<1>1. m \in Files
  BY DEF Suspects, Modules, Given, Repositories
<1>2. m.name \in Names /\ m.init \in BOOLEAN /\ d.line \in 1 .. MaxLine
  BY <1>1 DEF Files, Defects
<1>3. draft \in Drafted
  BY <1>2 DEF Draft, Place, Drafted
<1>4. draft.name = m.name /\ draft.init = m.init /\ draft.about = n
  BY DEF Draft, Place
<1>5. PlainNames(repo) => Implicates(failure, draft)
  BY <1>4 DEF Suspects, Implicates, FileOf
<1> QED
  BY <1>3, <1>4, <1>5 DEF DraftsFor

(* The elements of a module's list of defects.                                *)
LEMMA DefectLists ==
  ASSUME Given, NEW m \in Modules(repo), NEW D, D \subseteq m.defects
  PROVE  /\ SetToSeq(D) \in Seq(m.defects)
         /\ \A d \in D : \E k \in DOMAIN SetToSeq(D) : SetToSeq(D)[k] = d
<1>1. IsFiniteSet(D)
  BY FS_Subset DEF Given, Modules
<1>2. SetToSeq(D) \in Seq(D) /\ \A d \in D : \E k \in DOMAIN SetToSeq(D) : SetToSeq(D)[k] = d
  BY <1>1, SetToSeqElements
<1> QED
  BY <1>2

(* A list that holds what each of some lists holds.                           *)
Includes(flat, lists, at) ==
  \A i \in at : \A j \in DOMAIN lists[i] : \E k \in DOMAIN flat : flat[k] = lists[i][j]

(* A list made of one list for each touched module.                           *)
LEMMA PerModule ==
  ASSUME Given, testMap = TestMap(repo), NEW failure \in Failures, NEW S, NEW made,
         made = [k \in DOMAIN Touched(failure) |-> made[k]],
         \A k \in DOMAIN Touched(failure) :
           Touched(failure)[k] \in Suspects(failure) => made[k] \in Seq(S)
  PROVE  /\ FlattenSeq(made) \in Seq(S)
         /\ Includes(FlattenSeq(made), made, DOMAIN Touched(failure))
<1> DEFINE touched == Touched(failure)
           X == Seq(S)
<1>1. touched \in Seq(Suspects(failure))
  BY TouchedSuspects
<1>2. DOMAIN touched = 1 .. Len(touched) /\ Len(touched) \in Nat
  BY <1>1, LenProperties
<1>3. \A k \in DOMAIN touched : touched[k] \in Suspects(failure)
  BY <1>1
<1>4. \A k \in DOMAIN touched : made[k] \in X
  BY <1>3
<1> HIDE DEF touched, X
<1>5. made \in Seq(X) /\ Len(made) = Len(touched)
  <2>1. made = [k \in 1 .. Len(touched) |-> made[k]]
    BY <1>2 DEF touched
  <2> QED BY <1>2, <1>4, <2>1
<1>6. FlattenSeq(made) \in Seq(S) /\ MadeOf(FlattenSeq(made), made, Len(made))
  BY <1>5, FlattenElements DEF X
<1> QED
  BY <1>2, <1>5, <1>6 DEF MadeOf, Includes, touched

(* The rules of shared state draft only what may be drafted, and miss no      *)
(* defect of a module the test reaches.                                       *)
LEMMA StateRuleType ==
  ASSUME Given, testMap = TestMap(repo), n \in Nat \ {0}, NEW failure \in Failures,
         NEW category \in Categories
  PROVE  /\ StateRule(failure, category) \in Seq(DraftsFor(failure))
         /\ \A m \in ReachedBy(repo, failure) : \A d \in m.defects : d.category = category =>
              \E k \in DOMAIN StateRule(failure, category) :
                Key(StateRule(failure, category)[k]) = DefectKey(m, d)
<1> DEFINE here(m) == \E f \in Deepest(failure) : FileOf(f) = FileOf(m)
           list(m) == DefectsOf(m, category)
           D(m, k) == Draft(category, Place(m, list(m)[k].line), Weight(here(m)),
                            IsolationExperiment(failure), IF here(m) THEN 2 ELSE 1)
           Of(m) == [k \in DOMAIN list(m) |-> D(m, k)]
           Possible == DraftsFor(failure)
<1>1. /\ \A m \in Suspects(failure) : list(m) \in Seq(m.defects)
      /\ \A m \in Suspects(failure) : \A d \in m.defects :
           d.category = category => \E k \in DOMAIN list(m) : list(m)[k] = d
  <2> SUFFICES ASSUME NEW m \in Suspects(failure)
               PROVE  /\ list(m) \in Seq(m.defects)
                      /\ \A d \in m.defects :
                            d.category = category => \E k \in DOMAIN list(m) : list(m)[k] = d
    OBVIOUS
  <2>1. m \in Modules(repo) /\ {d \in m.defects : d.category = category} \subseteq m.defects
    BY DEF Suspects
  <2> QED BY <2>1, DefectLists DEF DefectsOf
<1>2. ASSUME NEW m \in Suspects(failure)
      PROVE  /\ Of(m) \in Seq(Possible)
             /\ \A d \in m.defects : d.category = category =>
                  \E k \in DOMAIN Of(m) : Key(Of(m)[k]) = DefectKey(m, d)
  <2>1. list(m) \in Seq(m.defects) /\ DOMAIN list(m) = 1 .. Len(list(m)) /\ Len(list(m)) \in Nat
    BY <1>1, LenProperties
  <2>2. ASSUME NEW k \in DOMAIN list(m) PROVE D(m, k) \in Possible
    <3>1. list(m)[k] \in m.defects
      BY <2>1
    <3>2. Weight(here(m)) \in {40, 45, 55} /\ (IF here(m) THEN 2 ELSE 1) \in 1 .. 2
      BY DEF Weight
    <3>3. IsolationExperiment(failure) \in {"none", "command", "script"}
      BY DEF IsolationExperiment
    <3> HIDE DEF list, here
    <3> QED BY <3>1, <3>2, <3>3, DefectDraft
  <2>3. ASSUME NEW d \in m.defects, d.category = category, NEW k \in DOMAIN list(m), list(m)[k] = d
        PROVE  Key(D(m, k)) = DefectKey(m, d)
    <3> HIDE DEF list, here
    <3> QED BY <2>3 DEF Key, Draft, Place, DefectKey
  <2> HIDE DEF D, list, Possible
  <2>4. Of(m) \in Seq(Possible)
    BY <2>1, <2>2
  <2>5. ASSUME NEW d \in m.defects, d.category = category
        PROVE  \E k \in DOMAIN Of(m) : Key(Of(m)[k]) = DefectKey(m, d)
    <3>1. PICK k \in DOMAIN list(m) : list(m)[k] = d
      BY <1>1, <2>5
    <3> QED BY <2>3, <2>5, <3>1
  <2> QED BY <2>4, <2>5
<1> DEFINE made == [k \in DOMAIN Touched(failure) |-> Of(Touched(failure)[k])]
<1>3. StateRule(failure, category) = FlattenSeq(made)
  BY DEF StateRule
<1> HIDE DEF Of, Possible
<1>4. \A k \in DOMAIN Touched(failure) :
        Touched(failure)[k] \in Suspects(failure) => made[k] \in Seq(Possible)
  BY <1>2
<1>5. made = [k \in DOMAIN Touched(failure) |-> made[k]]
  OBVIOUS
<1>6. ASSUME NEW m \in ReachedBy(repo, failure)
      PROVE  m \in Suspects(failure) /\ \E i \in DOMAIN Touched(failure) : made[i] = Of(m)
  <2>1. PICK i \in DOMAIN Touched(failure) : Touched(failure)[i] = m
    BY TouchedSuspects
  <2>2. Touched(failure) \in Seq(Suspects(failure))
    BY TouchedSuspects
  <2> QED BY <2>1, <2>2
<1> HIDE DEF made
<1>7. /\ FlattenSeq(made) \in Seq(Possible)
      /\ Includes(FlattenSeq(made), made, DOMAIN Touched(failure))
  BY <1>4, <1>5, PerModule
<1>8. ASSUME NEW m \in ReachedBy(repo, failure), NEW d \in m.defects, d.category = category
      PROVE  \E k \in DOMAIN FlattenSeq(made) : Key(FlattenSeq(made)[k]) = DefectKey(m, d)
  <2>1. PICK i \in DOMAIN Touched(failure) : made[i] = Of(m)
    BY <1>6
  <2>2. PICK j \in DOMAIN made[i] : Key(made[i][j]) = DefectKey(m, d)
    BY <1>2, <1>6, <1>8, <2>1
  <2> QED BY <1>7, <2>2 DEF Includes
<1> QED
  BY <1>3, <1>7, <1>8 DEF Possible

(* The rule of missing keys drafts only what may be drafted.                  *)
LEMMA SchemaRuleType ==
  ASSUME Given, testMap = TestMap(repo), n \in Nat \ {0}, NEW failure \in Failures
  PROVE  SchemaRule(failure) \in Seq(DraftsFor(failure))
<1> DEFINE list(m) == Producers(m, failure.key)
           D(m, k) == Draft("schema_key_mismatch", Place(m, list(m)[k].line), 45, "script", 1)
           Of(m) == [k \in DOMAIN list(m) |-> D(m, k)]
           Possible == DraftsFor(failure)
<1>1. \A m \in Suspects(failure) : list(m) \in Seq(m.defects)
  <2> SUFFICES ASSUME NEW m \in Suspects(failure) PROVE list(m) \in Seq(m.defects)
    OBVIOUS
  <2>1. /\ m \in Modules(repo)
        /\ {d \in m.defects : d.category = "producer" /\ Similar(d.key, failure.key)}
             \subseteq m.defects
    BY DEF Suspects
  <2> QED BY <2>1, DefectLists DEF Producers
<1>2. ASSUME NEW m \in Suspects(failure) PROVE Of(m) \in Seq(Possible)
  <2>1. list(m) \in Seq(m.defects) /\ DOMAIN list(m) = 1 .. Len(list(m)) /\ Len(list(m)) \in Nat
    BY <1>1, LenProperties
  <2>2. ASSUME NEW k \in DOMAIN list(m) PROVE D(m, k) \in Possible
    <3>1. list(m)[k] \in m.defects
      BY <2>1
    <3>2. "schema_key_mismatch" \in Categories /\ 1 \in 1 .. 2
      BY DEF Categories
    <3> HIDE DEF list
    <3> QED BY <3>1, <3>2, DefectDraft
  <2> HIDE DEF D, list, Possible
  <2> QED BY <2>1, <2>2
<1> DEFINE made == [k \in DOMAIN Touched(failure) |-> Of(Touched(failure)[k])]
<1>3. SchemaRule(failure) = FlattenSeq(made) \/ SchemaRule(failure) = <<>>
  BY DEF SchemaRule
<1> HIDE DEF Of, Possible
<1>4. \A k \in DOMAIN Touched(failure) :
        Touched(failure)[k] \in Suspects(failure) => made[k] \in Seq(Possible)
  BY <1>2
<1>5. made = [k \in DOMAIN Touched(failure) |-> made[k]]
  OBVIOUS
<1> HIDE DEF made
<1>6. FlattenSeq(made) \in Seq(Possible) /\ <<>> \in Seq(Possible)
  BY <1>4, <1>5, PerModule
<1> QED
  BY <1>3, <1>6 DEF Possible

(* Whatever the rules find: a failure that passes through the repository is   *)
(* given some draft.                                                          *)
LEMMA ProducedDrafts ==
  ASSUME Given, testMap = TestMap(repo), n \in Nat \ {0}, NEW failure \in Failures
  PROVE  /\ Produced(failure) \in Seq(DraftsFor(failure))
         /\ InRepo(failure) # <<>> => Produced(failure) # <<>>
         /\ \A m \in ReachedBy(repo, failure) : \A d \in m.defects : d.category # "producer" =>
              \E k \in DOMAIN Produced(failure) : Key(Produced(failure)[k]) = DefectKey(m, d)
<1> DEFINE Possible == DraftsFor(failure)
           a == SchemaRule(failure)
           b == StateRule(failure, "mutable_default_argument")
           c == StateRule(failure, "shared_mutable_class_attr")
           last == Last(InRepo(failure))
<1>1. a \in Seq(Possible) /\ b \in Seq(Possible) /\ c \in Seq(Possible)
  BY SchemaRuleType, StateRuleType DEF Categories
<1>2. ASSUME InRepo(failure) # <<>>
      PROVE  Produced(failure) \in Seq(Possible) /\ Produced(failure) # <<>>
  <2>1. InRepo(failure) \in Seq(OwnFrames(failure))
    BY InRepoType
  <2>2. last \in OwnFrames(failure)
    BY <1>2, <2>1 DEF Last
  <2>3. /\ last \in Frames /\ last.in_repo
        /\ \E k \in DOMAIN failure.frames : failure.frames[k] = last
    BY <2>2 DEF OwnFrames
  <2> DEFINE draft == Draft("unlocalized_failure", last, 20, "none", 1)
  <2>4. draft \in Drafted
    <3>1. last.name \in Names /\ last.init \in BOOLEAN /\ last.line \in 1 .. MaxLine
      BY <2>3 DEF Frames
    <3> HIDE DEF last
    <3> QED BY <3>1 DEF Draft, Drafted, Categories
  <2>5. Implicates(failure, draft) /\ draft.about = n
    BY <2>3 DEF Implicates, FileOf, Draft
  <2>6. Fallback(failure) = <<draft>> /\ draft \in Possible
    BY <1>2, <2>4, <2>5 DEF Fallback, Deepest, DraftsFor
  <2> HIDE DEF draft, Possible
  <2>7. Fallback(failure) \in Seq(Possible) /\ Fallback(failure) # <<>>
    BY <2>6
  <2>8. a \o b \o c \in Seq(Possible)
    BY <1>1, ConcatProperties
  <2> QED BY <2>7, <2>8 DEF Produced
<1>3. ASSUME InRepo(failure) = <<>>
      PROVE  Produced(failure) \in Seq(Possible)
  <2>1. Fallback(failure) = <<>>
    BY <1>3 DEF Fallback, Deepest
  <2> HIDE DEF Possible
  <2>2. a \o b \o c \in Seq(Possible) /\ <<>> \in Seq(Possible)
    BY <1>1, ConcatProperties
  <2> QED BY <1>3, <2>1, <2>2 DEF Produced
<1>4. ASSUME NEW m \in ReachedBy(repo, failure), NEW d \in m.defects, d.category # "producer"
      PROVE  \E k \in DOMAIN Produced(failure) : Key(Produced(failure)[k]) = DefectKey(m, d)
  <2> DEFINE ab == a \o b
             abc == ab \o c
  <2>1. d.category \in {"mutable_default_argument", "shared_mutable_class_attr"}
    <3>1. m \in Files
      BY DEF ReachedBy, Modules, Given, Repositories
    <3>2. d \in Defects
      BY <3>1 DEF Files
    <3> QED BY <1>4, <3>2 DEF Defects
  <2>2. \/ \E k \in DOMAIN b : Key(b[k]) = DefectKey(m, d)
        \/ \E k \in DOMAIN c : Key(c[k]) = DefectKey(m, d)
    BY <2>1, StateRuleType DEF Categories
  <2> HIDE DEF a, b, c, Possible
  <2>3. /\ ab \in Seq(Possible)
        /\ \A k \in DOMAIN b : Len(a) + k \in DOMAIN ab /\ ab[Len(a) + k] = b[k]
    BY <1>1, ConcatElements
  <2> HIDE DEF ab
  <2>4. /\ abc \in Seq(Possible)
        /\ \A k \in DOMAIN ab : k \in DOMAIN abc /\ abc[k] = ab[k]
        /\ \A k \in DOMAIN c : Len(ab) + k \in DOMAIN abc /\ abc[Len(ab) + k] = c[k]
    BY <1>1, <2>3, ConcatElements
  <2> HIDE DEF abc
  <2>5. \E k \in DOMAIN abc : Key(abc[k]) = DefectKey(m, d)
    BY <2>2, <2>3, <2>4
  <2>6. Produced(failure) = abc
    <3>1. abc # <<>>
      BY <2>5
    <3> QED BY <3>1 DEF Produced, a, b, c, ab, abc
  <2> QED BY <2>5, <2>6
<1> QED
  BY <1>2, <1>3, <1>4

(* The drafts that are added: one for each key that has none yet.             *)
LEMMA NewKeys ==
  ASSUME NEW S, NEW kept, NEW produced \in Seq(S), NEW new, new = NewDrafts(kept, produced)
  PROVE  /\ new \in Seq(S)
         /\ \A i, j \in DOMAIN new : i # j => Key(new[i]) # Key(new[j])
         /\ \A i \in DOMAIN kept, j \in DOMAIN new : Key(kept[i]) # Key(new[j])
         /\ \A k \in DOMAIN produced :
              \/ \E i \in DOMAIN kept : Key(kept[i]) = Key(produced[k])
              \/ \E j \in DOMAIN new : Key(new[j]) = Key(produced[k])
<1> DEFINE places == {k \in DOMAIN produced :
                        /\ \A j \in DOMAIN kept : Key(kept[j]) # Key(produced[k])
                        /\ \A j \in 1 .. (k - 1) : Key(produced[j]) # Key(produced[k])}
<1>1. new = Kept(produced, places)
  BY DEF NewDrafts
<1>2. /\ places \subseteq DOMAIN produced
      /\ DOMAIN produced = 1 .. Len(produced) /\ Len(produced) \in Nat
  BY LenProperties
<1>3. \A k \in places : \A j \in DOMAIN kept : Key(kept[j]) # Key(produced[k])
  OBVIOUS
<1>4. \A k, j \in places : j < k => Key(produced[j]) # Key(produced[k])
  BY <1>2
<1>5. \A k \in DOMAIN produced :
        \/ \E i \in DOMAIN kept : Key(kept[i]) = Key(produced[k])
        \/ \E j \in places : Key(produced[j]) = Key(produced[k])
  <2> SUFFICES ASSUME NEW k \in DOMAIN produced,
                      \A i \in DOMAIN kept : Key(kept[i]) # Key(produced[k])
               PROVE  \E j \in places : Key(produced[j]) = Key(produced[k])
    OBVIOUS
  <2> DEFINE T == {l \in DOMAIN produced : Key(produced[l]) = Key(produced[k])}
  <2>1. T \in SUBSET Nat /\ k \in T
    BY <1>2
  <2>2. PICK l \in T : \A y \in T : l <= y
    <3> HIDE DEF T
    <3> QED BY <2>1, LeastNumber
  <2>3. \A j \in 1 .. (l - 1) : Key(produced[j]) # Key(produced[l])
    <3> SUFFICES ASSUME NEW j \in 1 .. (l - 1) PROVE Key(produced[j]) # Key(produced[l])
      OBVIOUS
    <3>1. j \in DOMAIN produced /\ ~ (l <= j)
      BY <1>2
    <3>2. j \notin T
      BY <2>2, <3>1
    <3> QED BY <3>1, <3>2
  <2> QED BY <2>3
<1> HIDE DEF places
<1>6. /\ new \in Seq(S)
      /\ \E at \in [DOMAIN new -> places] :
           /\ \A k \in DOMAIN at : new[k] = produced[at[k]]
           /\ \A i \in places : \E k \in DOMAIN at : at[k] = i
           /\ \A j, k \in DOMAIN at : j < k => at[j] < at[k]
  BY <1>1, <1>2, KeptElements
<1>7. PICK at \in [DOMAIN new -> places] :
        /\ \A k \in DOMAIN at : new[k] = produced[at[k]]
        /\ \A i \in places : \E k \in DOMAIN at : at[k] = i
        /\ \A j, k \in DOMAIN at : j < k => at[j] < at[k]
  BY <1>6
<1>8. DOMAIN new \subseteq Nat
  BY <1>6, LenProperties
<1>9. ASSUME NEW i \in DOMAIN new, NEW j \in DOMAIN new, i # j PROVE Key(new[i]) # Key(new[j])
  <2>1. i < j \/ j < i
    BY <1>8, <1>9
  <2> QED BY <1>4, <1>7, <2>1
<1>10. \A i \in DOMAIN kept, j \in DOMAIN new : Key(kept[i]) # Key(new[j])
  BY <1>3, <1>7
<1>11. \A k \in DOMAIN produced :
         \/ \E i \in DOMAIN kept : Key(kept[i]) = Key(produced[k])
         \/ \E j \in DOMAIN new : Key(new[j]) = Key(produced[k])
  BY <1>5, <1>7
<1> QED
  BY <1>6, <1>9, <1>10, <1>11

(* The order of the ranking, best prior first and the earlier of equals first.*)
LEMMA RankedDrafts ==
  ASSUME NEW list \in Seq(Drafted), list = drafts, NEW order, order = InOrder(DOMAIN list, Before)
  PROVE  /\ DOMAIN order = DOMAIN list
         /\ \A k \in DOMAIN list : order[k] \in DOMAIN list
         /\ \A a \in DOMAIN list : \E k \in DOMAIN list : order[k] = a
         /\ \A j, k \in DOMAIN list : j < k =>
              /\ order[j] # order[k]
              /\ list[order[j]].prior >= list[order[k]].prior
              /\ list[order[j]].prior = list[order[k]].prior => order[j] < order[k]
<1> DEFINE D == DOMAIN list
           N == Cardinality(D)
           prior == [a \in D |-> list[a].prior]
           R == {e \in D \X D : \/ prior[e[1]] > prior[e[2]]
                                \/ prior[e[1]] = prior[e[2]] /\ e[1] < e[2]}
           Below == [x \in D |-> {y \in D : Before(y, x)}]
<1>1. D = 1 .. Len(list) /\ Len(list) \in Nat
  BY LenProperties
<1>2. IsFiniteSet(D) /\ N = Len(list)
  BY <1>1, FS_Interval
<1>3. \A a \in D : prior[a] \in Nat
  <2> TAKE a \in D
  <2>1. list[a] \in Drafted
    OBVIOUS
  <2> QED BY <2>1 DEF Drafted
<1>4. \A x, y \in D : Before(x, y) <=> <<x, y>> \in R
  BY DEF Before
<1>5. \A x, y \in D : <<x, y>> \in R <=>
        prior[x] > prior[y] \/ (prior[x] = prior[y] /\ x < y)
  OBVIOUS
<1> HIDE DEF R
<1>6. Orders(R, D)
  <2> HIDE DEF prior, D
  <2>1. \A x \in D : x \in Nat
    BY <1>1
  <2> QED BY <1>3, <1>5, <2>1 DEF Orders
<1>7. Precedes(Below, R, D)
  BY <1>4 DEF Precedes
<1>8. order = [k \in 1 .. N |-> CHOOSE x \in D : Cardinality({y \in D : Before(y, x)}) = k - 1]
  BY DEF InOrder
<1>9. \A k \in 1 .. N : (\E x \in D : Cardinality(Below[x]) = k - 1)
                             => order[k] \in D /\ Cardinality(Below[order[k]]) = k - 1
  <2> SUFFICES ASSUME NEW k \in 1 .. N, NEW x \in D, Cardinality(Below[x]) = k - 1
               PROVE  order[k] \in D /\ Cardinality(Below[order[k]]) = k - 1
    OBVIOUS
  <2>1. order[k] = CHOOSE y \in D : Cardinality({z \in D : Before(z, y)}) = k - 1
    BY <1>8
  <2>2. Cardinality({z \in D : Before(z, x)}) = k - 1
    OBVIOUS
  <2>3. order[k] \in D /\ Cardinality({z \in D : Before(z, order[k])}) = k - 1
    BY <2>1, <2>2, Zenon
  <2> QED BY <2>3
<1>10. DOMAIN order = 1 .. N
  BY <1>8
<1>11. 1 .. N = D
  BY <1>1, <1>2
<1> HIDE DEF D, N, Below, prior
<1>12. /\ \A k \in 1 .. N : order[k] \in D
       /\ \A x \in D : \E k \in 1 .. N : order[k] = x
       /\ \A i, j \in 1 .. N : i < j => order[i] # order[j] /\ <<order[i], order[j]>> \in R
  BY <1>2, <1>6, <1>7, <1>9, RanksOrder DEF N
<1>13. ASSUME NEW j \in D, NEW k \in D, j < k
       PROVE  /\ order[j] # order[k]
              /\ prior[order[j]] >= prior[order[k]]
              /\ prior[order[j]] = prior[order[k]] => order[j] < order[k]
  <2>1. order[j] \in D /\ order[k] \in D /\ order[j] # order[k] /\ <<order[j], order[k]>> \in R
    BY <1>11, <1>12, <1>13
  <2>2. prior[order[j]] \in Nat /\ prior[order[k]] \in Nat
    BY <1>3, <2>1
  <2> QED BY <1>5, <2>1, <2>2
<1>14. \A a \in D : prior[a] = list[a].prior
  BY DEF prior
<1>15. ASSUME NEW j \in D, NEW k \in D, j < k
       PROVE  /\ order[j] # order[k]
              /\ list[order[j]].prior >= list[order[k]].prior
              /\ list[order[j]].prior = list[order[k]].prior => order[j] < order[k]
  <2>1. order[j] \in D /\ order[k] \in D
    BY <1>11, <1>12
  <2> QED BY <1>13, <1>14, <1>15, <2>1
<1>16. /\ DOMAIN order = D
       /\ \A k \in D : order[k] \in D
       /\ \A a \in D : \E k \in D : order[k] = a
  BY <1>10, <1>11, <1>12
<1> QED
  BY <1>15, <1>16 DEF D

-----------------------------------------------------------------------------
(* The invariant.                                                             *)

(* Implicates, with the repository as a parameter.                            *)
Implicated(r, failure, h) ==
  \/ \E k \in DOMAIN failure.frames :
       failure.frames[k].in_repo /\ FileOf(failure.frames[k]) = FileOf(h)
  \/ \E t \in LongestKnown(failure.head, Known(r)) : h.name \in ReachedFrom(r, t)

(* Where the investigator is, and what is there by then.                      *)
Flow ==
  /\ pc \in {"ingest", "execute", "inspect", "done"}
  /\ testMap \in {<<>>, TestMap(repo)}
  /\ pc \in {"execute", "inspect"} => testMap = TestMap(repo)
  /\ execution.failures \in {<<>>, suite}
  /\ n \in 1 .. Len(execution.failures) + 1
  /\ pc \in {"ingest", "execute"} => n = 1 /\ drafts = <<>> /\ execution.failures = <<>>
  /\ pc = "done" => n = Len(execution.failures) + 1
  /\ pc # "done" => hypotheses = <<>>

(* The drafts: no key twice, in the order of the failures they are about, all *)
(* of them failures already inspected.                                        *)
Drafts ==
  /\ drafts \in Seq(Drafted)
  /\ \A a \in DOMAIN drafts : drafts[a].about < n
  /\ \A a, b \in DOMAIN drafts : a < b =>
       Key(drafts[a]) # Key(drafts[b]) /\ drafts[a].about <= drafts[b].about

(* Each is about a file its failure implicates, and each failure inspected    *)
(* that passes through the repository has some draft it implicates, though    *)
(* that may have been made for an earlier one.                                *)
Founded ==
  PlainNames(repo) =>
    \A a \in DOMAIN drafts :
      Implicated(repo, execution.failures[drafts[a].about], drafts[a])

Explained ==
  PlainNames(repo) =>
    \A k \in 1 .. n - 1 :
      InRepo(execution.failures[k]) # <<>> =>
        \E a \in DOMAIN drafts : Implicated(repo, execution.failures[k], drafts[a])

(* Each mutable default and each mutable class attribute in a module that the *)
(* test of a failure inspected reaches has a draft.                           *)
Found ==
  \A k \in 1 .. n - 1 :
    \A m \in ReachedBy(repo, execution.failures[k]) : \A d \in m.defects :
      d.category # "producer" => \E a \in DOMAIN drafts : Key(drafts[a]) = DefectKey(m, d)

(* In the end the hypotheses are the drafts, rearranged.                      *)
Arranged(ranked, list) ==
  /\ ranked \in Seq(Drafted)
  /\ \E at \in [DOMAIN ranked -> DOMAIN list] :
       /\ \A k \in DOMAIN ranked : ranked[k] = list[at[k]]
       /\ \A a \in DOMAIN list : \E k \in DOMAIN ranked : at[k] = a
       /\ \A j, k \in DOMAIN ranked : j < k =>
            /\ at[j] # at[k]
            /\ list[at[j]].prior >= list[at[k]].prior
            /\ list[at[j]].prior = list[at[k]].prior => at[j] < at[k]

Ranked == pc = "done" => Arranged(hypotheses, drafts)

(* The inductive invariant.                                                   *)
IInv == Given /\ Flow /\ Drafts /\ Founded /\ Explained /\ Found /\ Ranked

(* The invariant holds when the investigator begins.                          *)
LEMMA InitInvestigator == Init => IInv
<1> SUFFICES ASSUME Init PROVE IInv
  OBVIOUS
<1>1. Given
  BY CasesAssumption DEF Init, Given
<1>2. Flow
  BY DEF Init, Flow
<1>3. Drafts /\ Founded /\ Explained /\ Found /\ Ranked
  BY DEF Init, Drafts, Founded, Explained, Found, Ranked
<1> QED
  BY <1>1, <1>2, <1>3 DEF IInv

(* Nothing is ranked when there is nothing to rank.                           *)
LEMMA NothingRanked == Arranged(<<>>, <<>>)
<1> DEFINE at == [k \in DOMAIN <<>> |-> k]
<1>1. DOMAIN <<>> = {} /\ at \in [DOMAIN <<>> -> DOMAIN <<>>]
  OBVIOUS
<1>2. <<>> \in Seq(Drafted)
  OBVIOUS
<1> QED
  BY <1>1, <1>2 DEF Arranged

(* The test map is built: nothing is drafted yet.                             *)
LEMMA NextIngest == IInv /\ Ingest => IInv'
<1> SUFFICES ASSUME IInv, Ingest PROVE IInv'
  OBVIOUS
<1> USE DEF IInv
<1>1. Given'
  BY DEF Given, Ingest
<1>2. Flow'
  BY DEF Flow, Ingest
<1>3. drafts = <<>> /\ n = 1 /\ hypotheses = <<>>
  BY DEF Flow, Ingest
<1>4. Drafts' /\ Founded' /\ Explained' /\ Found'
  BY <1>3 DEF Drafts, Founded, Explained, Found, Ingest
<1>5. Ranked'
  <2>1. hypotheses' = <<>> /\ drafts' = <<>>
    BY <1>3 DEF Ingest
  <2> QED BY <2>1, NothingRanked DEF Ranked
<1> QED
  BY <1>1, <1>2, <1>4, <1>5

(* The suite is run: its failures are those of the suite, or none.            *)
LEMMA NextExecute == IInv /\ Execute => IInv'
<1> SUFFICES ASSUME IInv, Execute PROVE IInv'
  OBVIOUS
<1> USE DEF IInv
<1>1. Given'
  BY DEF Given, Execute
<1>2. drafts = <<>> /\ n = 1 /\ hypotheses = <<>> /\ testMap = TestMap(repo)
  BY DEF Flow, Execute
<1>3. /\ execution'.failures \in {<<>>, suite}
      /\ execution'.green => execution'.failures = <<>>
  BY DEF Execute
<1>4. Len(execution'.failures) \in Nat
  BY <1>3 DEF Given
<1>5. Flow'
  BY <1>2, <1>3, <1>4 DEF Flow, Execute
<1>6. Drafts' /\ Founded' /\ Explained' /\ Found'
  BY <1>2 DEF Drafts, Founded, Explained, Found, Execute
<1>7. Ranked'
  <2>1. hypotheses' = <<>> /\ drafts' = <<>>
    BY <1>2 DEF Execute
  <2> QED BY <2>1, NothingRanked DEF Ranked
<1> QED
  BY <1>1, <1>5, <1>6, <1>7

(* A place is told by its key, and that a failure implicates it by its place. *)
LEMMA KeyImplicated ==
  ASSUME NEW r, NEW failure, NEW g \in Drafted, NEW h \in Drafted, Key(g) = Key(h),
         Implicated(r, failure, g)
  PROVE  Implicated(r, failure, h)
<1>1. g.name = h.name /\ g.init = h.init
  BY DEF Key
<1> QED
  BY <1>1 DEF Implicated, FileOf

(* One more failure inspected: its drafts join those kept, unless their key   *)
(* is there.                                                                  *)
LEMMA NextInspect == IInv /\ Inspect => IInv'
<1> SUFFICES ASSUME IInv, Inspect PROVE IInv'
  OBVIOUS
<1> USE DEF IInv
<1> DEFINE failures == execution.failures
           failure == failures[n]
           produced == Produced(failure)
           new == NewDrafts(drafts, produced)
           r == repo
<1>1. /\ pc = "inspect" /\ testMap = TestMap(repo) /\ hypotheses = <<>>
      /\ n \in Nat \ {0} /\ n <= Len(failures) /\ n' = n + 1
      /\ drafts' = drafts \o new
      /\ UNCHANGED <<pc, repo, suite, testMap, execution, hypotheses>>
  BY DEF Flow, Inspect
<1>2. failures \in Seq(Failures)
  <2>1. failures \in {<<>>, suite} /\ suite \in Seq(Failures)
    BY DEF Flow, Given
  <2>2. <<>> \in Seq(Failures)
    OBVIOUS
  <2> QED BY <2>1, <2>2, Zenon
<1>3. failure \in Failures /\ Len(failures) \in Nat
  BY <1>1, <1>2, LenProperties
<1>4. /\ produced \in Seq(DraftsFor(failure))
      /\ InRepo(failure) # <<>> => produced # <<>>
      /\ \A x \in ReachedBy(r, failure) : \A d \in x.defects : d.category # "producer" =>
           \E k \in DOMAIN produced : Key(produced[k]) = DefectKey(x, d)
  BY <1>1, <1>3, ProducedDrafts
<1>5. /\ new \in Seq(DraftsFor(failure))
      /\ \A i, j \in DOMAIN new : i # j => Key(new[i]) # Key(new[j])
      /\ \A i \in DOMAIN drafts, j \in DOMAIN new : Key(drafts[i]) # Key(new[j])
      /\ \A k \in DOMAIN produced :
           \/ \E i \in DOMAIN drafts : Key(drafts[i]) = Key(produced[k])
           \/ \E j \in DOMAIN new : Key(new[j]) = Key(produced[k])
  BY <1>4, NewKeys
<1>6. drafts \in Seq(Drafted) /\ new \in Seq(Drafted)
  <2>1. DraftsFor(failure) \subseteq Drafted
    BY DEF DraftsFor
  <2> HIDE DEF new
  <2> QED BY <1>5, <2>1 DEF Drafts
<1>7. /\ \A a \in DOMAIN drafts :
           drafts[a] \in Drafted /\ drafts[a].about \in Nat \ {0} /\ drafts[a].about < n
      /\ \A a \in DOMAIN new : new[a] \in Drafted /\ new[a].about = n
      /\ PlainNames(r) => \A a \in DOMAIN new : Implicated(r, failure, new[a])
  <2>1. \A a \in DOMAIN drafts : drafts[a] \in Drafted /\ drafts[a].about < n
    BY <1>6 DEF Drafts
  <2>2. \A a \in DOMAIN new : new[a] \in DraftsFor(failure)
    <3> HIDE DEF new
    <3> QED BY <1>5
  <2> HIDE DEF new
  <2>3. \A a \in DOMAIN new : PlainNames(r) => Implicated(r, failure, new[a])
    BY <2>2 DEF DraftsFor, Implicates, Implicated
  <2> QED BY <2>1, <2>2, <2>3 DEF DraftsFor, Drafted
<1> HIDE DEF new, produced
<1> DEFINE all == drafts \o new
           m == Len(drafts)
<1>8. /\ all \in Seq(Drafted)
      /\ \A k \in DOMAIN drafts : k \in DOMAIN all /\ all[k] = drafts[k]
      /\ \A k \in DOMAIN new : m + k \in DOMAIN all /\ all[m + k] = new[k]
      /\ \A k \in DOMAIN all : k \in DOMAIN drafts \/ \E j \in DOMAIN new : k = m + j
  BY <1>6, ConcatElements
<1>9. /\ m \in Nat /\ DOMAIN drafts = 1 .. m
      /\ DOMAIN new \subseteq Nat \ {0} /\ DOMAIN all \subseteq Nat
  BY <1>6, <1>8, LenProperties
<1> HIDE DEF all, m
<1>10. Given'
  BY <1>1 DEF Given
<1>11. Flow'
  BY <1>1, <1>3 DEF Flow
<1>12. Drafts'
  <2>1. \A a \in DOMAIN all : all[a].about < n + 1
    <3> SUFFICES ASSUME NEW a \in DOMAIN all PROVE all[a].about < n + 1
      OBVIOUS
    <3>1. CASE a \in DOMAIN drafts
      BY <1>1, <1>7, <1>8, <3>1
    <3>2. CASE \E j \in DOMAIN new : a = m + j
      BY <1>1, <1>7, <1>8, <3>2
    <3> QED BY <1>8, <3>1, <3>2
  <2>2. ASSUME NEW a \in DOMAIN all, NEW b \in DOMAIN all, a < b
        PROVE  Key(all[a]) # Key(all[b]) /\ all[a].about <= all[b].about
    <3>1. CASE b \in DOMAIN drafts
      <4>1. a \in DOMAIN drafts
        BY <1>8, <1>9, <2>2, <3>1
      <4> QED BY <1>8, <2>2, <3>1, <4>1 DEF Drafts
    <3>2. ASSUME NEW j \in DOMAIN new, b = m + j, a \in DOMAIN drafts
          PROVE  Key(all[a]) # Key(all[b]) /\ all[a].about <= all[b].about
      <4>1. all[a] = drafts[a] /\ all[b] = new[j]
        BY <1>8, <3>2
      <4>2. drafts[a].about < n /\ drafts[a].about \in Nat /\ new[j].about = n
        BY <1>7, <3>2
      <4>3. Key(drafts[a]) # Key(new[j])
        BY <1>5, <3>2
      <4> QED BY <1>1, <4>1, <4>2, <4>3
    <3>3. ASSUME NEW j \in DOMAIN new, b = m + j, NEW i \in DOMAIN new, a = m + i
          PROVE  Key(all[a]) # Key(all[b]) /\ all[a].about <= all[b].about
      <4>1. all[a] = new[i] /\ all[b] = new[j] /\ i # j
        BY <1>8, <1>9, <2>2, <3>3
      <4>2. new[i].about = n /\ new[j].about = n
        BY <1>7
      <4>3. Key(new[i]) # Key(new[j])
        BY <1>5, <4>1
      <4> QED BY <1>1, <4>1, <4>2, <4>3
    <3> QED BY <1>8, <3>1, <3>2, <3>3
  <2> QED BY <1>1, <1>8, <2>1, <2>2 DEF Drafts, all
<1>13. ASSUME PlainNames(r), NEW a \in DOMAIN all
       PROVE  Implicated(r, failures[all[a].about], all[a])
  <2>1. CASE a \in DOMAIN drafts
    <3>1. Implicated(r, failures[drafts[a].about], drafts[a])
      BY <1>13, <2>1 DEF Founded
    <3> QED BY <1>8, <2>1, <3>1
  <2>2. CASE \E j \in DOMAIN new : a = m + j
    <3>1. PICK j \in DOMAIN new : a = m + j
      BY <2>2
    <3>2. all[a] = new[j] /\ new[j].about = n /\ Implicated(r, failure, new[j])
      BY <1>7, <1>8, <1>13, <3>1
    <3> QED BY <3>2
  <2> QED BY <1>8, <2>1, <2>2
<1>14. Founded'
  BY <1>1, <1>13 DEF Founded, all
<1>15. ASSUME PlainNames(r), NEW k \in 1 .. n, InRepo(failures[k]) # <<>>
       PROVE  \E a \in DOMAIN all : Implicated(r, failures[k], all[a])
  <2>1. CASE k # n
    <3>1. k \in 1 .. n - 1
      BY <1>1, <2>1
    <3>2. PICK a \in DOMAIN drafts : Implicated(r, failures[k], drafts[a])
      BY <1>15, <3>1 DEF Explained
    <3> QED BY <1>8, <3>2
  <2>2. CASE k = n
    <3>1. 1 \in DOMAIN produced /\ produced[1] \in DraftsFor(failure)
      BY <1>4, <1>15, <2>2
    <3>2. produced[1] \in Drafted /\ Implicated(r, failure, produced[1])
      BY <1>15, <3>1 DEF DraftsFor, Implicates, Implicated
    <3>3. \/ \E i \in DOMAIN drafts : Key(drafts[i]) = Key(produced[1])
          \/ \E j \in DOMAIN new : Key(new[j]) = Key(produced[1])
      BY <1>5, <3>1
    <3>4. \E a \in DOMAIN all : all[a] \in Drafted /\ Key(all[a]) = Key(produced[1])
      BY <1>7, <1>8, <3>3
    <3>5. \E a \in DOMAIN all : Implicated(r, failure, all[a])
      BY <3>2, <3>4, KeyImplicated
    <3> QED BY <2>2, <3>5
  <2> QED BY <2>1, <2>2
<1>16. Explained'
  <2>1. (n + 1) - 1 = n
    BY <1>1
  <2> QED BY <1>1, <1>15, <2>1 DEF Explained, all
<1>17. ASSUME NEW k \in 1 .. n, NEW x \in ReachedBy(r, failures[k]), NEW d \in x.defects,
              d.category # "producer"
       PROVE  \E a \in DOMAIN all : Key(all[a]) = DefectKey(x, d)
  <2>1. CASE k # n
    <3>1. k \in 1 .. n - 1
      BY <1>1, <2>1
    <3>2. PICK a \in DOMAIN drafts : Key(drafts[a]) = DefectKey(x, d)
      BY <1>17, <3>1 DEF Found
    <3> QED BY <1>8, <3>2
  <2>2. CASE k = n
    <3>1. PICK i \in DOMAIN produced : Key(produced[i]) = DefectKey(x, d)
      BY <1>4, <1>17, <2>2
    <3>2. \/ \E j \in DOMAIN drafts : Key(drafts[j]) = Key(produced[i])
          \/ \E j \in DOMAIN new : Key(new[j]) = Key(produced[i])
      BY <1>5
    <3> QED BY <1>8, <3>1, <3>2
  <2> QED BY <2>1, <2>2
<1>18. Found'
  <2>1. (n + 1) - 1 = n
    BY <1>1
  <2> QED BY <1>1, <1>17, <2>1 DEF Found, all
<1>19. Ranked'
  BY <1>1 DEF Ranked
<1> QED
  BY <1>10, <1>11, <1>12, <1>14, <1>16, <1>18, <1>19

(* The drafts are put in the order of their priors.                           *)
LEMMA NextRank == IInv /\ Rank => IInv'
<1> SUFFICES ASSUME IInv, Rank PROVE IInv'
  OBVIOUS
<1> USE DEF IInv
<1> DEFINE order == InOrder(DOMAIN drafts, Before)
           sorted == [k \in DOMAIN order |-> drafts[order[k]]]
<1>1. /\ pc = "inspect" /\ pc' = "done" /\ n > Len(execution.failures)
      /\ hypotheses' = sorted
      /\ UNCHANGED <<repo, suite, testMap, execution, n, drafts>>
  BY DEF Rank
<1>2. drafts \in Seq(Drafted)
  BY DEF Drafts
<1>3. /\ DOMAIN order = DOMAIN drafts
      /\ \A k \in DOMAIN drafts : order[k] \in DOMAIN drafts
      /\ \A a \in DOMAIN drafts : \E k \in DOMAIN drafts : order[k] = a
      /\ \A j, k \in DOMAIN drafts : j < k =>
           /\ order[j] # order[k]
           /\ drafts[order[j]].prior >= drafts[order[k]].prior
           /\ drafts[order[j]].prior = drafts[order[k]].prior => order[j] < order[k]
  BY <1>2, RankedDrafts
<1> HIDE DEF order
<1>4. DOMAIN drafts = 1 .. Len(drafts) /\ Len(drafts) \in Nat
  BY <1>2, LenProperties
<1>5. sorted \in Seq(Drafted) /\ DOMAIN sorted = DOMAIN drafts
  <2>1. \A k \in DOMAIN drafts : drafts[order[k]] \in Drafted
    BY <1>2, <1>3
  <2> QED BY <1>3, <1>4, <2>1
<1>6. Given'
  BY <1>1 DEF Given
<1>7. Flow'
  <2>1. Len(execution.failures) \in Nat
    BY DEF Flow, Given
  <2> QED BY <1>1, <2>1 DEF Flow
<1>8. Drafts' /\ Founded' /\ Explained' /\ Found'
  BY <1>1 DEF Drafts, Founded, Explained, Found
<1>9. Ranked'
  <2> DEFINE at == [k \in DOMAIN sorted |-> order[k]]
  <2>1. /\ at \in [DOMAIN sorted -> DOMAIN drafts]
        /\ \A k \in DOMAIN sorted : sorted[k] = drafts[order[k]] /\ at[k] = order[k]
    BY <1>3, <1>5
  <2> HIDE DEF at, sorted
  <2>2. /\ \A k \in DOMAIN sorted : sorted[k] = drafts[at[k]]
        /\ \A a \in DOMAIN drafts : \E k \in DOMAIN sorted : at[k] = a
    BY <1>3, <1>5, <2>1
  <2>3. ASSUME NEW j \in DOMAIN sorted, NEW k \in DOMAIN sorted, j < k
        PROVE  /\ at[j] # at[k]
               /\ drafts[at[j]].prior >= drafts[at[k]].prior
               /\ drafts[at[j]].prior = drafts[at[k]].prior => at[j] < at[k]
    BY <1>3, <1>5, <2>1, <2>3
  <2>4. Arranged(sorted, drafts)
    BY <1>5, <2>1, <2>2, <2>3 DEF Arranged
  <2> QED BY <1>1, <2>4 DEF Ranked
<1> QED
  BY <1>6, <1>7, <1>8, <1>9

(* And nothing changes when nothing happens.                                  *)
LEMMA NextStutter == IInv /\ UNCHANGED vars => IInv'
  BY DEF IInv, Given, Flow, Drafts, Founded, Explained, Found, Ranked, vars

(* The invariant is inductive.                                                *)
THEOREM InvestigatorInvariant == Spec => []IInv
<1>1. IInv /\ [Next]_vars => IInv'
  BY NextIngest, NextExecute, NextInspect, NextRank, NextStutter DEF Next, Done
<1> QED
  BY InitInvestigator, <1>1, PTL DEF Spec

-----------------------------------------------------------------------------
(* What the runs check, for every repository and every suite.                 *)

(* What the invariant makes of each hypothesis.                               *)
LEMMA Hypotheses ==
  ASSUME IInv
  PROVE  /\ hypotheses \in Seq(Drafted)
         /\ hypotheses # <<>> => pc = "done"
         /\ \A k \in DOMAIN hypotheses : \E a \in DOMAIN drafts : hypotheses[k] = drafts[a]
<1>1. CASE pc # "done"
  BY <1>1 DEF IInv, Flow
<1>2. CASE pc = "done"
  BY <1>2 DEF IInv, Ranked, Arranged
<1> QED
  BY <1>1, <1>2

(* TypeOK: a test map of known modules, well-formed hypotheses.               *)
THEOREM InvestigatorType == Spec => []TypeOK
<1>1. ASSUME IInv PROVE TypeOK
  <2>1. DOMAIN testMap \subseteq Known(repo)
    BY <1>1, TestMapReaches DEF IInv, Flow, Given
  <2>2. hypotheses \in Seq(Hypothesised)
    <3>1. Drafted \subseteq Hypothesised
      BY DEF Drafted, Hypothesised, Percent, Shapes
    <3> QED BY <1>1, <3>1, Hypotheses
  <2> QED BY <1>1, <2>1, <2>2 DEF TypeOK, IInv, Flow
<1> QED
  BY InvestigatorInvariant, <1>1, PTL

(* TestMapBounds: what build_repo_model maps a test to lies between what      *)
(* Python runs for it without passing through a package's __init__ and all it *)
(* runs, however many modules there are and however they import one another,  *)
(* where no name stands for two files and, for the second bound, miscounted   *)
(* dots spell no other module's name.                                         *)
THEOREM TestMapIsBounded == Spec => []TestMapBounds
<1>1. ASSUME IInv PROVE TestMapBounds
  BY <1>1, TestMapReaches DEF TestMapBounds, IInv, Flow, Given
<1> QED
  BY InvestigatorInvariant, <1>1, PTL

(* build_repo_model's search is complete, and finds nothing else: whatever    *)
(* the imports of a finite repository, a test is mapped to the modules that   *)
(* are not tests of the least set that holds it and that no edge leaves.      *)
SearchIsComplete ==
  \A t \in DOMAIN testMap :
    \E R : IsClosure(R, Edges(repo), t) /\ testMap[t] = R \ DOMAIN testMap

(* The map holds exactly that, for every finite repository.                   *)
THEOREM TestMapIsComplete == Spec => []SearchIsComplete
<1>1. ASSUME IInv PROVE SearchIsComplete
  <2> SUFFICES ASSUME NEW t \in DOMAIN testMap
               PROVE  \E R : IsClosure(R, Edges(repo), t) /\ testMap[t] = R \ DOMAIN testMap
    BY DEF SearchIsComplete
  <2>1. testMap = TestMap(repo)
    BY <1>1 DEF IInv, Flow
  <2>2. testMap[t] = Reachable(Edges(repo), t) \ DOMAIN testMap
    BY <2>1 DEF TestMap
  <2>3. IsClosure(Reachable(Edges(repo), t), Edges(repo), t)
    BY <1>1, EdgesFinite, ReachableIsClosure DEF IInv, Given
  <2> QED BY <2>2, <2>3
<1> QED
  BY InvestigatorInvariant, <1>1, PTL

(* SuspectsAreImplicated: no draft of any rule, and so no hypothesis, is      *)
(* about a file that its failure does not speak for, where the test map holds *)
(* nothing that is not reached.                                               *)
THEOREM NoInnocentSuspected == Spec => []SuspectsAreImplicated
<1>1. ASSUME IInv PROVE SuspectsAreImplicated
  BY <1>1, Hypotheses DEF SuspectsAreImplicated, IInv, Founded, Implicated, Implicates
<1> QED
  BY InvestigatorInvariant, <1>1, PTL

(* EveryFailureExplained: telling drafts apart by their key never leaves a    *)
(* failure without a hypothesis it implicates, where the test map holds       *)
(* nothing that is not reached.                                               *)
THEOREM NoFailureUnexplained == Spec => []EveryFailureExplained
<1>1. ASSUME IInv PROVE EveryFailureExplained
  <2> SUFFICES ASSUME pc = "done", PlainNames(repo), NEW k \in DOMAIN execution.failures,
                      InRepo(execution.failures[k]) # <<>>
               PROVE  \E a \in DOMAIN hypotheses : Implicates(execution.failures[k], hypotheses[a])
    BY DEF EveryFailureExplained
  <2>1. k \in 1 .. n - 1
    <3>1. /\ execution.failures \in {<<>>, suite} /\ suite \in Seq(Failures)
          /\ n = Len(execution.failures) + 1
      BY <1>1 DEF IInv, Flow, Given
    <3> QED BY <3>1, LenProperties
  <2>2. PICK a \in DOMAIN drafts : Implicated(repo, execution.failures[k], drafts[a])
    BY <1>1, <2>1 DEF IInv, Explained
  <2>3. PICK b \in DOMAIN hypotheses : hypotheses[b] = drafts[a]
    BY <1>1 DEF IInv, Ranked, Arranged
  <2> QED BY <2>2, <2>3 DEF Implicated, Implicates
<1> QED
  BY InvestigatorInvariant, <1>1, PTL

(* The state rules miss nothing: when the investigator is done, each mutable  *)
(* default and each mutable class attribute in a module that the test of some *)
(* failure is mapped to has a hypothesis, whatever else was drafted before.   *)
DefectsFound ==
  pc = "done" =>
    \A k \in DOMAIN execution.failures :
      \A t \in TestModule(execution.failures[k]) \intersect DOMAIN testMap :
        \A m \in Modules(repo) : m.name \in testMap[t] =>
          \A d \in m.defects : d.category # "producer" =>
            \E a \in DOMAIN hypotheses : Key(hypotheses[a]) = DefectKey(m, d)

(* No such defect is lost to deduplication or between the rules.              *)
THEOREM NoDefectMissed == Spec => []DefectsFound
<1>1. ASSUME IInv PROVE DefectsFound
  <2> SUFFICES ASSUME pc = "done", NEW k \in DOMAIN execution.failures,
                      NEW t \in TestModule(execution.failures[k]) \intersect DOMAIN testMap,
                      NEW m \in Modules(repo), m.name \in testMap[t],
                      NEW d \in m.defects, d.category # "producer"
               PROVE  \E a \in DOMAIN hypotheses : Key(hypotheses[a]) = DefectKey(m, d)
    BY DEF DefectsFound
  <2>1. k \in 1 .. n - 1
    <3>1. /\ execution.failures \in {<<>>, suite} /\ suite \in Seq(Failures)
          /\ n = Len(execution.failures) + 1
      BY <1>1 DEF IInv, Flow, Given
    <3> QED BY <3>1, LenProperties
  <2>2. m \in ReachedBy(repo, execution.failures[k])
    <3>1. testMap = TestMap(repo)
      BY <1>1 DEF IInv, Flow
    <3> QED BY <3>1 DEF ReachedBy, TestModule
  <2>3. PICK a \in DOMAIN drafts : Key(drafts[a]) = DefectKey(m, d)
    BY <1>1, <2>1, <2>2 DEF IInv, Found
  <2>4. PICK b \in DOMAIN hypotheses : hypotheses[b] = drafts[a]
    BY <1>1 DEF IInv, Ranked, Arranged
  <2> QED BY <2>3, <2>4
<1> QED
  BY InvestigatorInvariant, <1>1, PTL

(* OneHypothesisPerPlace: the ranking is a rearrangement, best prior first,   *)
(* of drafts of different keys, and of equal priors the first failure's.      *)
THEOREM NoPlaceTwice == Spec => []OneHypothesisPerPlace
<1>1. ASSUME IInv PROVE OneHypothesisPerPlace
  <2> SUFFICES ASSUME NEW a \in DOMAIN hypotheses, NEW b \in DOMAIN hypotheses, a < b
               PROVE  /\ Key(hypotheses[a]) # Key(hypotheses[b])
                      /\ hypotheses[a].prior >= hypotheses[b].prior
                      /\ hypotheses[a].prior = hypotheses[b].prior
                           => hypotheses[a].about <= hypotheses[b].about
    BY DEF OneHypothesisPerPlace, Key
  <2>1. pc = "done"
    BY <1>1, Hypotheses
  <2>2. PICK at \in [DOMAIN hypotheses -> DOMAIN drafts] :
          /\ \A k \in DOMAIN hypotheses : hypotheses[k] = drafts[at[k]]
          /\ \A j, k \in DOMAIN hypotheses : j < k =>
               /\ at[j] # at[k]
               /\ drafts[at[j]].prior >= drafts[at[k]].prior
               /\ drafts[at[j]].prior = drafts[at[k]].prior => at[j] < at[k]
    BY <1>1, <2>1 DEF IInv, Ranked, Arranged
  <2> DEFINE i == at[a]  j == at[b]
  <2>3. /\ i \in DOMAIN drafts /\ j \in DOMAIN drafts
        /\ hypotheses[a] = drafts[i] /\ hypotheses[b] = drafts[j]
        /\ i # j /\ drafts[i].prior >= drafts[j].prior
        /\ drafts[i].prior = drafts[j].prior => i < j
    BY <2>2
  <2>4. i \in Nat /\ j \in Nat
    BY <1>1, <2>3, LenProperties DEF IInv, Drafts
  <2> HIDE DEF i, j
  <2>5. Key(drafts[i]) # Key(drafts[j])
    <3>1. i < j \/ j < i
      BY <2>3, <2>4
    <3> QED BY <1>1, <2>3, <3>1 DEF IInv, Drafts
  <2>6. i < j => drafts[i].about <= drafts[j].about
    BY <1>1, <2>3 DEF IInv, Drafts
  <2> QED BY <2>3, <2>5, <2>6
<1> QED
  BY InvestigatorInvariant, <1>1, PTL

(* OneExperimentDecides: for every threshold between 0.56 and 0.88, so for    *)
(* ROOT_CAUSE_THRESHOLD.                                                      *)
THEOREM OneExperiment == Spec => []OneExperimentDecides
<1>1. ASSUME NEW c \in {20, 40, 45, 55} PROVE c < Threshold
  BY ThresholdAssumption DEF ThresholdAssumption
<1>2. ASSUME NEW c \in {40, 45, 55}
      PROVE  /\ Updated(c, "supports") >= Threshold
             /\ StatusAfter(c, "open", "contradicts") = "rejected"
             /\ Updated(c, "contradicts") < Threshold
  BY ThresholdAssumption
     DEF ThresholdAssumption, Updated, Supported, Contradicted, StatusAfter, HalvesRoundedUp
<1>3. ASSUME IInv PROVE OneExperimentDecides
  <2> SUFFICES ASSUME NEW a \in DOMAIN hypotheses
               PROVE  LET h == hypotheses[a]
                      IN  /\ h.prior < Threshold
                          /\ h.experiment # "none" =>
                               /\ Updated(h.prior, "supports") >= Threshold
                               /\ StatusAfter(h.prior, "open", "contradicts") = "rejected"
                               /\ Updated(h.prior, "contradicts") < Threshold
    BY DEF OneExperimentDecides
  <2>1. hypotheses[a] \in Drafted
    BY <1>3, Hypotheses
  <2>2. /\ hypotheses[a].prior \in {20, 40, 45, 55}
        /\ hypotheses[a].experiment # "none" => hypotheses[a].prior \in {40, 45, 55}
    BY <2>1 DEF Drafted
  <2> QED BY <1>1, <1>2, <2>2
<1> QED
  BY InvestigatorInvariant, <1>3, PTL
=============================================================================
