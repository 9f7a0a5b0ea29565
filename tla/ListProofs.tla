----------------------------- MODULE ListProofs ------------------------------
(* Lemmas about lists: what sorting and filtering one, and joining several,   *)
(* make of them, for every list.  Induction is over a set of numbers.         *)
EXTENDS Lists, SequencesExt, FiniteSetTheorems, SequenceTheorems, WellFoundedInduction, TLAPS

(* A strict linear order on a set, as a set of pairs.                         *)
Orders(R, S) ==
  /\ \A x \in S : <<x, x>> \notin R
  /\ \A x, y, z \in S : <<x, y>> \in R /\ <<y, z>> \in R => <<x, z>> \in R
  /\ \A x, y \in S : x # y => <<x, y>> \in R \/ <<y, x>> \in R

(* What goes before each element.                                             *)
Precedes(Below, R, S) ==
  /\ Below \in [S -> SUBSET S]
  /\ \A x, y \in S : y \in Below[x] <=> <<y, x>> \in R

(* In such an order of a finite set, the number of elements before one tells  *)
(* its place.                                                                 *)
LEMMA Ranks ==
  ASSUME NEW S, IsFiniteSet(S), NEW R, Orders(R, S), NEW Below, Precedes(Below, R, S)
  PROVE  /\ \A x \in S : Cardinality(Below[x]) \in 0 .. Cardinality(S) - 1
         /\ \A x, y \in S : <<x, y>> \in R => Cardinality(Below[x]) < Cardinality(Below[y])
         /\ \A k \in 0 .. Cardinality(S) - 1 : \E x \in S : Cardinality(Below[x]) = k
<1> DEFINE N == Cardinality(S)
           rank == [x \in S |-> Cardinality(Below[x])]
<1>1. N \in Nat
  BY FS_CardinalityType
<1>2. \A x \in S : rank[x] = Cardinality(Below[x])
  OBVIOUS
<1>3. \A T \in SUBSET S : Cardinality(T) <= N
  BY FS_Subset
<1> HIDE DEF N, rank
<1>4. \A x \in S : /\ IsFiniteSet(Below[x]) /\ rank[x] \in Nat
                   /\ IsFiniteSet(Below[x] \union {x})
                   /\ Cardinality(Below[x] \union {x}) = rank[x] + 1
  <2> TAKE x \in S
  <2>1. IsFiniteSet(Below[x]) /\ Cardinality(Below[x]) \in Nat
    <3>1. Below[x] \in SUBSET S
      BY DEF Precedes
    <3> QED BY <3>1, FS_Subset, FS_CardinalityType
  <2>2. x \notin Below[x]
    BY DEF Orders, Precedes
  <2> QED BY <1>2, <2>1, <2>2, FS_AddElement
<1>5. \A x \in S : rank[x] \in 0 .. N - 1
  <2> TAKE x \in S
  <2>1. rank[x] + 1 <= N /\ rank[x] \in Nat
    <3>1. Below[x] \union {x} \in SUBSET S
      BY DEF Precedes
    <3> QED BY <3>1, <1>3, <1>4
  <2> QED BY <1>1, <2>1
<1>6. \A x, y \in S : <<x, y>> \in R => rank[x] < rank[y]
  <2> SUFFICES ASSUME NEW x \in S, NEW y \in S, <<x, y>> \in R PROVE rank[x] < rank[y]
    OBVIOUS
  <2>1. Below[x] \union {x} \in SUBSET Below[y]
    BY DEF Orders, Precedes
  <2>2. Cardinality(Below[x] \union {x}) <= Cardinality(Below[y])
    BY <1>4, <2>1, FS_Subset
  <2>3. rank[x] + 1 <= rank[y]
    BY <1>2, <1>4, <2>2
  <2>4. rank[x] \in Nat /\ rank[y] \in Nat
    BY <1>4
  <2> QED BY <2>3, <2>4
<1>7. \A x, y \in S : rank[x] = rank[y] => x = y
  <2> SUFFICES ASSUME NEW x \in S, NEW y \in S, x # y PROVE rank[x] # rank[y]
    OBVIOUS
  <2>1. rank[x] < rank[y] \/ rank[y] < rank[x]
    BY <1>6 DEF Orders
  <2>2. rank[x] \in Nat /\ rank[y] \in Nat
    BY <1>4
  <2> QED BY <2>1, <2>2
<1>8. \A k \in 0 .. N - 1 : \E x \in S : rank[x] = k
  <2>1. rank \in Injection(S, 0 .. N - 1)
    <3>1. rank \in [S -> 0 .. N - 1]
      BY <1>5 DEF rank
    <3> QED BY <3>1, <1>7 DEF Injection, IsInjective
  <2>2. IsFiniteSet(0 .. N - 1) /\ Cardinality(0 .. N - 1) = N
    BY <1>1, FS_Interval
  <2>3. rank \in Surjection(S, 0 .. N - 1)
    BY <2>1, <2>2, FS_Injection DEF N
  <2> QED BY <2>3 DEF Surjection
<1> QED
  BY <1>2, <1>5, <1>6, <1>8 DEF N

(* So enumerating a set by those numbers puts it in order.                    *)
LEMMA RanksOrder ==
  ASSUME NEW S, IsFiniteSet(S), NEW R, Orders(R, S), NEW Below, Precedes(Below, R, S),
         NEW f,
         \A k \in 1 .. Cardinality(S) :
           (\E x \in S : Cardinality(Below[x]) = k - 1)
             => f[k] \in S /\ Cardinality(Below[f[k]]) = k - 1
  PROVE  /\ \A k \in 1 .. Cardinality(S) : f[k] \in S
         /\ \A x \in S : \E k \in 1 .. Cardinality(S) : f[k] = x
         /\ \A i, j \in 1 .. Cardinality(S) : i < j => f[i] # f[j] /\ <<f[i], f[j]>> \in R
<1> DEFINE N == Cardinality(S)
<1>1. N \in Nat
  BY FS_CardinalityType
<1>2. /\ \A x \in S : Cardinality(Below[x]) \in 0 .. N - 1
      /\ \A x, y \in S : <<x, y>> \in R => Cardinality(Below[x]) < Cardinality(Below[y])
      /\ \A k \in 0 .. N - 1 : \E x \in S : Cardinality(Below[x]) = k
  BY Ranks
<1>3. \A k \in 1 .. N : f[k] \in S /\ Cardinality(Below[f[k]]) = k - 1
  <2> TAKE k \in 1 .. N
  <2>1. k - 1 \in 0 .. N - 1
    BY <1>1
  <2>2. PICK x \in S : Cardinality(Below[x]) = k - 1
    BY <1>2, <2>1
  <2> QED BY <2>2
<1>4. \A x \in S : f[Cardinality(Below[x]) + 1] = x /\ Cardinality(Below[x]) + 1 \in 1 .. N
  <2> TAKE x \in S
  <2> DEFINE k == Cardinality(Below[x]) + 1
  <2>1. Cardinality(Below[x]) \in 0 .. N - 1
    BY <1>2
  <2>2. k \in 1 .. N /\ k - 1 = Cardinality(Below[x])
    BY <1>1, <2>1
  <2>3. f[k] \in S /\ Cardinality(Below[f[k]]) = Cardinality(Below[x])
    BY <1>3, <2>2
  <2>4. ~ <<x, f[k]>> \in R /\ ~ <<f[k], x>> \in R
    BY <1>2, <2>1, <2>3
  <2>5. f[k] = x
    BY <2>3, <2>4 DEF Orders
  <2> QED BY <2>2, <2>5
<1>5. \A i, j \in 1 .. N : i < j => f[i] # f[j] /\ <<f[i], f[j]>> \in R
  <2> SUFFICES ASSUME NEW i \in 1 .. N, NEW j \in 1 .. N, i < j
               PROVE  f[i] # f[j] /\ <<f[i], f[j]>> \in R
    OBVIOUS
  <2>1. f[i] # f[j] /\ ~ <<f[j], f[i]>> \in R
    BY <1>1, <1>2, <1>3
  <2> QED BY <1>3, <2>1 DEF Orders
<1> QED
  BY <1>3, <1>4, <1>5

(* Some places of a list in order: all of them, each before the next.         *)
LEMMA PlacesInOrder ==
  ASSUME NEW S, NEW list \in Seq(S), NEW places, places \subseteq DOMAIN list
  PROVE  /\ Cardinality(places) \in Nat
         /\ InOrder(places, <) \in [1 .. Cardinality(places) -> places]
         /\ \A x \in places : \E k \in 1 .. Cardinality(places) : InOrder(places, <)[k] = x
         /\ \A j, k \in 1 .. Cardinality(places) :
              j < k => InOrder(places, <)[j] < InOrder(places, <)[k]
<1> DEFINE N == Cardinality(places)
           R == {e \in places \X places : e[1] < e[2]}
           Below == [x \in places |-> {y \in places : y < x}]
           at == InOrder(places, <)
<1>1. DOMAIN list = 1 .. Len(list) /\ Len(list) \in Nat /\ places \subseteq Nat
  BY LenProperties
<1>2. IsFiniteSet(places) /\ N \in Nat
  <2>1. IsFiniteSet(DOMAIN list)
    BY <1>1, FS_Interval
  <2> QED BY <2>1, FS_Subset, FS_CardinalityType
<1>3. Orders(R, places)
  BY <1>1 DEF Orders
<1>4. Precedes(Below, R, places)
  BY DEF Precedes
<1> DEFINE Nth(k) == CHOOSE y \in places : Cardinality({z \in places : z < y}) = k - 1
<1>0. at = [k \in 1 .. N |-> Nth(k)]
  BY DEF InOrder
<1>5. \A k \in 1 .. N : (\E x \in places : Cardinality(Below[x]) = k - 1)
                             => at[k] \in places /\ Cardinality(Below[at[k]]) = k - 1
  <2>2. ASSUME NEW k \in 1 .. N, NEW x \in places, Cardinality(Below[x]) = k - 1
        PROVE  at[k] \in places /\ Cardinality(Below[at[k]]) = k - 1
    <3>1. at[k] = CHOOSE y \in places : Cardinality({z \in places : z < y}) = k - 1
      BY DEF InOrder
    <3>2. Cardinality({z \in places : z < x}) = k - 1
      BY <2>2
    <3>3. at[k] \in places /\ Cardinality({z \in places : z < at[k]}) = k - 1
      BY <3>1, <3>2, Zenon
    <3> QED BY <3>3
  <2> QED BY <2>2
<1>6. \A i, j \in places : <<i, j>> \in R => i < j
  OBVIOUS
<1> HIDE DEF R, Below, Nth
<1>7. /\ at \in [1 .. N -> places]
      /\ \A x \in places : \E k \in 1 .. N : at[k] = x
      /\ \A i, j \in 1 .. N : i < j => at[i] # at[j] /\ <<at[i], at[j]>> \in R
  <2> HIDE DEF at
  <2>1. /\ \A k \in 1 .. N : at[k] \in places
        /\ \A x \in places : \E k \in 1 .. N : at[k] = x
        /\ \A i, j \in 1 .. N : i < j => at[i] # at[j] /\ <<at[i], at[j]>> \in R
    BY <1>2, <1>3, <1>4, <1>5, RanksOrder
  <2> QED BY <1>0, <2>1
<1> HIDE DEF at, N
<1>8. \A j, k \in 1 .. N : j < k => at[j] < at[k]
  BY <1>6, <1>7
<1> QED
  BY <1>2, <1>7, <1>8 DEF at, N

(* What a filter keeps, for finitely many places.                             *)
LEMMA KeptElements ==
  ASSUME NEW S, NEW list \in Seq(S), NEW places, places \subseteq DOMAIN list
  PROVE  /\ Kept(list, places) \in Seq(S)
         /\ Len(Kept(list, places)) = Cardinality(places)
         /\ \E at \in [DOMAIN Kept(list, places) -> places] :
              /\ \A k \in DOMAIN at : Kept(list, places)[k] = list[at[k]]
              /\ \A i \in places : \E k \in DOMAIN at : at[k] = i
              /\ \A j, k \in DOMAIN at : j < k => at[j] < at[k]
<1> DEFINE N == Cardinality(places)
           at == InOrder(places, <)
<1>1. DOMAIN list = 1 .. Len(list) /\ Len(list) \in Nat /\ places \subseteq Nat
  BY LenProperties
<1>2. IsFiniteSet(places)
  <2>1. IsFiniteSet(DOMAIN list)
    BY <1>1, FS_Interval
  <2> QED BY <2>1, FS_Subset
<1>3. /\ N \in Nat /\ at \in [1 .. N -> places]
      /\ \A x \in places : \E k \in 1 .. N : at[k] = x
      /\ \A j, k \in 1 .. N : j < k => at[j] < at[k]
  BY PlacesInOrder
<1> HIDE DEF at, N
<1>8. Kept(list, places) = [k \in 1 .. N |-> list[at[k]]]
  BY <1>3 DEF Kept, at
<1>9. \A k \in 1 .. N : list[at[k]] \in S
  BY <1>1, <1>3
<1>10. /\ Kept(list, places) \in Seq(S) /\ Len(Kept(list, places)) = N
       /\ DOMAIN Kept(list, places) = 1 .. N
  BY <1>3, <1>8, <1>9
<1>11. /\ at \in [DOMAIN Kept(list, places) -> places]
       /\ \A k \in DOMAIN at : Kept(list, places)[k] = list[at[k]]
       /\ \A i \in places : \E k \in DOMAIN at : at[k] = i
       /\ \A j, k \in DOMAIN at : j < k => at[j] < at[k]
  BY <1>3, <1>8, <1>10
<1> QED
  BY <1>10, <1>11 DEF N

-----------------------------------------------------------------------------
(* Induction over a set of numbers, from the well-foundedness of <.           *)
Less == {e \in Nat \X Nat : e[1] < e[2]}

(* Every set of numbers that has a member has a least one.                    *)
LEMMA LeastNumber ==
  ASSUME NEW T \in SUBSET Nat, T # {}
  PROVE  \E x \in T : \A y \in T : x <= y
<1>1. IsWellFoundedOn(Less, Nat)
  BY NatLessThanWellFounded DEF Less, OpToRel
<1>2. PICK x \in T : \A y \in T : ~ (<<y, x>> \in Less)
  BY <1>1, WFMin, Zenon
<1>3. ASSUME NEW y \in T PROVE x <= y
  <2>1. x \in Nat /\ y \in Nat
    OBVIOUS
  <2>2. ~ (y < x)
    BY <1>2, <2>1 DEF Less
  <2> QED BY <2>1, <2>2
<1> QED
  BY <1>3

(* A set that holds 0 and, with a number, the next one holds them all.        *)
LEMMA SetInduction ==
  ASSUME NEW S, 0 \in S, \A p \in Nat : p \in S => p + 1 \in S
  PROVE  Nat \subseteq S
<1> DEFINE T == Nat \ S
<1> SUFFICES ASSUME T # {} PROVE FALSE
  OBVIOUS
<1>1. PICK x \in T : \A y \in T : x <= y
  BY LeastNumber
<1>2. x # 0 /\ x - 1 \in Nat
  OBVIOUS
<1>3. x - 1 \in S
  BY <1>1, <1>2
<1> QED
  BY <1>2, <1>3

(* A function on the first numbers that starts somewhere and goes on by steps.*)
Begins(g, p, x, step) ==
  g[0] = x /\ \A k \in Nat : k < p => g[k + 1] = step[k][g[k]]

(* Any start and any step have such functions, and all of them agree.         *)
LEMMA BeginningsAgree ==
  ASSUME NEW x, NEW step, NEW g, NEW h, NEW m \in Nat, NEW p \in Nat,
         Begins(g, m, x, step), Begins(h, p, x, step)
  PROVE  \A k \in Nat : k <= m /\ k <= p => g[k] = h[k]
<1> DEFINE S == {k \in Nat : k <= m /\ k <= p => g[k] = h[k]}
<1>1. 0 \in S
  BY DEF Begins
<1>2. ASSUME NEW k \in Nat, k \in S PROVE k + 1 \in S
  BY <1>2 DEF Begins
<1> HIDE DEF S
<1>3. Nat \subseteq S
  BY <1>1, <1>2, SetInduction
<1> QED
  BY <1>3 DEF S

(* By induction on where they end.                                            *)
LEMMA BeginningsExist ==
  ASSUME NEW X, NEW x \in X, NEW step \in [Nat -> [X -> X]]
  PROVE  \A p \in Nat : \E g \in [0 .. p -> X] : Begins(g, p, x, step)
<1> DEFINE S == {p \in Nat : \E g \in [0 .. p -> X] : Begins(g, p, x, step)}
<1>1. 0 \in S
  <2> DEFINE g == [k \in 0 .. 0 |-> x]
  <2>1. g \in [0 .. 0 -> X] /\ Begins(g, 0, x, step)
    BY DEF Begins
  <2> QED BY <2>1
<1>2. ASSUME NEW p \in Nat, p \in S PROVE p + 1 \in S
  <2>1. PICK g \in [0 .. p -> X] : Begins(g, p, x, step)
    BY <1>2
  <2> DEFINE h == [k \in 0 .. p + 1 |-> IF k = p + 1 THEN step[p][g[p]] ELSE g[k]]
  <2>2. h \in [0 .. p + 1 -> X]
    OBVIOUS
  <2>3. Begins(h, p + 1, x, step)
    <3>1. h[0] = x
      BY <2>1 DEF Begins
    <3>2. ASSUME NEW k \in Nat, k < p + 1 PROVE h[k + 1] = step[k][h[k]]
      <4>1. CASE k = p
        BY <4>1
      <4>2. CASE k < p
        BY <2>1, <4>2 DEF Begins
      <4> QED BY <3>2, <4>1, <4>2
    <3> HIDE DEF h
    <3> QED BY <3>1, <3>2 DEF Begins
  <2> HIDE DEF h
  <2> QED BY <2>2, <2>3
<1> HIDE DEF S
<1>3. Nat \subseteq S
  BY <1>1, <1>2, SetInduction
<1> QED
  BY <1>3 DEF S

(* So there is one function on all numbers.                                   *)
Follows(f, X, x, step) ==
  /\ f \in [Nat -> X] /\ f[0] = x
  /\ \A p \in Nat : f[p + 1] = step[p][f[p]]

(* Any start and any step have one: f[0] = x and f[p + 1] = step[p][f[p]].    *)
LEMMA Recursion ==
  \A X, x, step : x \in X /\ step \in [Nat -> [X -> X]] => \E f : Follows(f, X, x, step)
<1> SUFFICES ASSUME NEW X, NEW x \in X, NEW step \in [Nat -> [X -> X]]
             PROVE  \E f : Follows(f, X, x, step)
  OBVIOUS
<1> DEFINE upTo(p) == CHOOSE g \in [0 .. p -> X] : Begins(g, p, x, step)
           f == [p \in Nat |-> upTo(p)[p]]
<1>1. \A p \in Nat : upTo(p) \in [0 .. p -> X] /\ Begins(upTo(p), p, x, step)
  BY BeginningsExist
<1> HIDE DEF upTo
<1>2. f \in [Nat -> X]
  BY <1>1
<1>3. f[0] = x
  BY <1>1 DEF Begins
<1>4. ASSUME NEW p \in Nat PROVE f[p + 1] = step[p][f[p]]
  <2>1. upTo(p + 1)[p + 1] = step[p][upTo(p + 1)[p]]
    BY <1>1 DEF Begins
  <2>2. upTo(p + 1)[p] = upTo(p)[p]
    BY <1>1, BeginningsAgree
  <2> QED BY <2>1, <2>2
<1> QED
  BY <1>2, <1>3, <1>4 DEF Follows

(* FlattenSeq appends the lists one after the other.                          *)
FlatIs(g, seqs) ==
  g = [i \in 1 .. Len(seqs) |-> IF i = 1 THEN seqs[i] ELSE g[i - 1] \o seqs[i]]

(* The recursion inside FlattenSeq, as a function on all numbers that exists. *)
LEMMA FlattenAppends ==
  ASSUME NEW S, NEW seqs \in Seq(Seq(S))
  PROVE  \E f \in [Nat -> Seq(S)] :
           /\ f[0] = <<>>
           /\ \A p \in Nat : p < Len(seqs) => f[p + 1] = f[p] \o seqs[p + 1]
           /\ FlattenSeq(seqs) = f[Len(seqs)]
<1> DEFINE N == Len(seqs)
           X == Seq(S)
           step == [p \in Nat |-> [x \in X |-> IF p < N THEN x \o seqs[p + 1] ELSE x]]
<1>1. N \in Nat /\ DOMAIN seqs = 1 .. N /\ \A i \in 1 .. N : seqs[i] \in X
  BY LenProperties
<1> DEFINE empty == <<>>
<1>2. empty \in X
  OBVIOUS
<1>3. \A x, y \in X : x \o y \in X
  BY ConcatProperties
<1>4. \A x \in X : empty \o x = x
  BY ConcatEmptySeq
<1> HIDE DEF N, X, empty
<1>5. step \in [Nat -> [X -> X]]
  <2>1. \A p \in Nat : \A x \in X : (IF p < N THEN x \o seqs[p + 1] ELSE x) \in X
    BY <1>1, <1>3
  <2> QED BY <2>1
<1>6. \A p \in Nat : \A x \in X : p < N => step[p][x] = x \o seqs[p + 1]
  OBVIOUS
<1> HIDE DEF step
<1>7. PICK f \in [Nat -> X] : f[0] = empty /\ \A p \in Nat : f[p + 1] = step[p][f[p]]
  <2>1. \E f : Follows(f, X, empty, step)
    BY <1>2, <1>5, Recursion
  <2> QED BY <2>1 DEF Follows
<1>8. \A p \in Nat : p < N => f[p + 1] = f[p] \o seqs[p + 1]
  BY <1>6, <1>7
<1>9. CASE N = 0
  <2>1. FlattenSeq(seqs) = seqs /\ seqs = <<>>
    BY <1>9 DEF FlattenSeq, N
  <2> QED BY <1>7, <1>8, <1>9, <2>1 DEF X, N, empty
<1>10. CASE N # 0
  <2>1. \A i \in 1 .. N : f[i] = IF i = 1 THEN seqs[i] ELSE f[i - 1] \o seqs[i]
    <3> TAKE i \in 1 .. N
    <3>1. i - 1 \in Nat /\ i - 1 < N /\ (i - 1) + 1 = i
      BY <1>1
    <3>2. f[i] = f[i - 1] \o seqs[i]
      BY <1>8, <3>1
    <3>3. i = 1 => f[i] = seqs[i]
      <4> SUFFICES ASSUME i = 1 PROVE f[1] = seqs[1]
        OBVIOUS
      <4>1. f[1] = f[0] \o seqs[1]
        <5>1. f[1] = f[1 - 1] \o seqs[1]
          BY <3>2
        <5> QED BY <5>1
      <4>2. seqs[1] \in X
        BY <1>1
      <4> QED BY <1>4, <1>7, <4>1, <4>2
    <3> QED BY <3>2, <3>3
  <2> DEFINE g == [i \in 1 .. N |-> f[i]]
  <2>2. FlatIs(g, seqs)
    <3>1. \A i \in 1 .. N : i # 1 => i - 1 \in 1 .. N
      BY <1>1
    <3>2. g = [i \in 1 .. N |-> IF i = 1 THEN seqs[i] ELSE g[i - 1] \o seqs[i]]
      BY <2>1, <3>1
    <3> QED BY <3>2 DEF FlatIs, N
  <2> DEFINE flat == CHOOSE h : FlatIs(h, seqs)
  <2>3. FlatIs(flat, seqs)
    BY <2>2, Zenon
  <2>4. FlattenSeq(seqs) = flat[N]
    BY <1>10 DEF FlattenSeq, FlatIs, N
  <2> HIDE DEF flat
  <2>5. \A i \in 1 .. N : flat[i] = IF i = 1 THEN seqs[i] ELSE flat[i - 1] \o seqs[i]
    <3>1. flat = [i \in 1 .. N |-> IF i = 1 THEN seqs[i] ELSE flat[i - 1] \o seqs[i]]
      BY <2>3 DEF FlatIs, N
    <3> DEFINE Rhs(i) == IF i = 1 THEN seqs[i] ELSE flat[i - 1] \o seqs[i]
    <3>2. flat = [i \in 1 .. N |-> Rhs(i)]
      BY <3>1
    <3> HIDE DEF Rhs
    <3>3. \A i \in 1 .. N : flat[i] = Rhs(i)
      BY <3>2
    <3> QED BY <3>3 DEF Rhs
  <2> DEFINE T == {p \in Nat : p < N => flat[p + 1] = f[p + 1]}
  <2>6. 0 \in T
    BY <1>1, <1>10, <2>1, <2>5
  <2>7. ASSUME NEW p \in Nat, p \in T PROVE p + 1 \in T
    <3> SUFFICES ASSUME p + 1 < N PROVE flat[(p + 1) + 1] = f[(p + 1) + 1]
      OBVIOUS
    <3>1. (p + 1) + 1 \in 1 .. N /\ (p + 1) + 1 # 1 /\ ((p + 1) + 1) - 1 = p + 1 /\ p < N
      BY <1>1
    <3>2. flat[p + 1] = f[p + 1]
      BY <2>7, <3>1
    <3> QED BY <2>1, <2>5, <3>1, <3>2
  <2> HIDE DEF T
  <2>8. Nat \subseteq T
    BY <2>6, <2>7, SetInduction
  <2>9. flat[N] = f[N]
    <3>1. N - 1 \in Nat /\ N - 1 < N /\ (N - 1) + 1 = N
      BY <1>1, <1>10
    <3>2. N - 1 \in T
      BY <2>8, <3>1
    <3> QED BY <3>1, <3>2 DEF T
  <2> QED BY <1>7, <1>8, <2>4, <2>9 DEF N, X, empty
<1> QED
  BY <1>9, <1>10

(* The elements of a concatenation.                                           *)
LEMMA ConcatElements ==
  ASSUME NEW S, NEW a \in Seq(S), NEW b \in Seq(S)
  PROVE  /\ a \o b \in Seq(S)
         /\ DOMAIN (a \o b) = 1 .. (Len(a) + Len(b))
         /\ \A k \in DOMAIN a : k \in DOMAIN (a \o b) /\ (a \o b)[k] = a[k]
         /\ \A k \in DOMAIN b :
              Len(a) + k \in DOMAIN (a \o b) /\ (a \o b)[Len(a) + k] = b[k]
         /\ \A k \in DOMAIN (a \o b) :
              k \in DOMAIN a \/ \E j \in DOMAIN b : k = Len(a) + j
<1> DEFINE c == a \o b  m == Len(a)  p == Len(b)
<1>1. m \in Nat /\ p \in Nat /\ DOMAIN a = 1 .. m /\ DOMAIN b = 1 .. p
  BY LenProperties
<1>2. /\ c \in Seq(S) /\ Len(c) = m + p
      /\ \A k \in 1 .. m + p : c[k] = IF k <= m THEN a[k] ELSE b[k - m]
  BY ConcatProperties
<1>3. DOMAIN c = 1 .. (m + p)
  BY <1>2, LenProperties
<1> HIDE DEF c, m, p
<1>4. ASSUME NEW k \in DOMAIN a PROVE k \in DOMAIN c /\ c[k] = a[k]
  BY <1>1, <1>2, <1>3
<1>5. ASSUME NEW k \in DOMAIN b PROVE m + k \in DOMAIN c /\ c[m + k] = b[k]
  <2>1. m + k \in 1 .. m + p /\ ~ (m + k <= m) /\ (m + k) - m = k
    BY <1>1
  <2> QED BY <1>2, <1>3, <2>1
<1>6. ASSUME NEW k \in DOMAIN c PROVE k \in DOMAIN a \/ \E j \in DOMAIN b : k = m + j
  <2>1. CASE k <= m
    BY <1>1, <1>3, <2>1
  <2>2. CASE ~ (k <= m)
    <3>1. k - m \in 1 .. p /\ k = m + (k - m)
      BY <1>1, <1>3, <2>2
    <3> QED BY <1>1, <3>1
  <2> QED BY <2>1, <2>2
<1> QED
  BY <1>2, <1>3, <1>4, <1>5, <1>6 DEF c, m, p

(* A list that is made of the elements of the first p lists.                  *)
MadeOf(flat, seqs, p) ==
  /\ \A k \in DOMAIN flat :
       \E i \in 1 .. p : \E j \in DOMAIN seqs[i] : flat[k] = seqs[i][j]
  /\ \A i \in 1 .. p : \A j \in DOMAIN seqs[i] :
       \E k \in DOMAIN flat : flat[k] = seqs[i][j]

(* Another list appended is one more list it is made of.                      *)
LEMMA ConcatMadeOf ==
  ASSUME NEW S, NEW a \in Seq(S), NEW seqs, NEW p \in Nat, seqs[p + 1] \in Seq(S),
         MadeOf(a, seqs, p)
  PROVE  MadeOf(a \o seqs[p + 1], seqs, p + 1)
<1> DEFINE b == seqs[p + 1]
           c == a \o b
           m == Len(a)
           First == 1 .. p
           All == 1 .. p + 1
<1>1. /\ \A k \in DOMAIN a : k \in DOMAIN c /\ c[k] = a[k]
      /\ \A k \in DOMAIN b : m + k \in DOMAIN c /\ c[m + k] = b[k]
      /\ \A k \in DOMAIN c : k \in DOMAIN a \/ \E j \in DOMAIN b : k = m + j
  BY ConcatElements
<1>2. All = First \union {p + 1}
  OBVIOUS
<1>3. /\ \A k \in DOMAIN a : \E i \in First : \E j \in DOMAIN seqs[i] : a[k] = seqs[i][j]
      /\ \A i \in First : \A j \in DOMAIN seqs[i] : \E k \in DOMAIN a : a[k] = seqs[i][j]
  BY DEF MadeOf
<1> HIDE DEF c, m, First, All
<1>4. ASSUME NEW k \in DOMAIN c
      PROVE  \E i \in All : \E j \in DOMAIN seqs[i] : c[k] = seqs[i][j]
  <2>1. CASE k \in DOMAIN a
    <3>1. PICK i \in First : \E j \in DOMAIN seqs[i] : a[k] = seqs[i][j]
      BY <1>3, <2>1
    <3> QED BY <1>1, <1>2, <2>1, <3>1
  <2>2. ASSUME NEW j \in DOMAIN b, k = m + j
        PROVE  \E i \in All : \E l \in DOMAIN seqs[i] : c[k] = seqs[i][l]
    <3>1. c[k] = seqs[p + 1][j] /\ j \in DOMAIN seqs[p + 1] /\ p + 1 \in All
      BY <1>1, <1>2, <2>2
    <3> QED BY <3>1
  <2> QED BY <1>1, <2>1, <2>2
<1>5. ASSUME NEW i \in All, NEW j \in DOMAIN seqs[i]
      PROVE  \E k \in DOMAIN c : c[k] = seqs[i][j]
  <2>1. CASE i \in First
    <3>1. PICK k \in DOMAIN a : a[k] = seqs[i][j]
      BY <1>3, <2>1
    <3> QED BY <1>1, <3>1
  <2>2. CASE i = p + 1
    <3>1. m + j \in DOMAIN c /\ c[m + j] = seqs[i][j]
      BY <1>1, <2>2
    <3> QED BY <3>1
  <2> QED BY <1>2, <2>1, <2>2
<1> QED
  BY <1>4, <1>5 DEF MadeOf, All, c

(* So its elements are those of the lists.                                    *)
LEMMA FlattenElements ==
  ASSUME NEW S, NEW seqs \in Seq(Seq(S))
  PROVE  /\ FlattenSeq(seqs) \in Seq(S)
         /\ MadeOf(FlattenSeq(seqs), seqs, Len(seqs))
<1> DEFINE N == Len(seqs)
<1>1. N \in Nat /\ \A i \in 1 .. N : seqs[i] \in Seq(S)
  BY LenProperties
<1>2. PICK f \in [Nat -> Seq(S)] :
        /\ f[0] = <<>>
        /\ \A p \in Nat : p < N => f[p + 1] = f[p] \o seqs[p + 1]
        /\ FlattenSeq(seqs) = f[N]
  BY FlattenAppends
<1> HIDE DEF N
<1> DEFINE T == {p \in Nat : p <= N => MadeOf(f[p], seqs, p)}
<1>3. 0 \in T
  BY <1>2 DEF MadeOf
<1>4. ASSUME NEW p \in Nat, p \in T PROVE p + 1 \in T
  <2> SUFFICES ASSUME p + 1 <= N PROVE MadeOf(f[p + 1], seqs, p + 1)
    OBVIOUS
  <2>1. MadeOf(f[p], seqs, p) /\ p < N /\ p + 1 \in 1 .. N
    BY <1>1, <1>4
  <2>2. f[p] \in Seq(S) /\ seqs[p + 1] \in Seq(S) /\ f[p + 1] = f[p] \o seqs[p + 1]
    BY <1>1, <1>2, <2>1
  <2>3. MadeOf(f[p] \o seqs[p + 1], seqs, p + 1)
    BY <2>1, <2>2, ConcatMadeOf
  <2> QED BY <2>2, <2>3
<1> HIDE DEF T
<1>5. Nat \subseteq T
  BY <1>3, <1>4, SetInduction
<1>6. N \in T /\ N <= N
  BY <1>1, <1>5
<1> QED
  BY <1>2, <1>6 DEF T, N

(* What SetToSeq makes of a finite set.                                       *)
LEMMA SetToSeqElements ==
  ASSUME NEW S, IsFiniteSet(S)
  PROVE  /\ SetToSeq(S) \in Seq(S)
         /\ \A x \in S : \E k \in DOMAIN SetToSeq(S) : SetToSeq(S)[k] = x
<1> DEFINE N == Cardinality(S)
           f == SetToSeq(S)
<1>1. N \in Nat /\ \E g : g \in Bijection(1 .. N, S)
  BY FS_CardinalityType DEF ExistsBijection
<1>2. \E g \in [1 .. N -> S] : IsInjective(g)
  BY <1>1 DEF Bijection, Injection
<1>3. f \in [1 .. N -> S] /\ IsInjective(f)
  BY <1>2, Zenon DEF SetToSeq
<1>4. f \in Surjection(1 .. N, S)
  <2>1. f \in Injection(1 .. N, S) /\ Cardinality(1 .. N) = Cardinality(S)
    BY <1>1, <1>3, FS_Interval DEF Injection
  <2> HIDE DEF f, N
  <2> QED BY <2>1, FS_Injection
<1> HIDE DEF f, N
<1>5. f \in Seq(S) /\ \A x \in S : \E k \in DOMAIN f : f[k] = x
  BY <1>1, <1>3, <1>4 DEF Surjection
<1> QED
  BY <1>5 DEF f

(* Numbers in order.                                                          *)
LEMMA NumbersInOrder ==
  ASSUME NEW n \in Nat
  PROVE  InOrder(1 .. n, <) = [k \in 1 .. n |-> k]
<1> DEFINE S == 1 .. n
           pick(k) == CHOOSE x \in S : Cardinality({y \in S : y < x}) = k - 1
<1>1. Cardinality(S) = n
  BY FS_Interval
<1>2. ASSUME NEW x \in S PROVE Cardinality({y \in S : y < x}) = x - 1
  <2>1. {y \in S : y < x} = 1 .. x - 1
    OBVIOUS
  <2>2. Cardinality(1 .. x - 1) = IF 1 > x - 1 THEN 0 ELSE (x - 1) - 1 + 1
    BY FS_Interval
  <2>3. (IF 1 > x - 1 THEN 0 ELSE (x - 1) - 1 + 1) = x - 1
    OBVIOUS
  <2> HIDE DEF S
  <2> QED BY <2>1, <2>2, <2>3
<1>3. ASSUME NEW k \in S PROVE pick(k) = k
  <2>1. Cardinality({y \in S : y < k}) = k - 1
    BY <1>2
  <2>2. pick(k) \in S /\ Cardinality({y \in S : y < pick(k)}) = k - 1
    BY <2>1
  <2> HIDE DEF pick
  <2>3. pick(k) - 1 = k - 1
    BY <1>2, <2>2
  <2> QED BY <2>2, <2>3
<1>4. InOrder(S, <) = [k \in 1 .. n |-> pick(k)]
  BY <1>1 DEF InOrder
<1> HIDE DEF pick
<1> QED
  BY <1>3, <1>4

(* Where a kept element comes to stand: behind the kept ones before it.       *)
LEMMA KeptAt ==
  ASSUME NEW S, NEW list \in Seq(S), NEW places, places \subseteq DOMAIN list, NEW k \in places
  PROVE  LET n == 1 + Cardinality({y \in places : y < k})
         IN  n \in DOMAIN Kept(list, places) /\ Kept(list, places)[n] = list[k]
<1> DEFINE N == Cardinality(places)
           R == {e \in places \X places : e[1] < e[2]}
           Below == [x \in places |-> {y \in places : y < x}]
           Nth(n) == CHOOSE y \in places : Cardinality({z \in places : z < y}) = n - 1
           b == Cardinality({y \in places : y < k})
<1>1. DOMAIN list = 1 .. Len(list) /\ Len(list) \in Nat /\ places \subseteq Nat
  BY LenProperties
<1>2. IsFiniteSet(places) /\ N \in Nat
  <2>1. IsFiniteSet(DOMAIN list)
    BY <1>1, FS_Interval
  <2> QED BY <2>1, FS_Subset, FS_CardinalityType
<1>3. Orders(R, places)
  BY <1>1 DEF Orders
<1>4. Precedes(Below, R, places)
  BY DEF Precedes
<1>5. /\ \A x \in places : Cardinality(Below[x]) \in 0 .. N - 1
      /\ \A x, y \in places : <<x, y>> \in R => Cardinality(Below[x]) < Cardinality(Below[y])
  <2> HIDE DEF R, Below
  <2> QED BY <1>2, <1>3, <1>4, Ranks
<1>6. b \in 0 .. N - 1 /\ b = Cardinality({y \in places : y < k})
  BY <1>5
<1>7. \A y \in places : Cardinality({z \in places : z < y}) = b => y = k
  <2> SUFFICES ASSUME NEW y \in places, Cardinality({z \in places : z < y}) = b, y # k
               PROVE  FALSE
    OBVIOUS
  <2>1. Cardinality(Below[y]) = b /\ Cardinality(Below[k]) = b
    OBVIOUS
  <2>2. y < k \/ k < y
    BY <1>1
  <2>3. <<y, k>> \in R \/ <<k, y>> \in R
    BY <2>2
  <2> HIDE DEF R, Below, b
  <2> QED BY <1>5, <1>6, <2>1, <2>3
<1>8. Kept(list, places) = [n \in 1 .. N |-> list[Nth(n)]]
  BY <1>2 DEF Kept, InOrder
<1> HIDE DEF b
<1>9. 1 + b \in 1 .. N /\ (1 + b) - 1 = b
  BY <1>2, <1>6
<1>10. Nth(1 + b) = k
  <2>1. \E y \in places : Cardinality({z \in places : z < y}) = (1 + b) - 1
    BY <1>6, <1>9
  <2>2. Nth(1 + b) \in places /\ Cardinality({z \in places : z < Nth(1 + b)}) = (1 + b) - 1
    BY <2>1
  <2> HIDE DEF Nth
  <2> QED BY <1>7, <1>9, <2>2
<1> HIDE DEF Nth, N
<1>11. 1 + b \in DOMAIN Kept(list, places) /\ Kept(list, places)[1 + b] = list[k]
  BY <1>8, <1>9, <1>10
<1> QED
  BY <1>11 DEF b

-----------------------------------------------------------------------------
(* Where the elements of joined lists come from.  The place (p, o) of an      *)
(* element is the number o in the list p; it is the next one behind (q, r) or,*)
(* behind (0, 0), the first.                                                  *)
NextPlace(lists, q, r, p, o) ==
  \/ p = q /\ o = r + 1
  \/ /\ q < p /\ o = 1
     /\ q = 0 \/ r = Len(lists[q])
     /\ \A k \in q + 1 .. p - 1 : lists[k] = <<>>

(* No list up to the m-th has an element behind (q, r).                       *)
LastPlace(lists, m, q, r) ==
  /\ q = 0 \/ r = Len(lists[q])
  /\ \A k \in q + 1 .. m : lists[k] = <<>>

(* The places of all elements of a text, in order, in the first m lists.      *)
Places(p, o, lists, m, text) ==
  /\ p[0] = 0 /\ o[0] = 0
  /\ \A n \in 1 .. Len(text) :
       /\ p[n] \in 1 .. m /\ o[n] \in 1 .. Len(lists[p[n]])
       /\ text[n] = lists[p[n]][o[n]]
       /\ NextPlace(lists, p[n - 1], o[n - 1], p[n], o[n])
  /\ LastPlace(lists, m, p[Len(text)], o[Len(text)])
  /\ p[Len(text)] \in 0 .. m

(* One more list appended.                                                    *)
LEMMA PlacesAppend ==
  ASSUME NEW S, NEW text \in Seq(S), NEW lists, NEW m \in Nat, lists[m + 1] \in Seq(S),
         NEW p, NEW o, Places(p, o, lists, m, text)
  PROVE  \E pp, oo : Places(pp, oo, lists, m + 1, text \o lists[m + 1])
<1> DEFINE b == lists[m + 1]  T == Len(text)  B == Len(b)  all == text \o b
           pp == [n \in 0 .. T + B |-> IF n <= T THEN p[n] ELSE m + 1]
           oo == [n \in 0 .. T + B |-> IF n <= T THEN o[n] ELSE n - T]
<1>1. T \in Nat /\ B \in Nat /\ b \in Seq(S)
  BY LenProperties
<1>2. /\ Len(all) = T + B
      /\ \A n \in 1 .. T : all[n] = text[n]
      /\ \A n \in T + 1 .. T + B : all[n] = b[n - T]
  <2>1. /\ Len(all) = Len(text) + Len(b)
        /\ \A n \in 1 .. Len(text) + Len(b) :
             all[n] = IF n <= Len(text) THEN text[n] ELSE b[n - Len(text)]
    BY <1>1, ConcatProperties
  <2> HIDE DEF all, b
  <2> QED BY <1>1, <2>1
<1>3. /\ p[0] = 0 /\ o[0] = 0
      /\ \A n \in 1 .. T :
           /\ p[n] \in 1 .. m /\ o[n] \in 1 .. Len(lists[p[n]])
           /\ text[n] = lists[p[n]][o[n]]
           /\ NextPlace(lists, p[n - 1], o[n - 1], p[n], o[n])
      /\ p[T] = 0 \/ o[T] = Len(lists[p[T]])
      /\ \A k \in p[T] + 1 .. m : lists[k] = <<>>
      /\ p[T] \in 0 .. m
  BY DEF Places, LastPlace
<1>4. /\ \A n \in 0 .. T : pp[n] = p[n] /\ oo[n] = o[n]
      /\ \A n \in T + 1 .. T + B : pp[n] = m + 1 /\ oo[n] = n - T
  <2> HIDE DEF b, T, B
  <2> QED BY <1>1
<1> HIDE DEF pp, oo, T, B, all
<1>5. pp[0] = 0 /\ oo[0] = 0
  BY <1>1, <1>3, <1>4
<1>6. ASSUME NEW n \in 1 .. T + B
      PROVE  /\ pp[n] \in 1 .. m + 1 /\ oo[n] \in 1 .. Len(lists[pp[n]])
             /\ all[n] = lists[pp[n]][oo[n]]
             /\ NextPlace(lists, pp[n - 1], oo[n - 1], pp[n], oo[n])
  <2>1. CASE n <= T
    <3>1. n \in 1 .. T /\ n \in 0 .. T /\ n - 1 \in 0 .. T
      BY <1>1, <2>1
    <3>2. pp[n] = p[n] /\ oo[n] = o[n] /\ pp[n - 1] = p[n - 1] /\ oo[n - 1] = o[n - 1]
          /\ all[n] = text[n] /\ p[n] \in 1 .. m
      BY <1>2, <1>3, <1>4, <3>1
    <3>3. p[n] \in 1 .. m + 1
      BY <3>2
    <3> QED BY <1>3, <3>1, <3>2, <3>3
  <2>2. CASE n > T
    <3>1. n \in T + 1 .. T + B /\ n - T \in 1 .. B /\ m + 1 \in 1 .. m + 1
      BY <1>1, <2>2
    <3>2. pp[n] = m + 1 /\ oo[n] = n - T /\ all[n] = b[n - T]
      BY <1>2, <1>4, <3>1
    <3>3. NextPlace(lists, pp[n - 1], oo[n - 1], m + 1, n - T)
      <4>1. CASE n = T + 1
        <5>1. n - 1 = T /\ T \in 0 .. T /\ n - T = 1
          BY <1>1, <4>1
        <5>2. pp[n - 1] = p[T] /\ oo[n - 1] = o[T]
          BY <1>4, <5>1
        <5>3. p[T] < m + 1 /\ (m + 1) - 1 = m
          BY <1>3
        <5> QED BY <1>3, <5>1, <5>2, <5>3 DEF NextPlace
      <4>2. CASE n # T + 1
        <5>1. n - 1 \in T + 1 .. T + B /\ (n - 1 - T) + 1 = n - T
          BY <1>1, <3>1, <4>2
        <5>2. pp[n - 1] = m + 1 /\ oo[n - 1] = n - 1 - T
          BY <1>4, <5>1
        <5> QED BY <5>1, <5>2 DEF NextPlace
      <4> QED BY <4>1, <4>2
    <3> QED BY <3>1, <3>2, <3>3 DEF B
  <2> QED BY <1>1, <2>1, <2>2
<1>7. LastPlace(lists, m + 1, pp[T + B], oo[T + B]) /\ pp[T + B] \in 0 .. m + 1
  <2>1. CASE B = 0
    <3>1. T + B = T /\ T \in 0 .. T
      BY <1>1, <2>1
    <3>2. pp[T + B] = p[T] /\ oo[T + B] = o[T]
      BY <1>4, <3>1
    <3>3. lists[m + 1] = <<>>
      BY <1>1, <2>1, EmptySeq DEF B
    <3>4. \A k \in p[T] + 1 .. m + 1 : k \in p[T] + 1 .. m \/ k = m + 1
      BY <1>3
    <3>5. \A k \in p[T] + 1 .. m + 1 : lists[k] = <<>>
      BY <1>3, <3>3, <3>4
    <3>6. p[T] \in 0 .. m + 1
      BY <1>3
    <3> QED BY <1>3, <3>2, <3>5, <3>6 DEF LastPlace
  <2>2. CASE B # 0
    <3>1. T + B \in T + 1 .. T + B /\ (T + B) - T = B
      BY <1>1, <2>2
    <3>2. pp[T + B] = m + 1 /\ oo[T + B] = B
      BY <1>4, <3>1
    <3>3. \A k \in (m + 1) + 1 .. m + 1 : lists[k] = <<>>
      OBVIOUS
    <3> QED BY <3>2, <3>3 DEF LastPlace, B
  <2> QED BY <2>1, <2>2
<1> QED
  <2>1. Places(pp, oo, lists, m + 1, all)
    BY <1>2, <1>5, <1>6, <1>7 DEF Places
  <2> QED BY <2>1 DEF all

(* By induction over the lists.                                               *)
LEMMA FlattenPlaces ==
  ASSUME NEW S, NEW lists \in Seq(Seq(S))
  PROVE  \E p, o : Places(p, o, lists, Len(lists), FlattenSeq(lists))
<1> DEFINE N == Len(lists)
<1>1. N \in Nat /\ \A i \in 1 .. N : lists[i] \in Seq(S)
  BY LenProperties
<1>2. PICK f \in [Nat -> Seq(S)] :
        /\ f[0] = <<>>
        /\ \A p \in Nat : p < N => f[p + 1] = f[p] \o lists[p + 1]
        /\ FlattenSeq(lists) = f[N]
  BY FlattenAppends
<1> HIDE DEF N
<1> DEFINE T == {m \in Nat : m <= N => \E p, o : Places(p, o, lists, m, f[m])}
<1>3. 0 \in T
  <2> DEFINE z == [n \in 0 .. 0 |-> 0]
  <2>1. Len(f[0]) = 0 /\ z[0] = 0
    BY <1>2
  <2> HIDE DEF z
  <2>2. LastPlace(lists, 0, z[0], z[0])
    BY <2>1 DEF LastPlace
  <2>3. Places(z, z, lists, 0, f[0])
    BY <2>1, <2>2 DEF Places
  <2> QED BY <2>3
<1>4. ASSUME NEW m \in Nat, m \in T PROVE m + 1 \in T
  <2> SUFFICES ASSUME m + 1 <= N PROVE \E p, o : Places(p, o, lists, m + 1, f[m + 1])
    OBVIOUS
  <2>1. m < N /\ m <= N /\ m + 1 \in 1 .. N
    BY <1>1
  <2>2. PICK p, o : Places(p, o, lists, m, f[m])
    BY <1>4, <2>1
  <2>3. f[m] \in Seq(S) /\ lists[m + 1] \in Seq(S) /\ f[m + 1] = f[m] \o lists[m + 1]
    BY <1>1, <1>2, <2>1
  <2>4. \E pp, oo : Places(pp, oo, lists, m + 1, f[m] \o lists[m + 1])
    BY <2>2, <2>3, PlacesAppend
  <2> QED BY <2>3, <2>4
<1> HIDE DEF T
<1>5. Nat \subseteq T
  BY <1>3, <1>4, SetInduction
<1>6. N \in T /\ N <= N
  BY <1>1, <1>5
<1> QED
  BY <1>2, <1>6 DEF T, N

-----------------------------------------------------------------------------
(* Lists laid one behind the other.                                           *)

(* A text is laid out of lists: the m-th element of the k-th list comes       *)
(* behind the off[k - 1] elements of the lists before it.                     *)
Laid(text, lists, N, off) ==
  /\ off[0] = 0 /\ Len(text) = off[N]
  /\ \A k \in 1 .. N :
       /\ off[k - 1] \in Nat /\ off[k] = off[k - 1] + Len(lists[k])
       /\ \A m \in 1 .. Len(lists[k]) : text[off[k - 1] + m] = lists[k][m]

(* FlattenSeq lays its lists out.                                             *)
LEMMA FlattenLays ==
  ASSUME NEW S, NEW lists \in Seq(Seq(S))
  PROVE  \E off : Laid(FlattenSeq(lists), lists, Len(lists), off)
<1> DEFINE N == Len(lists)
<1>1. N \in Nat /\ \A i \in 1 .. N : lists[i] \in Seq(S)
  BY LenProperties
<1>2. PICK f \in [Nat -> Seq(S)] :
        /\ f[0] = <<>>
        /\ \A p \in Nat : p < N => f[p + 1] = f[p] \o lists[p + 1]
        /\ FlattenSeq(lists) = f[N]
  BY FlattenAppends
<1> HIDE DEF N
<1> DEFINE off == [p \in Nat |-> Len(f[p])]
<1>3. \A p \in Nat : f[p] \in Seq(S) /\ off[p] = Len(f[p]) /\ off[p] \in Nat
  BY <1>2, LenProperties
<1>4. off[0] = 0
  BY <1>2, <1>3
<1> HIDE DEF off
<1>5. ASSUME NEW p \in Nat, p < N
      PROVE  /\ off[p + 1] = off[p] + Len(lists[p + 1])
             /\ \A n \in 1 .. off[p] : f[p + 1][n] = f[p][n]
             /\ \A m \in 1 .. Len(lists[p + 1]) : f[p + 1][off[p] + m] = lists[p + 1][m]
  <2>1. p + 1 \in 1 .. N /\ p + 1 \in Nat
    BY <1>1, <1>5
  <2>2. f[p] \in Seq(S) /\ lists[p + 1] \in Seq(S) /\ f[p + 1] = f[p] \o lists[p + 1]
    BY <1>1, <1>2, <1>5, <2>1
  <2> DEFINE a == f[p]  b == lists[p + 1]
  <2>3. a \in Seq(S) /\ b \in Seq(S)
    BY <2>2
  <2> HIDE DEF a, b
  <2>4. /\ Len(a \o b) = Len(a) + Len(b)
        /\ \A n \in 1 .. Len(a) + Len(b) :
             (a \o b)[n] = IF n <= Len(a) THEN a[n] ELSE b[n - Len(a)]
    BY <2>3, ConcatProperties
  <2>5. Len(a) \in Nat /\ Len(b) \in Nat
    BY <2>3, LenProperties
  <2> DEFINE c == a \o b  la == Len(a)  lb == Len(b)
  <2> HIDE DEF c, la, lb
  <2>9. la \in Nat /\ lb \in Nat
    BY <2>5 DEF la, lb
  <2>6. \A n \in 1 .. la : c[n] = a[n]
    <3> TAKE n \in 1 .. la
    <3>1. n \in 1 .. la + lb /\ n <= la
      BY <2>5 DEF la, lb
    <3> QED BY <2>4, <3>1 DEF c, la, lb
  <2>7. \A m \in 1 .. lb : c[la + m] = b[m]
    <3> TAKE m \in 1 .. lb
    <3>1. la + m \in 1 .. la + lb /\ ~ (la + m <= la) /\ (la + m) - la = m
      BY <2>9
    <3>2. c[la + m] = IF la + m <= la THEN a[la + m] ELSE b[(la + m) - la]
      BY <2>4, <3>1 DEF c, la, lb
    <3> QED BY <3>1, <3>2
  <2>8. off[p] = la /\ off[p + 1] = la + lb /\ f[p + 1] = c
    BY <1>3, <2>1, <2>2, <2>4 DEF a, b, c, la, lb
  <2> QED BY <2>6, <2>7, <2>8 DEF a, b, lb
<1> DEFINE Stands(p) == \A k \in 1 .. p : \A m \in 1 .. Len(lists[k]) :
                          /\ off[k - 1] + m \in 1 .. off[p]
                          /\ f[p][off[k - 1] + m] = lists[k][m]
           T == {p \in Nat : p <= N => Stands(p)}
<1> HIDE DEF Stands
<1>6. 0 \in T
  BY DEF Stands
<1>7. ASSUME NEW p \in Nat, p \in T PROVE p + 1 \in T
  <2> SUFFICES ASSUME p + 1 <= N PROVE Stands(p + 1)
    OBVIOUS
  <2> DEFINE q == p + 1
  <2>1. p < N /\ p <= N /\ q \in 1 .. N /\ q \in Nat
    BY <1>1
  <2>2. lists[q] \in Seq(S) /\ off[p] \in Nat
    BY <1>1, <1>3, <2>1
  <2>3. Len(lists[q]) \in Nat
    BY <2>2, LenProperties
  <2>4. /\ off[q] = off[p] + Len(lists[q])
        /\ \A n \in 1 .. off[p] : f[q][n] = f[p][n]
        /\ \A m \in 1 .. Len(lists[q]) : f[q][off[p] + m] = lists[q][m]
    BY <1>5, <2>1
  <2>5. Stands(p)
    BY <1>7, <2>1
  <2>6. \A k \in 1 .. q : k \in 1 .. p \/ (k = q /\ k - 1 = p)
    OBVIOUS
  <2> HIDE DEF q
  <2>9. /\ \A x \in 1 .. off[p] : x \in 1 .. off[q]
        /\ \A m \in 1 .. Len(lists[q]) : off[p] + m \in 1 .. off[q]
    <3> DEFINE L == Len(lists[q])  a == off[p]  b == off[q]
    <3>1. L \in Nat /\ a \in Nat /\ b = a + L
      BY <2>2, <2>3, <2>4
    <3> HIDE DEF L, a, b
    <3>2. (\A x \in 1 .. a : x \in 1 .. b) /\ (\A m \in 1 .. L : a + m \in 1 .. b)
      BY <3>1
    <3> QED BY <3>2 DEF L, a, b
  <2>7. ASSUME NEW k \in 1 .. q, NEW m \in 1 .. Len(lists[k])
        PROVE  off[k - 1] + m \in 1 .. off[q] /\ f[q][off[k - 1] + m] = lists[k][m]
    <3>1. CASE k \in 1 .. p
      <4>1. off[k - 1] + m \in 1 .. off[p] /\ f[p][off[k - 1] + m] = lists[k][m]
        BY <2>5, <3>1 DEF Stands
      <4>2. off[k - 1] + m \in 1 .. off[q]
        BY <2>9, <4>1
      <4> QED BY <2>4, <4>1, <4>2
    <3>2. CASE k = q /\ k - 1 = p
      <4>1. m \in 1 .. Len(lists[q])
        BY <3>2
      <4>2. off[p] + m \in 1 .. off[q]
        BY <2>9, <4>1
      <4> QED BY <2>4, <3>2, <4>1, <4>2
    <3> QED BY <2>6, <3>1, <3>2
  <2>8. Stands(q)
    BY <2>7 DEF Stands
  <2> QED BY <2>8 DEF q
<1> HIDE DEF T
<1>8. Nat \subseteq T
  BY <1>6, <1>7, SetInduction
<1>9. Stands(N)
  <2>1. N \in T /\ N <= N
    BY <1>1, <1>8
  <2> QED BY <2>1 DEF T
<1>10. \A k \in 1 .. N : off[k - 1] \in Nat /\ off[k] = off[k - 1] + Len(lists[k])
  <2> TAKE k \in 1 .. N
  <2>1. k - 1 \in Nat /\ k - 1 < N /\ (k - 1) + 1 = k
    BY <1>1
  <2> QED BY <1>3, <1>5, <2>1
<1>11. Len(FlattenSeq(lists)) = off[N]
  BY <1>1, <1>2, <1>3
<1>12. \A k \in 1 .. N : \A m \in 1 .. Len(lists[k]) :
         FlattenSeq(lists)[off[k - 1] + m] = lists[k][m]
  BY <1>2, <1>9 DEF Stands
<1>13. Laid(FlattenSeq(lists), lists, N, off)
  BY <1>4, <1>10, <1>11, <1>12 DEF Laid
<1> QED
  BY <1>13 DEF N

(* There is one way to lay them out.                                          *)
LEMMA LaidOnce ==
  ASSUME NEW S, NEW lists, NEW N \in Nat, \A k \in 1 .. N : lists[k] \in Seq(S),
         NEW t \in Seq(S), NEW u \in Seq(S), NEW off, NEW more,
         Laid(t, lists, N, off), Laid(u, lists, N, more)
  PROVE  t = u
<1> DEFINE T == {p \in Nat : p <= N => /\ off[p] \in Nat /\ more[p] = off[p]
                                       /\ \A n \in 1 .. off[p] : t[n] = u[n]}
<1>1. 0 \in T
  BY DEF Laid
<1>2. ASSUME NEW p \in Nat, p \in T PROVE p + 1 \in T
  <2> SUFFICES ASSUME p + 1 <= N
               PROVE  /\ off[p + 1] \in Nat /\ more[p + 1] = off[p + 1]
                      /\ \A n \in 1 .. off[p + 1] : t[n] = u[n]
    OBVIOUS
  <2> DEFINE k == p + 1  L == Len(lists[k])
  <2>1. k \in 1 .. N /\ k - 1 = p /\ p <= N
    OBVIOUS
  <2>2. L \in Nat
    BY <2>1, LenProperties
  <2>3. off[p] \in Nat /\ more[p] = off[p] /\ \A n \in 1 .. off[p] : t[n] = u[n]
    BY <1>2, <2>1
  <2>4. /\ off[k] = off[k - 1] + L /\ more[k] = more[k - 1] + L
        /\ \A m \in 1 .. L : t[off[k - 1] + m] = lists[k][m] /\ u[more[k - 1] + m] = lists[k][m]
    BY <2>1 DEF Laid
  <2> HIDE DEF k, L
  <2>5. off[k] = off[p] + L /\ more[k] = off[k]
    BY <2>1, <2>3, <2>4
  <2>6. \A n \in 1 .. off[k] : t[n] = u[n]
    <3> TAKE n \in 1 .. off[k]
    <3>1. CASE n <= off[p]
      <4>1. n \in 1 .. off[p]
        BY <2>3, <3>1
      <4> QED BY <2>3, <4>1
    <3>2. CASE n > off[p]
      <4>1. n - off[p] \in 1 .. L /\ off[p] + (n - off[p]) = n
        BY <2>2, <2>3, <2>5, <3>2
      <4> QED BY <2>1, <2>3, <2>4, <4>1
    <3> QED BY <2>3, <3>1, <3>2
  <2> QED BY <2>2, <2>3, <2>5, <2>6 DEF k
<1> HIDE DEF T
<1>3. Nat \subseteq T
  BY <1>1, <1>2, SetInduction
<1>4. off[N] \in Nat /\ more[N] = off[N] /\ \A n \in 1 .. off[N] : t[n] = u[n]
  <2>1. N \in T /\ N <= N
    BY <1>3
  <2> QED BY <2>1 DEF T
<1>5. Len(t) = off[N] /\ Len(u) = off[N]
  BY <1>4 DEF Laid
<1> QED
  BY <1>4, <1>5, SeqEqual

(* So what is laid out of lists is what FlattenSeq makes of them.             *)
LEMMA LaidIsFlat ==
  ASSUME NEW S, NEW lists \in Seq(Seq(S)), NEW text \in Seq(S), NEW off,
         Laid(text, lists, Len(lists), off)
  PROVE  FlattenSeq(lists) = text
<1>1. Len(lists) \in Nat /\ \A k \in 1 .. Len(lists) : lists[k] \in Seq(S)
  BY LenProperties
<1>2. FlattenSeq(lists) \in Seq(S)
  BY FlattenElements
<1>3. PICK more : Laid(FlattenSeq(lists), lists, Len(lists), more)
  BY FlattenLays
<1> QED
  BY <1>1, <1>2, <1>3, LaidOnce

(* What a filter keeps is laid out of lists of one element or none.           *)
LEMMA KeptLaid ==
  ASSUME NEW S, NEW list \in Seq(S), NEW places, places \subseteq DOMAIN list
  PROVE  LET off == [k \in 0 .. Len(list) |-> Cardinality({y \in places : y <= k})]
             pieces == [k \in DOMAIN list |-> IF k \in places THEN <<list[k]>> ELSE <<>>]
         IN  Laid(Kept(list, places), pieces, Len(list), off)
<1> DEFINE N == Len(list)
           UpTo(k) == {y \in places : y <= k}
           off == [k \in 0 .. N |-> Cardinality(UpTo(k))]
           pieces == [k \in DOMAIN list |-> IF k \in places THEN <<list[k]>> ELSE <<>>]
           text == Kept(list, places)
<1>1. N \in Nat /\ DOMAIN list = 1 .. N
  BY LenProperties
<1>2. IsFiniteSet(places)
  <2>1. IsFiniteSet(1 .. N)
    BY <1>1, FS_Interval
  <2> QED BY <1>1, <2>1, FS_Subset
<1>3. \A k \in 0 .. N : IsFiniteSet(UpTo(k)) /\ Cardinality(UpTo(k)) \in Nat
  <2> TAKE k \in 0 .. N
  <2>1. UpTo(k) \subseteq places
    OBVIOUS
  <2> HIDE DEF UpTo
  <2> QED BY <1>2, <2>1, FS_Subset, FS_CardinalityType
<1>4. Len(text) = Cardinality(places)
  BY KeptElements
<1> HIDE DEF N
<1>5. \A k \in 0 .. N : off[k] = Cardinality(UpTo(k))
  OBVIOUS
<1>6. UpTo(0) = {} /\ UpTo(N) = places /\ 0 \in 0 .. N /\ N \in 0 .. N
  BY <1>1
<1>7. off[0] = 0 /\ Len(text) = off[N]
  <2>1. Cardinality({}) = 0
    BY FS_EmptySet
  <2> HIDE DEF UpTo, off, text
  <2> QED BY <1>4, <1>5, <1>6, <2>1
<1>8. ASSUME NEW k \in 1 .. N
      PROVE  /\ off[k - 1] \in Nat /\ off[k] = off[k - 1] + Len(pieces[k])
             /\ \A m \in 1 .. Len(pieces[k]) : text[off[k - 1] + m] = pieces[k][m]
  <2>1. k - 1 \in 0 .. N /\ k \in 0 .. N /\ k \in DOMAIN list
    BY <1>1
  <2>2. off[k - 1] = Cardinality(UpTo(k - 1)) /\ off[k] = Cardinality(UpTo(k))
        /\ off[k - 1] \in Nat
    BY <1>3, <1>5, <2>1
  <2>3. CASE k \in places
    <3>1. pieces[k] = <<list[k]>>
      BY <2>1, <2>3
    <3>2. Len(pieces[k]) = 1 /\ pieces[k][1] = list[k]
      <4> HIDE DEF pieces
      <4> QED BY <3>1
    <3>3. UpTo(k) = UpTo(k - 1) \union {k} /\ k \notin UpTo(k - 1)
      BY <1>1, <2>3
    <3>4. {y \in places : y < k} = UpTo(k - 1)
      BY <1>1
    <3> HIDE DEF UpTo, off, pieces
    <3>5. Cardinality(UpTo(k)) = Cardinality(UpTo(k - 1)) + 1
      BY <1>3, <2>1, <3>3, FS_AddElement
    <3>6. text[1 + Cardinality({y \in places : y < k})] = list[k]
      BY <2>3, KeptAt
    <3>7. text[off[k - 1] + 1] = list[k]
      <4>1. 1 + off[k - 1] = off[k - 1] + 1
        BY <2>2
      <4> QED BY <2>2, <3>4, <3>6, <4>1
    <3> HIDE DEF text
    <3> QED BY <2>2, <3>2, <3>5, <3>7
  <2>4. CASE k \notin places
    <3>1. pieces[k] = <<>>
      BY <2>1, <2>4
    <3>2. Len(pieces[k]) = 0
      BY <3>1
    <3>3. UpTo(k) = UpTo(k - 1)
      BY <1>1, <2>4
    <3> HIDE DEF UpTo, off, pieces, text
    <3> QED BY <2>2, <3>2, <3>3
  <2> QED BY <2>3, <2>4
<1> HIDE DEF off, pieces, text
<1>9. Laid(text, pieces, N, off)
  BY <1>7, <1>8 DEF Laid
<1> QED
  BY <1>9 DEF off, pieces, text, N

(* One more list in front.                                                    *)
LEMMA FlattenCons ==
  ASSUME NEW S, NEW x \in Seq(S), NEW lists \in Seq(Seq(S)), NEW more \in Seq(Seq(S)),
         Len(more) = Len(lists) + 1, more[1] = x,
         \A k \in DOMAIN lists : more[k + 1] = lists[k]
  PROVE  FlattenSeq(more) = x \o FlattenSeq(lists)
<1> DEFINE N == Len(lists)  flat == FlattenSeq(lists)  text == x \o flat  a == Len(x)
<1>1. N \in Nat /\ DOMAIN lists = 1 .. N /\ flat \in Seq(S) /\ a \in Nat
  BY LenProperties, FlattenElements
<1>2. PICK off : Laid(flat, lists, N, off)
  BY FlattenLays
<1> HIDE DEF flat
<1>3. /\ text \in Seq(S) /\ Len(text) = Len(x) + Len(flat)
      /\ \A n \in 1 .. Len(x) + Len(flat) :
           text[n] = IF n <= Len(x) THEN x[n] ELSE flat[n - Len(x)]
  BY <1>1, ConcatProperties
<1>4. Len(flat) \in Nat
  BY <1>1, LenProperties
<1> HIDE DEF text, N, a
<1>5. /\ off[0] = 0 /\ Len(flat) = off[N]
      /\ \A k \in 1 .. N :
           /\ off[k - 1] \in Nat /\ off[k] = off[k - 1] + Len(lists[k])
           /\ \A m \in 1 .. Len(lists[k]) : flat[off[k - 1] + m] = lists[k][m]
  BY <1>2 DEF Laid
<1>6. \A p \in 0 .. N : off[p] \in Nat /\ off[p] <= off[N]
  <2>1. \A k \in 1 .. N : Len(lists[k]) \in Nat
    <3>1. \A k \in 1 .. N : lists[k] \in Seq(S)
      BY <1>1
    <3> QED BY <3>1, LenProperties
  <2> DEFINE T == {d \in Nat : d <= N => off[N - d] \in Nat /\ off[N - d] <= off[N]}
  <2>2. 0 \in T
    <3>1. off[N] \in Nat
      BY <1>4, <1>5
    <3> QED BY <1>1, <3>1
  <2>3. ASSUME NEW d \in Nat, d \in T PROVE d + 1 \in T
    <3> SUFFICES ASSUME d + 1 <= N
                 PROVE  off[N - (d + 1)] \in Nat /\ off[N - (d + 1)] <= off[N]
      OBVIOUS
    <3> DEFINE k == N - d
    <3>1. k \in 1 .. N /\ k - 1 = N - (d + 1) /\ d <= N
      BY <1>1
    <3>2. off[k] \in Nat /\ off[k] <= off[N]
      BY <2>3, <3>1
    <3> HIDE DEF k
    <3>3. off[k - 1] \in Nat /\ off[k] = off[k - 1] + Len(lists[k]) /\ Len(lists[k]) \in Nat
      BY <1>5, <2>1, <3>1
    <3> DEFINE u == off[k]  v == off[k - 1]  w == Len(lists[k])  z == off[N]
    <3>4. u \in Nat /\ v \in Nat /\ w \in Nat /\ u = v + w /\ u <= z /\ z \in Nat
      BY <1>4, <1>5, <3>2, <3>3
    <3> HIDE DEF u, v, w, z
    <3>5. v <= z
      BY <3>4
    <3> QED BY <3>1, <3>4, <3>5 DEF v, z
  <2> HIDE DEF T
  <2>4. Nat \subseteq T
    BY <2>2, <2>3, SetInduction
  <2> TAKE p \in 0 .. N
  <2>5. N - p \in Nat /\ N - p <= N /\ N - (N - p) = p
    BY <1>1
  <2>6. N - p \in T
    BY <2>4, <2>5
  <2> QED BY <2>5, <2>6 DEF T
<1> DEFINE put == [k \in 0 .. N + 1 |-> IF k = 0 THEN 0 ELSE a + off[k - 1]]
<1>7. /\ put[0] = 0
      /\ \A k \in 1 .. N + 1 : put[k] = a + off[k - 1]
  BY <1>1
<1> HIDE DEF put
<1>8. \A n \in 1 .. a : text[n] = x[n]
  <2> TAKE n \in 1 .. a
  <2>1. n \in 1 .. Len(x) + Len(flat) /\ n <= Len(x)
    BY <1>1, <1>4 DEF a
  <2> QED BY <1>3, <2>1
<1>9. \A n \in 1 .. Len(flat) : text[a + n] = flat[n]
  <2> TAKE n \in 1 .. Len(flat)
  <2> DEFINE b == Len(flat)
  <2>1. b \in Nat /\ n \in 1 .. b
    BY <1>4
  <2> HIDE DEF b
  <2>2. a + n \in 1 .. a + b /\ ~ (a + n <= a) /\ (a + n) - a = n
    BY <1>1, <2>1
  <2>3. text[a + n] = IF a + n <= a THEN x[a + n] ELSE flat[(a + n) - a]
    BY <1>3, <2>2 DEF a, b
  <2> QED BY <2>2, <2>3
<1>10. ASSUME NEW k \in 1 .. N + 1
       PROVE  /\ put[k - 1] \in Nat /\ put[k] = put[k - 1] + Len(more[k])
              /\ \A m \in 1 .. Len(more[k]) : text[put[k - 1] + m] = more[k][m]
  <2>1. CASE k = 1
    <3>1. put[k - 1] = 0 /\ put[k] = a /\ more[k] = x
      <4>1. k - 1 = 0 /\ 1 \in 1 .. N + 1 /\ 1 - 1 = 0
        BY <1>1, <2>1
      <4>2. put[1] = a + off[0]
        BY <1>7, <4>1
      <4> QED BY <1>1, <1>5, <1>7, <2>1, <4>1, <4>2
    <3> QED BY <1>1, <1>8, <3>1 DEF a
  <2>2. CASE k # 1
    <3> DEFINE h == k - 1
    <3>1. h \in 1 .. N /\ h + 1 = k /\ h \in 1 .. N + 1 /\ h - 1 \in 0 .. N /\ h \in 0 .. N
      BY <1>1, <2>2
    <3> HIDE DEF h
    <3>2. more[k] = lists[h]
      BY <1>1, <3>1
    <3>3. put[h] = a + off[h - 1] /\ put[k] = a + off[h]
      <4>1. put[k] = a + off[k - 1]
        BY <1>7
      <4> QED BY <1>7, <3>1, <4>1 DEF h
    <3>4. /\ off[h - 1] \in Nat /\ off[h] = off[h - 1] + Len(lists[h])
          /\ \A m \in 1 .. Len(lists[h]) : flat[off[h - 1] + m] = lists[h][m]
      BY <1>5, <3>1
    <3>5. off[h] \in Nat /\ off[h] <= Len(flat)
      BY <1>5, <1>6, <3>1
    <3> DEFINE b == off[h - 1]  c == off[h]  l == Len(lists[h])  z == Len(flat)
    <3>6. l \in Nat
      <4>1. lists[h] \in Seq(S)
        BY <1>1, <3>1
      <4> QED BY <4>1, LenProperties
    <3>7. b \in Nat /\ c = b + l /\ c \in Nat /\ c <= z /\ z \in Nat
      BY <1>4, <3>4, <3>5
    <3> HIDE DEF b, c, l, z
    <3>8. /\ a + b \in Nat /\ a + c = (a + b) + l
          /\ \A m \in 1 .. l : b + m \in 1 .. z /\ (a + b) + m = a + (b + m)
      BY <1>1, <3>6, <3>7
    <3>9. \A m \in 1 .. l : text[(a + b) + m] = lists[h][m]
      <4> TAKE m \in 1 .. l
      <4>1. text[a + (b + m)] = flat[b + m]
        BY <1>9, <3>8 DEF z
      <4>2. flat[b + m] = lists[h][m]
        BY <3>4 DEF b, l
      <4> QED BY <3>8, <4>1, <4>2
    <3>10. put[k - 1] = a + b /\ put[k] = a + c /\ Len(more[k]) = l
      BY <3>2, <3>3 DEF b, c, l, h
    <3> QED BY <3>2, <3>8, <3>9, <3>10
  <2> QED BY <2>1, <2>2
<1>11. Len(text) = put[N + 1]
  <2>1. N + 1 \in 1 .. N + 1 /\ (N + 1) - 1 = N
    BY <1>1
  <2>2. put[N + 1] = a + off[N]
    BY <1>7, <2>1
  <2> QED BY <1>3, <1>5, <2>2 DEF a
<1>12. Laid(text, more, N + 1, put)
  BY <1>7, <1>10, <1>11 DEF Laid
<1>13. FlattenSeq(more) = text
  <2>1. Len(more) = N + 1
    BY DEF N
  <2>2. Laid(text, more, Len(more), put)
    BY <1>12, <2>1
  <2> QED BY <1>3, <2>2, LaidIsFlat
<1> QED
  BY <1>13 DEF text, flat

(* What a filter keeps it has from one of the places.                         *)
LEMMA KeptFrom ==
  ASSUME NEW S, NEW list \in Seq(S), NEW places \in SUBSET DOMAIN list
  PROVE  \A n \in DOMAIN Kept(list, places) : \E k \in places : Kept(list, places)[n] = list[k]
<1>1. list \in Seq(S) /\ places \subseteq DOMAIN list
  OBVIOUS
<1>2. PICK at \in [DOMAIN Kept(list, places) -> places] :
        \A k \in DOMAIN at : Kept(list, places)[k] = list[at[k]]
  BY <1>1, KeptElements
<1> QED
  BY <1>2

-----------------------------------------------------------------------------
(* Lists with something put in or taken out.                                  *)

(* A list with its elements from i to before j replaced by others.            *)
Spliced(s, i, j, mid) == SubSeq(s, 1, i - 1) \o mid \o SubSeq(s, j, Len(s))

(* The same, element by element.                                              *)
SplicedAs(t, s, i, j, mid) ==
  /\ Len(t) = (i - 1) + Len(mid) + ((Len(s) + 1) - j)
  /\ \A n \in 1 .. i - 1 : t[n] = s[n]
  /\ \A m \in 1 .. Len(mid) : t[(i - 1) + m] = mid[m]
  /\ \A n \in j .. Len(s) : t[(i - 1) + Len(mid) + ((n - j) + 1)] = s[n]

(* Every element of the list that is left and every one put in has its        *)
(* place.                                                                     *)
LEMMA SplicedIs ==
  ASSUME NEW S, NEW s \in Seq(S), NEW mid \in Seq(S),
         NEW i \in 1 .. Len(s) + 1, NEW j \in i .. Len(s) + 1
  PROVE  Spliced(s, i, j, mid) \in Seq(S) /\ SplicedAs(Spliced(s, i, j, mid), s, i, j, mid)
<1> DEFINE N == Len(s)  M == Len(mid)  A == SubSeq(s, 1, i - 1)  C == SubSeq(s, j, N)
           a == i - 1  c == (N + 1) - j  B == A \o mid  t == B \o C
<1>1. N \in Nat /\ M \in Nat /\ i \in 1 .. N + 1 /\ j \in i .. N + 1 /\ a \in Nat /\ c \in Nat
      /\ \A k \in 1 .. N : s[k] \in S
  BY LenProperties
<1>2. /\ A \in Seq(S) /\ Len(A) = a
      /\ \A k \in 1 .. a : A[k] = s[k]
  <2> HIDE DEF N
  <2>1. \A k \in 1 .. i - 1 : s[k] \in S
    BY <1>1
  <2>2. /\ A \in Seq(S) /\ Len(A) = IF 1 <= i - 1 THEN (i - 1) - 1 + 1 ELSE 0
        /\ \A k \in 1 .. (i - 1) - 1 + 1 : A[k] = s[1 + k - 1]
    <3> HIDE DEF A
    <3> QED BY <1>1, <2>1, SubSeqProperties DEF A
  <2> HIDE DEF A
  <2>3. Len(A) = a
    BY <1>1, <2>2
  <2>4. \A k \in 1 .. a : A[k] = s[k]
    <3> TAKE k \in 1 .. a
    <3>1. k \in 1 .. (i - 1) - 1 + 1 /\ 1 + k - 1 = k
      BY <1>1
    <3> QED BY <2>2, <3>1
  <2> QED BY <2>2, <2>3, <2>4
<1>3. /\ C \in Seq(S) /\ Len(C) = c
      /\ \A n \in j .. N : C[(n - j) + 1] = s[n]
  <2> HIDE DEF N
  <2>1. \A k \in j .. N : s[k] \in S
    BY <1>1
  <2>2. /\ C \in Seq(S) /\ Len(C) = IF j <= N THEN N - j + 1 ELSE 0
        /\ \A k \in 1 .. N - j + 1 : C[k] = s[j + k - 1]
    <3> HIDE DEF C
    <3> QED BY <1>1, <2>1, SubSeqProperties DEF C
  <2> HIDE DEF C
  <2>3. Len(C) = c
    BY <1>1, <2>2
  <2>4. \A n \in j .. N : C[(n - j) + 1] = s[n]
    <3> TAKE n \in j .. N
    <3>1. (n - j) + 1 \in 1 .. N - j + 1 /\ j + ((n - j) + 1) - 1 = n
      BY <1>1
    <3> QED BY <2>2, <3>1
  <2> QED BY <2>2, <2>3, <2>4
<1> HIDE DEF N, M, A, C, a, c
<1>4. /\ B \in Seq(S) /\ Len(B) = a + M
      /\ \A n \in 1 .. a + M : B[n] = IF n <= a THEN A[n] ELSE mid[n - a]
  <2>1. /\ A \o mid \in Seq(S) /\ Len(A \o mid) = Len(A) + Len(mid)
        /\ \A n \in 1 .. Len(A) + Len(mid) :
             (A \o mid)[n] = IF n <= Len(A) THEN A[n] ELSE mid[n - Len(A)]
    BY <1>2, ConcatProperties
  <2> QED BY <1>2, <2>1 DEF M
<1> HIDE DEF B
<1>5. /\ t \in Seq(S) /\ Len(t) = (a + M) + c
      /\ \A n \in 1 .. (a + M) + c : t[n] = IF n <= a + M THEN B[n] ELSE C[n - (a + M)]
  <2>1. /\ B \o C \in Seq(S) /\ Len(B \o C) = Len(B) + Len(C)
        /\ \A n \in 1 .. Len(B) + Len(C) :
             (B \o C)[n] = IF n <= Len(B) THEN B[n] ELSE C[n - Len(B)]
    BY <1>3, <1>4, ConcatProperties
  <2> QED BY <1>3, <1>4, <2>1
<1> HIDE DEF t
<1>6. \A n \in 1 .. a : t[n] = s[n]
  <2> TAKE n \in 1 .. a
  <2>1. n \in 1 .. (a + M) + c /\ n <= a + M /\ n \in 1 .. a + M /\ n <= a
    BY <1>1
  <2> QED BY <1>2, <1>4, <1>5, <2>1
<1>7. \A m \in 1 .. M : t[a + m] = mid[m]
  <2> TAKE m \in 1 .. M
  <2> DEFINE n == a + m
  <2>1. n \in 1 .. (a + M) + c /\ n <= a + M /\ n \in 1 .. a + M /\ ~ (n <= a) /\ n - a = m
    BY <1>1
  <2> HIDE DEF n
  <2>2. t[n] = mid[m]
    BY <1>4, <1>5, <2>1
  <2> QED BY <2>2 DEF n
<1>8. \A n \in j .. N : t[a + M + ((n - j) + 1)] = s[n]
  <2> TAKE n \in j .. N
  <2> DEFINE h == (n - j) + 1  q == a + M + h
  <2>1. h \in 1 .. c
    BY <1>1 DEF c
  <2>2. C[h] = s[n]
    BY <1>3
  <2> HIDE DEF h
  <2>3. q \in 1 .. (a + M) + c /\ ~ (q <= a + M) /\ q - (a + M) = h
    BY <1>1, <2>1
  <2> HIDE DEF q
  <2>4. t[q] = C[h]
    BY <1>5, <2>3
  <2> QED BY <2>2, <2>4 DEF q, h
<1> QED
  BY <1>5, <1>6, <1>7, <1>8 DEF t, B, A, C, N, M, a, c, Spliced, SplicedAs

(* An element put in front of the i-th.                                       *)
InsertedAs(t, s, i, x) ==
  /\ Len(t) = Len(s) + 1 /\ t[i] = x
  /\ \A n \in 1 .. i - 1 : t[n] = s[n]
  /\ \A n \in i .. Len(s) : t[n + 1] = s[n]

(* InsertAt does that, and leaves the others in their order.                  *)
LEMMA InsertedIs ==
  ASSUME NEW S, NEW s \in Seq(S), NEW i \in 1 .. Len(s) + 1, NEW x \in S
  PROVE  InsertAt(s, i, x) \in Seq(S) /\ InsertedAs(InsertAt(s, i, x), s, i, x)
<1> DEFINE t == Spliced(s, i, i, <<x>>)  N == Len(s)
<1>1. N \in Nat /\ i \in 1 .. N + 1 /\ i \in i .. N + 1
  BY LenProperties
<1>2. <<x>> \in Seq(S) /\ Len(<<x>>) = 1 /\ <<x>>[1] = x
  OBVIOUS
<1>3. /\ t \in Seq(S) /\ Len(t) = (i - 1) + 1 + ((N + 1) - i)
      /\ \A n \in 1 .. i - 1 : t[n] = s[n]
      /\ \A m \in 1 .. 1 : t[(i - 1) + m] = <<x>>[m]
      /\ \A n \in i .. N : t[(i - 1) + 1 + ((n - i) + 1)] = s[n]
  <2>1. i \in i .. Len(s) + 1
    BY <1>1
  <2>2. t \in Seq(S) /\ SplicedAs(t, s, i, i, <<x>>)
    BY <1>2, <2>1, SplicedIs
  <2> HIDE DEF t
  <2> QED BY <1>2, <2>2 DEF SplicedAs
<1>4. InsertAt(s, i, x) = t
  BY DEF InsertAt, Spliced
<1> HIDE DEF t, N
<1>5. Len(t) = N + 1
  BY <1>1, <1>3
<1>6. t[i] = x
  <2>1. (i - 1) + 1 = i /\ 1 \in 1 .. 1
    BY <1>1
  <2> QED BY <1>2, <1>3, <2>1
<1>7. \A n \in i .. N : t[n + 1] = s[n]
  <2> TAKE n \in i .. N
  <2>1. (i - 1) + 1 + ((n - i) + 1) = n + 1
    BY <1>1
  <2> QED BY <1>3, <2>1
<1> QED
  BY <1>3, <1>4, <1>5, <1>6, <1>7 DEF N, InsertedAs

(* The i-th element taken out.                                                *)
RemovedAs(t, s, i) ==
  /\ Len(t) = Len(s) - 1
  /\ \A n \in 1 .. i - 1 : t[n] = s[n]
  /\ \A n \in i + 1 .. Len(s) : t[n - 1] = s[n]

(* RemoveAt does that.                                                        *)
LEMMA RemovedIs ==
  ASSUME NEW S, NEW s \in Seq(S), NEW i \in 1 .. Len(s)
  PROVE  RemoveAt(s, i) \in Seq(S) /\ RemovedAs(RemoveAt(s, i), s, i)
<1> DEFINE t == Spliced(s, i, i + 1, <<>>)  N == Len(s)
<1>1. N \in Nat /\ i \in 1 .. N + 1 /\ i + 1 \in i .. N + 1 /\ i \in 1 .. N
      /\ \A k \in 1 .. N : s[k] \in S
  BY LenProperties
<1>2. <<>> \in Seq(S) /\ Len(<<>>) = 0
  OBVIOUS
<1>3. /\ t \in Seq(S) /\ Len(t) = (i - 1) + 0 + ((N + 1) - (i + 1))
      /\ \A n \in 1 .. i - 1 : t[n] = s[n]
      /\ \A n \in i + 1 .. N : t[(i - 1) + 0 + ((n - (i + 1)) + 1)] = s[n]
  <2>1. i \in 1 .. Len(s) + 1 /\ i + 1 \in i .. Len(s) + 1
    BY <1>1
  <2>2. t \in Seq(S) /\ SplicedAs(t, s, i, i + 1, <<>>)
    BY <1>2, <2>1, SplicedIs
  <2> HIDE DEF t
  <2> QED BY <1>2, <2>2 DEF SplicedAs
<1>4. RemoveAt(s, i) = t
  <2> DEFINE A == SubSeq(s, 1, i - 1)
  <2>1. \A k \in 1 .. i - 1 : s[k] \in S
    BY <1>1
  <2>2. A \in Seq(S)
    <3> HIDE DEF A
    <3> QED BY <1>1, <2>1, SubSeqProperties DEF A
  <2> HIDE DEF A
  <2>3. A \o <<>> = A
    BY <2>2, ConcatEmptySeq
  <2> QED BY <2>3 DEF RemoveAt, Spliced, A
<1> HIDE DEF t, N
<1>5. Len(t) = N - 1
  BY <1>1, <1>3
<1>6. \A n \in i + 1 .. N : t[n - 1] = s[n]
  <2> TAKE n \in i + 1 .. N
  <2>1. (i - 1) + 0 + ((n - (i + 1)) + 1) = n - 1
    BY <1>1
  <2> QED BY <1>3, <2>1
<1> QED
  BY <1>3, <1>4, <1>5, <1>6 DEF N, RemovedAs
=============================================================================
