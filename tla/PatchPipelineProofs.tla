------------------------- MODULE PatchPipelineProofs -------------------------
(* From the proposal to the files: what the printer prints of an edit script, *)
(* the parser reads back, and the applier does to the files what the script   *)
(* says; and it refuses no clean diff of the files as they are.               *)
EXTENDS PatchApplierProofs

-----------------------------------------------------------------------------
(* What is printed: the rows of a script, and the lines of a file's part.     *)

(* A line of the diff and the newline, if any, it is printed with.            *)
Ended == [line: DiffLines, end: {"lf", "crlf", "ff", "none"}]

(* Lines that all have an end, but perhaps the last, are read as they are.    *)
LEMMA SplitLines ==
  ASSUME NEW text \in Seq(Ended),
         \A k \in DOMAIN text : k < Len(text) => text[k].end # "none"
  PROVE  Split(text) = [k \in DOMAIN text |-> text[k].line]
<1> DEFINE n == Len(text)
           begins == InOrder({k \in DOMAIN text : k = 1 \/ text[k - 1].end # "none"}, <)
           Read(k) == IF text[k].end = "none" /\ k < Len(text)
                      THEN Body(text[k].line.tag, Glued[text[k].line.body]) ELSE text[k].line
<1>1. n \in Nat /\ DOMAIN text = 1 .. n
  BY LenProperties
<1>2. {k \in DOMAIN text : k = 1 \/ text[k - 1].end # "none"} = 1 .. n
  <2>1. ASSUME NEW k \in 1 .. n, k # 1 PROVE text[k - 1].end # "none"
    <3>1. k - 1 \in 1 .. n /\ k - 1 < n
      BY <1>1, <2>1
    <3> QED BY <1>1, <3>1
  <2> QED BY <1>1, <2>1
<1>3. begins = [k \in 1 .. n |-> k]
  BY <1>1, <1>2, NumbersInOrder
<1>4. Split(text) = [k \in DOMAIN begins |-> Read(begins[k])]
  BY DEF Split
<1>5. \A k \in 1 .. n : Read(k) = text[k].line
  BY <1>1
<1> HIDE DEF begins, Read, n
<1>6. DOMAIN begins = 1 .. n /\ \A k \in 1 .. n : begins[k] = k
  BY <1>3
<1> QED
  BY <1>1, <1>4, <1>5, <1>6

(* The line a diff prints of an entry.                                        *)
EntryLine(script, k) == Body(script[k].tag, script[k].line.body)

(* The lines of a diff are lines of a diff.                                   *)
LEMMA LinesOfDiffs ==
  /\ Blank \in DiffLines /\ Noise \in DiffLines
  /\ \A path \in Paths : Header("---", path) \in DiffLines /\ Header("+++", path) \in DiffLines
  /\ \A start \in Nat : HunkAt(start) \in DiffLines
  /\ \A tag \in {"---", "+++", "@@", "kept", "-", "+", "blank", "noise"} : \A body \in Bodies :
       Body(tag, body) \in DiffLines
<1>1. /\ Blank \in DiffLines /\ Noise \in DiffLines
      /\ \A path \in Paths :
           Header("---", path) \in DiffLines /\ Header("+++", path) \in DiffLines
      /\ \A start \in Nat : HunkAt(start) \in DiffLines
  BY BodyAssumption DEF DiffLines, Blank, Noise, Header, HunkAt
<1>2. ASSUME NEW tag \in {"---", "+++", "@@", "kept", "-", "+", "blank", "noise"},
             NEW body \in Bodies
      PROVE  Body(tag, body) \in DiffLines
  <2> DEFINE path == IF tag = "+" /\ body \in DOMAIN Plussed THEN Plussed[body] ELSE NoPath
  <2>1. path \in Paths \union {NoPath}
    BY BodyAssumption
  <2>2. Body(tag, body) = [Blank EXCEPT !.tag = tag, !.body = body, !.path = path]
    BY Zenon DEF Body
  <2> HIDE DEF path
  <2>3. Body(tag, body) = [tag |-> tag, path |-> path, start |-> 0, body |-> body]
    BY <2>2 DEF Blank
  <2> QED BY <1>2, <2>1, <2>3 DEF DiffLines
<1> QED
  BY <1>1, <1>2

(* A line of the diff with a newline.                                         *)
IsLine(x, line) == x.line = line /\ x.end = "lf"

(* What is printed of an entry that is shown, and where a hunk begins.        *)
LEMMA EntryPrinted ==
  ASSUME NEW script \in Seq(Entries), NEW k \in DOMAIN script
  PROVE  /\ PrintedEntry(script, k) \in Seq(Ended)
         /\ k \notin Shown(script) => PrintedEntry(script, k) = <<>>
         /\ k \in Shown(script) =>
              LET m == Len(PrintedEntry(script, k))
              IN  /\ m = IF k - 1 \in Shown(script) THEN 1 ELSE 2
                  /\ PrintedEntry(script, k)[m].line = EntryLine(script, k)
                  /\ PrintedEntry(script, k)[m].end = script[k].line.end
                  /\ m = 2 => IsLine(PrintedEntry(script, k)[1], HunkAt(HunkStart(script, k)))
<1> DEFINE x == [line |-> HunkAt(HunkStart(script, k)), end |-> "lf"]
           y == [line |-> EntryLine(script, k), end |-> script[k].line.end]
<1>1. x \in Ended /\ y \in Ended
  <2>1. script[k].tag \in {"kept", "-", "+"} /\ script[k].line.body \in Bodies
        /\ script[k].line.end \in {"lf", "crlf", "ff", "none"}
    <3>1. script[k] \in Entries
      OBVIOUS
    <3> QED BY <3>1 DEF Entries, Lines
  <2>2. EntryLine(script, k) \in DiffLines
    BY <2>1, LinesOfDiffs DEF EntryLine
  <2>3. HunkStart(script, k) \in Nat
    <3>1. k \in 1 .. Len(script) + 1
      BY LenProperties
    <3> QED BY <3>1, OldLineSteps DEF HunkStart
  <2>4. HunkAt(HunkStart(script, k)) \in DiffLines
    BY <2>3, LinesOfDiffs
  <2> QED BY <2>1, <2>2, <2>4 DEF Ended
<1>2. IsLine(x, HunkAt(HunkStart(script, k))) /\ y.line = EntryLine(script, k)
      /\ y.end = script[k].line.end
  BY DEF IsLine
<1>3. PrintedEntry(script, k) = IF k \notin Shown(script) THEN <<>>
                                ELSE (IF k - 1 \in Shown(script) THEN <<>> ELSE <<x>>) \o <<y>>
  BY DEF PrintedEntry, WithEnd, EntryLine
<1> HIDE DEF x, y
<1>4. /\ <<>> \o <<y>> \in Seq(Ended) /\ Len(<<>> \o <<y>>) = 1 /\ (<<>> \o <<y>>)[1] = y
      /\ <<x>> \o <<y>> \in Seq(Ended) /\ Len(<<x>> \o <<y>>) = 2
      /\ (<<x>> \o <<y>>)[1] = x /\ (<<x>> \o <<y>>)[2] = y
  BY <1>1
<1>5. CASE k \notin Shown(script)
  BY <1>3, <1>5
<1>6. CASE k \in Shown(script) /\ k - 1 \in Shown(script)
  BY <1>2, <1>3, <1>4, <1>6
<1>7. CASE k \in Shown(script) /\ k - 1 \notin Shown(script)
  BY <1>2, <1>3, <1>4, <1>7
<1> QED
  BY <1>5, <1>6, <1>7

(* The pieces a script is printed in.                                         *)
PrintedPieces(script) == [k \in DOMAIN script |-> PrintedEntry(script, k)]

(* Their rows come entry by entry.                                            *)
LEMMA PiecesPrinted ==
  ASSUME NEW script \in Seq(Entries)
  PROVE  /\ PrintedPieces(script) \in Seq(Seq(Ended))
         /\ Len(PrintedPieces(script)) = Len(script)
         /\ PrintedEntries(script) \in Seq(Ended)
         /\ PrintedEntries(script) = FlattenSeq(PrintedPieces(script))
         /\ \E p, o : Places(p, o, PrintedPieces(script), Len(script), PrintedEntries(script))
<1>1. DOMAIN script = 1 .. Len(script) /\ Len(script) \in Nat
  BY LenProperties
<1>2. \A k \in DOMAIN script : PrintedEntry(script, k) \in Seq(Ended)
  BY EntryPrinted
<1>3. PrintedPieces(script) \in Seq(Seq(Ended)) /\ Len(PrintedPieces(script)) = Len(script)
  BY <1>1, <1>2 DEF PrintedPieces
<1>4. PrintedEntries(script) = FlattenSeq(PrintedPieces(script))
  BY DEF PrintedEntries, PrintedPieces
<1>5. PrintedEntries(script) \in Seq(Ended)
  BY <1>3, <1>4, FlattenElements
<1>6. \E p, o : Places(p, o, PrintedPieces(script), Len(script), PrintedEntries(script))
  BY <1>3, <1>4, FlattenPlaces
<1> QED
  BY <1>3, <1>4, <1>5, <1>6

(* The lines in front of a file's headers and behind its hunks.               *)
Lead(j) == IF j.finding.kind = "none" THEN 1 ELSE 0
Trail(j) == IF j.form = "spaced" THEN 1 ELSE 0

(* The rows of a part: what is printed of its script.                         *)
Rows(j, k) == PrintedEntries(j.edits[k].script)

(* The part of a file, line by line.                                          *)
PartIs(j, k) ==
  LET part == Part(j, k)
      a == Lead(j) + (IF j.form = "headless" THEN 0 ELSE 2)
      N == Len(Rows(j, k))
  IN  /\ part \in Seq(Ended) /\ Len(part) = a + N + Trail(j)
      /\ Lead(j) = 1 => IsLine(part[1], Noise)
      /\ j.form # "headless" => /\ IsLine(part[Lead(j) + 1], Header("---", j.edits[k].path))
                                /\ IsLine(part[Lead(j) + 2], Header("+++", j.edits[k].path))
      /\ \A m \in 1 .. N : part[a + m] = Rows(j, k)[m]
      /\ Trail(j) = 1 => IsLine(part[a + N + 1], Blank)

(* A proposal for a file at least, in one of the forms a model writes.        *)
WellFormed(j) ==
  /\ j.edits \in Seq(Edits) /\ j.edits # <<>>
  /\ j.form \in {"printed", "spaced", "headless"}

(* Elements of two lists joined.                                              *)
LEMMA JoinIs ==
  ASSUME NEW S, NEW a \in Seq(S), NEW b \in Seq(S)
  PROVE  /\ a \o b \in Seq(S) /\ Len(a \o b) = Len(a) + Len(b)
         /\ \A n \in 1 .. Len(a) : (a \o b)[n] = a[n]
         /\ \A n \in 1 .. Len(b) : (a \o b)[Len(a) + n] = b[n]
<1>1. /\ a \o b \in Seq(S) /\ Len(a \o b) = Len(a) + Len(b)
      /\ \A n \in 1 .. Len(a) + Len(b) :
           (a \o b)[n] = IF n <= Len(a) THEN a[n] ELSE b[n - Len(a)]
  BY ConcatProperties
<1>2. Len(a) \in Nat /\ Len(b) \in Nat
  BY LenProperties
<1> DEFINE la == Len(a)  lb == Len(b)  c == a \o b
<1> HIDE DEF la, lb, c
<1>3. ASSUME NEW n \in 1 .. la PROVE c[n] = a[n]
  <2>1. n \in 1 .. la + lb /\ n <= la
    BY <1>2 DEF la, lb
  <2> QED BY <1>1, <2>1 DEF la, lb, c
<1>4. ASSUME NEW n \in 1 .. lb PROVE c[la + n] = b[n]
  <2>1. la + n \in 1 .. la + lb /\ ~ (la + n <= la) /\ (la + n) - la = n
    BY <1>2 DEF la, lb
  <2>2. c[la + n] = IF la + n <= la THEN a[la + n] ELSE b[(la + n) - la]
    BY <1>1, <2>1 DEF la, lb, c
  <2> QED BY <2>1, <2>2
<1> QED
  BY <1>1, <1>3, <1>4 DEF la, lb, c

(* A line of a diff with the end it is printed with.                          *)
LEMMA WithEndIs ==
  ASSUME NEW line \in DiffLines, NEW end \in {"lf", "crlf", "ff", "none"}
  PROVE  /\ WithEnd(line, end) \in Seq(Ended) /\ Len(WithEnd(line, end)) = 1
         /\ WithEnd(line, end)[1].line = line /\ WithEnd(line, end)[1].end = end
<1> DEFINE x == [line |-> line, end |-> end]
<1>1. x \in Ended /\ x.line = line /\ x.end = end
  BY DEF Ended
<1>2. WithEnd(line, end) = <<x>>
  BY DEF WithEnd
<1> HIDE DEF x
<1> QED
  BY <1>1, <1>2

(* What is printed of a file that shows anything.                             *)
LEMMA PartShape ==
  ASSUME NEW j, WellFormed(j), NEW k \in DOMAIN j.edits, Shown(j.edits[k].script) # {}
  PROVE  PartIs(j, k)
<1> DEFINE e == j.edits[k]
           rows == Rows(j, k)
           N == Len(rows)
           noise == IF j.finding.kind = "none" THEN WithEnd(Noise, "lf") ELSE <<>>
           h1 == WithEnd(Header("---", e.path), "lf")
           h2 == WithEnd(Header("+++", e.path), "lf")
           printed == h1 \o h2 \o rows
           blank == WithEnd(Blank, "lf")
           behind == CASE j.form = "printed"  -> printed
                       [] j.form = "spaced"   -> printed \o blank
                       [] j.form = "headless" -> SubSeq(printed, 3, Len(printed))
<1>1. e \in Edits
  BY DEF WellFormed
<1>2. e.path \in Paths /\ e.script \in Seq(Entries)
  BY <1>1 DEF Edits
<1>3. /\ h1 \in Seq(Ended) /\ Len(h1) = 1 /\ IsLine(h1[1], Header("---", e.path))
      /\ h2 \in Seq(Ended) /\ Len(h2) = 1 /\ IsLine(h2[1], Header("+++", e.path))
      /\ blank \in Seq(Ended) /\ Len(blank) = 1 /\ IsLine(blank[1], Blank)
  <2>1. Header("---", e.path) \in DiffLines /\ Header("+++", e.path) \in DiffLines
        /\ Blank \in DiffLines
    BY <1>2, LinesOfDiffs
  <2> QED BY <2>1, WithEndIs DEF IsLine
<1>4. noise \in Seq(Ended) /\ Len(noise) = Lead(j) /\ (Lead(j) = 1 => IsLine(noise[1], Noise))
      /\ Lead(j) \in {0, 1}
  <2>1. Noise \in DiffLines
    BY LinesOfDiffs
  <2>2. /\ WithEnd(Noise, "lf") \in Seq(Ended) /\ Len(WithEnd(Noise, "lf")) = 1
        /\ IsLine(WithEnd(Noise, "lf")[1], Noise)
    BY <2>1, WithEndIs DEF IsLine
  <2>3. CASE j.finding.kind = "none"
    BY <2>2, <2>3 DEF Lead
  <2>4. CASE j.finding.kind # "none"
    BY <2>4 DEF Lead
  <2> QED BY <2>3, <2>4
<1>5. rows \in Seq(Ended) /\ N \in Nat
  BY <1>2, PiecesPrinted, LenProperties DEF Rows
<1>6. Part(j, k) = noise \o behind
  <2>1. Printed(e.path, e.script) = printed
    BY DEF Printed, Rows
  <2> QED BY <2>1 DEF Part
<1> HIDE DEF h1, h2, rows, N, noise, blank
<1>7. /\ printed \in Seq(Ended) /\ Len(printed) = 2 + N
      /\ printed[1] = h1[1] /\ printed[2] = h2[1]
      /\ \A m \in 1 .. N : printed[2 + m] = rows[m]
  <2> DEFINE hh == h1 \o h2
  <2>1. /\ hh \in Seq(Ended) /\ Len(hh) = Len(h1) + Len(h2)
        /\ \A n \in 1 .. Len(h1) : hh[n] = h1[n]
        /\ \A n \in 1 .. Len(h2) : hh[Len(h1) + n] = h2[n]
    <3>1. h1 \in Seq(Ended) /\ h2 \in Seq(Ended)
      BY <1>3
    <3> QED BY <3>1, JoinIs
  <2>2. hh \in Seq(Ended) /\ Len(hh) = 2 /\ hh[1] = h1[1] /\ hh[2] = h2[1]
    <3> HIDE DEF hh
    <3>1. 1 \in 1 .. 1 /\ 1 + 1 = 2
      OBVIOUS
    <3> QED BY <1>3, <2>1, <3>1
  <2> HIDE DEF hh
  <2> DEFINE all == hh \o rows
  <2>3. /\ all \in Seq(Ended) /\ Len(all) = Len(hh) + Len(rows)
        /\ \A n \in 1 .. Len(hh) : all[n] = hh[n]
        /\ \A n \in 1 .. Len(rows) : all[Len(hh) + n] = rows[n]
    <3>1. rows \in Seq(Ended) /\ hh \in Seq(Ended)
      BY <1>5, <2>2
    <3> QED BY <3>1, JoinIs
  <2> HIDE DEF all
  <2>4. 1 \in 1 .. 2 /\ 2 \in 1 .. 2 /\ Len(rows) = N
    BY DEF N
  <2>5. printed = all
    BY DEF printed, all, hh
  <2> HIDE DEF printed
  <2> QED BY <2>2, <2>3, <2>4, <2>5
<1> HIDE DEF printed
<1> DEFINE c == IF j.form = "headless" THEN 0 ELSE 2
<1>8. /\ behind \in Seq(Ended) /\ Len(behind) = c + N + Trail(j)
      /\ j.form # "headless" => behind[1] = h1[1] /\ behind[2] = h2[1]
      /\ \A m \in 1 .. N : behind[c + m] = rows[m]
      /\ Trail(j) = 1 => IsLine(behind[c + N + 1], Blank)
  <2>1. CASE j.form = "printed"
    BY <1>5, <1>7, <2>1 DEF Trail
  <2>2. CASE j.form = "spaced"
    <3>1. behind = printed \o blank /\ c = 2 /\ Trail(j) = 1
      BY <2>2 DEF Trail
    <3> DEFINE all == printed \o blank
    <3>2. /\ all \in Seq(Ended) /\ Len(all) = (2 + N) + 1
          /\ \A n \in 1 .. 2 + N : all[n] = printed[n]
          /\ \A n \in 1 .. 1 : all[(2 + N) + n] = blank[n]
      <4>1. /\ all \in Seq(Ended) /\ Len(all) = Len(printed) + Len(blank)
            /\ \A n \in 1 .. Len(printed) : all[n] = printed[n]
            /\ \A n \in 1 .. Len(blank) : all[Len(printed) + n] = blank[n]
        <5>1. printed \in Seq(Ended) /\ blank \in Seq(Ended)
          BY <1>3, <1>7
        <5> QED BY <5>1, JoinIs
      <4> HIDE DEF all
      <4> QED BY <1>3, <1>7, <4>1
    <3> HIDE DEF all
    <3>3. all[1] = h1[1] /\ all[2] = h2[1]
      <4>1. 1 \in 1 .. 2 + N /\ 2 \in 1 .. 2 + N
        BY <1>5
      <4> QED BY <1>7, <3>2, <4>1 DEF all
    <3>4. \A m \in 1 .. N : all[2 + m] = rows[m]
      <4>1. \A m \in 1 .. N : 2 + m \in 1 .. 2 + N
        BY <1>5
      <4> QED BY <1>7, <3>2, <4>1 DEF all
    <3>5. IsLine(all[2 + N + 1], Blank)
      <4>1. 1 \in 1 .. 1
        OBVIOUS
      <4> QED BY <1>3, <3>2, <4>1 DEF all
    <3>6. behind = all /\ all \in Seq(Ended) /\ Len(all) = 2 + N + 1
      BY <3>1, <3>2 DEF all
    <3> HIDE DEF behind, c
    <3> QED BY <3>1, <3>3, <3>4, <3>5, <3>6
  <2>3. CASE j.form = "headless"
    <3>1. behind = SubSeq(printed, 3, 2 + N) /\ c = 0 /\ Trail(j) = 0
      BY <1>7, <2>3 DEF Trail
    <3> DEFINE d == 2 + N  all == SubSeq(printed, 3, d)
    <3>2. d \in Int /\ \A n \in 3 .. d : printed[n] \in Ended
      BY <1>5, <1>7
    <3>7. d - 3 + 1 = N /\ (IF 3 <= d THEN d - 3 + 1 ELSE 0) = N
      BY <1>5
    <3>8. behind = all
      BY <3>1
    <3> HIDE DEF d
    <3>9. /\ all \in Seq(Ended)
          /\ Len(all) = IF 3 <= d THEN d - 3 + 1 ELSE 0
          /\ \A n \in 1 .. d - 3 + 1 : all[n] = printed[3 + n - 1]
      <4>1. 3 \in Int
        OBVIOUS
      <4> QED BY <3>2, <4>1, SubSeqProperties
    <3> HIDE DEF all, behind
    <3>3. /\ behind \in Seq(Ended) /\ Len(behind) = N
          /\ \A n \in 1 .. N : behind[n] = printed[3 + n - 1]
      BY <3>7, <3>8, <3>9
    <3>4. \A n \in 1 .. N : 3 + n - 1 = 2 + n
      BY <1>5
    <3> HIDE DEF behind, c
    <3>5. \A m \in 1 .. N : behind[c + m] = rows[m]
      <4> TAKE m \in 1 .. N
      <4>1. c + m = m
        BY <3>1
      <4>2. behind[m] = printed[3 + m - 1]
        BY <3>3
      <4> QED BY <1>7, <3>4, <4>1, <4>2
    <3>6. behind \in Seq(Ended) /\ Len(behind) = N /\ c + N + Trail(j) = N
      BY <1>5, <3>1, <3>3, <3>4
    <3> QED BY <2>3, <3>1, <3>5, <3>6
  <2> QED BY <2>1, <2>2, <2>3 DEF WellFormed
<1> HIDE DEF behind, c
<1> DEFINE part == noise \o behind  l == Lead(j)
<1>9. /\ part \in Seq(Ended) /\ Len(part) = l + Len(behind)
      /\ \A n \in 1 .. l : part[n] = noise[n]
      /\ \A n \in 1 .. Len(behind) : part[l + n] = behind[n]
  BY <1>4, <1>8, JoinIs
<1>10. c \in {0, 2} /\ l \in {0, 1} /\ Trail(j) \in {0, 1} /\ Len(behind) = c + N + Trail(j)
       /\ (j.form # "headless" => c = 2)
  BY <1>4, <1>8 DEF c, Trail
<1> DEFINE t == Trail(j)
<1> HIDE DEF part, l, t
<1>11. Len(part) = (l + c) + N + t
  BY <1>5, <1>9, <1>10 DEF t
<1>12. l = 1 => IsLine(part[1], Noise)
  <2>1. l = 1 => 1 \in 1 .. l
    OBVIOUS
  <2> QED BY <1>4, <1>9, <2>1 DEF l
<1>13. j.form # "headless" => /\ IsLine(part[l + 1], Header("---", e.path))
                              /\ IsLine(part[l + 2], Header("+++", e.path))
  <2>1. j.form # "headless" => 1 \in 1 .. Len(behind) /\ 2 \in 1 .. Len(behind)
    BY <1>5, <1>10
  <2> QED BY <1>3, <1>8, <1>9, <2>1
<1>14. \A m \in 1 .. N : part[(l + c) + m] = rows[m]
  <2> TAKE m \in 1 .. N
  <2>1. c + m \in 1 .. Len(behind) /\ (l + c) + m = l + (c + m)
    BY <1>5, <1>10 DEF t
  <2>2. part[l + (c + m)] = behind[c + m]
    BY <1>9, <2>1
  <2> QED BY <1>8, <2>1, <2>2
<1>15. t = 1 => IsLine(part[(l + c) + N + 1], Blank)
  <2> SUFFICES ASSUME t = 1 PROVE IsLine(part[(l + c) + N + 1], Blank)
    OBVIOUS
  <2>1. c + N + 1 \in 1 .. Len(behind) /\ (l + c) + N + 1 = l + (c + N + 1)
    BY <1>5, <1>10 DEF t
  <2>2. part[l + (c + N + 1)] = behind[c + N + 1]
    BY <1>9, <2>1
  <2> QED BY <1>8, <2>1, <2>2 DEF t
<1> QED
  BY <1>6, <1>9, <1>11, <1>12, <1>13, <1>14, <1>15 DEF PartIs, part, l, t, c, N, rows

-----------------------------------------------------------------------------
(* Hunks that show the entries of a script up to one of them.                 *)

(* Hunks that show what is to be shown of the first n entries, line by line,  *)
(* and nothing else.                                                          *)
CoversTo(hunks, script, from, to, n) ==
  /\ \A h \in DOMAIN hunks : /\ Shows(hunks[h], script, from[h], to[h]) /\ to[h] <= n
                             /\ Len(hunks[h].lines) = to[h] - from[h] + 1
  /\ \A g, h \in DOMAIN hunks : g < h => to[g] < from[h]
  /\ \A k \in DOMAIN script : k <= n =>
       (k \in Shown(script) <=> \E h \in DOMAIN hunks : from[h] <= k /\ k <= to[h])

(* Some hunks fit: their first and last entries can be named.                 *)
Fits(hunks, script, n) ==
  \E from, to \in [DOMAIN hunks -> DOMAIN script] : CoversTo(hunks, script, from, to, n)

(* The last of them ends at the n-th entry.                                   *)
FitsUpTo(hunks, script, n) ==
  /\ hunks # <<>>
  /\ \E from, to \in [DOMAIN hunks -> DOMAIN script] :
       CoversTo(hunks, script, from, to, n) /\ to[Len(hunks)] = n

(* What a line of the diff adds to a hunk.                                    *)
HunkLineOf(script, k) == [tag |-> script[k].tag, body |-> script[k].line.body]

(* Before the first entry there is nothing to show.                           *)
LEMMA FitsNothing ==
  ASSUME NEW script \in Seq(Entries)
  PROVE  Fits(<<>>, script, 0)
<1> DEFINE hunks == <<>>
           f == [h \in {} |-> 1]
<1>1. DOMAIN hunks = {} /\ f \in [{} -> DOMAIN script]
  OBVIOUS
<1>2. \A k \in DOMAIN script : ~ (k <= 0)
  BY LenProperties
<1>3. CoversTo(hunks, script, f, f, 0)
  BY <1>1, <1>2 DEF CoversTo
<1> QED
  BY <1>1, <1>3 DEF Fits

(* Where nothing is shown the hunks stay as they are.                         *)
LEMMA FitsOn ==
  ASSUME NEW script \in Seq(Entries), NEW hunks \in Seq(Hunks), NEW n \in Nat, NEW m \in Nat,
         n <= m, \A k \in DOMAIN script : n < k /\ k <= m => k \notin Shown(script),
         Fits(hunks, script, n)
  PROVE  Fits(hunks, script, m)
<1>1. PICK from \in [DOMAIN hunks -> DOMAIN script], to \in [DOMAIN hunks -> DOMAIN script] :
        CoversTo(hunks, script, from, to, n)
  BY DEF Fits
<1>2. DOMAIN script \subseteq Nat
  BY LenProperties
<1>3. /\ \A h \in DOMAIN hunks : /\ Shows(hunks[h], script, from[h], to[h]) /\ to[h] <= n
                                 /\ Len(hunks[h].lines) = to[h] - from[h] + 1
      /\ \A g, h \in DOMAIN hunks : g < h => to[g] < from[h]
      /\ \A k \in DOMAIN script : k <= n =>
           (k \in Shown(script) <=> \E h \in DOMAIN hunks : from[h] <= k /\ k <= to[h])
  BY <1>1 DEF CoversTo
<1>4. ASSUME NEW h \in DOMAIN hunks PROVE to[h] \in Nat /\ from[h] \in Nat /\ to[h] <= m
  <2>1. to[h] \in Nat /\ from[h] \in Nat
    BY <1>2
  <2> QED BY <1>3, <2>1
<1>5. ASSUME NEW k \in DOMAIN script, k <= m
      PROVE  k \in Shown(script) <=> \E h \in DOMAIN hunks : from[h] <= k /\ k <= to[h]
  <2>1. CASE k <= n
    BY <1>3, <2>1
  <2>2. CASE ~ (k <= n)
    <3>1. k \in Nat
      BY <1>2
    <3>2. n < k
      BY <2>2, <3>1
    <3>3. k \notin Shown(script)
      BY <1>5, <3>2
    <3>4. ASSUME NEW h \in DOMAIN hunks PROVE ~ (k <= to[h])
      BY <1>3, <1>4, <3>1, <3>2
    <3> QED BY <3>3, <3>4
  <2> QED BY <2>1, <2>2
<1>6. CoversTo(hunks, script, from, to, m)
  BY <1>3, <1>4, <1>5 DEF CoversTo
<1> QED
  BY <1>6 DEF Fits

(* A hunk that begins at an entry, with its first line.                       *)
LEMMA FitsFirst ==
  ASSUME NEW script \in Seq(Entries), NEW front \in Seq(Hunks), NEW k \in DOMAIN script,
         k \in Shown(script), Fits(front, script, k - 1),
         NEW hunk \in Hunks, hunk.start = HunkStart(script, k),
         NEW line, line = HunkLineOf(script, k), hunk.lines = <<line>>
  PROVE  FitsUpTo(Append(front, hunk), script, k)
<1> DEFINE H == Len(front)  N == Len(script)  hunks == Append(front, hunk)
<1>1. PICK f \in [DOMAIN front -> DOMAIN script], t \in [DOMAIN front -> DOMAIN script] :
        CoversTo(front, script, f, t, k - 1)
  BY DEF Fits
<1> DEFINE from == [h \in 1 .. H + 1 |-> IF h = H + 1 THEN k ELSE f[h]]
           to == [h \in 1 .. H + 1 |-> IF h = H + 1 THEN k ELSE t[h]]
<1>2. H \in Nat /\ DOMAIN front = 1 .. H /\ N \in Nat /\ DOMAIN script = 1 .. N /\ k \in 1 .. N
  BY LenProperties
<1>3. DOMAIN hunks = 1 .. H + 1 /\ Len(hunks) = H + 1 /\ hunks # <<>>
      /\ hunks[H + 1] = hunk /\ \A h \in 1 .. H : hunks[h] = front[h]
  BY <1>2
<1>4. /\ \A h \in 1 .. H : /\ Shows(front[h], script, f[h], t[h]) /\ t[h] <= k - 1
                           /\ Len(front[h].lines) = t[h] - f[h] + 1
      /\ \A g, h \in 1 .. H : g < h => t[g] < f[h]
      /\ \A j \in 1 .. N : j <= k - 1 =>
           (j \in Shown(script) <=> \E h \in 1 .. H : f[h] <= j /\ j <= t[h])
  BY <1>1, <1>2 DEF CoversTo
<1>5. \A h \in 1 .. H : f[h] \in 1 .. N /\ t[h] \in 1 .. N
  BY <1>2
<1>6. Len(hunk.lines) = 1 /\ hunk.lines[1] = HunkLineOf(script, k)
  OBVIOUS
<1> HIDE DEF H, N, hunks
<1>7. /\ \A h \in 1 .. H : h \in 1 .. H + 1 /\ from[h] = f[h] /\ to[h] = t[h]
      /\ from[H + 1] = k /\ to[H + 1] = k /\ H + 1 \in 1 .. H + 1
      /\ \A h \in 1 .. H + 1 : h \in 1 .. H \/ h = H + 1
      /\ from \in [1 .. H + 1 -> 1 .. N] /\ to \in [1 .. H + 1 -> 1 .. N]
  BY <1>2, <1>5
<1> HIDE DEF from, to
<1>8. Shows(hunk, script, k, k) /\ Len(hunk.lines) = k - k + 1
  <2>1. k - k + 1 = 1 /\ k - k + 2 = 2 /\ 1 <= k /\ k <= N /\ 1 <= 1 /\ k <= k
    BY <1>2
  <2>2. \A n \in 1 .. 1 : n = 1 /\ k + n - 1 = k
    BY <1>2
  <2>3. \A n \in 2 .. 1 : FALSE
    OBVIOUS
  <2>4. \A n \in 1 .. k - k + 1 : hunk.lines[n]
          = [tag |-> script[k + n - 1].tag, body |-> script[k + n - 1].line.body]
    BY <1>6, <2>1, <2>2 DEF HunkLineOf
  <2>5. \A n \in k - k + 2 .. Len(hunk.lines) : hunk.lines[n].tag = "kept"
    BY <1>6, <2>1, <2>3
  <2> QED BY <1>6, <2>1, <2>4, <2>5 DEF Shows, N
<1>9. ASSUME NEW h \in 1 .. H + 1
      PROVE  /\ Shows(hunks[h], script, from[h], to[h]) /\ to[h] <= k
             /\ Len(hunks[h].lines) = to[h] - from[h] + 1
  <2>1. CASE h \in 1 .. H
    <3>1. t[h] <= k
      BY <1>2, <1>4, <1>5, <2>1
    <3> QED BY <1>3, <1>4, <1>7, <2>1, <3>1
  <2>2. CASE h = H + 1
    <3>1. hunks[h] = hunk /\ from[h] = k /\ to[h] = k /\ k <= k
      BY <1>2, <1>3, <1>7, <2>2
    <3> QED BY <1>8, <3>1
  <2> QED BY <1>7, <2>1, <2>2
<1>10. ASSUME NEW g \in 1 .. H + 1, NEW h \in 1 .. H + 1, g < h PROVE to[g] < from[h]
  <2>1. g \in 1 .. H
    BY <1>2, <1>10
  <2>2. CASE h \in 1 .. H
    BY <1>4, <1>7, <1>10, <2>1, <2>2
  <2>3. CASE h = H + 1
    BY <1>2, <1>4, <1>5, <1>7, <2>1, <2>3
  <2> QED BY <1>7, <2>2, <2>3
<1>11. ASSUME NEW j \in 1 .. N, j <= k
       PROVE  j \in Shown(script) <=> \E h \in 1 .. H + 1 : from[h] <= j /\ j <= to[h]
  <2>1. CASE j = k
    <3>1. from[H + 1] <= j /\ j <= to[H + 1]
      BY <1>2, <1>7, <2>1
    <3> QED BY <1>7, <2>1, <3>1
  <2>2. CASE j # k
    <3>1. j <= k - 1 /\ ~ (k <= j)
      BY <1>2, <1>11, <2>2
    <3>2. j \in Shown(script) <=> \E h \in 1 .. H : f[h] <= j /\ j <= t[h]
      BY <1>4, <3>1
    <3>3. (\E h \in 1 .. H + 1 : from[h] <= j /\ j <= to[h])
          <=> \E h \in 1 .. H : f[h] <= j /\ j <= t[h]
      BY <1>7, <3>1
    <3> QED BY <3>2, <3>3
  <2> QED BY <2>1, <2>2
<1>12. CoversTo(hunks, script, from, to, k)
  BY <1>2, <1>3, <1>9, <1>10, <1>11 DEF CoversTo
<1>13. FitsUpTo(hunks, script, k)
  BY <1>2, <1>3, <1>7, <1>12 DEF FitsUpTo
<1> QED
  BY <1>13 DEF hunks

(* A line more in the last hunk.                                              *)
WithLine(hunks, line) == [hunks EXCEPT ![Len(hunks)].lines = Append(@, line)]

(* It is the last hunk, and no other, that gets the line.                     *)
LEMMA LastHunk ==
  ASSUME NEW hunks \in Seq(Hunks), hunks # <<>>, NEW line \in HunkLines
  PROVE  LET H == Len(hunks)
             more == WithLine(hunks, line)
             L == Len(hunks[H].lines)
         IN  /\ more \in Seq(Hunks) /\ Len(more) = H /\ H \in Nat \ {0}
             /\ \A h \in 1 .. H : h # H => more[h] = hunks[h]
             /\ more[H].start = hunks[H].start /\ L \in Nat
             /\ Len(more[H].lines) = L + 1 /\ more[H].lines[L + 1] = line
             /\ \A n \in 1 .. L : more[H].lines[n] = hunks[H].lines[n]
<1> DEFINE H == Len(hunks)  old == hunks[H]  lines == Append(old.lines, line)
           new == [old EXCEPT !.lines = lines]
<1>1. H \in Nat \ {0} /\ DOMAIN hunks = 1 .. H
  BY LenProperties, EmptySeq
<1>2. old \in Hunks
  BY <1>1
<1>3. old.lines \in Seq(HunkLines) /\ old.start \in Nat
  BY <1>2 DEF Hunks, HunkLines
<1> HIDE DEF H, old
<1>4. lines \in Seq(HunkLines) /\ Len(lines) = Len(old.lines) + 1
      /\ Len(old.lines) \in Nat /\ lines[Len(old.lines) + 1] = line
      /\ \A n \in 1 .. Len(old.lines) : lines[n] = old.lines[n]
  BY <1>3
<1> HIDE DEF lines
<1>5. new \in Hunks /\ new.start = old.start /\ new.lines = lines
  BY <1>2, <1>3, <1>4 DEF Hunks, HunkLines
<1>6. WithLine(hunks, line) = [hunks EXCEPT ![H] = new]
  BY DEF WithLine, H, old, lines
<1> HIDE DEF new
<1>7. [hunks EXCEPT ![H] = new] \in Seq(Hunks)
  BY <1>5, SeqExcept
<1>8. /\ Len([hunks EXCEPT ![H] = new]) = H
      /\ [hunks EXCEPT ![H] = new][H] = new
      /\ \A h \in 1 .. H : h # H => [hunks EXCEPT ![H] = new][h] = hunks[h]
  <2> DEFINE s == [hunks EXCEPT ![H] = new]
  <2>1. s = [h \in 1 .. H |-> IF h = H THEN new ELSE hunks[h]]
    BY <1>1
  <2>2. DOMAIN s = 1 .. H /\ s[H] = new /\ \A h \in 1 .. H : h # H => s[h] = hunks[h]
    <3>1. H \in 1 .. H
      BY <1>1
    <3> QED BY <2>1, <3>1
  <2>3. s \in Seq(Hunks)
    BY <1>7
  <2> HIDE DEF s
  <2>4. DOMAIN s = 1 .. Len(s) /\ Len(s) \in Nat
    BY <2>3, LenProperties
  <2>5. Len(s) = H
    BY <1>1, <2>2, <2>4
  <2> QED BY <2>2, <2>5 DEF s
<1> QED
  BY <1>1, <1>4, <1>5, <1>6, <1>7, <1>8 DEF H, old

(* The next entry goes into the hunk that ends before it.                     *)
LEMMA FitsNext ==
  ASSUME NEW script \in Seq(Entries), NEW hunks \in Seq(Hunks), NEW k \in DOMAIN script,
         k \in Shown(script), FitsUpTo(hunks, script, k - 1),
         HunkLineOf(script, k) \in HunkLines
  PROVE  FitsUpTo(WithLine(hunks, HunkLineOf(script, k)), script, k)
<1> DEFINE H == Len(hunks)  N == Len(script)
           more == WithLine(hunks, HunkLineOf(script, k))
           L == Len(hunks[H].lines)
<1>1. hunks # <<>>
  BY DEF FitsUpTo
<1>2. PICK f \in [DOMAIN hunks -> DOMAIN script], t \in [DOMAIN hunks -> DOMAIN script] :
        CoversTo(hunks, script, f, t, k - 1) /\ t[H] = k - 1
  BY DEF FitsUpTo
<1>3. /\ more \in Seq(Hunks) /\ Len(more) = H /\ H \in Nat \ {0}
      /\ \A h \in 1 .. H : h # H => more[h] = hunks[h]
      /\ more[H].start = hunks[H].start /\ L \in Nat
      /\ Len(more[H].lines) = L + 1 /\ more[H].lines[L + 1] = HunkLineOf(script, k)
      /\ \A n \in 1 .. L : more[H].lines[n] = hunks[H].lines[n]
  BY <1>1, LastHunk
<1>4. DOMAIN hunks = 1 .. H /\ N \in Nat /\ DOMAIN script = 1 .. N /\ k \in 1 .. N
      /\ DOMAIN more = 1 .. H
  BY <1>3, LenProperties
<1> DEFINE to == [h \in 1 .. H |-> IF h = H THEN k ELSE t[h]]
<1> HIDE DEF H, N, L, more
<1>5. /\ \A h \in 1 .. H : /\ Shows(hunks[h], script, f[h], t[h]) /\ t[h] <= k - 1
                           /\ Len(hunks[h].lines) = t[h] - f[h] + 1
      /\ \A g, h \in 1 .. H : g < h => t[g] < f[h]
      /\ \A j \in 1 .. N : j <= k - 1 =>
           (j \in Shown(script) <=> \E h \in 1 .. H : f[h] <= j /\ j <= t[h])
  BY <1>2, <1>4 DEF CoversTo
<1>6. \A h \in 1 .. H : f[h] \in 1 .. N /\ t[h] \in 1 .. N
  BY <1>2, <1>4
<1>7. to \in [1 .. H -> 1 .. N] /\ to[H] = k /\ H \in 1 .. H
      /\ \A h \in 1 .. H : h # H => to[h] = t[h]
  BY <1>3, <1>4, <1>6
<1> HIDE DEF to
<1> DEFINE a == f[H]
<1>8. Shows(hunks[H], script, a, k - 1) /\ L = k - 1 - a + 1 /\ a \in 1 .. N
  BY <1>2, <1>5, <1>6, <1>7 DEF L, H
<1> HIDE DEF a
<1>9. /\ 1 <= a /\ a <= k - 1
      /\ hunks[H].start = HunkStart(script, a)
      /\ \A n \in 1 .. L : hunks[H].lines[n]
           = [tag |-> script[a + n - 1].tag, body |-> script[a + n - 1].line.body]
  BY <1>8 DEF Shows
<1>10. Shows(more[H], script, a, k) /\ Len(more[H].lines) = k - a + 1
  <2>1. L + 1 = k - a + 1 /\ k - a + 1 \in Nat /\ a <= k /\ k <= N
        /\ \A n \in 1 .. k - a + 1 : n \in 1 .. L \/ n = L + 1
    BY <1>3, <1>4, <1>8, <1>9
  <2>2. a + (L + 1) - 1 = k
    BY <1>4, <1>8
  <2>3. ASSUME NEW n \in 1 .. k - a + 1
        PROVE  more[H].lines[n]
                 = [tag |-> script[a + n - 1].tag, body |-> script[a + n - 1].line.body]
    <3>1. CASE n \in 1 .. L
      BY <1>3, <1>9, <3>1
    <3>2. CASE n = L + 1
      <4>1. a + n - 1 = k
        BY <2>2, <3>2
      <4> QED BY <1>3, <3>2, <4>1 DEF HunkLineOf
    <3> QED BY <2>1, <3>1, <3>2
  <2>4. Len(more[H].lines) = k - a + 1
    BY <1>3, <2>1
  <2>5. \A n \in k - a + 2 .. k - a + 1 : FALSE
    BY <1>4, <1>8
  <2>6. k - a + 1 <= Len(more[H].lines)
    BY <2>1, <2>4
  <2> QED BY <1>3, <1>9, <2>1, <2>3, <2>4, <2>5, <2>6 DEF Shows, N
<1>11. ASSUME NEW h \in 1 .. H
       PROVE  /\ Shows(more[h], script, f[h], to[h]) /\ to[h] <= k
              /\ Len(more[h].lines) = to[h] - f[h] + 1
  <2>1. CASE h = H
    BY <1>4, <1>7, <1>10, <2>1 DEF a
  <2>2. CASE h # H
    <3>1. t[h] <= k
      BY <1>4, <1>5, <1>6
    <3> QED BY <1>3, <1>5, <1>7, <2>2, <3>1
  <2> QED BY <2>1, <2>2
<1>12. ASSUME NEW g \in 1 .. H, NEW h \in 1 .. H, g < h PROVE to[g] < f[h]
  <2>1. g # H
    BY <1>3, <1>12
  <2> QED BY <1>5, <1>7, <1>12, <2>1
<1>13. ASSUME NEW j \in 1 .. N, j <= k
       PROVE  j \in Shown(script) <=> \E h \in 1 .. H : f[h] <= j /\ j <= to[h]
  <2>1. CASE j = k
    <3>1. f[H] <= j /\ j <= to[H]
      BY <1>4, <1>7, <1>8, <1>9, <2>1 DEF a
    <3> QED BY <1>7, <2>1, <3>1
  <2>2. CASE j # k
    <3>1. j <= k - 1 /\ j <= k
      BY <1>4, <1>13, <2>2
    <3>2. j \in Shown(script) <=> \E h \in 1 .. H : f[h] <= j /\ j <= t[h]
      BY <1>5, <3>1
    <3>3. \A h \in 1 .. H : j <= to[h] <=> j <= t[h]
      <4> TAKE h \in 1 .. H
      <4>1. CASE h = H
        BY <1>2, <1>7, <3>1, <4>1 DEF H
      <4>2. CASE h # H
        BY <1>7, <4>2
      <4> QED BY <4>1, <4>2
    <3> QED BY <3>2, <3>3
  <2> QED BY <2>1, <2>2
<1>14. CoversTo(more, script, f, to, k)
  BY <1>4, <1>11, <1>12, <1>13 DEF CoversTo
<1>15. more # <<>>
  BY <1>3
<1>16. FitsUpTo(more, script, k)
  BY <1>2, <1>3, <1>4, <1>7, <1>14, <1>15 DEF FitsUpTo
<1> QED
  BY <1>16 DEF more

-----------------------------------------------------------------------------
(* What the parser makes of the rows of a script, one by one.                 *)

(* The hunks read when the printed line at a place has been read: the header  *)
(* of one that begins at the entry, or the line of the entry itself.          *)
NewHunk(start) == [start |-> start, lines |-> <<>>]

(* What has been read behind the r-th row of the k-th entry.                  *)
ReadUpTo(hunks, script, k, r) ==
  IF k = 0 THEN hunks = <<>>
  ELSE IF r < Len(PrintedEntry(script, k))
  THEN \E front \in Seq(Hunks) : /\ hunks = Append(front, NewHunk(HunkStart(script, k)))
                                 /\ Fits(front, script, k - 1)
  ELSE FitsUpTo(hunks, script, k)

(* What reading one more of them does.                                        *)
RowRead(hunks, script, k, r, line) ==
  \/ /\ line = HunkAt(HunkStart(script, k))
     /\ ReadUpTo(Append(hunks, NewHunk(HunkStart(script, k))), script, k, r)
  \/ /\ line = EntryLine(script, k) /\ hunks # <<>> /\ k \in Shown(script)
     /\ ReadUpTo(WithLine(hunks, HunkLineOf(script, k)), script, k, r)

(* A hunk begins in the list of hunks.                                        *)
LEMMA HunkBegins ==
  ASSUME NEW start \in Nat
  PROVE  NewHunk(start) \in Hunks
<1>1. <<>> \in Seq(HunkLines)
  OBVIOUS
<1> QED
  BY <1>1 DEF NewHunk, Hunks, HunkLines

(* It gets its first line.                                                    *)
LEMMA FirstLine ==
  ASSUME NEW front \in Seq(Hunks), NEW start \in Nat, NEW line \in HunkLines
  PROVE  /\ WithLine(Append(front, NewHunk(start)), line)
              = Append(front, [start |-> start, lines |-> <<line>>])
         /\ [start |-> start, lines |-> <<line>>] \in Hunks
         /\ Append(front, NewHunk(start)) # <<>>
<1> DEFINE old == NewHunk(start)  new == [start |-> start, lines |-> <<line>>]
           H == Len(front)  a == Append(front, old)
<1>1. old \in Hunks /\ H \in Nat
  BY HunkBegins, LenProperties
<1>2. new \in Hunks
  <2>1. <<line>> \in Seq(HunkLines)
    OBVIOUS
  <2> QED BY <2>1 DEF Hunks, HunkLines
<1>3. [old EXCEPT !.lines = Append(old.lines, line)] = new
  BY DEF NewHunk
<1> HIDE DEF old, new
<1>4. a \in Seq(Hunks) /\ Len(a) = H + 1 /\ a[H + 1] = old /\ a # <<>>
      /\ \A h \in 1 .. H : a[h] = front[h]
  BY <1>1
<1>5. WithLine(a, line) = [a EXCEPT ![H + 1] = new]
  BY <1>3, <1>4 DEF WithLine
<1> HIDE DEF a
<1> DEFINE x == [a EXCEPT ![H + 1] = new]  y == Append(front, new)
<1>6. x \in Seq(Hunks) /\ y \in Seq(Hunks)
  BY <1>2, <1>4, SeqExcept
<1>7. Len(y) = H + 1 /\ y[H + 1] = new /\ \A h \in 1 .. H : y[h] = front[h]
  BY <1>1, <1>2
<1>8. Len(x) = H + 1 /\ x[H + 1] = new /\ \A h \in 1 .. H : x[h] = front[h]
  <2>1. DOMAIN a = 1 .. H + 1
    BY <1>4, LenProperties
  <2>2. DOMAIN x = 1 .. H + 1 /\ x[H + 1] = new /\ \A h \in 1 .. H : x[h] = a[h]
    BY <1>1, <2>1
  <2> HIDE DEF x
  <2>3. DOMAIN x = 1 .. Len(x) /\ Len(x) \in Nat
    BY <1>6, LenProperties
  <2>4. Len(x) = H + 1
    BY <1>1, <2>2, <2>3
  <2> QED BY <1>4, <2>2, <2>4
<1> HIDE DEF x, y
<1>9. x = y
  <2>1. \A h \in 1 .. H + 1 : h \in 1 .. H \/ h = H + 1
    BY <1>1
  <2>2. Len(x) = Len(y) /\ \A h \in 1 .. Len(x) : x[h] = y[h]
    BY <1>7, <1>8, <2>1
  <2> QED BY <1>6, <2>2, SeqEqual
<1> QED
  BY <1>2, <1>4, <1>5, <1>9 DEF x, y, a, old, new

(* What a script says of an entry is what a hunk may hold.                    *)
LEMMA EntriesAreHunkLines ==
  ASSUME NEW script \in Seq(Entries), NEW k \in DOMAIN script
  PROVE  HunkLineOf(script, k) \in HunkLines /\ HunkStart(script, k) \in Nat
<1>1. script[k] \in Entries
  OBVIOUS
<1>2. HunkLineOf(script, k) \in HunkLines
  BY <1>1 DEF HunkLineOf, HunkLines, Entries, Lines
<1>3. k \in 1 .. Len(script) + 1
  BY LenProperties
<1> QED
  BY <1>2, <1>3, OldLineSteps DEF HunkStart

(* Reading the printed lines one by one.                                      *)
LEMMA RowStep ==
  ASSUME NEW script \in Seq(Entries), NEW p, NEW o,
         Places(p, o, PrintedPieces(script), Len(script), PrintedEntries(script)),
         NEW m \in 1 .. Len(PrintedEntries(script)),
         NEW hunks \in Seq(Hunks), ReadUpTo(hunks, script, p[m - 1], o[m - 1])
  PROVE  /\ p[m] \in DOMAIN script
         /\ RowRead(hunks, script, p[m], o[m], PrintedEntries(script)[m].line)
<1> DEFINE N == Len(script)  rows == PrintedEntries(script)  M == Len(rows)
           pieces == PrintedPieces(script)
           k == p[m]  r == o[m]  q == p[m - 1]  s == o[m - 1]
           L(j) == Len(PrintedEntry(script, j))
<1>1. N \in Nat /\ DOMAIN script = 1 .. N
  BY LenProperties
<1>2. M \in Nat
  BY PiecesPrinted, LenProperties
<1>3. \A j \in 1 .. N : pieces[j] = PrintedEntry(script, j)
  BY <1>1 DEF PrintedPieces
<1>4. /\ k \in 1 .. N /\ r \in 1 .. Len(pieces[k]) /\ rows[m] = pieces[k][r]
      /\ NextPlace(pieces, q, s, k, r)
  BY DEF Places
<1>5. q = 0 \/ (q \in 1 .. N /\ s \in 1 .. Len(pieces[q]))
  <2>1. CASE m = 1
    <3>1. m - 1 = 0
      BY <2>1
    <3> QED BY <3>1 DEF Places
  <2>2. CASE m # 1
    <3>1. m - 1 \in 1 .. M
      BY <1>2, <2>2
    <3> QED BY <3>1 DEF Places
  <2> QED BY <2>1, <2>2
<1>6. k \in 1 .. N /\ r \in 1 .. L(k) /\ rows[m] = PrintedEntry(script, k)[r]
      /\ (q = 0 \/ (q \in 1 .. N /\ s \in 1 .. L(q)))
  BY <1>3, <1>4, <1>5
<1>7. /\ \A j \in 1 .. N : j \notin Shown(script) => PrintedEntry(script, j) = <<>>
      /\ \A j \in 1 .. N : j \in Shown(script) =>
           /\ L(j) = IF j - 1 \in Shown(script) THEN 1 ELSE 2
           /\ PrintedEntry(script, j)[L(j)].line = EntryLine(script, j)
           /\ L(j) = 2 => PrintedEntry(script, j)[1].line = HunkAt(HunkStart(script, j))
      /\ Shown(script) \subseteq 1 .. N
  BY <1>1, EntryPrinted DEF Shown, IsLine
<1>8. \A j \in 1 .. N : HunkLineOf(script, j) \in HunkLines /\ HunkStart(script, j) \in Nat
  BY <1>1, EntriesAreHunkLines
<1>9. Len(<<>>) = 0
  OBVIOUS
<1>10. ReadUpTo(hunks, script, q, s)
  OBVIOUS
<1> HIDE DEF N, rows, M, pieces, k, r, q, s
<1>11. k \in Shown(script)
  <2> SUFFICES ASSUME k \notin Shown(script) PROVE FALSE
    OBVIOUS
  <2>1. L(k) = 0
    BY <1>6, <1>7, <1>9
  <2> QED BY <1>6, <2>1
<1>12. CASE q = k /\ r = s + 1
  <2>1. s = 1 /\ r = 2 /\ L(k) = 2 /\ k # 0
    BY <1>6, <1>7, <1>11, <1>12
  <2>2. PICK front \in Seq(Hunks) : /\ hunks = Append(front, NewHunk(HunkStart(script, k)))
                                    /\ Fits(front, script, k - 1)
    BY <1>10, <1>12, <2>1 DEF ReadUpTo
  <2> DEFINE line == HunkLineOf(script, k)  start == HunkStart(script, k)
             new == [start |-> start, lines |-> <<line>>]
  <2>3. WithLine(hunks, line) = Append(front, new) /\ new \in Hunks /\ hunks # <<>>
    BY <1>6, <1>8, <2>2, FirstLine
  <2>4. FitsUpTo(Append(front, new), script, k)
    <3>1. new.start = start /\ new.lines = <<line>>
      OBVIOUS
    <3>2. k \in DOMAIN script
      BY <1>1, <1>6
    <3> HIDE DEF new, line
    <3>3. line = HunkLineOf(script, k)
      BY DEF line
    <3> QED BY <1>11, <2>2, <2>3, <3>1, <3>2, <3>3, FitsFirst
  <2>5. ~ (r < L(k))
    BY <2>1
  <2>6. ReadUpTo(WithLine(hunks, line), script, k, r)
    BY <2>1, <2>3, <2>4, <2>5 DEF ReadUpTo
  <2>7. rows[m].line = EntryLine(script, k)
    BY <1>6, <1>7, <1>11, <2>1
  <2>8. k \in DOMAIN script
    BY <1>1, <1>6
  <2> HIDE DEF L, line
  <2> QED BY <1>11, <2>3, <2>6, <2>7, <2>8 DEF RowRead, k, r, rows, line
<1>13. CASE /\ q < k /\ r = 1 /\ (q = 0 \/ s = L(q))
            /\ \A j \in q + 1 .. k - 1 : PrintedEntry(script, j) = <<>>
  <2>1. ASSUME NEW j \in DOMAIN script, q < j, j <= k - 1 PROVE j \notin Shown(script)
    <3> SUFFICES ASSUME j \in Shown(script) PROVE FALSE
      OBVIOUS
    <3>1. j \in q + 1 .. k - 1 /\ j \in 1 .. N
      BY <1>1, <1>6, <2>1
    <3>2. L(j) = 0
      BY <1>9, <1>13, <3>1
    <3>3. L(j) = IF j - 1 \in Shown(script) THEN 1 ELSE 2
      BY <1>7, <3>1
    <3> HIDE DEF L
    <3> QED BY <3>2, <3>3
  <2>2. q # 0 => FitsUpTo(hunks, script, q)
    <3> SUFFICES ASSUME q # 0 PROVE FitsUpTo(hunks, script, q)
      OBVIOUS
    <3>1. ~ (s < L(q))
      BY <1>6, <1>13
    <3> QED BY <1>10, <3>1 DEF ReadUpTo
  <2>3. q \in Nat /\ k - 1 \in Nat /\ q <= k - 1
    BY <1>1, <1>6, <1>13
  <2>4. k \in DOMAIN script
    BY <1>1, <1>6
  <2>5. CASE k - 1 \in Shown(script)
    <3>1. q = k - 1 /\ q # 0
      <4>1. k - 1 \in 1 .. N
        BY <1>7, <2>5
      <4>2. ~ (q < k - 1)
        BY <1>1, <2>1, <2>5, <4>1
      <4> QED BY <2>3, <4>1, <4>2
    <3>2. L(k) = 1
      BY <1>6, <1>7, <1>11, <2>5
    <3>3. FitsUpTo(hunks, script, k - 1)
      BY <2>2, <3>1
    <3>4. FitsUpTo(WithLine(hunks, HunkLineOf(script, k)), script, k)
      BY <1>6, <1>8, <1>11, <2>4, <3>3, FitsNext
    <3>5. rows[m].line = EntryLine(script, k)
      BY <1>6, <1>7, <1>11, <1>13, <3>2
    <3>6. ~ (r < L(k)) /\ k # 0
      BY <1>6, <1>13, <3>2
    <3>7. hunks # <<>>
      BY <3>3 DEF FitsUpTo
    <3>8. ReadUpTo(WithLine(hunks, HunkLineOf(script, k)), script, k, r)
      BY <3>4, <3>6 DEF ReadUpTo
    <3> QED BY <1>11, <2>4, <3>5, <3>7, <3>8 DEF RowRead, k, r, rows
  <2>6. CASE k - 1 \notin Shown(script)
    <3>1. L(k) = 2 /\ r < L(k) /\ k # 0
      <4>1. L(k) = 2
        BY <1>6, <1>7, <1>11, <2>6
      <4>2. r = 1 /\ k # 0
        BY <1>1, <1>6, <1>13
      <4> HIDE DEF L
      <4> QED BY <4>1, <4>2
    <3>2. Fits(hunks, script, q)
      <4>1. CASE q = 0
        <5>1. hunks = <<>>
          BY <1>10, <4>1 DEF ReadUpTo
        <5> QED BY <4>1, <5>1, FitsNothing
      <4>2. CASE q # 0
        BY <2>2, <4>2 DEF FitsUpTo, Fits
      <4> QED BY <4>1, <4>2
    <3>3. Fits(hunks, script, k - 1)
      BY <2>1, <2>3, <3>2, FitsOn
    <3>4. rows[m].line = HunkAt(HunkStart(script, k))
      BY <1>6, <1>7, <1>11, <1>13, <3>1
    <3>5. ReadUpTo(Append(hunks, NewHunk(HunkStart(script, k))), script, k, r)
      BY <3>1, <3>3 DEF ReadUpTo
    <3> QED BY <2>4, <3>4, <3>5 DEF RowRead, k, r, rows
  <2> QED BY <2>5, <2>6
<1>14. \/ q = k /\ r = s + 1
       \/ /\ q < k /\ r = 1 /\ (q = 0 \/ s = L(q))
          /\ \A j \in q + 1 .. k - 1 : PrintedEntry(script, j) = <<>>
  <2>1. \/ q = k /\ r = s + 1
        \/ /\ q < k /\ r = 1 /\ (q = 0 \/ s = Len(pieces[q]))
           /\ \A j \in q + 1 .. k - 1 : pieces[j] = <<>>
    BY <1>4 DEF NextPlace
  <2>2. \A j \in q + 1 .. k - 1 : j \in 1 .. N
    BY <1>1, <1>6
  <2> QED BY <1>3, <1>6, <2>1, <2>2
<1> QED
  BY <1>12, <1>13, <1>14

(* When all have been read, the hunks show what is to be shown.               *)
LEMMA RowsEnd ==
  ASSUME NEW script \in Seq(Entries), Shown(script) # {}, NEW p, NEW o,
         Places(p, o, PrintedPieces(script), Len(script), PrintedEntries(script)),
         NEW hunks \in Seq(Hunks),
         ReadUpTo(hunks, script, p[Len(PrintedEntries(script))], o[Len(PrintedEntries(script))])
  PROVE  Fits(hunks, script, Len(script)) /\ hunks # <<>>
         /\ Len(PrintedEntries(script)) \in Nat \ {0}
<1> DEFINE N == Len(script)  M == Len(PrintedEntries(script))
           pieces == PrintedPieces(script)
           q == p[M]  s == o[M]
<1>1. N \in Nat /\ DOMAIN script = 1 .. N /\ M \in Nat
  BY PiecesPrinted, LenProperties
<1>2. \A j \in 1 .. N : pieces[j] = PrintedEntry(script, j)
  BY <1>1 DEF PrintedPieces
<1>3. /\ q = 0 \/ s = Len(pieces[q])
      /\ \A j \in q + 1 .. N : pieces[j] = <<>>
      /\ q \in 0 .. N
  BY DEF Places, LastPlace
<1>4. M = 0 => q = 0
  BY DEF Places
<1>5. ReadUpTo(hunks, script, q, s)
  OBVIOUS
<1> HIDE DEF N, M, pieces, q, s
<1>6. ASSUME NEW j \in 1 .. N, q < j PROVE j \notin Shown(script)
  <2> SUFFICES ASSUME j \in Shown(script) PROVE FALSE
    OBVIOUS
  <2>1. j \in q + 1 .. N
    BY <1>1, <1>3, <1>6
  <2>2. Len(PrintedEntry(script, j)) = 0
    BY <1>2, <1>3, <2>1
  <2>3. Len(PrintedEntry(script, j)) = IF j - 1 \in Shown(script) THEN 1 ELSE 2
    BY <1>1, EntryPrinted
  <2> QED BY <2>2, <2>3
<1>7. q # 0
  <2> SUFFICES ASSUME q = 0 PROVE FALSE
    OBVIOUS
  <2>1. PICK j \in Shown(script) : TRUE
    OBVIOUS
  <2>2. j \in 1 .. N
    BY <1>1, <2>1 DEF Shown
  <2> QED BY <1>1, <1>6, <2>1, <2>2
<1>8. FitsUpTo(hunks, script, q)
  <2>1. ~ (s < Len(PrintedEntry(script, q)))
    <3>1. q \in 1 .. N
      BY <1>1, <1>3, <1>7
    <3>2. s = Len(PrintedEntry(script, q))
      BY <1>2, <1>3, <1>7, <3>1
    <3>3. Len(PrintedEntry(script, q)) \in Nat
      <4>1. PrintedEntry(script, q) \in Seq(Ended)
        BY <1>1, <3>1, EntryPrinted
      <4> QED BY <4>1, LenProperties
    <3> QED BY <3>2, <3>3
  <2> QED BY <1>5, <1>7, <2>1 DEF ReadUpTo
<1>9. Fits(hunks, script, q) /\ hunks # <<>>
  BY <1>8 DEF FitsUpTo, Fits
<1>10. Fits(hunks, script, N)
  <2>1. q \in Nat /\ q <= N
    BY <1>1, <1>3
  <2> QED BY <1>1, <1>6, <1>9, <2>1, FitsOn
<1> QED
  BY <1>1, <1>4, <1>7, <1>9, <1>10 DEF N, M

-----------------------------------------------------------------------------
(* On the files it was made from, what a part of the diff shows is found.     *)

(* An old line of a script stands in the old text at the number of its entry. *)
LEMMA OldTextAt ==
  ASSUME NEW script \in Seq(Entries), NEW k \in DOMAIN script, script[k].tag # "+"
  PROVE  /\ OldLine(script, k) \in DOMAIN OldText(script)
         /\ OldText(script)[OldLine(script, k)] = script[k].line
<1> DEFINE places == {j \in DOMAIN script : script[j].tag # "+"}
           old == Kept(script, places)
           n == 1 + Cardinality({y \in places : y < k})
<1>1. DOMAIN script = 1 .. Len(script) /\ Len(script) \in Nat
  BY LenProperties
<1>2. {y \in places : y < k} = {j \in 1 .. (k - 1) : script[j].tag # "+"}
  BY <1>1
<1>3. OldLine(script, k) = n
  BY <1>2 DEF OldLine
<1>4. n \in DOMAIN old /\ old[n] = script[k]
  <2>1. k \in places /\ places \subseteq DOMAIN script
    OBVIOUS
  <2> HIDE DEF places
  <2> QED BY <2>1, KeptAt
<1>5. OldText(script) = [j \in DOMAIN old |-> old[j].line]
  BY DEF OldText
<1> HIDE DEF n, old, places
<1> QED
  BY <1>3, <1>4, <1>5

(* Hunks that show a script line by line, and nothing else, pass the checks   *)
(* on the text the script was made from.                                      *)
LEMMA VerifiedWhenFresh ==
  ASSUME NEW text \in Texts, NEW script \in Seq(Entries), NEW hunks \in Seq(Hunks),
         OldText(script) = AsRead(text), OldText(script) # <<>>,
         Fits(hunks, script, Len(script)),
         \A k \in Shown(script) : script[k].tag # "+" => script[k].line.end # "ff"
  PROVE  Verified(AsRead(text), hunks)
<1> DEFINE now == AsRead(text)  N == Len(script)
<1>1. PICK from \in [DOMAIN hunks -> DOMAIN script], to \in [DOMAIN hunks -> DOMAIN script] :
        CoversTo(hunks, script, from, to, Len(script))
  BY DEF Fits
<1>2. N \in Nat /\ DOMAIN script = 1 .. N /\ DOMAIN hunks = 1 .. Len(hunks) /\ Len(hunks) \in Nat
  BY LenProperties
<1>3. now = OldText(script) /\ now \in Seq(Lines)
  BY AsReadLines
<1> HIDE DEF now
<1>4. ASSUME NEW h \in DOMAIN hunks
      PROVE  /\ hunks[h] \in Hunks /\ from[h] \in 1 .. N /\ to[h] \in 1 .. N /\ from[h] <= to[h]
             /\ Shows(hunks[h], script, from[h], to[h])
             /\ Len(hunks[h].lines) = to[h] - from[h] + 1
             /\ hunks[h].start = OldLine(script, from[h])
             /\ \A n \in DOMAIN hunks[h].lines :
                  /\ from[h] + n - 1 \in 1 .. N
                  /\ hunks[h].lines[n] = HunkLineOf(script, from[h] + n - 1)
                  /\ LineAt(hunks[h], n) = OldLine(script, from[h] + n - 1)
                  /\ from[h] <= from[h] + n - 1 /\ from[h] + n - 1 <= to[h]
             /\ hunks[h].start + OldLines(hunks[h].lines) = OldLine(script, to[h] + 1)
  <2> DEFINE hunk == hunks[h]  a == from[h]  b == to[h]  L == Len(hunk.lines)
  <2>1. hunk \in Hunks /\ a \in 1 .. N /\ b \in 1 .. N /\ Shows(hunk, script, a, b)
        /\ L = b - a + 1
    BY <1>1, <1>2 DEF CoversTo
  <2>2. a <= b /\ hunk.start = OldLine(script, a)
        /\ \A n \in 1 .. b - a + 1 :
             hunk.lines[n] = [tag |-> script[a + n - 1].tag, body |-> script[a + n - 1].line.body]
    BY <2>1 DEF Shows, HunkStart
  <2>3. hunk.lines \in Seq(HunkLines)
    BY <2>1 DEF Hunks, HunkLines
  <2>4. DOMAIN hunk.lines = 1 .. L
    BY <2>3, LenProperties
  <2> HIDE DEF hunk, a, b
  <2>5. a \in Nat /\ b \in Nat
    BY <1>2, <2>1
  <2>6. /\ \A p \in 0 .. b - a + 1 : LineAt(hunk, p + 1) = OldLine(script, a + p)
        /\ hunk.start + OldLines(hunk.lines)
             = OldLine(script, b + 1) + (Len(hunk.lines) - (b - a + 1))
    BY <2>1, <2>2, <2>5, HunkCursor
  <2>7. hunk.start + OldLines(hunk.lines) = OldLine(script, b + 1)
    <3>1. Len(hunk.lines) - (b - a + 1) = 0
      BY <2>1, <2>5 DEF L
    <3>2. OldLine(script, b + 1) \in Nat
      <4>1. b + 1 \in 1 .. N + 1
        BY <1>2, <2>1
      <4> QED BY <4>1, OldLineSteps DEF N
    <3> QED BY <2>6, <3>1, <3>2
  <2> HIDE DEF L
  <2>8. ASSUME NEW n \in 1 .. L
        PROVE  /\ a + n - 1 \in 1 .. N
               /\ hunk.lines[n] = HunkLineOf(script, a + n - 1)
               /\ LineAt(hunk, n) = OldLine(script, a + n - 1)
               /\ a <= a + n - 1 /\ a + n - 1 <= b
    <3> DEFINE p == n - 1
    <3>1. p \in 0 .. b - a + 1 /\ p + 1 = n /\ a + p = a + n - 1 /\ n \in 1 .. b - a + 1
      BY <2>1, <2>5
    <3>2. a + n - 1 \in 1 .. N /\ a <= a + n - 1 /\ a + n - 1 <= b
      BY <1>2, <2>1, <2>5
    <3> HIDE DEF p
    <3>3. LineAt(hunk, p + 1) = OldLine(script, a + p)
      BY <2>6, <3>1
    <3>4. hunk.lines[n] = HunkLineOf(script, a + n - 1)
      BY <2>2, <3>1 DEF HunkLineOf
    <3> QED BY <3>1, <3>2, <3>3, <3>4
  <2> QED BY <2>1, <2>2, <2>4, <2>7, <2>8 DEF hunk, a, b, L
<1>5. ASSUME NEW h \in DOMAIN hunks PROVE hunks[h].start >= Cursor(hunks, h)
  <2>1. from[h] \in 1 .. N + 1 /\ hunks[h].start = OldLine(script, from[h])
    BY <1>2, <1>4
  <2>2. OldLine(script, from[h]) \in Nat \ {0}
    BY <2>1, OldLineSteps DEF N
  <2>3. CASE h = 1
    BY <2>1, <2>2, <2>3 DEF Cursor
  <2>4. CASE h # 1
    <3> DEFINE g == h - 1
    <3>1. g \in DOMAIN hunks /\ g < h
      BY <1>2, <2>4
    <3>2. Cursor(hunks, h) = hunks[g].start + OldLines(hunks[g].lines)
      BY <2>4 DEF Cursor
    <3> HIDE DEF g
    <3>3. Cursor(hunks, h) = OldLine(script, to[g] + 1) /\ to[g] \in 1 .. N
      BY <1>4, <3>1, <3>2
    <3>4. to[g] < from[h]
      BY <1>1, <3>1 DEF CoversTo
    <3>5. to[g] + 1 \in 1 .. N + 1 /\ to[g] + 1 <= from[h]
      BY <1>2, <2>1, <3>3, <3>4
    <3>6. OldLine(script, to[g] + 1) <= OldLine(script, from[h])
      BY <2>1, <3>5, OldLineGrows DEF N
    <3>7. OldLine(script, to[g] + 1) \in Nat
      BY <3>5, OldLineSteps DEF N
    <3> QED BY <2>1, <2>2, <3>3, <3>6, <3>7
  <2> QED BY <2>3, <2>4
<1>6. ASSUME NEW h \in DOMAIN hunks, NEW n \in DOMAIN hunks[h].lines,
             hunks[h].lines[n].tag # "+"
      PROVE  Matches(now, LineAt(hunks[h], n), hunks[h].lines[n].body)
  <2> DEFINE k == from[h] + n - 1
  <2>1. /\ k \in DOMAIN script /\ hunks[h].lines[n] = HunkLineOf(script, k)
        /\ LineAt(hunks[h], n) = OldLine(script, k) /\ from[h] <= k /\ k <= to[h]
    BY <1>2, <1>4
  <2> HIDE DEF k
  <2>2. script[k].tag # "+" /\ hunks[h].lines[n].body = script[k].line.body
    BY <1>6, <2>1 DEF HunkLineOf
  <2>3. OldLine(script, k) \in DOMAIN now /\ now[OldLine(script, k)] = script[k].line
    BY <1>3, <2>1, <2>2, OldTextAt
  <2>4. OldLine(script, k) <= Len(now)
    BY <1>3, <2>3, LenProperties
  <2>5. k \in Shown(script)
    <3>1. k <= Len(script)
      BY <1>2, <2>1 DEF N
    <3> QED BY <1>1, <2>1, <3>1 DEF CoversTo
  <2>6. script[k].line.end # "ff"
    BY <2>2, <2>5
  <2> QED BY <2>1, <2>2, <2>3, <2>4, <2>6 DEF Matches
<1>7. Verified(now, hunks)
  BY <1>5, <1>6 DEF Verified
<1> QED
  BY <1>7 DEF now

(* Hunks that show a script to its end.                                       *)
LEMMA FitsShow ==
  ASSUME NEW script \in Seq(Entries), NEW hunks \in Seq(Hunks),
         Fits(hunks, script, Len(script))
  PROVE  HunksShow(hunks, script)
<1>1. PICK from \in [DOMAIN hunks -> DOMAIN script], to \in [DOMAIN hunks -> DOMAIN script] :
        CoversTo(hunks, script, from, to, Len(script))
  BY DEF Fits
<1>2. \A k \in DOMAIN script : k <= Len(script)
  BY LenProperties
<1>3. Covers(hunks, script, from, to)
  BY <1>1, <1>2 DEF CoversTo, Covers
<1> QED
  BY <1>1, <1>3 DEF HunksShow

(* They still do with a blank line behind the last.                           *)
LEMMA PaddedShow ==
  ASSUME NEW script \in Seq(Entries), NEW hunks \in Seq(Hunks), hunks # <<>>,
         Fits(hunks, script, Len(script)), NEW line \in HunkLines, line.tag = "kept"
  PROVE  HunksShow(WithLine(hunks, line), script)
<1> DEFINE H == Len(hunks)  more == WithLine(hunks, line)  L == Len(hunks[H].lines)
<1>1. PICK from \in [DOMAIN hunks -> DOMAIN script], to \in [DOMAIN hunks -> DOMAIN script] :
        CoversTo(hunks, script, from, to, Len(script))
  BY DEF Fits
<1>2. /\ more \in Seq(Hunks) /\ Len(more) = H /\ H \in Nat \ {0}
      /\ \A h \in 1 .. H : h # H => more[h] = hunks[h]
      /\ more[H].start = hunks[H].start /\ L \in Nat
      /\ Len(more[H].lines) = L + 1 /\ more[H].lines[L + 1] = line
      /\ \A n \in 1 .. L : more[H].lines[n] = hunks[H].lines[n]
  BY LastHunk
<1>3. DOMAIN hunks = 1 .. H /\ DOMAIN more = 1 .. H /\ DOMAIN script = 1 .. Len(script)
      /\ Len(script) \in Nat
  BY <1>2, LenProperties
<1> DEFINE a == from[H]  b == to[H]
<1>4. Shows(hunks[H], script, a, b) /\ L = b - a + 1 /\ a \in Nat /\ b \in Nat
  <2>1. H \in DOMAIN hunks
    <3> HIDE DEF H, more, L
    <3>1. H \in 1 .. H
      BY <1>2
    <3> QED BY <1>3, <3>1
  <2> QED BY <1>1, <1>3, <2>1 DEF CoversTo
<1> HIDE DEF H, L, more
<1>5. Shows(more[H], script, a, b)
  <2> HIDE DEF a, b
  <2>1. /\ 1 <= a /\ a <= b /\ b <= Len(script) /\ hunks[H].start = HunkStart(script, a)
        /\ \A n \in 1 .. b - a + 1 : hunks[H].lines[n]
             = [tag |-> script[a + n - 1].tag, body |-> script[a + n - 1].line.body]
    BY <1>4 DEF Shows
  <2>2. \A n \in 1 .. b - a + 1 : n \in 1 .. L
    BY <1>4
  <2>3. \A n \in b - a + 2 .. L + 1 : n = L + 1
    BY <1>4
  <2>4. b - a + 1 <= L + 1
    BY <1>4
  <2> QED BY <1>2, <2>1, <2>2, <2>3, <2>4 DEF Shows
<1>6. \A h \in DOMAIN more : Shows(more[h], script, from[h], to[h])
  BY <1>1, <1>2, <1>3, <1>5 DEF CoversTo
<1>7. Covers(more, script, from, to)
  BY <1>1, <1>3, <1>6 DEF CoversTo, Covers
<1>8. HunksShow(more, script)
  BY <1>1, <1>3, <1>7 DEF HunksShow
<1> QED
  BY <1>8 DEF more

-----------------------------------------------------------------------------
(* What the parser has read when it stands in a part of the diff.             *)

(* The parser's list of patches with other hunks in the last.                 *)
WithHunks(ps, hunks) == [ps EXCEPT ![Len(ps)].hunks = hunks]

(* The last patch, and no other, gets the hunks.                              *)
LEMMA LastPatch ==
  ASSUME NEW ps \in Seq(FilePatches), ps # <<>>, NEW hunks \in Seq(Hunks)
  PROVE  LET n == Len(ps)
             more == WithHunks(ps, hunks)
         IN  /\ more \in Seq(FilePatches) /\ Len(more) = n /\ n \in Nat \ {0}
             /\ \A k \in 1 .. n : more[k].path = ps[k].path
             /\ \A k \in 1 .. n : k # n => more[k] = ps[k]
             /\ more[n].hunks = hunks /\ ps[n].hunks \in Seq(Hunks)
<1> DEFINE n == Len(ps)  old == ps[n]  new == [old EXCEPT !.hunks = hunks]
<1>1. n \in Nat \ {0} /\ DOMAIN ps = 1 .. n /\ n \in 1 .. n
  BY LenProperties, EmptySeq
<1>2. old \in FilePatches
  BY <1>1
<1>3. WithHunks(ps, hunks) = [ps EXCEPT ![n] = new]
  BY DEF WithHunks
<1> HIDE DEF n, old
<1>4. new \in FilePatches /\ new.path = old.path /\ new.hunks = hunks /\ old.hunks \in Seq(Hunks)
  BY <1>2 DEF FilePatches
<1> HIDE DEF new
<1> DEFINE s == [ps EXCEPT ![n] = new]
<1>5. s \in Seq(FilePatches)
  BY <1>4, SeqExcept
<1>6. DOMAIN s = 1 .. n /\ s[n] = new /\ \A k \in 1 .. n : k # n => s[k] = ps[k]
  BY <1>1
<1> HIDE DEF s
<1>7. DOMAIN s = 1 .. Len(s) /\ Len(s) \in Nat
  BY <1>5, LenProperties
<1>8. Len(s) = n
  BY <1>1, <1>6, <1>7
<1>9. \A k \in 1 .. n : s[k].path = ps[k].path
  BY <1>4, <1>6 DEF old
<1> QED
  BY <1>1, <1>3, <1>4, <1>5, <1>6, <1>8, <1>9 DEF s, n, old

(* A script that shows anything is printed in a line or more, the first of    *)
(* which begins a hunk.                                                       *)
LEMMA FirstRow ==
  ASSUME NEW script \in Seq(Entries), Shown(script) # {}
  PROVE  /\ Len(PrintedEntries(script)) \in Nat \ {0}
         /\ \E start \in Nat : PrintedEntries(script)[1].line = HunkAt(start)
<1> DEFINE rows == PrintedEntries(script)
<1>1. PICK p, o : Places(p, o, PrintedPieces(script), Len(script), rows)
  BY PiecesPrinted
<1>2. Len(rows) \in Nat
  BY PiecesPrinted, LenProperties
<1>3. <<>> \in Seq(Hunks) /\ ReadUpTo(<<>>, script, p[0], o[0]) /\ p[0] = 0
  BY <1>1 DEF ReadUpTo, Places
<1>4. Len(rows) # 0
  <2> SUFFICES ASSUME Len(rows) = 0 PROVE FALSE
    OBVIOUS
  <2>1. ReadUpTo(<<>>, script, p[Len(rows)], o[Len(rows)])
    BY <1>3
  <2>2. Len(rows) \in Nat \ {0}
    <3> HIDE DEF rows
    <3> QED BY <1>1, <1>3, <2>1, RowsEnd DEF rows
  <2> QED BY <2>2
<1>5. 1 \in 1 .. Len(rows)
  BY <1>2, <1>4
<1>6. ReadUpTo(<<>>, script, p[1 - 1], o[1 - 1])
  BY <1>3
<1>7. p[1] \in DOMAIN script /\ RowRead(<<>>, script, p[1], o[1], rows[1].line)
  BY <1>1, <1>3, <1>5, <1>6, RowStep
<1>8. rows[1].line = HunkAt(HunkStart(script, p[1]))
  BY <1>7 DEF RowRead
<1>9. HunkStart(script, p[1]) \in Nat
  BY <1>7, EntriesAreHunkLines
<1> QED
  BY <1>2, <1>4, <1>8, <1>9

(* Every part of the diff shows something.                                    *)
ShowsAll(j) == \A k \in DOMAIN j.edits : Shown(j.edits[k].script) # {}

(* The parts the diff is joined from.                                         *)
Parts(j) == [k \in DOMAIN j.edits |-> Part(j, k)]

(* The lines of a part in front of those of the script.                       *)
Ahead(j) == Lead(j) + (IF j.form = "headless" THEN 0 ELSE 2)

(* How many lines a part has.                                                 *)
LEMMA PartLength ==
  ASSUME NEW j, WellFormed(j), ShowsAll(j), NEW k \in DOMAIN j.edits
  PROVE  /\ j.edits[k].path \in Paths /\ j.edits[k].script \in Seq(Entries)
         /\ Lead(j) \in {0, 1} /\ Trail(j) \in {0, 1} /\ Ahead(j) \in Nat
         /\ Ahead(j) = Lead(j) + (IF j.form = "headless" THEN 0 ELSE 2)
         /\ Rows(j, k) = PrintedEntries(j.edits[k].script)
         /\ Len(Rows(j, k)) \in Nat \ {0}
         /\ Parts(j)[k] = Part(j, k) /\ Part(j, k) \in Seq(Ended)
         /\ Len(Part(j, k)) = Ahead(j) + Len(Rows(j, k)) + Trail(j)
<1>1. j.edits[k] \in Edits
  BY DEF WellFormed
<1>2. j.edits[k].path \in Paths /\ j.edits[k].script \in Seq(Entries)
  BY <1>1 DEF Edits
<1>3. Lead(j) \in {0, 1} /\ Trail(j) \in {0, 1} /\ Ahead(j) \in Nat
      /\ Ahead(j) = Lead(j) + (IF j.form = "headless" THEN 0 ELSE 2)
  BY DEF Lead, Trail, Ahead
<1>4. Len(Rows(j, k)) \in Nat \ {0} /\ Rows(j, k) = PrintedEntries(j.edits[k].script)
  BY <1>2, FirstRow DEF Rows, ShowsAll
<1>5. Parts(j)[k] = Part(j, k)
  BY DEF Parts
<1>6. PartIs(j, k)
  BY PartShape DEF ShowsAll
<1>7. Part(j, k) \in Seq(Ended) /\ Len(Part(j, k)) = Ahead(j) + Len(Rows(j, k)) + Trail(j)
  BY <1>6 DEF PartIs, Ahead
<1> QED
  BY <1>2, <1>3, <1>4, <1>5, <1>7

(* The patch of a part shows its script: line by line, or with a blank line   *)
(* more if such lines stand between the parts.                                *)
ShownBy(j, ps, k) ==
  LET script == j.edits[k].script
  IN  /\ ps[k].path = j.edits[k].path
      /\ HunksShow(ps[k].hunks, script)
      /\ j.form # "spaced" => Fits(ps[k].hunks, script, Len(script))

(* The first n patches show the first n scripts, and there are no others.     *)
AllShown(j, ps, n) == Len(ps) = n /\ \A k \in 1 .. n : ShownBy(j, ps, k)

(* The patch of a part when some of its rows have been read.                  *)
PartRead(j, ps, k, m) ==
  LET script == j.edits[k].script
  IN  /\ ps[k].path = j.edits[k].path
      /\ \E p, o : /\ Places(p, o, PrintedPieces(script), Len(script), Rows(j, k))
                   /\ ReadUpTo(ps[k].hunks, script, p[m], o[m])

(* The parser's patches when it has read a part's first lines: none of its    *)
(* own, or its headers and so many of its rows.                               *)
InFront(j, ps, e) == AllShown(j, ps, e - 1) /\ (j.form = "headless" => ps = <<>>)

(* Behind the headers of the part e.                                          *)
Within(j, ps, op, e, off) ==
  /\ j.form # "headless" /\ off >= Ahead(j)
  /\ Len(ps) = e /\ \A k \in 1 .. e - 1 : ShownBy(j, ps, k)
  /\ ps[e].hunks # <<>> => op
  /\ off <= Ahead(j) + Len(Rows(j, e)) => PartRead(j, ps, e, off - Ahead(j))
  /\ off > Ahead(j) + Len(Rows(j, e)) => ShownBy(j, ps, e)

(* At the line number off of the part e, or at the very beginning.            *)
Reading(j, ps, op, e, off) ==
  /\ ps \in Seq(FilePatches)
  /\ \/ e = 0 /\ ps = <<>>
     \/ e \in DOMAIN j.edits /\ off <= Lead(j) /\ InFront(j, ps, e)
     \/ e \in DOMAIN j.edits /\ Within(j, ps, op, e, off)

(* Behind the last line of a part, all parts so far have been read.           *)
LEMMA BehindPart ==
  ASSUME NEW j, WellFormed(j), ShowsAll(j), NEW ps, NEW op, NEW e \in DOMAIN j.edits,
         Reading(j, ps, op, e, Len(Part(j, e)))
  PROVE  AllShown(j, ps, e) /\ j.form # "headless"
<1> DEFINE a == Ahead(j)  N == Len(Rows(j, e))  script == j.edits[e].script  t == Trail(j)
           off == Len(Part(j, e))
<1>1. /\ script \in Seq(Entries) /\ Lead(j) \in {0, 1} /\ t \in {0, 1} /\ a \in Nat
      /\ a = Lead(j) + (IF j.form = "headless" THEN 0 ELSE 2) /\ N \in Nat \ {0}
      /\ off = a + N + t /\ Rows(j, e) = PrintedEntries(script)
  BY PartLength
<1>2. DOMAIN j.edits = 1 .. Len(j.edits) /\ Len(j.edits) \in Nat
  BY LenProperties DEF WellFormed
<1>3. ps \in Seq(FilePatches)
  BY DEF Reading
<1>4. Within(j, ps, op, e, off)
  <2>1. ~ (off <= Lead(j)) /\ e # 0
    BY <1>1, <1>2
  <2> HIDE DEF off
  <2> QED BY <2>1 DEF Reading, off
<1> HIDE DEF a, N, script, t, off
<1>5. /\ j.form # "headless" /\ Len(ps) = e /\ \A k \in 1 .. e - 1 : ShownBy(j, ps, k)
      /\ off <= a + N => PartRead(j, ps, e, off - a)
      /\ off > a + N => ShownBy(j, ps, e)
  BY <1>4 DEF Within, a, N
<1>6. ShownBy(j, ps, e)
  <2>1. CASE t = 1
    <3>1. off > a + N
      BY <1>1, <2>1
    <3> QED BY <1>5, <3>1
  <2>2. CASE t = 0
    <3>1. off <= a + N /\ off - a = N
      BY <1>1, <2>2
    <3>2. PartRead(j, ps, e, N)
      BY <1>5, <3>1
    <3>3. PICK p, o : /\ Places(p, o, PrintedPieces(script), Len(script), Rows(j, e))
                      /\ ReadUpTo(ps[e].hunks, script, p[N], o[N])
      BY <3>2 DEF PartRead, script
    <3>4. ps[e] \in FilePatches
      <4>1. DOMAIN ps = 1 .. Len(ps) /\ e \in 1 .. Len(ps)
        BY <1>2, <1>3, <1>5, LenProperties
      <4> QED BY <1>3, <4>1
    <3>5. ps[e].hunks \in Seq(Hunks)
      BY <3>4 DEF FilePatches
    <3>6. Shown(script) # {}
      BY DEF ShowsAll, script
    <3>7. Fits(ps[e].hunks, script, Len(script))
      BY <1>1, <3>3, <3>5, <3>6, RowsEnd DEF N
    <3>8. HunksShow(ps[e].hunks, script)
      BY <1>1, <3>5, <3>7, FitsShow
    <3> QED BY <3>2, <3>7, <3>8 DEF PartRead, ShownBy, script
  <2> QED BY <1>1, <2>1, <2>2
<1>7. \A k \in 1 .. e : k \in 1 .. e - 1 \/ k = e
  BY <1>2
<1> QED
  BY <1>5, <1>6, <1>7 DEF AllShown

(* Where the next line is: in front of a part's rows when all parts before it *)
(* have been read, or in the part that is being read.                         *)
LEMMA NextIs ==
  ASSUME NEW j, WellFormed(j), ShowsAll(j), NEW ps, NEW op,
         NEW q, NEW r \in Nat, Reading(j, ps, op, q, r), q = 0 \/ q \in DOMAIN j.edits,
         NEW e \in DOMAIN j.edits, NEW off, NextPlace(Parts(j), q, r, e, off)
  PROVE  /\ ps \in Seq(FilePatches)
         /\ \/ off \in 1 .. Lead(j) + 1 /\ InFront(j, ps, e)
            \/ off - 1 \in Nat /\ off > Ahead(j) /\ Within(j, ps, op, e, off - 1)
<1>1. DOMAIN j.edits = 1 .. Len(j.edits) /\ Len(j.edits) \in Nat
  BY LenProperties DEF WellFormed
<1>2. \A k \in DOMAIN j.edits :
        /\ Parts(j)[k] = Part(j, k) /\ Len(Part(j, k)) \in Nat \ {0}
        /\ Lead(j) \in {0, 1} /\ Ahead(j) \in Nat
  <2> SUFFICES ASSUME NEW k \in DOMAIN j.edits
               PROVE  /\ Parts(j)[k] = Part(j, k) /\ Len(Part(j, k)) \in Nat \ {0}
                      /\ Lead(j) \in {0, 1} /\ Ahead(j) \in Nat
    OBVIOUS
  <2> DEFINE N == Len(Rows(j, k))  t == Trail(j)  a == Ahead(j)  L == Len(Part(j, k))
  <2>1. N \in Nat \ {0} /\ t \in {0, 1} /\ a \in Nat /\ L = a + N + t
        /\ Lead(j) \in {0, 1} /\ Parts(j)[k] = Part(j, k)
    BY PartLength
  <2> HIDE DEF N, t, a, L
  <2>2. L \in Nat \ {0}
    BY <2>1
  <2> QED BY <2>1, <2>2 DEF L, a
<1>3. ps \in Seq(FilePatches)
  BY DEF Reading
<1>4. CASE e = q /\ off = r + 1
  <2>1. q # 0 /\ r \in Nat /\ off - 1 = r
    BY <1>1, <1>4
  <2>2. CASE r <= Lead(j) /\ InFront(j, ps, q)
    <3>1. off \in 1 .. Lead(j) + 1
      BY <1>2, <1>4, <2>1, <2>2
    <3> QED BY <1>3, <1>4, <2>2, <3>1
  <2>3. CASE Within(j, ps, op, q, r)
    <3>1. r >= Ahead(j)
      BY <2>3 DEF Within
    <3>2. off > Ahead(j)
      BY <1>2, <1>4, <2>1, <3>1
    <3> QED BY <1>3, <1>4, <2>1, <2>3, <3>2
  <2> QED BY <2>1, <2>2, <2>3 DEF Reading
<1>5. CASE /\ q < e /\ off = 1 /\ (q = 0 \/ r = Len(Parts(j)[q]))
           /\ \A k \in q + 1 .. e - 1 : Parts(j)[k] = <<>>
  <2>1. q = e - 1
    <3> SUFFICES ASSUME q # e - 1 PROVE FALSE
      OBVIOUS
    <3>1. q + 1 \in q + 1 .. e - 1 /\ q + 1 \in DOMAIN j.edits
      BY <1>1, <1>5
    <3>2. Parts(j)[q + 1] = <<>> /\ Len(Parts(j)[q + 1]) # 0
      BY <1>2, <1>5, <3>1
    <3> QED BY <3>2
  <2>2. off \in 1 .. Lead(j) + 1
    BY <1>2, <1>5
  <2>3. CASE q = 0
    <3>1. ps = <<>> /\ e - 1 = 0
      BY <1>1, <2>1, <2>3 DEF Reading
    <3>2. InFront(j, ps, e)
      BY <3>1 DEF InFront, AllShown
    <3> QED BY <1>3, <2>2, <3>2
  <2>4. CASE q # 0
    <3>1. q \in DOMAIN j.edits
      BY <2>4
    <3>2. r = Len(Part(j, q))
      BY <1>2, <1>5, <2>4, <3>1
    <3>3. AllShown(j, ps, q) /\ j.form # "headless"
      BY <3>1, <3>2, BehindPart
    <3>4. InFront(j, ps, e)
      BY <2>1, <3>3 DEF InFront
    <3> QED BY <1>3, <2>2, <3>4
  <2> QED BY <2>3, <2>4
<1> QED
  BY <1>4, <1>5 DEF NextPlace

-----------------------------------------------------------------------------
(* What it reads next.                                                        *)

(* What the parser meets in a diff that was printed, and what it has read     *)
(* behind that line, the number off of the part e: a line of git's; a hunk    *)
(* without headers; a file's two headers; a hunk's; or a hunk's line.         *)
NoiseRead(j, ps, op, e, off, line) == line = Noise /\ Reading(j, ps, op, e, off)

(* A hunk without headers, which the parser refuses.                          *)
OrphanRead(j, ps, line) ==
  j.form = "headless" /\ ps = <<>> /\ \E start \in Nat : line = HunkAt(start)

(* The two headers of a file, which are read in one step.                     *)
HeadersRead(j, ps, e, off, line) ==
  LET path == j.edits[e].path
  IN  /\ j.form # "headless" /\ off + 1 <= Len(Part(j, e))
      /\ line = Header("---", path) /\ Part(j, e)[off + 1].line = Header("+++", path)
      /\ Reading(j, Append(ps, [path |-> path, hunks |-> <<>>]), FALSE, e, off + 1)

(* The header of a hunk, which opens one in the file's patch.                 *)
HunkRead(j, ps, e, off, line) ==
  /\ ps # <<>>
  /\ \E start \in Nat :
       /\ line = HunkAt(start)
       /\ Reading(j, WithHunks(ps, Append(ps[Len(ps)].hunks, NewHunk(start))), TRUE, e, off)

(* A line of a hunk.  A deleted line that begins with dashes looks like a     *)
(* header; only a script that is not Printable has one.                       *)
BodyRead(j, ps, op, e, off, line) ==
  /\ ps # <<>> /\ op /\ ps[Len(ps)].hunks # <<>>
  /\ \E l \in HunkLines :
       /\ \/ line = Body(l.tag, l.body)
          \/ line = Blank /\ l = [tag |-> "kept", body |-> Empty]
       /\ l.tag = "-" /\ l.body \in Dashed => ~ Printable(j.edits[e].script)
       /\ Reading(j, WithHunks(ps, WithLine(ps[Len(ps)].hunks, l)), op, e, off)

(* There is nothing else in such a diff.                                      *)
LineRead(j, ps, op, e, off, line) ==
  \/ NoiseRead(j, ps, op, e, off, line)
  \/ OrphanRead(j, ps, line)
  \/ HeadersRead(j, ps, e, off, line)
  \/ HunkRead(j, ps, e, off, line)
  \/ BodyRead(j, ps, op, e, off, line)

(* With other hunks in its patch a part has been read one line further.       *)
LEMMA WithinNext ==
  ASSUME NEW j, NEW ps \in Seq(FilePatches), NEW op, NEW e \in DOMAIN j.edits, e \in Nat \ {0},
         NEW off \in Nat, off > Ahead(j), Ahead(j) \in Nat, Within(j, ps, op, e, off - 1),
         NEW hunks \in Seq(Hunks), NEW now,
         hunks # <<>> => now,
         off <= Ahead(j) + Len(Rows(j, e)) =>
           PartRead(j, WithHunks(ps, hunks), e, off - Ahead(j)),
         off > Ahead(j) + Len(Rows(j, e)) => ShownBy(j, WithHunks(ps, hunks), e)
  PROVE  Reading(j, WithHunks(ps, hunks), now, e, off)
<1> DEFINE more == WithHunks(ps, hunks)
<1>1. j.form # "headless" /\ Len(ps) = e /\ \A k \in 1 .. e - 1 : ShownBy(j, ps, k)
  BY DEF Within
<1>2. ps # <<>>
  BY <1>1
<1>3. /\ more \in Seq(FilePatches) /\ Len(more) = e /\ more[e].hunks = hunks
      /\ \A k \in 1 .. e : k # e => more[k] = ps[k]
  BY <1>1, <1>2, LastPatch
<1>4. \A k \in 1 .. e - 1 : more[k] = ps[k]
  BY <1>3
<1>5. \A k \in 1 .. e - 1 : ShownBy(j, more, k)
  BY <1>1, <1>4 DEF ShownBy
<1> HIDE DEF more
<1>6. Within(j, more, now, e, off)
  BY <1>1, <1>3, <1>5 DEF Within, more
<1>7. Reading(j, more, now, e, off)
  BY <1>3, <1>6 DEF Reading
<1> QED
  BY <1>7 DEF more

(* A blank line between two parts goes into the last hunk.                    *)
LEMMA BlankRead ==
  ASSUME NEW j, WellFormed(j), ShowsAll(j), NEW ps \in Seq(FilePatches), NEW op,
         NEW e \in DOMAIN j.edits, NEW off, off = Ahead(j) + Len(Rows(j, e)) + 1, Trail(j) = 1,
         Within(j, ps, op, e, off - 1)
  PROVE  BodyRead(j, ps, op, e, off, Part(j, e)[off].line)
<1> DEFINE a == Ahead(j)  N == Len(Rows(j, e))  script == j.edits[e].script
           blank == [tag |-> "kept", body |-> Empty]  hunks == ps[e].hunks
           hs == WithLine(hunks, blank)
<1>1. script \in Seq(Entries) /\ a \in Nat /\ N \in Nat \ {0} /\ Rows(j, e) = PrintedEntries(script)
  BY PartLength
<1>2. DOMAIN j.edits = 1 .. Len(j.edits) /\ Len(j.edits) \in Nat
  BY LenProperties DEF WellFormed
<1>3. off \in Nat /\ off - 1 = a + N /\ off > a + N /\ off > a /\ ~ (off <= a + N)
      /\ off - 1 <= a + N /\ (off - 1) - a = N /\ e \in Nat \ {0}
  BY <1>1, <1>2
<1> HIDE DEF a, N, script, blank
<1>4. Len(ps) = e /\ (ps[e].hunks # <<>> => op) /\ PartRead(j, ps, e, N)
  BY <1>3 DEF Within, a, N
<1>5. ps # <<>> /\ ps[e] \in FilePatches
  <2>1. DOMAIN ps = 1 .. Len(ps) /\ e \in 1 .. Len(ps)
    BY <1>3, <1>4, LenProperties
  <2> QED BY <1>3, <1>4, <2>1
<1>6. hunks \in Seq(Hunks)
  BY <1>5 DEF FilePatches
<1>7. PICK p, o : /\ Places(p, o, PrintedPieces(script), Len(script), Rows(j, e))
                  /\ ReadUpTo(hunks, script, p[N], o[N])
  BY <1>4 DEF PartRead, script
<1>8. Fits(hunks, script, Len(script)) /\ hunks # <<>>
  <2>1. Shown(script) # {}
    BY DEF ShowsAll, script
  <2> HIDE DEF hunks
  <2> QED BY <1>1, <1>6, <1>7, <2>1, RowsEnd DEF N
<1>9. blank \in HunkLines /\ blank.tag = "kept"
  BY BodyAssumption DEF HunkLines, blank
<1>10. HunksShow(hs, script) /\ hs \in Seq(Hunks)
  <2> HIDE DEF hunks
  <2>1. HunksShow(hs, script)
    BY <1>1, <1>6, <1>8, <1>9, PaddedShow
  <2>2. hs \in Seq(Hunks)
    BY <1>6, <1>8, <1>9, LastHunk
  <2> QED BY <2>1, <2>2
<1> HIDE DEF hs
<1>11. op
  BY <1>4, <1>8
<1>12. ShownBy(j, WithHunks(ps, hs), e)
  <2>1. WithHunks(ps, hs)[e].path = ps[e].path /\ WithHunks(ps, hs)[e].hunks = hs
    <3>1. e \in 1 .. e
      BY <1>3
    <3> QED BY <1>4, <1>5, <1>10, <3>1, LastPatch
  <2>2. j.form = "spaced"
    BY DEF Trail
  <2>3. ps[e].path = j.edits[e].path
    BY <1>4 DEF PartRead
  <2> QED BY <1>10, <2>1, <2>2, <2>3 DEF ShownBy, script
<1>13. Reading(j, WithHunks(ps, hs), op, e, off)
  BY <1>1, <1>3, <1>10, <1>11, <1>12, WithinNext DEF a, N
<1>14. Part(j, e)[off].line = Blank
  <2>1. PartIs(j, e)
    BY PartShape DEF ShowsAll
  <2> QED BY <2>1 DEF PartIs, IsLine, Ahead
<1> QED
  BY <1>4, <1>5, <1>8, <1>9, <1>11, <1>13, <1>14 DEF BodyRead, hs, blank

(* A row of a part begins a hunk or goes into the last one.                   *)
LEMMA RowIsRead ==
  ASSUME NEW j, WellFormed(j), ShowsAll(j), NEW ps \in Seq(FilePatches), NEW op,
         NEW e \in DOMAIN j.edits, NEW m \in 1 .. Len(Rows(j, e)), NEW off, off = Ahead(j) + m,
         Within(j, ps, op, e, off - 1)
  PROVE  \/ HunkRead(j, ps, e, off, Part(j, e)[off].line)
         \/ BodyRead(j, ps, op, e, off, Part(j, e)[off].line)
<1> DEFINE a == Ahead(j)  N == Len(Rows(j, e))  script == j.edits[e].script
           hunks == ps[e].hunks
<1>1. script \in Seq(Entries) /\ a \in Nat /\ N \in Nat \ {0} /\ Rows(j, e) = PrintedEntries(script)
  BY PartLength
<1>2. DOMAIN j.edits = 1 .. Len(j.edits) /\ Len(j.edits) \in Nat
  BY LenProperties DEF WellFormed
<1>3. off \in Nat /\ off > a /\ off <= a + N /\ off - 1 <= a + N /\ (off - 1) - a = m - 1
      /\ off - a = m /\ e \in Nat \ {0} /\ m \in 1 .. N /\ ~ (off > a + N)
  BY <1>1, <1>2
<1> HIDE DEF a, N, script
<1>4. Len(ps) = e /\ (hunks # <<>> => op) /\ PartRead(j, ps, e, m - 1)
  BY <1>3 DEF Within, a, N
<1>5. ps # <<>> /\ ps[e] \in FilePatches
  <2>1. DOMAIN ps = 1 .. Len(ps) /\ e \in 1 .. Len(ps)
    BY <1>3, <1>4, LenProperties
  <2> QED BY <1>3, <1>4, <2>1
<1>6. hunks \in Seq(Hunks) /\ ps[e].path = j.edits[e].path
  BY <1>4, <1>5 DEF FilePatches, PartRead
<1>7. PICK p, o : /\ Places(p, o, PrintedPieces(script), Len(script), Rows(j, e))
                  /\ ReadUpTo(hunks, script, p[m - 1], o[m - 1])
  BY <1>4 DEF PartRead, script
<1> HIDE DEF hunks
<1>8. p[m] \in DOMAIN script /\ RowRead(hunks, script, p[m], o[m], Rows(j, e)[m].line)
  BY <1>1, <1>3, <1>6, <1>7, RowStep DEF N
<1> DEFINE k == p[m]  line == Part(j, e)[off].line
<1>9. line = Rows(j, e)[m].line
  <2>1. PartIs(j, e)
    BY PartShape DEF ShowsAll
  <2> QED BY <2>1 DEF PartIs, Ahead
<1> HIDE DEF line
<1>10. ASSUME NEW hs \in Seq(Hunks), ReadUpTo(hs, script, k, o[m]), NEW now, now
       PROVE  Reading(j, WithHunks(ps, hs), now, e, off)
  <2>1. WithHunks(ps, hs)[e].path = ps[e].path /\ WithHunks(ps, hs)[e].hunks = hs
    <3>1. e \in 1 .. e
      BY <1>3
    <3> QED BY <1>4, <1>5, <3>1, LastPatch
  <2>2. PartRead(j, WithHunks(ps, hs), e, m)
    BY <1>6, <1>7, <1>10, <2>1 DEF PartRead, script
  <2> QED BY <1>1, <1>3, <1>10, <2>2, WithinNext DEF a, N
<1>11. CASE /\ line = HunkAt(HunkStart(script, k))
            /\ ReadUpTo(Append(hunks, NewHunk(HunkStart(script, k))), script, k, o[m])
  <2> DEFINE start == HunkStart(script, k)  hs == Append(hunks, NewHunk(start))
  <2>1. start \in Nat
    BY <1>1, <1>8, EntriesAreHunkLines
  <2> HIDE DEF start
  <2>2. hs \in Seq(Hunks)
    BY <1>6, <2>1, HunkBegins
  <2>3. ReadUpTo(hs, script, k, o[m]) /\ line = HunkAt(start)
    BY <1>11 DEF start
  <2> HIDE DEF hs, k
  <2>4. Reading(j, WithHunks(ps, hs), TRUE, e, off)
    BY <1>10, <2>2, <2>3
  <2> QED BY <1>4, <1>5, <2>1, <2>3, <2>4 DEF HunkRead, hs, hunks, line
<1>12. CASE /\ line = EntryLine(script, k) /\ hunks # <<>> /\ k \in Shown(script)
            /\ ReadUpTo(WithLine(hunks, HunkLineOf(script, k)), script, k, o[m])
  <2> DEFINE l == HunkLineOf(script, k)  hs == WithLine(hunks, l)
  <2>1. l \in HunkLines
    BY <1>1, <1>8, EntriesAreHunkLines
  <2>2. l.tag = script[k].tag /\ l.body = script[k].line.body
    BY DEF HunkLineOf
  <2>3. line = Body(l.tag, l.body)
    BY <1>12, <2>2 DEF EntryLine
  <2>4. l.tag = "-" /\ l.body \in Dashed => ~ Printable(script)
    BY <1>12, <2>2 DEF Printable
  <2>5. ReadUpTo(hs, script, k, o[m]) /\ op
    BY <1>4, <1>12
  <2> HIDE DEF l
  <2>6. hs \in Seq(Hunks)
    BY <1>6, <1>12, <2>1, LastHunk
  <2> HIDE DEF hs, k
  <2>7. Reading(j, WithHunks(ps, hs), op, e, off)
    BY <1>10, <2>5, <2>6
  <2> QED BY <1>4, <1>5, <1>12, <2>1, <2>3, <2>4, <2>5, <2>7 DEF BodyRead, hs, hunks, line, script
<1> QED
  BY <1>8, <1>9, <1>11, <1>12 DEF RowRead, line

(* In front of a part's rows: a line of git's, a hunk or the headers.         *)
LEMMA FrontIsRead ==
  ASSUME NEW j, WellFormed(j), ShowsAll(j), NEW ps \in Seq(FilePatches), NEW op,
         NEW e \in DOMAIN j.edits, NEW off \in 1 .. Lead(j) + 1, InFront(j, ps, e)
  PROVE  LineRead(j, ps, op, e, off, Part(j, e)[off].line)
<1> DEFINE a == Ahead(j)  N == Len(Rows(j, e))  script == j.edits[e].script
           path == j.edits[e].path  line == Part(j, e)[off].line  t == Trail(j)
<1>1. /\ script \in Seq(Entries) /\ path \in Paths /\ Lead(j) \in {0, 1} /\ t \in {0, 1}
      /\ a = Lead(j) + (IF j.form = "headless" THEN 0 ELSE 2) /\ N \in Nat \ {0}
      /\ Len(Part(j, e)) = a + N + t /\ Rows(j, e) = PrintedEntries(script)
  BY PartLength
<1>2. DOMAIN j.edits = 1 .. Len(j.edits) /\ Len(j.edits) \in Nat
  BY LenProperties DEF WellFormed
<1>3. PartIs(j, e)
  BY PartShape DEF ShowsAll
<1>4. CASE off <= Lead(j)
  <2>1. off = 1 /\ Lead(j) = 1
    BY <1>1, <1>4
  <2>2. line = Noise
    BY <1>3, <2>1 DEF PartIs, IsLine
  <2>3. Reading(j, ps, op, e, off)
    BY <1>4 DEF Reading
  <2> QED BY <2>2, <2>3 DEF LineRead, NoiseRead
<1>5. CASE off = Lead(j) + 1 /\ j.form = "headless"
  <2>1. off = a + 1 /\ 1 \in 1 .. N
    BY <1>1, <1>5
  <2>2. line = Rows(j, e)[1].line
    BY <1>3, <2>1 DEF PartIs, Ahead
  <2>3. \E start \in Nat : PrintedEntries(script)[1].line = HunkAt(start)
    <3>1. Shown(script) # {}
      BY DEF ShowsAll
    <3> HIDE DEF script
    <3> QED BY <1>1, <3>1, FirstRow
  <2>4. ps = <<>>
    BY <1>5 DEF InFront
  <2> QED BY <1>1, <1>5, <2>2, <2>3, <2>4 DEF LineRead, OrphanRead
<1>6. CASE off = Lead(j) + 1 /\ j.form # "headless"
  <2>1. line = Header("---", path) /\ Part(j, e)[off + 1].line = Header("+++", path)
    <3>1. off + 1 = Lead(j) + 2
      BY <1>1, <1>6
    <3> QED BY <1>3, <1>6, <3>1 DEF PartIs, IsLine
  <2>2. off + 1 = a /\ off + 1 <= Len(Part(j, e)) /\ off + 1 <= a + N /\ ~ (off + 1 > a + N)
        /\ (off + 1) - a = 0 /\ off + 1 >= a /\ e \in Nat \ {0}
    BY <1>1, <1>2, <1>6
  <2> DEFINE patch == [path |-> path, hunks |-> <<>>]  more == Append(ps, patch)
  <2>3. patch \in FilePatches
    <3>1. <<>> \in Seq(Hunks)
      OBVIOUS
    <3> QED BY <1>1, <3>1 DEF FilePatches
  <2>4. patch.path = path /\ patch.hunks = <<>>
    OBVIOUS
  <2>5. Len(ps) = e - 1 /\ \A k \in 1 .. e - 1 : ShownBy(j, ps, k)
    BY DEF InFront, AllShown
  <2> HIDE DEF patch
  <2>6. more \in Seq(FilePatches) /\ Len(more) = e /\ more[e] = patch
        /\ \A k \in 1 .. e - 1 : more[k] = ps[k]
    <3>1. /\ more \in Seq(FilePatches) /\ Len(more) = Len(ps) + 1 /\ more[Len(ps) + 1] = patch
          /\ \A k \in 1 .. Len(ps) : more[k] = ps[k]
      BY <2>3
    <3>2. Len(ps) + 1 = e
      BY <2>2, <2>5
    <3> QED BY <2>5, <3>1, <3>2
  <2> HIDE DEF more
  <2>7. \A k \in 1 .. e - 1 : ShownBy(j, more, k)
    BY <2>5, <2>6 DEF ShownBy
  <2>8. PartRead(j, more, e, 0)
    <3>1. PICK p, o : Places(p, o, PrintedPieces(script), Len(script), Rows(j, e))
      <4> HIDE DEF script
      <4> QED BY <1>1, PiecesPrinted
    <3>2. ReadUpTo(<<>>, script, p[0], o[0])
      <4>1. p[0] = 0
        BY <3>1 DEF Places
      <4> QED BY <4>1 DEF ReadUpTo
    <3>3. more[e].path = path /\ more[e].hunks = <<>>
      BY <2>4, <2>6
    <3> QED BY <3>1, <3>2, <3>3 DEF PartRead
  <2> DEFINE next == off + 1
  <2>10. next >= a /\ next <= a + N /\ ~ (next > a + N) /\ next - a = 0
    BY <2>2
  <2> HIDE DEF next
  <2>11. Within(j, more, FALSE, e, next)
    <3>1. more[e].hunks = <<>>
      BY <2>4, <2>6
    <3> QED BY <1>6, <2>6, <2>7, <2>8, <2>10, <3>1 DEF Within
  <2>12. Reading(j, more, FALSE, e, next)
    BY <2>6, <2>11 DEF Reading
  <2> QED BY <1>6, <2>1, <2>2, <2>12 DEF LineRead, HeadersRead, more, patch, next
<1>7. off <= Lead(j) \/ off = Lead(j) + 1
  BY <1>1
<1> QED
  BY <1>4, <1>5, <1>6, <1>7

(* Whatever comes next.                                                       *)
LEMMA NextIsRead ==
  ASSUME NEW j, WellFormed(j), ShowsAll(j), NEW ps, NEW op,
         NEW q, NEW r \in Nat, Reading(j, ps, op, q, r), q = 0 \/ q \in DOMAIN j.edits,
         NEW e \in DOMAIN j.edits, NEW off \in 1 .. Len(Part(j, e)),
         NextPlace(Parts(j), q, r, e, off)
  PROVE  LineRead(j, ps, op, e, off, Part(j, e)[off].line)
<1> DEFINE a == Ahead(j)  N == Len(Rows(j, e))  t == Trail(j)
<1>1. a \in Nat /\ N \in Nat \ {0} /\ t \in {0, 1} /\ Len(Part(j, e)) = a + N + t
  BY PartLength
<1>2. /\ ps \in Seq(FilePatches)
      /\ \/ off \in 1 .. Lead(j) + 1 /\ InFront(j, ps, e)
         \/ off - 1 \in Nat /\ off > Ahead(j) /\ Within(j, ps, op, e, off - 1)
  BY NextIs
<1>3. CASE off \in 1 .. Lead(j) + 1 /\ InFront(j, ps, e)
  BY <1>2, <1>3, FrontIsRead
<1>4. CASE off > Ahead(j) /\ Within(j, ps, op, e, off - 1)
  <2> DEFINE m == off - a
  <2>1. off = a + m /\ m \in Int
    BY <1>1
  <2>2. CASE m \in 1 .. N
    <3> HIDE DEF m
    <3> QED BY <1>2, <1>4, <2>1, <2>2, RowIsRead DEF LineRead
  <2>3. CASE m \notin 1 .. N
    <3>1. off = a + N + 1 /\ t = 1
      BY <1>1, <1>4, <2>3
    <3> QED BY <1>2, <1>4, <3>1, BlankRead DEF LineRead
  <2> QED BY <2>2, <2>3
<1> QED
  BY <1>2, <1>3, <1>4

-----------------------------------------------------------------------------
(* The lines of the whole diff.                                               *)

(* Every part shows something, and no two lines of the diff run together.     *)
Legible(j) ==
  /\ \A k \in DOMAIN j.edits : Shown(j.edits[k].script) # {}
  /\ \A n \in DOMAIN Joined(j) : n < Len(Joined(j)) => Joined(j)[n].end # "none"

(* The lines of such a diff, and the places they have in its parts.           *)
LinesPlaced(j, P, O) == Places(P, O, Parts(j), Len(j.edits), Joined(j))

(* Every line of such a diff has a place.                                     *)
LEMMA JoinedLines ==
  ASSUME NEW j, WellFormed(j), ShowsAll(j)
  PROVE  /\ Joined(j) \in Seq(Ended) /\ Len(Joined(j)) \in Nat
         /\ DOMAIN Joined(j) = 1 .. Len(Joined(j))
         /\ \E P, O : LinesPlaced(j, P, O)
<1>1. DOMAIN j.edits = 1 .. Len(j.edits) /\ Len(j.edits) \in Nat
  BY LenProperties DEF WellFormed
<1>2. \A k \in DOMAIN j.edits : Part(j, k) \in Seq(Ended)
  BY PartLength
<1>3. Parts(j) \in Seq(Seq(Ended)) /\ Len(Parts(j)) = Len(j.edits)
  BY <1>1, <1>2 DEF Parts
<1>4. Joined(j) = FlattenSeq(Parts(j))
  BY DEF Joined, Parts
<1>5. Joined(j) \in Seq(Ended)
  BY <1>3, <1>4, FlattenElements
<1>6. \E P, O : LinesPlaced(j, P, O)
  BY <1>3, <1>4, FlattenPlaces DEF LinesPlaced
<1> QED
  BY <1>5, <1>6, LenProperties

(* The applier is given them one by one.                                      *)
LEMMA LegibleLines ==
  ASSUME NEW j, WellFormed(j), Legible(j)
  PROVE  /\ ShowsAll(j)
         /\ Len(Joined(j)) \in Nat /\ DOMAIN DiffOf(j) = 1 .. Len(Joined(j))
         /\ Len(DiffOf(j)) = Len(Joined(j))
         /\ \A n \in 1 .. Len(Joined(j)) : DiffOf(j)[n] = Joined(j)[n].line
         /\ \E P, O : LinesPlaced(j, P, O)
<1>1. ShowsAll(j)
  BY DEF Legible, ShowsAll
<1> DEFINE d == DiffOf(j)  L == Len(Joined(j))  lines == Joined(j)
<1>2. /\ lines \in Seq(Ended) /\ L \in Nat /\ DOMAIN lines = 1 .. L
      /\ \E P, O : LinesPlaced(j, P, O)
  BY <1>1, JoinedLines
<1>3. d = [n \in DOMAIN lines |-> lines[n].line]
  BY <1>2, SplitLines DEF DiffOf, Legible
<1> HIDE DEF d, L, lines
<1>4. Len(d) = L /\ DOMAIN d = 1 .. L /\ \A n \in 1 .. L : d[n] = lines[n].line
  BY <1>2, <1>3
<1> QED
  BY <1>1, <1>2, <1>4 DEF d, L, lines

(* What the parser has read behind the first n lines of the diff.             *)
Standing(j, n, ps, op) == \E P, O : LinesPlaced(j, P, O) /\ Reading(j, ps, op, P[n], O[n])

(* What it reads next, and how it stands then.                                *)
NextRead(j, d, n, ps, op) ==
  \/ d[n + 1] = Noise /\ Standing(j, n + 1, ps, op)
  \/ OrphanRead(j, ps, d[n + 1])
  \/ /\ j.form # "headless" /\ n + 2 <= Len(d)
     /\ \E path \in Paths :
          /\ d[n + 1] = Header("---", path) /\ d[n + 2] = Header("+++", path)
          /\ Standing(j, n + 2, Append(ps, [path |-> path, hunks |-> <<>>]), FALSE)
  \/ /\ ps # <<>>
     /\ \E start \in Nat :
          /\ d[n + 1] = HunkAt(start)
          /\ Standing(j, n + 1, WithHunks(ps, Append(ps[Len(ps)].hunks, NewHunk(start))), TRUE)
  \/ /\ ps # <<>> /\ op
     /\ \E l \in HunkLines :
          /\ \/ d[n + 1] = Body(l.tag, l.body)
             \/ d[n + 1] = Blank /\ l = [tag |-> "kept", body |-> Empty]
          /\ l.tag = "-" /\ l.body \in Dashed =>
               \E k \in DOMAIN j.edits : ~ Printable(j.edits[k].script)
          /\ Standing(j, n + 1, WithHunks(ps, WithLine(ps[Len(ps)].hunks, l)), op)

(* A line of a diff and its place.                                            *)
LEMMA LinePlace ==
  ASSUME NEW j, WellFormed(j), Legible(j), NEW P, NEW O, LinesPlaced(j, P, O),
         NEW n \in 1 .. Len(Joined(j))
  PROVE  /\ P[n] \in DOMAIN j.edits /\ P[n] # 0 /\ O[n] \in 1 .. Len(Part(j, P[n]))
         /\ DiffOf(j)[n] = Part(j, P[n])[O[n]].line
         /\ NextPlace(Parts(j), P[n - 1], O[n - 1], P[n], O[n])
         /\ n = Len(Joined(j)) => O[n] = Len(Part(j, P[n]))
<1> DEFINE lines == Joined(j)  e == P[n]  off == O[n]  L == Len(lines)
<1>1. DOMAIN j.edits = 1 .. Len(j.edits) /\ Len(j.edits) \in Nat
  BY LenProperties DEF WellFormed
<1>2. /\ e \in 1 .. Len(j.edits) /\ off \in 1 .. Len(Parts(j)[e])
      /\ lines[n] = Parts(j)[e][off]
      /\ NextPlace(Parts(j), P[n - 1], O[n - 1], e, off)
      /\ P[L] = 0 \/ O[L] = Len(Parts(j)[P[L]])
  BY DEF LinesPlaced, Places, LastPlace
<1>3. DiffOf(j)[n] = lines[n].line
  BY LegibleLines
<1> HIDE DEF lines, e, off, L
<1>4. e \in DOMAIN j.edits /\ e # 0
  BY <1>1, <1>2
<1>5. Parts(j)[e] = Part(j, e)
  BY <1>4 DEF Parts
<1>6. n = L => off = Len(Part(j, e))
  <2> SUFFICES ASSUME n = L PROVE off = Len(Part(j, e))
    OBVIOUS
  <2>1. P[L] = e /\ O[L] = off
    BY DEF e, off
  <2> QED BY <1>2, <1>4, <1>5, <2>1
<1> QED
  BY <1>2, <1>3, <1>4, <1>5, <1>6 DEF e, off, L, lines

(* Where the parser stands is the beginning, or behind a line.                *)
LEMMA StandsAt ==
  ASSUME NEW j, WellFormed(j), Legible(j), NEW P, NEW O, LinesPlaced(j, P, O),
         NEW n \in 0 .. Len(Joined(j))
  PROVE  (P[n] = 0 \/ P[n] \in DOMAIN j.edits) /\ O[n] \in Nat
<1>1. Len(Joined(j)) \in Nat
  BY LegibleLines
<1>2. CASE n = 0
  BY <1>2 DEF LinesPlaced, Places
<1>3. CASE n # 0
  <2>1. n \in 1 .. Len(Joined(j))
    BY <1>1, <1>3
  <2> QED BY <2>1, LinePlace
<1> QED
  BY <1>2, <1>3

(* Line after line, the parser reads what was printed.                        *)
LEMMA LineByLine ==
  ASSUME NEW j, WellFormed(j), Legible(j), NEW n \in Nat, n < Len(Joined(j)),
         NEW ps, NEW op, Standing(j, n, ps, op)
  PROVE  ps \in Seq(FilePatches) /\ NextRead(j, DiffOf(j), n, ps, op)
<1> DEFINE d == DiffOf(j)  L == Len(Joined(j))
<1>1. L \in Nat /\ Len(d) = L /\ ShowsAll(j)
  BY LegibleLines
<1>2. PICK P, O : LinesPlaced(j, P, O) /\ Reading(j, ps, op, P[n], O[n])
  BY DEF Standing
<1> HIDE DEF d, L
<1>3. n + 1 \in 1 .. L /\ (n + 1) - 1 = n /\ n \in 0 .. L /\ (n + 1) + 1 = n + 2
  BY <1>1 DEF L
<1> DEFINE e == P[n + 1]  off == O[n + 1]
<1>4. /\ e \in DOMAIN j.edits /\ e # 0 /\ off \in 1 .. Len(Part(j, e))
      /\ d[n + 1] = Part(j, e)[off].line
      /\ NextPlace(Parts(j), P[n], O[n], e, off)
      /\ n + 1 = L => off = Len(Part(j, e))
  <2> DEFINE m == n + 1
  <2>1. m \in 1 .. Len(Joined(j)) /\ m - 1 = n
    BY <1>3 DEF L
  <2> HIDE DEF m
  <2>2. /\ P[m] \in DOMAIN j.edits /\ P[m] # 0 /\ O[m] \in 1 .. Len(Part(j, P[m]))
        /\ DiffOf(j)[m] = Part(j, P[m])[O[m]].line
        /\ NextPlace(Parts(j), P[m - 1], O[m - 1], P[m], O[m])
        /\ m = Len(Joined(j)) => O[m] = Len(Part(j, P[m]))
    BY <1>2, <2>1, LinePlace
  <2> QED BY <2>1, <2>2 DEF m, d, L
<1>5. (P[n] = 0 \/ P[n] \in DOMAIN j.edits) /\ O[n] \in Nat
  BY <1>2, <1>3, StandsAt DEF L
<1> HIDE DEF e, off
<1>6. LineRead(j, ps, op, e, off, d[n + 1])
  BY <1>1, <1>2, <1>4, <1>5, NextIsRead
<1>7. ps \in Seq(FilePatches)
  BY <1>2 DEF Reading
<1>8. \A hs, now : Reading(j, hs, now, e, off) => Standing(j, n + 1, hs, now)
  BY <1>2 DEF Standing, e, off
<1>9. CASE NoiseRead(j, ps, op, e, off, d[n + 1])
  BY <1>7, <1>8, <1>9 DEF NoiseRead, NextRead, d
<1>10. CASE OrphanRead(j, ps, d[n + 1])
  BY <1>7, <1>10 DEF NextRead, d
<1>11. CASE HeadersRead(j, ps, e, off, d[n + 1])
  <2> DEFINE path == j.edits[e].path  more == Append(ps, [path |-> path, hunks |-> <<>>])
             len == Len(Part(j, e))
  <2>1. /\ j.form # "headless" /\ off + 1 <= len
        /\ d[n + 1] = Header("---", path) /\ Part(j, e)[off + 1].line = Header("+++", path)
        /\ Reading(j, more, FALSE, e, off + 1)
    BY <1>11 DEF HeadersRead
  <2>2. path \in Paths /\ len \in Nat /\ Parts(j)[e] = Part(j, e)
    <3>1. path \in Paths /\ Part(j, e) \in Seq(Ended) /\ Parts(j)[e] = Part(j, e)
      BY <1>1, <1>4, PartLength
    <3> QED BY <3>1, LenProperties
  <2> HIDE DEF path, more
  <2>3. off # len /\ off \in Nat
    <3> HIDE DEF len
    <3> QED BY <1>4, <2>1, <2>2 DEF len
  <2>4. n + 2 \in 1 .. L /\ (n + 2) - 1 = n + 1
    BY <1>1, <1>3, <1>4, <2>3
  <2> DEFINE m == n + 2
  <2>5. m \in 1 .. Len(Joined(j)) /\ m - 1 = n + 1
    BY <2>4 DEF L
  <2> HIDE DEF m
  <2>6. /\ DiffOf(j)[m] = Part(j, P[m])[O[m]].line
        /\ NextPlace(Parts(j), P[m - 1], O[m - 1], P[m], O[m])
    BY <1>2, <2>5, LinePlace
  <2>7. NextPlace(Parts(j), e, off, P[m], O[m])
    BY <2>5, <2>6 DEF e, off
  <2>8. P[m] = e /\ O[m] = off + 1
    BY <1>4, <2>2, <2>3, <2>7 DEF NextPlace
  <2>9. d[m] = Header("+++", path)
    BY <2>1, <2>6, <2>8 DEF d
  <2>10. Standing(j, m, more, FALSE)
    BY <1>2, <2>1, <2>8 DEF Standing
  <2>11. n + 2 <= Len(d)
    BY <1>1, <2>4
  <2> QED BY <1>7, <2>1, <2>2, <2>9, <2>10, <2>11 DEF NextRead, m, more, d
<1>12. CASE HunkRead(j, ps, e, off, d[n + 1])
  BY <1>7, <1>8, <1>12 DEF HunkRead, NextRead, d
<1>13. CASE BodyRead(j, ps, op, e, off, d[n + 1])
  <2>1. PICK l \in HunkLines :
          /\ \/ d[n + 1] = Body(l.tag, l.body)
             \/ d[n + 1] = Blank /\ l = [tag |-> "kept", body |-> Empty]
          /\ l.tag = "-" /\ l.body \in Dashed => ~ Printable(j.edits[e].script)
          /\ Reading(j, WithHunks(ps, WithLine(ps[Len(ps)].hunks, l)), op, e, off)
    BY <1>13 DEF BodyRead
  <2>2. ps # <<>> /\ op
    BY <1>13 DEF BodyRead
  <2>3. Standing(j, n + 1, WithHunks(ps, WithLine(ps[Len(ps)].hunks, l)), op)
    BY <1>8, <2>1
  <2>4. l.tag = "-" /\ l.body \in Dashed =>
          \E k \in DOMAIN j.edits : ~ Printable(j.edits[k].script)
    BY <1>4, <2>1
  <2> QED BY <1>7, <2>1, <2>2, <2>3, <2>4 DEF NextRead, d
<1> QED
  BY <1>6, <1>9, <1>10, <1>11, <1>12, <1>13 DEF LineRead

(* Behind the last line all parts have been read.                             *)
LEMMA AllRead ==
  ASSUME NEW j, WellFormed(j), Legible(j), NEW ps, NEW op, Standing(j, Len(Joined(j)), ps, op)
  PROVE  AllShown(j, ps, Len(j.edits)) /\ j.form # "headless" /\ ps \in Seq(FilePatches)
<1> DEFINE L == Len(Joined(j))  M == Len(j.edits)
<1>1. L \in Nat /\ ShowsAll(j)
  BY LegibleLines
<1>2. PICK P, O : LinesPlaced(j, P, O) /\ Reading(j, ps, op, P[L], O[L])
  BY DEF Standing
<1>3. DOMAIN j.edits = 1 .. M /\ M \in Nat \ {0}
  BY LenProperties, EmptySeq DEF WellFormed
<1> DEFINE e == P[L]
<1>4. /\ e = 0 \/ O[L] = Len(Parts(j)[e])
      /\ \A k \in e + 1 .. M : Parts(j)[k] = <<>>
      /\ e \in 0 .. M
  BY <1>2 DEF LinesPlaced, Places, LastPlace
<1>5. Reading(j, ps, op, e, O[L])
  BY <1>2
<1> HIDE DEF L, M, e
<1>6. e = M
  <2> SUFFICES ASSUME e # M PROVE FALSE
    OBVIOUS
  <2>1. M \in e + 1 .. M /\ M \in DOMAIN j.edits
    BY <1>3, <1>4
  <2>2. Parts(j)[M] = <<>>
    BY <1>4, <2>1
  <2> DEFINE N == Len(Rows(j, M))  t == Trail(j)  a == Ahead(j)
  <2>3. N \in Nat \ {0} /\ t \in {0, 1} /\ a \in Nat /\ Len(Parts(j)[M]) = a + N + t
    BY <1>1, <2>1, PartLength
  <2> HIDE DEF N, t, a
  <2>4. Len(Parts(j)[M]) # 0
    BY <2>3
  <2> QED BY <2>2, <2>4
<1>7. e \in DOMAIN j.edits /\ e # 0
  BY <1>3, <1>6
<1>8. O[L] = Len(Part(j, e))
  <2>1. Parts(j)[e] = Part(j, e)
    BY <1>7 DEF Parts
  <2> QED BY <1>4, <1>7, <2>1
<1>9. AllShown(j, ps, e) /\ j.form # "headless"
  BY <1>1, <1>5, <1>7, <1>8, BehindPart
<1> QED
  BY <1>5, <1>6, <1>9 DEF Reading, M

-----------------------------------------------------------------------------
(* The invariants that tie the call to the proposal it was given.             *)

(* The call was given this proposal and the files as they were then.          *)
IJob == job \in Jobs /\ diff = DiffOf(job) /\ before = job.now

(* A deleted line that begins with dashes was read as a header, or may be.    *)
Spoiled == /\ FalseHeader(job) \/ \E k \in DOMAIN patches : patches[k].path = NoPath
           /\ \E k \in DOMAIN job.edits : ~ Printable(job.edits[k].script)

(* A legible diff without a false header.                                     *)
Readable(j) == Legible(j) /\ ~ FalseHeader(j)

(* What has been read of a legible diff, if it was not spoiled.               *)
IRead ==
  Legible(job) =>
    /\ pc = "parse" =>
         Spoiled \/ (i - 1 <= Len(diff) /\ Standing(job, i - 1, patches, open))
    /\ pc \in {"render", "write"} => Spoiled \/ AllShown(job, patches, Len(job.edits))

(* The writer has written nothing to a file, or last one of the rendered ones.*)
NotWritten(p) == /\ tree[p] = before[p]
                 /\ \A k \in 1 .. Len(staged) : k < i => staged[k].path # p
(* The last staged rendering of the file so far is in it.                     *)
LastWritten(p) ==
  \E k \in 1 .. Len(staged) :
    /\ k < i /\ staged[k].path = p /\ tree[p] = staged[k].text
    /\ \A m \in 1 .. Len(staged) : k < m /\ m < i => staged[m].path # p
(* It is one of the two for every file, as long as the writer is at work.     *)
IFiles == pc = "write" => \A p \in DOMAIN tree : NotWritten(p) \/ LastWritten(p)

(* What a job is.                                                             *)
LEMMA JobFacts ==
  ASSUME IJob
  PROVE  /\ WellFormed(job)
         /\ \A p \in DOMAIN before : p \in Paths /\ before[p] \in Texts
         /\ \A k \in DOMAIN job.edits :
              job.edits[k].path \in Paths /\ job.edits[k].script \in Seq(Entries)
<1>1. WellFormed(job)
  BY JobsAssumption DEF IJob, WellFormed
<1>2. PICK P, Q \in SUBSET Paths : job.base \in [P -> Texts] /\ job.now \in [Q -> Texts]
  BY JobsAssumption DEF IJob
<1>3. \A p \in DOMAIN before : p \in Paths /\ before[p] \in Texts
  BY <1>2 DEF IJob
<1>4. \A k \in DOMAIN job.edits : job.edits[k] \in Edits
  BY <1>1 DEF WellFormed
<1> QED
  BY <1>1, <1>3, <1>4 DEF Edits

(* A patch keeps its path when it gets other hunks.                           *)
LEMMA PathsStay ==
  ASSUME NEW ps \in Seq(FilePatches), NEW hunks
  PROVE  /\ DOMAIN WithHunks(ps, hunks) = DOMAIN ps
         /\ \A k \in DOMAIN ps : WithHunks(ps, hunks)[k].path = ps[k].path
<1> DEFINE n == Len(ps)  new == [ps[n] EXCEPT !.hunks = hunks]  more == [ps EXCEPT ![n] = new]
<1>1. WithHunks(ps, hunks) = more
  BY DEF WithHunks
<1>2. DOMAIN more = DOMAIN ps
  OBVIOUS
<1>3. ASSUME NEW k \in DOMAIN ps PROVE more[k].path = ps[k].path
  <2>1. ps[k] \in FilePatches
    OBVIOUS
  <2>2. CASE k = n
    <3>1. new.path = ps[n].path
      BY <2>1, <2>2 DEF FilePatches
    <3> HIDE DEF new
    <3> QED BY <2>2, <3>1
  <2>3. CASE k # n
    <3> HIDE DEF new
    <3> QED BY <2>3
  <2> QED BY <2>2, <2>3
<1> QED
  BY <1>1, <1>2, <1>3

(* What a line of a hunk's body is to the parser.                             *)
BodyOf(line) == [tag  |-> CASE line.tag = "blank" -> "kept"
                            [] line.tag = "+++"   -> "+"
                            [] OTHER              -> line.tag,
                 body |-> line.body]

(* The hunks of the last patch after a hunk's header and after a line.        *)
LEMMA HunkSteps ==
  /\ HunkHeader => /\ patches # <<>>
                   /\ patches' = WithHunks(patches, Append(patches[Len(patches)].hunks,
                                                           NewHunk(diff[i].start)))
  /\ HunkLine => patches' = WithHunks(patches, WithLine(patches[Len(patches)].hunks,
                                                        BodyOf(diff[i])))
<1>1. ASSUME HunkHeader
      PROVE  /\ patches # <<>>
             /\ patches' = WithHunks(patches, Append(patches[Len(patches)].hunks,
                                                     NewHunk(diff[i].start)))
  BY <1>1 DEF HunkHeader, WithHunks, NewHunk
<1>2. ASSUME HunkLine
      PROVE  patches' = WithHunks(patches, WithLine(patches[Len(patches)].hunks, BodyOf(diff[i])))
  BY <1>2 DEF HunkLine, WithHunks, WithLine, BodyOf
<1> QED
  BY <1>1, <1>2

(* Once spoiled, always spoiled.                                              *)
LEMMA SpoiledStays ==
  ASSUME IInv, Spoiled, Parse, UNCHANGED job
  PROVE  Spoiled'
<1>1. patches \in Seq(FilePatches)
  BY DEF IInv, IType, TypeOK
<1> SUFFICES ASSUME ~ FalseHeader(job) PROVE Spoiled'
  BY DEF Spoiled
<1>2. PICK k \in DOMAIN patches : patches[k].path = NoPath
  BY DEF Spoiled
<1>3. k \in DOMAIN patches' /\ patches'[k].path = patches[k].path
  <2>1. CASE FileHeader
    <3> DEFINE new == [path |-> diff[i + 1].path, hunks |-> <<>>]
    <3>1. patches' = Append(patches, new)
      BY <2>1 DEF FileHeader
    <3> HIDE DEF new
    <3>2. DOMAIN patches = 1 .. Len(patches) /\ Len(patches) \in Nat
      BY <1>1, LenProperties
    <3>3. k \in DOMAIN Append(patches, new) /\ Append(patches, new)[k] = patches[k]
      BY <1>1, <3>2
    <3> QED BY <3>1, <3>3
  <2>2. CASE HunkHeader
    BY <1>1, <2>2, HunkSteps, PathsStay
  <2>3. CASE HunkLine
    BY <1>1, <2>3, HunkSteps, PathsStay
  <2>4. CASE UNCHANGED patches
    BY <2>4
  <2> QED
    BY <2>1, <2>2, <2>3, <2>4
    DEF Parse, MalformedHeader, OrphanHunk, SkippedLine, ParseEnds, NothingParsed, PatchError
<1>4. patches'[k].path = NoPath
  BY <1>2, <1>3
<1> QED
  BY <1>3, <1>4 DEF Spoiled

(* The parser at a line of a legible diff that is not spoiled.                *)
Reads == /\ IInv /\ IJob /\ Legible(job) /\ Parsing
         /\ i - 1 <= Len(diff) /\ Standing(job, i - 1, patches, open)

(* What NextIsRead says of it, at the line the parser stands at.              *)
LEMMA ReadsLine ==
  ASSUME Reads
  PROVE  /\ i - 1 \in Nat /\ (i - 1) + 1 = i /\ (i - 1) + 2 = i + 1
         /\ patches \in Seq(FilePatches) /\ Len(diff) \in Nat /\ i \in Nat
         /\ Len(diff) = Len(Joined(job)) /\ i - 1 < Len(Joined(job))
         /\ NextRead(job, diff, i - 1, patches, open)
<1>1. i \in Nat \ {0} /\ i <= Len(diff) /\ diff = DiffOf(job)
  BY DEF Reads, IInv, IType, TypeOK, Parsing, IJob
<1>2. WellFormed(job) /\ Legible(job)
  BY JobFacts DEF Reads
<1>3. Len(diff) = Len(Joined(job)) /\ Len(diff) \in Nat
  BY <1>1, <1>2, LegibleLines
<1> DEFINE n == i - 1
<1>4. n \in Nat /\ n + 1 = i /\ n + 2 = i + 1 /\ n < Len(Joined(job))
  BY <1>1, <1>3
<1>5. Standing(job, n, patches, open)
  BY DEF Reads
<1> HIDE DEF n
<1>6. patches \in Seq(FilePatches) /\ NextRead(job, diff, n, patches, open)
  BY <1>1, <1>2, <1>4, <1>5, LineByLine
<1> QED
  BY <1>1, <1>3, <1>4, <1>6 DEF n

(* The tags of what is printed.                                               *)
LEMMA Tags ==
  /\ Noise.tag = "noise" /\ Blank.tag = "blank" /\ Blank.body = Empty
  /\ \A start : HunkAt(start).tag = "@@" /\ HunkAt(start).start = start
  /\ \A path : /\ Header("---", path).tag = "---"
               /\ Header("+++", path).tag = "+++" /\ Header("+++", path).path = path
  /\ \A l \in HunkLines : /\ Body(l.tag, l.body).tag = l.tag /\ Body(l.tag, l.body).body = l.body
                          /\ l.tag \in {"kept", "-", "+"} /\ l = [tag |-> l.tag, body |-> l.body]
<1>1. /\ Noise.tag = "noise" /\ Blank.tag = "blank" /\ Blank.body = Empty
      /\ \A start : HunkAt(start).tag = "@@" /\ HunkAt(start).start = start
      /\ \A path : /\ Header("---", path).tag = "---"
                   /\ Header("+++", path).tag = "+++" /\ Header("+++", path).path = path
  BY DEF Noise, Blank, HunkAt, Header
<1>2. ASSUME NEW l \in HunkLines
      PROVE  /\ Body(l.tag, l.body).tag = l.tag /\ Body(l.tag, l.body).body = l.body
             /\ l.tag \in {"kept", "-", "+"} /\ l = [tag |-> l.tag, body |-> l.body]
  BY DEF Body, Blank, HunkLines
<1> QED
  BY <1>1, <1>2

-----------------------------------------------------------------------------
(* Each step of the parser.                                                   *)

(* Reading on, or spoiled.                                                    *)
ReadsOn ==
  /\ pc' = "parse"
  /\ Spoiled' \/ (i' - 1 <= Len(diff') /\ Standing(job', i' - 1, patches', open'))

(* The headers of a file, or a line that looks like one.                      *)
LEMMA HeadersReadOn ==
  ASSUME Reads, FileHeader, UNCHANGED job
  PROVE  ReadsOn
<1> DEFINE n == i - 1  new == [path |-> diff[i + 1].path, hunks |-> <<>>]
<1>1. /\ n \in Nat /\ n + 1 = i /\ n + 2 = i + 1 /\ patches \in Seq(FilePatches) /\ i \in Nat
      /\ Len(diff) = Len(Joined(job)) /\ n < Len(Joined(job)) /\ Len(diff) \in Nat
      /\ NextRead(job, diff, n, patches, open)
  BY ReadsLine
<1>2. /\ IsOldHeader(diff[i]) /\ i < Len(diff) /\ IsNewHeader(diff[i + 1])
      /\ patches' = Append(patches, new) /\ open' = FALSE
      /\ i' = i + 2 /\ UNCHANGED <<pc, diff>> /\ pc = "parse"
  BY DEF FileHeader, AfterHeader, Parsed, Parsing
<1>3. WellFormed(job) /\ Legible(job) /\ diff = DiffOf(job)
  BY JobFacts DEF Reads, IJob
<1>4. diff[i].tag \in {"---", "-"}
      /\ (diff[i].tag = "-" => diff[i].body \in Dashed)
  BY <1>2 DEF IsOldHeader
<1> HIDE DEF n, new
<1>5. i' - 1 = n + 2 /\ n + 2 <= Len(diff) /\ n + 1 \in Nat /\ n + 1 < Len(Joined(job))
      /\ (n + 1) + 1 = n + 2
  BY <1>1, <1>2
<1>6. CASE \E path \in Paths :
             /\ diff[n + 2] = Header("+++", path)
             /\ Standing(job, n + 2, Append(patches, [path |-> path, hunks |-> <<>>]), FALSE)
  <2>1. PICK path \in Paths :
          /\ diff[n + 2] = Header("+++", path)
          /\ Standing(job, n + 2, Append(patches, [path |-> path, hunks |-> <<>>]), FALSE)
    BY <1>6
  <2>2. diff[i + 1].path = path
    BY <1>1, <2>1, Tags
  <2>3. Standing(job, n + 2, patches', FALSE)
    BY <1>2, <2>1, <2>2 DEF new
  <2> QED BY <1>2, <1>5, <2>3 DEF ReadsOn
<1>7. CASE \E l \in HunkLines :
             /\ \/ diff[n + 1] = Body(l.tag, l.body)
                \/ diff[n + 1] = Blank /\ l = [tag |-> "kept", body |-> Empty]
             /\ l.tag = "-" /\ l.body \in Dashed =>
                  \E k \in DOMAIN job.edits : ~ Printable(job.edits[k].script)
             /\ Standing(job, n + 1, WithHunks(patches, WithLine(patches[Len(patches)].hunks, l)),
                         open)
  <2>1. PICK l \in HunkLines :
          /\ \/ diff[n + 1] = Body(l.tag, l.body)
             \/ diff[n + 1] = Blank /\ l = [tag |-> "kept", body |-> Empty]
          /\ l.tag = "-" /\ l.body \in Dashed =>
               \E k \in DOMAIN job.edits : ~ Printable(job.edits[k].script)
          /\ Standing(job, n + 1, WithHunks(patches, WithLine(patches[Len(patches)].hunks, l)),
                      open)
    BY <1>7
  <2>2. l.tag = "-" /\ l.body \in Dashed
    BY <1>1, <1>4, <2>1, Tags
  <2>3. diff[i + 1].path = NoPath \/ FalseHeader(job)
    <3>1. i \in 1 .. Len(diff) - 1 /\ diff[i].tag = "-"
      BY <1>1, <1>2, <2>1, <2>2, Tags
    <3> QED BY <1>2, <1>3, <3>1 DEF FalseHeader
  <2>4. new.path = NoPath \/ FalseHeader(job)
    BY <2>3 DEF new
  <2>5. Len(patches) + 1 \in DOMAIN patches' /\ patches'[Len(patches) + 1] = new
    BY <1>1, <1>2
  <2>6. Spoiled'
    BY <2>1, <2>2, <2>4, <2>5 DEF Spoiled
  <2> QED BY <1>2, <2>6 DEF ReadsOn
<1>8. diff[n + 1] # Noise /\ ~ OrphanRead(job, patches, diff[n + 1])
      /\ \A start \in Nat : diff[n + 1] # HunkAt(start)
  BY <1>1, <1>4, Tags DEF OrphanRead
<1> QED
  BY <1>1, <1>6, <1>7, <1>8 DEF NextRead

(* A hunk's header.                                                           *)
LEMMA HunksReadOn ==
  ASSUME Reads, HunkHeader, UNCHANGED job
  PROVE  ReadsOn
<1> DEFINE n == i - 1
<1>1. /\ n \in Nat /\ n + 1 = i /\ patches \in Seq(FilePatches) /\ i \in Nat
      /\ Len(diff) = Len(Joined(job)) /\ n < Len(Joined(job)) /\ Len(diff) \in Nat
      /\ NextRead(job, diff, n, patches, open)
  BY ReadsLine
<1>2. /\ diff[i].tag = "@@" /\ open' = TRUE /\ i' = i + 1 /\ UNCHANGED <<pc, diff>> /\ pc = "parse"
  BY DEF HunkHeader, Parsed, Parsing
<1>3. patches # <<>> /\ patches' = WithHunks(patches, Append(patches[Len(patches)].hunks,
                                                             NewHunk(diff[i].start)))
  BY HunkSteps
<1> HIDE DEF n
<1>4. i' - 1 = n + 1 /\ n + 1 <= Len(diff)
  BY <1>1, <1>2
<1>5. PICK start \in Nat :
        /\ diff[n + 1] = HunkAt(start)
        /\ Standing(job, n + 1, WithHunks(patches, Append(patches[Len(patches)].hunks,
                                                          NewHunk(start))), TRUE)
  <2>1. \A l \in HunkLines : diff[n + 1] # Body(l.tag, l.body)
    BY <1>1, <1>2, Tags
  <2>2. diff[n + 1] # Noise /\ diff[n + 1] # Blank
        /\ \A path \in Paths : diff[n + 1] # Header("---", path)
    BY <1>1, <1>2, Tags
  <2>3. ~ OrphanRead(job, patches, diff[n + 1])
    BY <1>3 DEF OrphanRead
  <2> QED BY <1>1, <2>1, <2>2, <2>3 DEF NextRead
<1>6. diff[i].start = start
  BY <1>1, <1>5, Tags
<1>7. Standing(job, n + 1, patches', TRUE)
  BY <1>3, <1>5, <1>6
<1> QED
  BY <1>2, <1>4, <1>7 DEF ReadsOn

(* A line of a hunk.                                                          *)
LEMMA LinesReadOn ==
  ASSUME Reads, HunkLine, UNCHANGED job
  PROVE  ReadsOn
<1> DEFINE n == i - 1
<1>1. /\ n \in Nat /\ n + 1 = i /\ patches \in Seq(FilePatches) /\ i \in Nat
      /\ Len(diff) = Len(Joined(job)) /\ n < Len(Joined(job)) /\ Len(diff) \in Nat
      /\ NextRead(job, diff, n, patches, open)
  BY ReadsLine
<1>2. /\ open' = open /\ i' = i + 1 /\ UNCHANGED <<pc, diff>> /\ pc = "parse"
      /\ diff[i].tag \in {"kept", "+", "-", "blank", "+++"}
  BY DEF HunkLine, Parsed, Parsing, IsHunkLine
<1>3. patches' = WithHunks(patches, WithLine(patches[Len(patches)].hunks, BodyOf(diff[i])))
  BY HunkSteps
<1> HIDE DEF n
<1>4. i' - 1 = n + 1 /\ n + 1 <= Len(diff)
  BY <1>1, <1>2
<1>5. PICK l \in HunkLines :
        /\ \/ diff[n + 1] = Body(l.tag, l.body)
           \/ diff[n + 1] = Blank /\ l = [tag |-> "kept", body |-> Empty]
        /\ Standing(job, n + 1, WithHunks(patches, WithLine(patches[Len(patches)].hunks, l)), open)
  <2>1. diff[n + 1] # Noise /\ (\A start \in Nat : diff[n + 1] # HunkAt(start))
        /\ \A path \in Paths : diff[n + 1] # Header("---", path)
    BY <1>1, <1>2, Tags
  <2>2. ~ OrphanRead(job, patches, diff[n + 1])
    BY <2>1 DEF OrphanRead
  <2> QED BY <1>1, <2>1, <2>2 DEF NextRead
<1>6. BodyOf(diff[i]) = l
  <2>1. CASE diff[i] = Body(l.tag, l.body)
    <3>1. diff[i].tag = l.tag /\ diff[i].body = l.body /\ l.tag \notin {"blank", "+++"}
          /\ l = [tag |-> l.tag, body |-> l.body]
      BY <2>1, Tags
    <3> QED BY <3>1 DEF BodyOf
  <2>2. CASE diff[i] = Blank /\ l = [tag |-> "kept", body |-> Empty]
    BY <2>2, Tags DEF BodyOf
  <2> QED BY <1>1, <1>5, <2>1, <2>2
<1>7. Standing(job, n + 1, patches', open)
  BY <1>3, <1>5, <1>6
<1> QED
  BY <1>2, <1>4, <1>7 DEF ReadsOn

(* A line that belongs to no file.                                            *)
LEMMA SkippedReadsOn ==
  ASSUME Reads, SkippedLine, UNCHANGED job
  PROVE  ReadsOn
<1> DEFINE n == i - 1
<1>1. /\ n \in Nat /\ n + 1 = i /\ patches \in Seq(FilePatches) /\ i \in Nat
      /\ Len(diff) = Len(Joined(job)) /\ n < Len(Joined(job)) /\ Len(diff) \in Nat
      /\ NextRead(job, diff, n, patches, open)
  BY ReadsLine
<1>2. /\ open' = open /\ patches' = patches /\ i' = i + 1 /\ UNCHANGED <<pc, diff>> /\ pc = "parse"
      /\ ~ IsOldHeader(diff[i]) /\ diff[i].tag # "@@" /\ ~ IsHunkLine(diff[i])
  BY DEF SkippedLine, Parsed, Parsing
<1> HIDE DEF n
<1>3. i' - 1 = n + 1 /\ n + 1 <= Len(diff)
  BY <1>1, <1>2
<1>4. Standing(job, n + 1, patches, open)
  <2>1. (\A start \in Nat : diff[n + 1] # HunkAt(start))
        /\ \A path \in Paths : diff[n + 1] # Header("---", path)
    BY <1>1, <1>2, Tags DEF IsOldHeader
  <2>2. ~ OrphanRead(job, patches, diff[n + 1])
    BY <2>1 DEF OrphanRead
  <2>3. open => \A l \in HunkLines : diff[n + 1] # Body(l.tag, l.body) /\ diff[n + 1] # Blank
    BY <1>1, <1>2, Tags DEF IsHunkLine
  <2> QED BY <1>1, <2>1, <2>2, <2>3 DEF NextRead
<1> QED
  BY <1>2, <1>3, <1>4 DEF ReadsOn

(* The end of the diff.                                                       *)
LEMMA ReadToTheEnd ==
  ASSUME IInv, IJob, Legible(job), pc = "parse", i > Len(diff),
         i - 1 <= Len(diff), Standing(job, i - 1, patches, open)
  PROVE  AllShown(job, patches, Len(job.edits)) /\ job.form # "headless" /\ patches # <<>>
<1>1. WellFormed(job) /\ diff = DiffOf(job) /\ i \in Nat
  BY JobFacts DEF IJob, IInv, IType, TypeOK
<1>2. Len(diff) = Len(Joined(job)) /\ Len(diff) \in Nat
  BY <1>1, LegibleLines
<1>3. i - 1 = Len(Joined(job))
  BY <1>1, <1>2
<1>4. AllShown(job, patches, Len(job.edits)) /\ job.form # "headless"
  BY <1>1, <1>3, AllRead
<1>5. Len(job.edits) \in Nat \ {0}
  BY <1>1, LenProperties, EmptySeq DEF WellFormed
<1> QED
  BY <1>4, <1>5 DEF AllShown

(* Steps keep what is known of the reading.                                   *)
LEMMA ReadKeeps ==
  ASSUME IInv, IJob, IRead, Next, UNCHANGED job
  PROVE  IRead'
<1> SUFFICES ASSUME Legible(job)
             PROVE  /\ pc' = "parse" => Spoiled' \/ (i' - 1 <= Len(diff')
                                                     /\ Standing(job', i' - 1, patches', open'))
                    /\ pc' \in {"render", "write"} =>
                         Spoiled' \/ AllShown(job', patches', Len(job'.edits))
  BY DEF IRead
<1>1. CASE Parse /\ Spoiled
  BY <1>1, SpoiledStays
<1>2. CASE Parse /\ ~ Spoiled
  <2>1. pc = "parse"
    BY <1>2 DEF Parse, FileHeader, MalformedHeader, HunkHeader, OrphanHunk, HunkLine, SkippedLine,
                ParseEnds, NothingParsed, Parsing
  <2>2. i - 1 <= Len(diff) /\ Standing(job, i - 1, patches, open)
    BY <1>2, <2>1 DEF IRead
  <2>3. Parsing => Reads
    BY <2>2 DEF Reads
  <2>4. CASE FileHeader \/ HunkHeader \/ HunkLine \/ SkippedLine
    <3>1. Reads
      BY <2>3, <2>4 DEF FileHeader, HunkHeader, HunkLine, SkippedLine
    <3>2. ReadsOn
      BY <2>4, <3>1, HeadersReadOn, HunksReadOn, LinesReadOn, SkippedReadsOn
    <3> QED BY <3>2 DEF ReadsOn
  <2>5. CASE ParseEnds
    <3>1. i > Len(diff) /\ pc' = "render" /\ UNCHANGED patches
      BY <2>5 DEF ParseEnds
    <3>2. AllShown(job, patches, Len(job.edits))
      BY <2>1, <2>2, <3>1, ReadToTheEnd
    <3> QED BY <3>1, <3>2
  <2>6. CASE MalformedHeader \/ OrphanHunk \/ NothingParsed
    BY <2>6 DEF MalformedHeader, OrphanHunk, NothingParsed, PatchError
  <2> QED BY <1>2, <2>4, <2>5, <2>6 DEF Parse
<1>3. CASE Render \/ RenderEnds \/ Write
  <2>1. pc \in {"render", "write"} /\ pc' \in {"render", "write"} /\ UNCHANGED patches
    BY <1>3 DEF Render, Rendering, RenderEnds, Write, Writing
  <2>2. Spoiled \/ AllShown(job, patches, Len(job.edits))
    BY <2>1 DEF IRead
  <2>3. Spoiled => Spoiled'
    BY <2>1 DEF Spoiled
  <2> QED BY <2>1, <2>2, <2>3
<1>4. CASE RenderRefuses \/ RenderRaises \/ WriteRaises \/ WriteEnds \/ Done
  BY <1>4 DEF RenderRefuses, RenderRaises, WriteRaises, WriteEnds, Done, PatchError, vars
<1> QED
  BY <1>1, <1>2, <1>3, <1>4 DEF Next

-----------------------------------------------------------------------------
(* The files when the last of them is written.                                *)

(* Each step of the writer keeps account of what it has written.              *)
LEMMA FilesKeep ==
  ASSUME IInv, IFiles, Next
  PROVE  IFiles'
<1> SUFFICES ASSUME pc' = "write", NEW p \in DOMAIN tree'
             PROVE  (NotWritten(p) \/ LastWritten(p))'
  BY DEF IFiles
<1>1. CASE RenderEnds
  <2>1. i' = 1 /\ UNCHANGED <<staged, tree, before>> /\ tree = before
    BY <1>1 DEF RenderEnds, IInv, IPhase
  <2>2. \A k \in 1 .. Len(staged') : ~ (k < i')
    BY <2>1
  <2> QED BY <2>1, <2>2 DEF NotWritten
<1>2. CASE Write
  <2>1. /\ i' = i + 1 /\ UNCHANGED <<staged, before>> /\ pc = "write" /\ i <= Len(staged)
        /\ tree' = [tree EXCEPT ![staged[i].path] = staged[i].text] /\ i \in Nat \ {0}
        /\ Len(staged) \in Nat
    <3>1. i \in Nat \ {0} /\ staged \in Seq(StagedFiles)
      BY DEF IInv, IType, TypeOK
    <3> QED BY <1>2, <3>1, LenProperties DEF Write, Writing
  <2>2. p \in DOMAIN tree
    BY <2>1
  <2>3. NotWritten(p) \/ LastWritten(p)
    BY <2>1, <2>2 DEF IFiles
  <2> DEFINE N == Len(staged)
  <2>4. \A k \in 1 .. N : k < i + 1 <=> (k < i \/ k = i)
    BY <2>1
  <2>5. CASE staged[i].path = p
    <3>1. tree'[p] = staged[i].text /\ i \in 1 .. N /\ i < i + 1
      BY <2>1, <2>2, <2>5
    <3>2. \A m \in 1 .. N : ~ (i < m /\ m < i + 1)
      BY <2>1
    <3>3. i \in 1 .. Len(staged') /\ i < i' /\ staged'[i].path = p /\ tree'[p] = staged'[i].text
          /\ \A m \in 1 .. Len(staged') : ~ (i < m /\ m < i')
      BY <2>1, <2>5, <3>1, <3>2
    <3> QED BY <3>3 DEF LastWritten
  <2>6. CASE staged[i].path # p
    <3>1. tree'[p] = tree[p]
      BY <2>1, <2>6
    <3>2. CASE NotWritten(p)
      <4>1. \A k \in 1 .. N : k < i + 1 => staged[k].path # p
        BY <2>4, <2>6, <3>2 DEF NotWritten
      <4> QED BY <2>1, <3>1, <3>2, <4>1 DEF NotWritten
    <3>3. CASE LastWritten(p)
      <4>1. PICK k \in 1 .. N :
              /\ k < i /\ staged[k].path = p /\ tree[p] = staged[k].text
              /\ \A m \in 1 .. N : k < m /\ m < i => staged[m].path # p
        BY <3>3 DEF LastWritten
      <4>2. \A m \in 1 .. N : k < m /\ m < i + 1 => staged[m].path # p
        BY <2>4, <2>6, <4>1
      <4>3. k < i + 1
        BY <2>4, <4>1
      <4>4. /\ k \in 1 .. Len(staged') /\ k < i' /\ staged'[k].path = p
            /\ tree'[p] = staged'[k].text
            /\ \A m \in 1 .. Len(staged') : k < m /\ m < i' => staged'[m].path # p
        BY <2>1, <3>1, <4>1, <4>2, <4>3
      <4> QED BY <4>4 DEF LastWritten
    <3> QED BY <2>3, <3>2, <3>3
  <2> QED BY <2>5, <2>6
<1>3. CASE Done
  <2>1. UNCHANGED <<pc, i, staged, tree, before>>
    BY <1>3 DEF Done, vars
  <2> QED BY <2>1 DEF IFiles, NotWritten, LastWritten
<1> QED
  BY <1>1, <1>2, <1>3
  DEF Next, Parse, FileHeader, MalformedHeader, HunkHeader, OrphanHunk, HunkLine, SkippedLine,
      ParseEnds, NothingParsed, PatchError, Parsing, Parsed, Render, Rendering, RenderRefuses,
      RenderRaises, WriteRaises, WriteEnds

(* The script of the last part of a file.                                     *)
LEMMA LastScriptIs ==
  ASSUME NEW k \in DOMAIN job.edits, DOMAIN job.edits \subseteq Nat,
         \A n \in DOMAIN job.edits : job.edits[n].path = job.edits[k].path => n <= k
  PROVE  LastScript(job.edits[k].path) = job.edits[k].script
<1> DEFINE p == job.edits[k].path
           Latest(m) == /\ job.edits[m].path = p
                         /\ \A n \in DOMAIN job.edits : job.edits[n].path = p => n <= m
           last == CHOOSE m \in DOMAIN job.edits : Latest(m)
<1>1. Latest(k)
  OBVIOUS
<1>2. last \in DOMAIN job.edits /\ Latest(last)
  BY <1>1
<1>3. LastScript(p) = job.edits[last].script
  BY DEF LastScript
<1> HIDE DEF last
<1>4. last <= k /\ k <= last /\ last \in Nat /\ k \in Nat
  BY <1>1, <1>2
<1>5. last = k
  BY <1>4
<1> QED
  BY <1>3, <1>5

(* A diff that was applied did to each file what it shows, also to one whose  *)
(* last line has no end.                                                      *)
AppliedExactly ==
  outcome = "applied" => \A p \in DOMAIN tree :
    /\ p \notin Edited => tree[p] = before[p]
    /\ p \in Edited => /\ Agrees(before[p], LastScript(p))
                       /\ tree[p] = Replayed(before[p], LastScript(p))

(* When the last file is written, each holds what its last part stands for.   *)
LEMMA EndIsReplayed ==
  ASSUME IInv, IJob, IRead, IFiles, Legible(job), ~ FalseHeader(job), WriteEnds, UNCHANGED job
  PROVE  AppliedExactly'
<1>1. /\ pc = "write" /\ i > Len(staged) /\ UNCHANGED <<tree, before, staged, patches>>
  BY DEF WriteEnds
<1>2. /\ i \in Nat /\ patches \in Seq(FilePatches) /\ Len(staged) = Len(patches)
      /\ DOMAIN tree = DOMAIN before /\ staged \in Seq(StagedFiles)
      /\ \A k \in 1 .. Len(staged) : StagedOf(patches[k], staged[k])
  BY <1>1 DEF IInv, IType, TypeOK, IPhase, IStaged
<1> DEFINE N == Len(job.edits)
<1>3. /\ WellFormed(job) /\ \A p \in DOMAIN before : p \in Paths /\ before[p] \in Texts
      /\ \A k \in DOMAIN job.edits :
           job.edits[k].path \in Paths /\ job.edits[k].script \in Seq(Entries)
  BY JobFacts
<1>4. DOMAIN job.edits = 1 .. N /\ N \in Nat
  BY <1>3, LenProperties DEF WellFormed
<1>5. \A k \in 1 .. Len(staged) :
        /\ patches[k].path \in DOMAIN before
        /\ Verified(AsRead(before[patches[k].path]), patches[k].hunks)
        /\ staged[k].path = patches[k].path
        /\ staged[k].text = Rendered(AsRead(before[patches[k].path]), patches[k].hunks)
  <2> SUFFICES ASSUME NEW k \in 1 .. Len(staged)
               PROVE  /\ patches[k].path \in DOMAIN before
                      /\ Verified(AsRead(before[patches[k].path]), patches[k].hunks)
                      /\ staged[k].path = patches[k].path
                      /\ staged[k].text = Rendered(AsRead(before[patches[k].path]),
                                                   patches[k].hunks)
    OBVIOUS
  <2>1. StagedOf(patches[k], staged[k])
    BY <1>2
  <2> QED BY <2>1 DEF StagedOf, RenderedOf
<1>6. DOMAIN patches = 1 .. Len(patches) /\ \A k \in DOMAIN patches : patches[k] \in FilePatches
  BY <1>2, LenProperties
<1>7. AllShown(job, patches, N)
  <2>1. ~ Spoiled
    <3> SUFFICES ASSUME NEW k \in DOMAIN patches, patches[k].path = NoPath PROVE FALSE
      BY DEF Spoiled
    <3>1. patches[k].path \in DOMAIN before
      BY <1>2, <1>5, <1>6
    <3> QED BY <1>3, <3>1, PathAssumption
  <2> QED BY <1>1, <2>1 DEF IRead
<1> HIDE DEF N
<1>8. /\ Len(staged) = N
      /\ \A k \in 1 .. N : /\ staged[k].path = job.edits[k].path
                           /\ patches[k].path = job.edits[k].path
                           /\ HunksShow(patches[k].hunks, job.edits[k].script)
                           /\ k < i /\ patches[k].hunks \in Seq(Hunks)
  <2>1. Len(staged) = N /\ \A k \in 1 .. N : ShownBy(job, patches, k)
    BY <1>2, <1>7 DEF AllShown
  <2>2. \A k \in 1 .. N : k < i
    BY <1>1, <1>2, <1>4, <2>1
  <2>3. \A k \in 1 .. N : patches[k].hunks \in Seq(Hunks)
    BY <1>2, <1>6, <2>1 DEF FilePatches
  <2> QED BY <1>5, <2>1, <2>2, <2>3 DEF ShownBy
<1>13. Edited' = Edited /\ \A p : LastScript(p)' = LastScript(p)
  BY DEF Edited, LastScript
<1> SUFFICES ASSUME NEW p \in DOMAIN tree
             PROVE  /\ p \notin Edited => tree[p] = before[p]
                    /\ p \in Edited => /\ Agrees(before[p], LastScript(p))
                                       /\ tree[p] = Replayed(before[p], LastScript(p))
  BY <1>1, <1>13 DEF AppliedExactly
<1>9. p \in Edited <=> \E k \in 1 .. N : job.edits[k].path = p
  BY <1>4 DEF Edited
<1>10. NotWritten(p) \/ LastWritten(p)
  BY <1>1 DEF IFiles
<1>11. CASE NotWritten(p)
  <2>1. tree[p] = before[p] /\ \A k \in 1 .. N : staged[k].path # p
    BY <1>8, <1>11 DEF NotWritten
  <2>2. p \notin Edited
    BY <1>8, <1>9, <2>1
  <2> QED BY <2>1, <2>2
<1>12. CASE LastWritten(p)
  <2>1. PICK k \in 1 .. N :
          /\ staged[k].path = p /\ tree[p] = staged[k].text
          /\ \A m \in 1 .. N : k < m => staged[m].path # p
    BY <1>8, <1>12 DEF LastWritten
  <2>2. p \in Edited /\ job.edits[k].path = p
    BY <1>8, <1>9, <2>1
  <2>3. \A n \in DOMAIN job.edits : job.edits[n].path = job.edits[k].path => n <= k
    <3>1. ASSUME NEW n \in 1 .. N, ~ (n <= k) PROVE job.edits[n].path # p
      <4>1. k < n
        BY <1>4, <3>1
      <4> QED BY <1>8, <2>1, <4>1
    <3> QED BY <1>4, <2>2, <3>1
  <2>4. LastScript(p) = job.edits[k].script
    <3>1. k \in DOMAIN job.edits /\ DOMAIN job.edits \subseteq Nat
      BY <1>4
    <3> QED BY <2>2, <2>3, <3>1, LastScriptIs
  <2> DEFINE text == before[p]  script == job.edits[k].script  hunks == patches[k].hunks
  <2>5. /\ text \in Texts /\ script \in Seq(Entries) /\ hunks \in Seq(Hunks)
        /\ HunksShow(hunks, script) /\ Verified(AsRead(text), hunks)
        /\ tree[p] = Rendered(AsRead(text), hunks)
    BY <1>2, <1>3, <1>4, <1>5, <1>8, <2>1, <2>2
  <2> HIDE DEF text, script, hunks
  <2>6. Rendered(AsRead(text), hunks) = Replayed(text, script) /\ Agrees(text, script)
    BY <2>5, RenderedIsReplayed
  <2> QED BY <2>2, <2>4, <2>5, <2>6 DEF text, script
<1> QED
  BY <1>10, <1>11, <1>12

-----------------------------------------------------------------------------
(* A clean diff of the files as they are is not refused.                      *)

(* A diff that FreshDiffApplies holds acceptable for the files in a tree.     *)
Clean(j, old) ==
  \A k \in DOMAIN j.edits :
    LET e == j.edits[k]
    IN  /\ e.path \in DOMAIN old
        /\ OldText(e.script) # <<>> /\ Shown(e.script) # {}
        /\ Terminated(NewText(e.script)) /\ Terminated(old[e.path])
        /\ Printable(e.script)

(* A kept or added line is one of the new text.                               *)
LEMMA NewTextHas ==
  ASSUME NEW script \in Seq(Entries), NEW k \in DOMAIN script, script[k].tag # "-"
  PROVE  \E n \in DOMAIN NewText(script) : NewText(script)[n] = script[k].line
<1> DEFINE places == {m \in DOMAIN script : script[m].tag # "-"}
           new == Kept(script, places)
           n == 1 + Cardinality({y \in places : y < k})
<1>1. k \in places /\ places \subseteq DOMAIN script
  OBVIOUS
<1>2. NewText(script) = [m \in DOMAIN new |-> new[m].line]
  BY DEF NewText
<1>3. n \in DOMAIN new /\ new[n] = script[k]
  <2> HIDE DEF places
  <2> QED BY <1>1, KeptAt
<1> HIDE DEF places, new, n
<1> QED
  BY <1>2, <1>3

(* If both texts end in a newline, so do the lines of the script.             *)
LEMMA ScriptEnded ==
  ASSUME NEW text \in Texts, NEW script \in Seq(Entries), OldText(script) = AsRead(text),
         Terminated(text), Terminated(NewText(script)), NEW k \in DOMAIN script
  PROVE  script[k].line.end # "none"
<1>1. CASE script[k].tag # "-"
  BY <1>1, NewTextHas DEF Terminated
<1>2. CASE script[k].tag = "-"
  <2> DEFINE n == OldLine(script, k)  now == AsRead(text)
  <2>1. n \in DOMAIN now /\ now[n] = script[k].line
    BY <1>2, OldTextAt
  <2> HIDE DEF n
  <2>2. n \in DOMAIN text
        /\ now[n] = IF text[n].end = "crlf" THEN [text[n] EXCEPT !.end = "lf"] ELSE text[n]
    BY <2>1 DEF AsRead
  <2>3. text[n].end # "none" /\ text[n] \in Lines
    BY <2>2 DEF Terminated, Texts
  <2> HIDE DEF now
  <2>4. now[n].end # "none"
    BY <2>2, <2>3 DEF Lines
  <2> QED BY <2>1, <2>4
<1> QED
  BY <1>1, <1>2

(* Nor is a line that is printed of it without an end.                        *)
LEMMA RowsEnded ==
  ASSUME NEW script \in Seq(Entries), \A k \in DOMAIN script : script[k].line.end # "none",
         NEW n \in 1 .. Len(PrintedEntries(script))
  PROVE  PrintedEntries(script)[n].end # "none"
<1> DEFINE rows == PrintedEntries(script)
<1>1. PICK p, o : Places(p, o, PrintedPieces(script), Len(script), rows)
  BY PiecesPrinted
<1> DEFINE k == p[n]  m == o[n]  piece == PrintedEntry(script, k)
<1>2. k \in 1 .. Len(script) /\ m \in 1 .. Len(PrintedPieces(script)[k])
      /\ rows[n] = PrintedPieces(script)[k][m]
  BY <1>1 DEF Places
<1>3. k \in DOMAIN script
  BY <1>2, LenProperties
<1> HIDE DEF k, m
<1>4. m \in 1 .. Len(piece) /\ rows[n] = piece[m]
  BY <1>2, <1>3 DEF PrintedPieces
<1>5. /\ k \notin Shown(script) => piece = <<>>
      /\ k \in Shown(script) =>
           /\ Len(piece) = IF k - 1 \in Shown(script) THEN 1 ELSE 2
           /\ piece[Len(piece)].end = script[k].line.end
           /\ Len(piece) = 2 => piece[1].end = "lf"
  BY <1>3, EntryPrinted DEF IsLine
<1> HIDE DEF piece
<1>6. k \in Shown(script)
  BY <1>4, <1>5
<1>7. CASE m = Len(piece)
  BY <1>3, <1>4, <1>5, <1>6, <1>7
<1>8. CASE m # Len(piece)
  <2>1. Len(piece) = 2 /\ m = 1
    BY <1>4, <1>5, <1>6, <1>8
  <2> QED BY <1>4, <1>5, <1>6, <2>1
<1> QED
  BY <1>7, <1>8

(* So no two lines of the diff run together.                                  *)
LEMMA CleanIsLegible ==
  ASSUME NEW j, WellFormed(j), NEW old, Clean(j, old),
         \A k \in DOMAIN j.edits : old[j.edits[k].path] \in Texts
           /\ OldText(j.edits[k].script) = AsRead(old[j.edits[k].path])
  PROVE  Legible(j)
<1>1. ShowsAll(j)
  BY DEF Clean, ShowsAll
<1>2. PICK P, O : LinesPlaced(j, P, O)
  BY <1>1, JoinedLines
<1>3. DOMAIN Joined(j) = 1 .. Len(Joined(j)) /\ Len(Joined(j)) \in Nat
  BY <1>1, JoinedLines
<1>4. DOMAIN j.edits = 1 .. Len(j.edits) /\ Len(j.edits) \in Nat
  BY LenProperties DEF WellFormed
<1> DEFINE lines == Joined(j)
<1> SUFFICES ASSUME NEW n \in 1 .. Len(Joined(j)) PROVE lines[n].end # "none"
  BY <1>1, <1>3 DEF Legible, ShowsAll
<1> DEFINE e == P[n]  m == O[n]
<1>5. e \in 1 .. Len(j.edits) /\ m \in 1 .. Len(Parts(j)[e]) /\ lines[n] = Parts(j)[e][m]
  BY <1>2 DEF LinesPlaced, Places
<1>6. e \in DOMAIN j.edits
  BY <1>4, <1>5
<1> HIDE DEF e, m, lines
<1> DEFINE N == Len(Rows(j, e))  t == Trail(j)  a == Ahead(j)  part == Part(j, e)
           script == j.edits[e].script  l == Lead(j)
<1>7. N \in Nat \ {0} /\ t \in {0, 1} /\ a \in Nat /\ l \in {0, 1} /\ script \in Seq(Entries)
      /\ a = l + (IF j.form = "headless" THEN 0 ELSE 2)
      /\ Len(part) = a + N + t /\ Parts(j)[e] = part /\ Rows(j, e) = PrintedEntries(script)
  BY <1>1, <1>6, PartLength
<1>8. PartIs(j, e)
  BY <1>1, <1>6, PartShape DEF ShowsAll
<1>9. /\ l = 1 => part[1].end = "lf"
      /\ j.form # "headless" => part[l + 1].end = "lf" /\ part[l + 2].end = "lf"
      /\ \A r \in 1 .. N : part[a + r] = Rows(j, e)[r]
      /\ t = 1 => part[a + N + 1].end = "lf"
  BY <1>8 DEF PartIs, IsLine, Ahead
<1>10. \A r \in 1 .. N : Rows(j, e)[r].end # "none"
  <2> DEFINE text == old[j.edits[e].path]
  <2>1. text \in Texts /\ OldText(script) = AsRead(text)
    BY <1>6
  <2>2. Terminated(NewText(script)) /\ Terminated(text)
    BY <1>6 DEF Clean
  <2> HIDE DEF text, script
  <2>3. \A k \in DOMAIN script : script[k].line.end # "none"
    BY <1>7, <2>1, <2>2, ScriptEnded
  <2> QED BY <1>7, <2>3, RowsEnded DEF N
<1> HIDE DEF N, t, a, part, script, l
<1>11. m \in 1 .. a + N + t /\ lines[n] = part[m]
  BY <1>5, <1>7
<1>12. CASE m \in a + 1 .. a + N
  <2> DEFINE r == m - a
  <2>1. r \in 1 .. N /\ a + r = m
    BY <1>7, <1>12
  <2> HIDE DEF r
  <2> QED BY <1>9, <1>10, <1>11, <2>1
<1>13. CASE m > a + N
  <2>1. t = 1 /\ m = a + N + 1
    BY <1>7, <1>11, <1>13
  <2> QED BY <1>9, <1>11, <2>1
<1>14. CASE m <= a
  <2>1. (m = 1 /\ l = 1) \/ (j.form # "headless" /\ (m = l + 1 \/ m = l + 2))
    BY <1>7, <1>11, <1>14
  <2> QED BY <1>9, <1>11, <2>1
<1> QED
  BY <1>7, <1>11, <1>12, <1>13, <1>14

(* The applier refuses no such diff on the files it was made from.            *)
LEMMA CleanIsNotRefused ==
  ASSUME IInv, IJob, IRead, Fresh, job.form = "printed", Clean(job, before),
         MalformedHeader \/ OrphanHunk \/ NothingParsed \/ RenderRefuses
  PROVE  FALSE
<1>1. /\ WellFormed(job) /\ \A p \in DOMAIN before : p \in Paths /\ before[p] \in Texts
      /\ \A k \in DOMAIN job.edits :
           job.edits[k].path \in Paths /\ job.edits[k].script \in Seq(Entries)
  BY JobFacts
<1>2. \A k \in DOMAIN job.edits :
        /\ job.edits[k].path \in DOMAIN before /\ Printable(job.edits[k].script)
        /\ before[job.edits[k].path] \in Texts
        /\ OldText(job.edits[k].script) = AsRead(before[job.edits[k].path])
  <2>1. before = job.base
    BY DEF IJob, Fresh
  <2>2. \A k \in DOMAIN job.edits :
          job.edits[k].path \in DOMAIN before /\ Printable(job.edits[k].script)
    BY DEF Clean
  <2>3. \A k \in DOMAIN job.edits :
          job.edits[k].path \in DOMAIN job.base =>
            OldText(job.edits[k].script) = AsRead(job.base[job.edits[k].path])
    BY JobsAssumption DEF IJob
  <2> QED BY <1>1, <2>1, <2>2, <2>3
<1>3. Legible(job)
  BY <1>1, <1>2, CleanIsLegible
<1>4. ~ Spoiled
  BY <1>2 DEF Spoiled
<1>5. CASE MalformedHeader \/ OrphanHunk
  <2> DEFINE n == i - 1
  <2>1. Reads
    BY <1>3, <1>4, <1>5 DEF Reads, IRead, MalformedHeader, OrphanHunk, Parsing
  <2>2. /\ n \in Nat /\ n + 1 = i /\ n + 2 = i + 1 /\ i \in Nat /\ Len(diff) \in Nat
        /\ NextRead(job, diff, n, patches, open)
    BY <2>1, ReadsLine
  <2> HIDE DEF n
  <2>3. diff[n + 1].tag \in {"---", "-", "@@"}
        /\ (diff[n + 1].tag = "-" => diff[n + 1].body \in Dashed)
        /\ (diff[n + 1].tag = "@@" => patches = <<>>)
        /\ (diff[n + 1].tag = "---" => ~ AfterHeader)
    BY <1>5, <2>2 DEF MalformedHeader, OrphanHunk, IsOldHeader
  <2>4. ~ OrphanRead(job, patches, diff[n + 1])
    BY DEF OrphanRead
  <2>5. \A l \in HunkLines :
          /\ diff[n + 1] = Body(l.tag, l.body) \/ diff[n + 1] = Blank
          /\ l.tag = "-" /\ l.body \in Dashed =>
               \E k \in DOMAIN job.edits : ~ Printable(job.edits[k].script)
          => FALSE
    BY <1>2, <2>3, Tags
  <2>6. diff[n + 1] # Noise /\ \A start \in Nat : diff[n + 1] = HunkAt(start) => patches = <<>>
    BY <2>3, Tags
  <2>7. ASSUME NEW path \in Paths, n + 2 <= Len(diff), diff[n + 1] = Header("---", path),
               diff[n + 2] = Header("+++", path)
        PROVE  FALSE
    <3>1. i < Len(diff) /\ diff[i + 1].tag = "+++" /\ diff[n + 1].tag = "---"
      BY <2>2, <2>7, Tags
    <3> QED BY <2>3, <3>1 DEF AfterHeader, IsNewHeader
  <2> QED BY <2>2, <2>4, <2>5, <2>6, <2>7 DEF NextRead
<1>6. CASE NothingParsed
  <2>1. pc = "parse" /\ i > Len(diff) /\ patches = <<>>
    BY <1>6 DEF NothingParsed
  <2>2. i - 1 <= Len(diff) /\ Standing(job, i - 1, patches, open)
    BY <1>3, <1>4, <2>1 DEF IRead
  <2> QED BY <1>3, <2>1, <2>2, ReadToTheEnd
<1>7. CASE RenderRefuses
  <2>1. pc = "render" /\ i <= Len(patches) /\ tree = before /\ i \in Nat \ {0}
        /\ patches \in Seq(FilePatches)
        /\ (Target \in DOMAIN tree => ~ Verified(Original, patches[i].hunks))
    BY <1>7 DEF RenderRefuses, Rendering, IInv, IPhase, IType, TypeOK
  <2>2. AllShown(job, patches, Len(job.edits))
    BY <1>3, <1>4, <2>1 DEF IRead
  <2>3. i \in DOMAIN job.edits /\ patches[i] \in FilePatches
    <3>1. DOMAIN job.edits = 1 .. Len(job.edits) /\ Len(job.edits) \in Nat
      BY <1>1, LenProperties DEF WellFormed
    <3>2. Len(patches) = Len(job.edits)
      BY <2>2 DEF AllShown
    <3>3. i \in 1 .. Len(patches) /\ DOMAIN patches = 1 .. Len(patches)
      BY <2>1, LenProperties
    <3> QED BY <2>1, <3>1, <3>2, <3>3
  <2> DEFINE script == job.edits[i].script  hunks == patches[i].hunks  path == job.edits[i].path
             text == before[path]
  <2>4. patches[i].path = path /\ Fits(hunks, script, Len(script)) /\ hunks \in Seq(Hunks)
    <3>1. ShownBy(job, patches, i)
      <4>1. DOMAIN job.edits = 1 .. Len(job.edits)
        BY <1>1, LenProperties DEF WellFormed
      <4> QED BY <2>2, <2>3, <4>1 DEF AllShown
    <3> QED BY <2>3, <3>1 DEF ShownBy, FilePatches
  <2>5. path \in DOMAIN tree /\ Target = path /\ Original = AsRead(text)
    BY <1>2, <2>1, <2>3, <2>4 DEF Target, Original
  <2>6. text \in Texts /\ OldText(script) = AsRead(text) /\ script \in Seq(Entries)
        /\ OldText(script) # <<>> /\ Printable(script)
    BY <1>1, <1>2, <2>3 DEF Clean
  <2>7. \A k \in Shown(script) : script[k].tag # "+" => script[k].line.end # "ff"
    BY <2>6 DEF Printable
  <2> HIDE DEF script, hunks, text
  <2>8. Verified(AsRead(text), hunks)
    BY <2>4, <2>6, <2>7, VerifiedWhenFresh
  <2> QED BY <2>1, <2>5, <2>8 DEF hunks
<1> QED
  BY <1>5, <1>6, <1>7

-----------------------------------------------------------------------------
(* What a script makes of the text it was made from.                          *)

(* The new text of a script, entry by entry.                                  *)
NewPiece(e) == IF e.tag # "-" THEN <<e.line>> ELSE <<>>

(* That of each of its entries.                                               *)
NewPieces(script) == [k \in DOMAIN script |-> NewPiece(script[k])]

(* It is what its entries give it, one after the other.                       *)
LEMMA NewTextFlat ==
  ASSUME NEW script \in Seq(Entries)
  PROVE  /\ NewText(script) \in Texts /\ NewPieces(script) \in Seq(Seq(Lines))
         /\ Len(NewPieces(script)) = Len(script)
         /\ NewText(script) = FlattenSeq(NewPieces(script))
<1> DEFINE places == {k \in DOMAIN script : script[k].tag # "-"}
           new == Kept(script, places)  N == Len(script)
           pieces == [k \in DOMAIN script |-> IF k \in places THEN <<script[k]>> ELSE <<>>]
           off == [k \in 0 .. N |-> Cardinality({y \in places : y <= k})]
<1>1. DOMAIN script = 1 .. N /\ N \in Nat /\ \A k \in 1 .. N : script[k] \in Entries
  BY LenProperties
<1>2. \A e \in Entries : e.line \in Lines /\ NewPiece(e) \in Seq(Lines)
  BY DEF Entries, NewPiece
<1>3. NewPieces(script) \in Seq(Seq(Lines)) /\ Len(NewPieces(script)) = N
      /\ \A k \in 1 .. N : NewPieces(script)[k] = NewPiece(script[k])
  <2> DEFINE np(k) == NewPiece(script[k])
  <2>1. \A k \in 1 .. N : np(k) \in Seq(Lines)
    BY <1>1, <1>2
  <2>2. NewPieces(script) = [k \in 1 .. N |-> np(k)]
    BY <1>1 DEF NewPieces
  <2> HIDE DEF np
  <2>3. NewPieces(script) \in Seq(Seq(Lines)) /\ Len(NewPieces(script)) = N
        /\ \A k \in 1 .. N : NewPieces(script)[k] = np(k)
    BY <1>1, <2>1, <2>2
  <2> QED BY <2>3 DEF np
<1>4. places \subseteq DOMAIN script
  OBVIOUS
<1>5. Laid(new, pieces, N, off)
  <2> HIDE DEF places
  <2> QED BY <1>4, KeptLaid
<1>6. new \in Seq(Entries)
  <2> HIDE DEF places
  <2> QED BY <1>4, KeptElements
<1>7. NewText(script) = [k \in DOMAIN new |-> new[k].line]
  BY DEF NewText
<1>8. \A k \in 1 .. N : pieces[k] = IF script[k].tag # "-" THEN <<script[k]>> ELSE <<>>
  BY <1>1
<1> HIDE DEF places, new, pieces, off, N
<1>9. /\ NewText(script) \in Seq(Lines) /\ Len(NewText(script)) = Len(new)
      /\ \A k \in 1 .. Len(new) : NewText(script)[k] = new[k].line
  <2>1. DOMAIN new = 1 .. Len(new) /\ Len(new) \in Nat
        /\ \A k \in 1 .. Len(new) : new[k] \in Entries
    BY <1>6, LenProperties
  <2>2. \A k \in 1 .. Len(new) : new[k].line \in Lines
    BY <1>2, <2>1
  <2> QED BY <1>7, <2>1, <2>2
<1>10. /\ off[0] = 0 /\ Len(new) = off[N] /\ Len(new) \in Nat
       /\ \A k \in 1 .. N : off[k - 1] \in Nat /\ off[k] = off[k - 1] + Len(pieces[k])
       /\ \A k \in 1 .. N : \A m \in 1 .. Len(pieces[k]) : new[off[k - 1] + m] = pieces[k][m]
  BY <1>5, <1>6, LenProperties DEF Laid
<1>11. ASSUME NEW k \in 1 .. N
       PROVE  /\ Len(pieces[k]) = Len(NewPieces(script)[k])
              /\ \A m \in 1 .. Len(pieces[k]) : NewPieces(script)[k][m] = pieces[k][m].line
  <2>1. CASE script[k].tag # "-"
    <3>1. pieces[k] = <<script[k]>> /\ NewPieces(script)[k] = <<script[k].line>>
      BY <1>3, <1>8, <2>1 DEF NewPiece
    <3> QED BY <3>1
  <2>2. CASE script[k].tag = "-"
    <3>1. pieces[k] = <<>> /\ NewPieces(script)[k] = <<>>
      BY <1>3, <1>8, <2>2 DEF NewPiece
    <3> QED BY <3>1
  <2> QED BY <2>1, <2>2
<1>12. \A k \in 0 .. N : off[k] \in Nat /\ off[k] <= off[N]
  <2> DEFINE T == {d \in Nat : d <= N => off[N - d] \in Nat /\ off[N - d] <= off[N]}
  <2>1. 0 \in T
    <3>1. N - 0 = N
      BY <1>1
    <3> QED BY <1>10, <3>1
  <2>2. ASSUME NEW d \in Nat, d \in T PROVE d + 1 \in T
    <3> SUFFICES ASSUME d + 1 <= N
                 PROVE  off[N - (d + 1)] \in Nat /\ off[N - (d + 1)] <= off[N]
      OBVIOUS
    <3> DEFINE k == N - d
    <3>1. k \in 1 .. N /\ k - 1 = N - (d + 1) /\ d <= N
      BY <1>1
    <3>2. off[k] \in Nat /\ off[k] <= off[N]
      BY <2>2, <3>1
    <3> HIDE DEF k
    <3>3. Len(pieces[k]) \in Nat
      <4>1. CASE script[k].tag # "-"
        <5>1. pieces[k] = <<script[k]>>
          BY <1>8, <3>1, <4>1
        <5> QED BY <5>1
      <4>2. CASE script[k].tag = "-"
        <5>1. pieces[k] = <<>>
          BY <1>8, <3>1, <4>2
        <5> QED BY <5>1
      <4> QED BY <4>1, <4>2
    <3>4. off[k - 1] \in Nat /\ off[k] = off[k - 1] + Len(pieces[k])
      BY <1>10, <3>1
    <3> DEFINE u == off[k]  v == off[k - 1]  w == Len(pieces[k])  z == off[N]
    <3>5. u \in Nat /\ v \in Nat /\ w \in Nat /\ u = v + w /\ u <= z /\ z \in Nat
      BY <1>10, <3>2, <3>3, <3>4
    <3> HIDE DEF u, v, w, z
    <3>6. v <= z
      BY <3>5
    <3> QED BY <3>1, <3>5, <3>6 DEF v, z
  <2> HIDE DEF T
  <2>3. Nat \subseteq T
    BY <2>1, <2>2, SetInduction
  <2> TAKE k \in 0 .. N
  <2>4. N - k \in Nat /\ N - k <= N /\ N - (N - k) = k
    BY <1>1
  <2>5. N - k \in T
    BY <2>3, <2>4
  <2> QED BY <2>4, <2>5 DEF T
<1>13. ASSUME NEW k \in 1 .. N, NEW m \in 1 .. Len(pieces[k])
       PROVE  NewText(script)[off[k - 1] + m] = NewPieces(script)[k][m]
  <2>1. off[k - 1] + m \in 1 .. Len(new)
    <3> DEFINE u == off[k]  v == off[k - 1]  w == Len(pieces[k])  z == off[N]
    <3>1. w \in Nat
      <4>1. pieces[k] = <<script[k]>> \/ pieces[k] = <<>>
        BY <1>8
      <4> QED BY <4>1
    <3>2. u \in Nat /\ v \in Nat /\ u = v + w /\ u <= z /\ z \in Nat /\ m \in 1 .. w
      BY <1>1, <1>10, <1>12
    <3> HIDE DEF u, v, w, z
    <3>3. v + m \in 1 .. z
      BY <3>1, <3>2
    <3> QED BY <1>10, <3>3 DEF v, z
  <2> DEFINE q == off[k - 1] + m
  <2>2. new[q] = pieces[k][m] /\ q \in 1 .. Len(new)
    BY <1>10, <2>1
  <2> HIDE DEF q
  <2>3. NewText(script)[q] = new[q].line
    BY <1>9, <2>2
  <2> QED BY <1>11, <2>2, <2>3 DEF q
<1>14. Laid(NewText(script), NewPieces(script), N, off)
  BY <1>9, <1>10, <1>11, <1>13 DEF Laid
<1>15. NewText(script) = FlattenSeq(NewPieces(script))
  BY <1>3, <1>9, <1>14, LaidIsFlat
<1> QED
  BY <1>3, <1>9, <1>15 DEF N, Texts

(* On the text it was made from, a script is replayed as its new text, when   *)
(* every line it adds ends in a newline.                                      *)
LEMMA ReplayedFresh ==
  ASSUME NEW text \in Texts, NEW script \in Seq(Entries), OldText(script) = AsRead(text),
         \A k \in DOMAIN script : script[k].tag = "+" => script[k].line.end = "lf"
  PROVE  Replayed(text, script) = NewText(script)
<1> DEFINE now == AsRead(text)  L == Len(now)
           pieces == [k \in DOMAIN script |-> Piece(now, script, k)]
<1>1. now \in Seq(Lines) /\ L \in Nat
  BY AsReadLines, LenProperties
<1>2. Replayed(text, script) = FlattenSeq(pieces) \o SubSeq(now, L + 1, L)
  BY DEF Replayed, Piece
<1>3. SubSeq(now, L + 1, L) = <<>>
  <2> HIDE DEF now, L
  <2>1. L < L + 1 /\ L + 1 \in Int /\ L \in Int
    BY <1>1
  <2> QED BY <2>1, SubSeqEmpty
<1>4. ASSUME NEW k \in DOMAIN script PROVE Piece(now, script, k) = NewPiece(script[k])
  <2>1. script[k] \in Entries
    BY LenProperties
  <2>2. script[k].tag \in {"kept", "-", "+"} /\ script[k].line \in Lines
    BY <2>1 DEF Entries
  <2>3. CASE script[k].tag = "+"
    <3>1. script[k].line.end = "lf"
      BY <2>3
    <3>2. [script[k].line EXCEPT !.end = "lf"] = script[k].line
      BY <2>2, <3>1 DEF Lines
    <3> QED BY <2>3, <3>2 DEF Piece, NewPiece
  <2>4. CASE script[k].tag = "-"
    BY <2>4 DEF Piece, NewPiece
  <2>5. CASE script[k].tag = "kept"
    <3>1. OldLine(script, k) \in DOMAIN now /\ now[OldLine(script, k)] = script[k].line
      BY <2>5, OldTextAt
    <3> HIDE DEF now
    <3>2. OldLine(script, k) <= Len(now)
      BY <1>1, <3>1
    <3>3. Piece(now, script, k) = <<now[OldLine(script, k)]>>
      BY <2>5, <3>2 DEF Piece
    <3> QED BY <2>5, <3>1, <3>3 DEF NewPiece
  <2> QED BY <2>2, <2>3, <2>4, <2>5
<1>5. pieces = NewPieces(script)
  <2> HIDE DEF now
  <2> QED BY <1>4 DEF NewPieces
<1> HIDE DEF pieces, now, L
<1>6. NewText(script) \in Seq(Lines) /\ NewText(script) = FlattenSeq(NewPieces(script))
  BY NewTextFlat DEF Texts
<1>7. NewText(script) \o <<>> = NewText(script)
  BY <1>6, ConcatEmptySeq
<1> QED
  BY <1>2, <1>3, <1>5, <1>6, <1>7

-----------------------------------------------------------------------------
(* What a template makes of a file is what was intended.                      *)

(* The template does what it is meant to do.                                  *)

(* Lists of two elements at most.                                             *)
LEMMA Short ==
  /\ \A x, y : <<x>> \o <<y>> = <<x, y>>
  /\ \A y : <<>> \o <<y>> = <<y>>
  /\ \A x : <<x>> \o <<>> = <<x>>
  /\ <<>> \o <<>> = <<>>
<1>1. ASSUME NEW x, NEW y PROVE <<x>> \o <<y>> = <<x, y>>
  <2> DEFINE S == {x, y}  a == <<x>>  b == <<y>>  c == <<x, y>>
  <2>1. a \in Seq(S) /\ b \in Seq(S) /\ c \in Seq(S) /\ Len(a) = 1 /\ Len(b) = 1 /\ Len(c) = 2
        /\ a[1] = x /\ b[1] = y /\ c[1] = x /\ c[2] = y
    OBVIOUS
  <2> HIDE DEF S, a, b, c
  <2>2. /\ a \o b \in Seq(S) /\ Len(a \o b) = Len(a) + Len(b)
        /\ \A n \in 1 .. Len(a) + Len(b) : (a \o b)[n] = IF n <= Len(a) THEN a[n] ELSE b[n - Len(a)]
    BY <2>1, ConcatProperties
  <2> DEFINE d == a \o b
  <2> HIDE DEF d
  <2>3. Len(d) = 2 /\ d[1] = x /\ d[2] = y /\ d \in Seq(S)
    BY <2>1, <2>2 DEF d
  <2>4. \A n \in 1 .. Len(d) : d[n] = c[n]
    BY <2>1, <2>3
  <2>5. d = c
    BY <2>1, <2>3, <2>4, SeqEqual
  <2> QED BY <2>5 DEF a, b, c, d
<1>2. ASSUME NEW y PROVE <<>> \o <<y>> = <<y>> /\ <<y>> \o <<>> = <<y>>
  OBVIOUS
<1>3. <<>> \o <<>> = <<>>
  OBVIOUS
<1> QED BY <1>1, <1>2, <1>3

(* The lines that a template writes.                                          *)
LEMMA NewLines ==
  /\ \A body \in Statements : NewLine(body) \in Lines /\ NewLine(body).end = "lf"
  /\ \A line \in Lines, body \in Statements : [line EXCEPT !.body = body] \in Lines
BY StatementsAssumption DEF NewLine, Lines

(* The rows of the file that is intended, by the rows they come from.         *)
Wanted(text, finding) ==
  [k \in DOMAIN text |-> IntendedRow(AsRead(text), finding, k)]

(* A line that says something else.                                           *)
WithBody(line, body) == [line EXCEPT !.body = body]

(* A row of the file as the template should leave it.                         *)
RowWanted(row, finding, k) ==
  CASE finding.kind = "mutable_default_argument" ->
         IF k = finding.first THEN <<NewLine("guard"), row>>
         ELSE IF k = finding.at THEN <<WithBody(row, "default_none")>> ELSE <<row>>
    [] finding.kind = "shared_mutable_class_attr" ->
         IF k = finding.first THEN <<NewLine("self_attr"), row>>
         ELSE IF k # finding.at THEN <<row>>
         ELSE IF finding.first = 0 THEN <<NewLine("init"), NewLine("self_attr")>> ELSE <<>>
    [] finding.kind = "schema_key_mismatch" ->
         IF k = finding.at THEN <<WithBody(row, "new_key")>> ELSE <<row>>

(* So it is, row by row, unless the default or the attribute is in the row    *)
(* that something is put in front of, or decorators begin the statement.      *)
LEMMA WantedRows ==
  ASSUME NEW text \in Texts, NEW finding \in Findings, finding.kind # "none",
         finding.at # finding.first, finding.begins = finding.first
  PROVE  /\ Wanted(text, finding) \in Seq(Seq(Lines))
         /\ Len(Wanted(text, finding)) = Len(text)
         /\ Len(AsRead(text)) = Len(text) /\ AsRead(text) \in Seq(Lines)
         /\ \A k \in 1 .. Len(text) :
              Wanted(text, finding)[k] = RowWanted(AsRead(text)[k], finding, k)
<1> DEFINE now == AsRead(text)  N == Len(text)
<1>1. now \in Seq(Lines) /\ Len(now) = N /\ N \in Nat /\ DOMAIN text = 1 .. N
  BY AsReadLines, LenProperties DEF Texts
<1>2. \A k \in 1 .. N : now[k] \in Lines
  <2> HIDE DEF now, N
  <2> QED BY <1>1
<1>3. finding.kind \in {"mutable_default_argument", "shared_mutable_class_attr",
                        "schema_key_mismatch"}
  BY DEF Findings, Kinds
<1> HIDE DEF now, N
<1>4. ASSUME NEW k \in 1 .. N
      PROVE  IntendedRow(now, finding, k) = RowWanted(now[k], finding, k)
  <2> DEFINE row == now[k]
  <2> HIDE DEF row
  <2>1. CASE finding.kind = "mutable_default_argument"
    <3>1. IntendedRow(now, finding, k)
            = (IF k = finding.begins THEN <<NewLine("guard")>> ELSE <<>>)
              \o <<IF k = finding.at THEN WithBody(row, "default_none") ELSE row>>
      BY <2>1 DEF IntendedRow, WithBody, row
    <3>2. RowWanted(row, finding, k)
            = IF k = finding.first THEN <<NewLine("guard"), row>>
              ELSE IF k = finding.at THEN <<WithBody(row, "default_none")>> ELSE <<row>>
      BY <2>1 DEF RowWanted
    <3> QED BY <3>1, <3>2, Short DEF row
  <2>2. CASE finding.kind = "shared_mutable_class_attr"
    <3>1. IntendedRow(now, finding, k)
            = (IF k = finding.begins THEN <<NewLine("self_attr")>> ELSE <<>>)
              \o (IF k # finding.at THEN <<row>>
                  ELSE IF finding.begins = 0 THEN <<NewLine("init"), NewLine("self_attr")>>
                  ELSE <<>>)
      BY <2>2 DEF IntendedRow, row
    <3>2. RowWanted(row, finding, k)
            = IF k = finding.first THEN <<NewLine("self_attr"), row>>
              ELSE IF k # finding.at THEN <<row>>
              ELSE IF finding.first = 0 THEN <<NewLine("init"), NewLine("self_attr")>> ELSE <<>>
      BY <2>2 DEF RowWanted
    <3>3. <<>> \o <<NewLine("init"), NewLine("self_attr")>>
            = <<NewLine("init"), NewLine("self_attr")>>
      OBVIOUS
    <3> QED BY <3>1, <3>2, <3>3, Short DEF row
  <2>3. CASE finding.kind = "schema_key_mismatch"
    BY <2>3 DEF IntendedRow, RowWanted, WithBody, row
  <2> QED BY <1>3, <2>1, <2>2, <2>3 DEF row
<1>5. ASSUME NEW k \in 1 .. N PROVE RowWanted(now[k], finding, k) \in Seq(Lines)
  <2>1. now[k] \in Lines
    BY <1>2
  <2>2. /\ NewLine("guard") \in Lines /\ NewLine("self_attr") \in Lines /\ NewLine("init") \in Lines
        /\ WithBody(now[k], "default_none") \in Lines /\ WithBody(now[k], "new_key") \in Lines
    BY <2>1, NewLines DEF Statements, WithBody
  <2> QED BY <1>3, <2>1, <2>2 DEF RowWanted
<1>6. Wanted(text, finding) = [k \in 1 .. N |-> IntendedRow(now, finding, k)]
  BY <1>1 DEF Wanted, now
<1>7. \A k \in 1 .. N : Wanted(text, finding)[k] = RowWanted(now[k], finding, k)
  BY <1>4, <1>6
<1>8. Wanted(text, finding) \in Seq(Seq(Lines)) /\ Len(Wanted(text, finding)) = N
  <2>1. \A k \in 1 .. N : Wanted(text, finding)[k] \in Seq(Lines)
    BY <1>5, <1>7
  <2> QED BY <1>1, <1>6, <2>1
<1> QED
  BY <1>1, <1>7, <1>8 DEF now, N

(* Without form feeds, ast and splitlines count alike.                        *)
LEMMA RowsCountAlike ==
  ASSUME NEW text \in Texts, NoFormFeed(text), NEW row \in 1 .. Len(text)
  PROVE  LineNo(AsRead(text), row) = row
<1> DEFINE now == AsRead(text)  rows == {k \in 1 .. (row - 1) : now[k].end # "ff"}
<1>1. DOMAIN text = 1 .. Len(text) /\ Len(text) \in Nat
  BY LenProperties DEF Texts
<1>2. \A k \in DOMAIN text : now[k].end # "ff"
  BY AsReadLines DEF NoFormFeed
<1>3. rows = 1 .. (row - 1)
  <2> HIDE DEF now
  <2>1. \A k \in 1 .. (row - 1) : k \in DOMAIN text
    BY <1>1
  <2> QED BY <1>2, <2>1
<1>4. Cardinality(1 .. (row - 1)) = row - 1
  <2>1. row - 1 \in Int /\ 1 \in Int /\ 1 <= (row - 1) + 1
    BY <1>1
  <2>2. Cardinality(1 .. (row - 1)) = IF 1 > row - 1 THEN 0 ELSE (row - 1) - 1 + 1
    BY <2>1, FS_Interval
  <2> QED BY <1>1, <2>2
<1>5. LineNo(now, row) = 1 + Cardinality(rows)
  BY DEF LineNo
<1>6. row \in Int /\ 1 + (row - 1) = row
  BY <1>1
<1> HIDE DEF rows, now
<1> QED
  BY <1>3, <1>4, <1>5, <1>6 DEF now

(* What the templates make of a text, row by row.                             *)
EditMade(new, now, finding) ==
  LET N == Len(now)
      at == finding.at
      first == finding.first
  IN  CASE finding.kind = "mutable_default_argument" ->
             /\ at \in 1 .. N /\ first \in 1 .. N /\ Len(new) = N + 1
             /\ new[first] = NewLine("guard")
             /\ \A n \in 1 .. N : new[IF n < first THEN n ELSE n + 1]
                                    = IF n = at THEN WithBody(now[n], "default_none") ELSE now[n]
        [] finding.kind = "shared_mutable_class_attr" ->
             /\ at \in 1 .. N /\ first \in 0 .. N
             /\ first = 0 =>
                  /\ Len(new) = N + 1
                  /\ new[at] = NewLine("init") /\ new[at + 1] = NewLine("self_attr")
                  /\ \A n \in 1 .. N : n # at => new[IF n < at THEN n ELSE n + 1] = now[n]
             /\ first # 0 =>
                  /\ Len(new) = N
                  /\ new[IF first <= at THEN first ELSE first - 1] = NewLine("self_attr")
                  /\ \A n \in 1 .. N : n # at =>
                       new[(n + IF n < first THEN 0 ELSE 1) - IF n < at THEN 0 ELSE 1] = now[n]
        [] finding.kind = "schema_key_mismatch" ->
             /\ at \in 1 .. N /\ Len(new) = N
             /\ \A n \in 1 .. N :
                  new[n] = IF n = at THEN WithBody(now[n], "new_key") ELSE now[n]

(* That is what generate_patch arrives at, with rows counted as ast counts    *)
(* them and lines as splitlines() does, if no form feed makes the two         *)
(* differ.                                                                    *)
LEMMA PatchedMade ==
  ASSUME NEW text \in Texts, NoFormFeed(text), NEW finding \in Findings, finding.kind # "none",
         finding.at # finding.first, TrueOf(AsRead(text), finding),
         NEW new \in Patched(AsRead(text), finding)
  PROVE  new \in Texts /\ EditMade(new, AsRead(text), finding)
<1> DEFINE now == AsRead(text)  N == Len(now)  at == finding.at  first == finding.first
<1>1. now \in Seq(Lines) /\ N \in Nat /\ Len(text) = N /\ DOMAIN now = 1 .. N
      /\ \A k \in 1 .. N : now[k] \in Lines
  <2>1. now \in Seq(Lines) /\ Len(text) = N
    BY AsReadLines
  <2> HIDE DEF now
  <2> QED BY <2>1, LenProperties
<1>2. at \in 0 .. N /\ first \in 0 .. N
  BY DEF TrueOf, Findings
<1>3. \A row \in 1 .. N : LineNo(now, row) = row
  BY <1>1, RowsCountAlike
<1>4. finding.kind = "mutable_default_argument" /\ at # 0 => now[at].body = "default" /\ first # 0
  BY DEF TrueOf
<1>5. finding.kind \in {"mutable_default_argument", "shared_mutable_class_attr",
                        "schema_key_mismatch"}
  BY DEF Findings, Kinds
<1>6. /\ NewLine("guard") \in Lines /\ NewLine("self_attr") \in Lines /\ NewLine("init") \in Lines
      /\ \A line \in Lines : WithBody(line, "default_none") \in Lines
                             /\ WithBody(line, "new_key") \in Lines
  BY NewLines DEF Statements, WithBody
<1>7. new \in Patched(now, finding)
  OBVIOUS
<1>8. Editable(finding) => at # 0
  BY DEF Editable
<1>9. ASSUME NEW body \in Statements, NEW k \in 1 .. N
      PROVE  LET changed == [now EXCEPT ![k] = WithBody(@, body)]
             IN  changed \in Seq(Lines) /\ Len(changed) = N
                 /\ \A n \in 1 .. N : changed[n] = IF n = k THEN WithBody(now[n], body) ELSE now[n]
  <2>1. WithBody(now[k], body) \in Lines
    BY <1>1, NewLines DEF WithBody
  <2> HIDE DEF now, N
  <2> QED BY <1>1, <2>1
<1> HIDE DEF now, N
<1>10. CASE finding.kind = "mutable_default_argument"
  <2>1. new \in MutableDefault(now, finding)
    BY <1>7, <1>10 DEF Patched
  <2>2. at \in 1 .. N /\ first \in 1 .. N
    <3>1. Editable(finding)
      BY <2>1 DEF MutableDefault
    <3> QED BY <1>1, <1>2, <1>4, <1>8, <1>10, <3>1
  <2>3. new = InsertAt([now EXCEPT ![LineNo(now, at)].body = WithNone(@)],
                       LineNo(now, first), NewLine("guard"))
    BY <2>1 DEF MutableDefault
  <2>4. LineNo(now, at) = at /\ LineNo(now, first) = first
    BY <1>3, <2>2
  <2> DEFINE changed == [now EXCEPT ![at] = WithBody(@, "default_none")]
  <2>5. [now EXCEPT ![at].body = WithNone(@)] = changed
    <3>1. WithNone(now[at].body) = "default_none"
      BY <1>1, <1>4, <1>10, <2>2 DEF WithNone
    <3>2. [now EXCEPT ![at].body = WithNone(@)]
            = [now EXCEPT ![at] = [now[at] EXCEPT !.body = WithNone(now[at].body)]]
      OBVIOUS
    <3>3. changed = [now EXCEPT ![at] = [now[at] EXCEPT !.body = "default_none"]]
      BY DEF WithBody
    <3> HIDE DEF changed
    <3> QED BY <3>1, <3>2, <3>3
  <2>6. changed \in Seq(Lines) /\ Len(changed) = N
        /\ \A n \in 1 .. N :
             changed[n] = IF n = at THEN WithBody(now[n], "default_none") ELSE now[n]
    <3>1. "default_none" \in Statements
      BY DEF Statements
    <3> QED BY <1>9, <2>2, <3>1
  <2>7. new = InsertAt(changed, first, NewLine("guard"))
    BY <2>3, <2>4, <2>5
  <2> HIDE DEF changed
  <2>8. first \in 1 .. Len(changed) + 1
    BY <1>1, <2>2, <2>6
  <2>9. /\ new \in Seq(Lines) /\ Len(new) = N + 1 /\ new[first] = NewLine("guard")
        /\ \A n \in 1 .. first - 1 : new[n] = changed[n]
        /\ \A n \in first .. N : new[n + 1] = changed[n]
    <3>1. new \in Seq(Lines) /\ InsertedAs(new, changed, first, NewLine("guard"))
      BY <1>6, <2>6, <2>7, <2>8, InsertedIs
    <3> QED BY <2>6, <3>1 DEF InsertedAs
  <2> HIDE DEF at, first
  <2>10. \A n \in 1 .. N : new[IF n < first THEN n ELSE n + 1] = changed[n]
    <3> TAKE n \in 1 .. N
    <3>1. CASE n < first
      BY <1>1, <2>2, <2>9, <3>1
    <3>2. CASE ~ (n < first)
      BY <1>1, <2>2, <2>9, <3>2
    <3> QED BY <3>1, <3>2
  <2>11. EditMade(new, now, finding)
    BY <1>10, <2>2, <2>6, <2>9, <2>10 DEF EditMade, at, first, N
  <2> QED BY <2>9, <2>11 DEF Texts, now
<1>11. CASE finding.kind = "shared_mutable_class_attr"
  <2>1. new \in SharedClassAttr(now, finding)
    BY <1>7, <1>11 DEF Patched
  <2>2. at \in 1 .. N
    BY <1>1, <1>2, <1>8, <2>1 DEF SharedClassAttr
  <2>3. LineNo(now, at) = at
    BY <1>3, <2>2
  <2>4. CASE first = 0
    <3> DEFINE mid == <<NewLine("init"), NewLine("self_attr")>>
    <3>1. new = SubSeq(now, 1, at - 1) \o mid \o SubSeq(now, at + 1, Len(now))
      BY <2>1, <2>3, <2>4 DEF SharedClassAttr
    <3>2. new = Spliced(now, at, at + 1, mid)
      BY <3>1 DEF Spliced
    <3>3. mid \in Seq(Lines) /\ Len(mid) = 2 /\ mid[1] = NewLine("init")
          /\ mid[2] = NewLine("self_attr")
      BY <1>6
    <3>4. at \in 1 .. Len(now) + 1 /\ at + 1 \in at .. Len(now) + 1
      BY <1>1, <2>2 DEF N
    <3> HIDE DEF mid
    <3>5. new \in Seq(Lines) /\ SplicedAs(new, now, at, at + 1, mid)
      BY <1>1, <3>2, <3>3, <3>4, SplicedIs
    <3> HIDE DEF at
    <3>6. /\ Len(new) = (at - 1) + 2 + ((N + 1) - (at + 1))
          /\ \A n \in 1 .. at - 1 : new[n] = now[n]
          /\ \A m \in 1 .. 2 : new[(at - 1) + m] = mid[m]
          /\ \A n \in at + 1 .. N : new[(at - 1) + 2 + ((n - (at + 1)) + 1)] = now[n]
      BY <3>3, <3>5 DEF SplicedAs, N
    <3>7. Len(new) = N + 1
      BY <1>1, <2>2, <3>6
    <3>8. new[at] = NewLine("init") /\ new[at + 1] = NewLine("self_attr")
      <4>1. (at - 1) + 1 = at /\ (at - 1) + 2 = at + 1 /\ 1 \in 1 .. 2 /\ 2 \in 1 .. 2
        BY <1>1, <2>2
      <4> QED BY <3>3, <3>6, <4>1
    <3>9. ASSUME NEW n \in 1 .. N, n # at PROVE new[IF n < at THEN n ELSE n + 1] = now[n]
      <4>1. CASE n < at
        BY <1>1, <2>2, <3>6, <4>1
      <4>2. CASE ~ (n < at)
        <5>1. n \in at + 1 .. N /\ (at - 1) + 2 + ((n - (at + 1)) + 1) = n + 1
          BY <1>1, <2>2, <3>9, <4>2
        <5> QED BY <3>6, <4>2, <5>1
      <4> QED BY <4>1, <4>2
    <3>10. EditMade(new, now, finding)
      BY <1>2, <1>11, <2>2, <2>4, <3>7, <3>8, <3>9 DEF EditMade, at, N
    <3> QED BY <3>5, <3>10 DEF Texts, now
  <2>5. CASE first # 0
    <3> DEFINE ins == InsertAt(now, first, NewLine("self_attr"))
               r == IF first <= at THEN at + 1 ELSE at
    <3>1. first \in 1 .. N /\ LineNo(now, first) = first
      BY <1>1, <1>2, <1>3, <2>5
    <3>2. new = RemoveAt(ins, r)
      BY <2>1, <2>3, <2>5, <3>1 DEF SharedClassAttr
    <3>3. first \in 1 .. Len(now) + 1
      BY <1>1, <3>1 DEF N
    <3>4. /\ ins \in Seq(Lines) /\ Len(ins) = N + 1 /\ ins[first] = NewLine("self_attr")
          /\ \A n \in 1 .. first - 1 : ins[n] = now[n]
          /\ \A n \in first .. N : ins[n + 1] = now[n]
      <4>1. ins \in Seq(Lines) /\ InsertedAs(ins, now, first, NewLine("self_attr"))
        BY <1>1, <1>6, <3>3, InsertedIs
      <4> HIDE DEF first, ins
      <4> QED BY <4>1 DEF InsertedAs, N
    <3>5. at # first
      OBVIOUS
    <3> HIDE DEF ins, at, first
    <3>6. r \in 1 .. Len(ins)
      BY <1>1, <2>2, <3>4
    <3>7. /\ new \in Seq(Lines) /\ Len(new) = (N + 1) - 1
          /\ \A n \in 1 .. r - 1 : new[n] = ins[n]
          /\ \A n \in r + 1 .. N + 1 : new[n - 1] = ins[n]
      <4> HIDE DEF r
      <4>1. new \in Seq(Lines) /\ RemovedAs(new, ins, r)
        BY <3>2, <3>4, <3>6, RemovedIs
      <4> QED BY <3>4, <4>1 DEF RemovedAs
    <3>8. Len(new) = N
      BY <1>1, <3>7
    <3>9. new[IF first <= at THEN first ELSE first - 1] = NewLine("self_attr")
      <4>1. CASE first <= at
        <5>1. first \in 1 .. r - 1
          BY <1>1, <2>2, <3>1, <4>1
        <5> QED BY <3>4, <3>7, <4>1, <5>1
      <4>2. CASE ~ (first <= at)
        <5>1. first \in r + 1 .. N + 1
          BY <1>1, <2>2, <3>1, <4>2
        <5> QED BY <3>4, <3>7, <4>2, <5>1
      <4> QED BY <4>1, <4>2
    <3>10. ASSUME NEW n \in 1 .. N, n # at
           PROVE  new[(n + IF n < first THEN 0 ELSE 1) - IF n < at THEN 0 ELSE 1] = now[n]
      <4> DEFINE q == n + IF n < first THEN 0 ELSE 1
      <4>1. ins[q] = now[n]
        <5>1. CASE n < first
          BY <1>1, <3>1, <3>4, <5>1
        <5>2. CASE ~ (n < first)
          BY <1>1, <3>1, <3>4, <5>2
        <5> QED BY <5>1, <5>2
      <4>2. q \in Nat /\ (n < at => q \in 1 .. r - 1) /\ (~ (n < at) => q \in r + 1 .. N + 1)
        BY <1>1, <2>2, <3>1, <3>5, <3>10
      <4> HIDE DEF q, r
      <4>3. CASE n < at
        <5>1. q - 0 = q
          BY <4>2
        <5>2. new[q] = now[n]
          BY <3>7, <4>1, <4>2, <4>3
        <5> QED BY <4>3, <5>1, <5>2 DEF q
      <4>4. CASE ~ (n < at)
        <5>1. new[q - 1] = now[n]
          BY <3>7, <4>1, <4>2, <4>4
        <5> QED BY <4>4, <5>1 DEF q
      <4> QED BY <4>3, <4>4
    <3>11. EditMade(new, now, finding)
      <4>1. first # 0 /\ first \in 0 .. N
        BY <1>1, <3>1
      <4> QED BY <1>11, <2>2, <3>8, <3>9, <3>10, <4>1 DEF EditMade, at, first, N
    <3> QED BY <3>7, <3>11 DEF Texts, now
  <2> QED BY <2>4, <2>5
<1>12. CASE finding.kind = "schema_key_mismatch"
  <2>1. new \in SchemaKey(now, finding)
    BY <1>7, <1>12 DEF Patched
  <2>2. at \in 1 .. N
    BY <1>1, <1>2, <2>1 DEF SchemaKey
  <2>3. LineNo(now, at) = at
    BY <1>3, <2>2
  <2> DEFINE changed == [now EXCEPT ![at] = WithBody(@, "new_key")]
  <2>4. new = changed
    BY <2>1, <2>3 DEF SchemaKey, WithBody
  <2>5. changed \in Seq(Lines) /\ Len(changed) = N
        /\ \A n \in 1 .. N : changed[n] = IF n = at THEN WithBody(now[n], "new_key") ELSE now[n]
    <3>1. "new_key" \in Statements
      BY DEF Statements
    <3> QED BY <1>9, <2>2, <3>1
  <2> HIDE DEF changed
  <2>6. EditMade(new, now, finding)
    BY <1>12, <2>2, <2>4, <2>5 DEF EditMade, N
  <2> QED BY <2>4, <2>5, <2>6 DEF Texts, now
<1> QED
  BY <1>5, <1>10, <1>11, <1>12

(* Row by row, it is what was intended.                                       *)
LEMMA MadeIsLaid ==
  ASSUME NEW text \in Texts, NEW finding \in Findings, finding.kind # "none",
         finding.at # finding.first, finding.begins = finding.first,
         NEW new, EditMade(new, AsRead(text), finding)
  PROVE  \E off : Laid(new, Wanted(text, finding), Len(text), off)
<1> DEFINE now == AsRead(text)  N == Len(text)  at == finding.at  first == finding.first
           rows == Wanted(text, finding)
<1>1. /\ Len(now) = N /\ N \in Nat
      /\ \A k \in 1 .. N : rows[k] = RowWanted(now[k], finding, k)
  BY WantedRows, LenProperties DEF Texts
<1>2. finding.kind \in {"mutable_default_argument", "shared_mutable_class_attr",
                        "schema_key_mismatch"}
  BY DEF Findings, Kinds
<1>3. at \in Nat /\ first \in Nat /\ at # first
  BY DEF Findings
<1> HIDE DEF now, N, rows
<1>4. CASE finding.kind = "mutable_default_argument"
  <2>1. /\ at \in 1 .. N /\ first \in 1 .. N /\ Len(new) = N + 1
        /\ new[first] = NewLine("guard")
        /\ \A n \in 1 .. N : new[IF n < first THEN n ELSE n + 1]
                               = IF n = at THEN WithBody(now[n], "default_none") ELSE now[n]
    BY <1>1, <1>4 DEF EditMade, now
  <2>2. \A k \in 1 .. N :
          rows[k] = IF k = first THEN <<NewLine("guard"), now[k]>>
                    ELSE IF k = at THEN <<WithBody(now[k], "default_none")>> ELSE <<now[k]>>
    BY <1>1, <1>4 DEF RowWanted
  <2> HIDE DEF at, first
  <2> DEFINE off == [k \in 0 .. N |-> IF k < first THEN k ELSE k + 1]
  <2>3. \A k \in 0 .. N : off[k] = IF k < first THEN k ELSE k + 1
    OBVIOUS
  <2> HIDE DEF off
  <2>4. off[0] = 0 /\ Len(new) = off[N]
    BY <1>1, <1>3, <2>1, <2>3
  <2>5. ASSUME NEW k \in 1 .. N
        PROVE  /\ off[k - 1] \in Nat /\ off[k] = off[k - 1] + Len(rows[k])
               /\ \A m \in 1 .. Len(rows[k]) : new[off[k - 1] + m] = rows[k][m]
    <3>1. off[k - 1] = (IF k - 1 < first THEN k - 1 ELSE k)
          /\ off[k] = (IF k < first THEN k ELSE k + 1)
          /\ off[k - 1] \in Nat
      BY <1>1, <1>3, <2>3
    <3>2. CASE k = first
      <4>1. rows[k] = <<NewLine("guard"), now[k]>>
        BY <2>2, <3>2
      <4>2. Len(rows[k]) = 2 /\ rows[k][1] = NewLine("guard") /\ rows[k][2] = now[k]
        BY <4>1
      <4>3. off[k - 1] = k - 1 /\ off[k] = k + 1 /\ (k - 1) + 1 = k /\ (k - 1) + 2 = k + 1
        BY <1>1, <3>1, <3>2
      <4>4. new[k] = NewLine("guard") /\ new[k + 1] = now[k]
        BY <1>3, <2>1, <3>2
      <4>5. \A m \in 1 .. 2 : m = 1 \/ m = 2
        OBVIOUS
      <4>6. off[k] = off[k - 1] + Len(rows[k])
        BY <4>2, <4>3
      <4> QED BY <3>1, <4>2, <4>3, <4>4, <4>5, <4>6
    <3>3. CASE k # first
      <4> DEFINE line == IF k = at THEN WithBody(now[k], "default_none") ELSE now[k]
      <4>1. rows[k] = <<line>>
        BY <2>2, <3>3
      <4>2. new[IF k < first THEN k ELSE k + 1] = line
        BY <2>1
      <4> HIDE DEF line
      <4>3. Len(rows[k]) = 1 /\ rows[k][1] = line
        BY <4>1
      <4>4. off[k - 1] + 1 = (IF k < first THEN k ELSE k + 1) /\ off[k] = off[k - 1] + 1
        BY <1>1, <1>3, <3>1, <3>3
      <4>5. \A m \in 1 .. 1 : m = 1
        OBVIOUS
      <4> QED BY <3>1, <4>2, <4>3, <4>4, <4>5
    <3> QED BY <3>2, <3>3
  <2>6. Laid(new, rows, N, off)
    BY <2>4, <2>5 DEF Laid
  <2> QED BY <2>6 DEF rows, N
<1>5. CASE finding.kind = "shared_mutable_class_attr"
  <2>1. /\ at \in 1 .. N /\ first \in 0 .. N
        /\ first = 0 =>
             /\ Len(new) = N + 1
             /\ new[at] = NewLine("init") /\ new[at + 1] = NewLine("self_attr")
             /\ \A n \in 1 .. N : n # at => new[IF n < at THEN n ELSE n + 1] = now[n]
        /\ first # 0 =>
             /\ Len(new) = N
             /\ new[IF first <= at THEN first ELSE first - 1] = NewLine("self_attr")
             /\ \A n \in 1 .. N : n # at =>
                  new[(n + IF n < first THEN 0 ELSE 1) - IF n < at THEN 0 ELSE 1] = now[n]
    BY <1>1, <1>5 DEF EditMade, now
  <2>2. \A k \in 1 .. N :
          rows[k] = IF k = first THEN <<NewLine("self_attr"), now[k]>>
                    ELSE IF k # at THEN <<now[k]>>
                    ELSE IF first = 0 THEN <<NewLine("init"), NewLine("self_attr")>> ELSE <<>>
    BY <1>1, <1>5 DEF RowWanted
  <2> HIDE DEF at, first
  <2>3. CASE first = 0
    <3> DEFINE off == [k \in 0 .. N |-> IF k < at THEN k ELSE k + 1]
    <3>1. \A k \in 0 .. N : off[k] = IF k < at THEN k ELSE k + 1
      OBVIOUS
    <3> HIDE DEF off
    <3>2. off[0] = 0 /\ Len(new) = off[N]
      BY <1>1, <1>3, <2>1, <2>3, <3>1
    <3>3. ASSUME NEW k \in 1 .. N
          PROVE  /\ off[k - 1] \in Nat /\ off[k] = off[k - 1] + Len(rows[k])
                 /\ \A m \in 1 .. Len(rows[k]) : new[off[k - 1] + m] = rows[k][m]
      <4>1. off[k - 1] = (IF k - 1 < at THEN k - 1 ELSE k) /\ off[k] = (IF k < at THEN k ELSE k + 1)
            /\ off[k - 1] \in Nat
        BY <1>1, <1>3, <3>1
      <4>2. CASE k = at
        <5>1. rows[k] = <<NewLine("init"), NewLine("self_attr")>>
          BY <1>1, <1>3, <2>2, <2>3, <4>2
        <5>2. Len(rows[k]) = 2 /\ rows[k][1] = NewLine("init") /\ rows[k][2] = NewLine("self_attr")
          BY <5>1
        <5>3. off[k - 1] = k - 1 /\ off[k] = k + 1 /\ (k - 1) + 1 = k /\ (k - 1) + 2 = k + 1
          BY <1>1, <4>1, <4>2
        <5>4. new[k] = NewLine("init") /\ new[k + 1] = NewLine("self_attr")
          BY <2>1, <2>3, <4>2
        <5>5. \A m \in 1 .. 2 : m = 1 \/ m = 2
          OBVIOUS
        <5>6. off[k] = off[k - 1] + Len(rows[k])
          BY <5>2, <5>3
        <5> QED BY <4>1, <5>2, <5>3, <5>4, <5>5, <5>6
      <4>3. CASE k # at
        <5>1. rows[k] = <<now[k]>>
          <6>1. k # first
            BY <1>1, <2>3
          <6> HIDE DEF N
          <6> QED BY <2>2, <4>3, <6>1
        <5>2. new[IF k < at THEN k ELSE k + 1] = now[k]
          BY <2>1, <2>3, <4>3
        <5>3. Len(rows[k]) = 1 /\ rows[k][1] = now[k]
          BY <5>1
        <5>4. off[k - 1] + 1 = (IF k < at THEN k ELSE k + 1) /\ off[k] = off[k - 1] + 1
          BY <1>1, <1>3, <4>1, <4>3
        <5>5. \A m \in 1 .. 1 : m = 1
          OBVIOUS
        <5> QED BY <4>1, <5>2, <5>3, <5>4, <5>5
      <4> QED BY <4>2, <4>3
    <3>4. Laid(new, rows, N, off)
      BY <3>2, <3>3 DEF Laid
    <3> QED BY <3>4 DEF rows, N
  <2>4. CASE first # 0
    <3> DEFINE put(k) == (k + IF k < first THEN 0 ELSE 1) - IF k < at THEN 0 ELSE 1
               off == [k \in 0 .. N |-> put(k)]
    <3>1. \A k \in 0 .. N : off[k] = put(k)
      OBVIOUS
    <3> HIDE DEF off
    <3>2. off[0] = 0 /\ Len(new) = off[N]
      <4>1. 0 \in 0 .. N /\ N \in 0 .. N /\ 0 < first /\ 0 < at
            /\ ~ (N < first) /\ ~ (N < at)
        BY <1>1, <1>3, <2>1, <2>4
      <4>2. put(0) = 0 /\ put(N) = N
        BY <1>1, <4>1
      <4> HIDE DEF put
      <4> QED BY <2>1, <2>4, <3>1, <4>1, <4>2
    <3>3. ASSUME NEW k \in 1 .. N
          PROVE  /\ off[k - 1] \in Nat /\ off[k] = off[k - 1] + Len(rows[k])
                 /\ \A m \in 1 .. Len(rows[k]) : new[off[k - 1] + m] = rows[k][m]
      <4>1. off[k - 1] = put(k - 1) /\ off[k] = put(k)
        <5>1. k - 1 \in 0 .. N /\ k \in 0 .. N
          BY <1>1
        <5> HIDE DEF put
        <5> QED BY <3>1, <5>1
      <4>2. put(k - 1) \in Nat
        BY <1>1, <1>3, <2>1
      <4>3. CASE k = first
        <5>1. rows[k] = <<NewLine("self_attr"), now[k]>>
          BY <2>2, <4>3
        <5>2. Len(rows[k]) = 2 /\ rows[k][1] = NewLine("self_attr") /\ rows[k][2] = now[k]
          BY <5>1
        <5>3. /\ put(k) = put(k - 1) + 2
              /\ put(k - 1) + 1 = IF first <= at THEN first ELSE first - 1
              /\ put(k - 1) + 2 = put(k)
          BY <1>1, <1>3, <2>1, <4>3
        <5>4. new[put(k - 1) + 1] = NewLine("self_attr") /\ new[put(k)] = now[k]
          BY <1>3, <2>1, <2>4, <4>3, <5>3
        <5>5. \A m \in 1 .. 2 : m = 1 \/ m = 2
          OBVIOUS
        <5> HIDE DEF put
        <5> QED BY <4>1, <4>2, <5>2, <5>3, <5>4, <5>5
      <4>4. CASE k = at
        <5>1. rows[k] = <<>>
          BY <1>1, <1>3, <2>2, <2>4, <4>4
        <5>2. Len(rows[k]) = 0
          BY <5>1
        <5>3. put(k) = put(k - 1)
          BY <1>1, <1>3, <2>1, <4>4
        <5> HIDE DEF put
        <5> QED BY <4>1, <4>2, <5>2, <5>3
      <4>5. CASE k # first /\ k # at
        <5>1. rows[k] = <<now[k]>>
          BY <2>2, <4>5
        <5>2. Len(rows[k]) = 1 /\ rows[k][1] = now[k]
          BY <5>1
        <5>3. put(k) = put(k - 1) + 1
          BY <1>1, <1>3, <2>1, <4>5
        <5>4. new[put(k)] = now[k]
          BY <2>1, <2>4, <4>5
        <5>5. \A m \in 1 .. 1 : m = 1
          OBVIOUS
        <5> HIDE DEF put
        <5> QED BY <4>1, <4>2, <5>2, <5>3, <5>4, <5>5
      <4> QED BY <4>3, <4>4, <4>5
    <3>4. Laid(new, rows, N, off)
      BY <3>2, <3>3 DEF Laid
    <3> QED BY <3>4 DEF rows, N
  <2> QED BY <2>3, <2>4
<1>6. CASE finding.kind = "schema_key_mismatch"
  <2>1. /\ Len(new) = N
        /\ \A n \in 1 .. N : new[n] = IF n = at THEN WithBody(now[n], "new_key") ELSE now[n]
    BY <1>1, <1>6 DEF EditMade, now
  <2>2. \A k \in 1 .. N : rows[k] = IF k = at THEN <<WithBody(now[k], "new_key")>> ELSE <<now[k]>>
    BY <1>1, <1>6 DEF RowWanted
  <2> DEFINE off == [k \in 0 .. N |-> k]
  <2>3. \A k \in 0 .. N : off[k] = k
    OBVIOUS
  <2> HIDE DEF off
  <2>4. off[0] = 0 /\ Len(new) = off[N]
    BY <1>1, <2>1, <2>3
  <2>5. ASSUME NEW k \in 1 .. N
        PROVE  /\ off[k - 1] \in Nat /\ off[k] = off[k - 1] + Len(rows[k])
               /\ \A m \in 1 .. Len(rows[k]) : new[off[k - 1] + m] = rows[k][m]
    <3>1. off[k - 1] = k - 1 /\ off[k] = k /\ (k - 1) + 1 = k /\ k - 1 \in Nat
      BY <1>1, <2>3
    <3>2. rows[k] = <<new[k]>>
      BY <2>1, <2>2
    <3>3. Len(rows[k]) = 1 /\ rows[k][1] = new[k]
      BY <3>2
    <3>4. \A m \in 1 .. 1 : m = 1
      OBVIOUS
    <3> QED BY <3>1, <3>3, <3>4
  <2>6. Laid(new, rows, N, off)
    BY <2>4, <2>5 DEF Laid
  <2> QED BY <2>6 DEF rows, N
<1> QED
  BY <1>2, <1>4, <1>5, <1>6

(* Of the file, the line the templates write behind its rows end in newlines, *)
(* so an end is missing at the end of the new text if anywhere.               *)
LEMMA IntendedText ==
  ASSUME NEW text \in Texts, NoFormFeed(text), NEW finding \in Findings, finding.kind # "none",
         finding.at # finding.first, finding.begins = finding.first,
         TrueOf(AsRead(text), finding), NEW new \in Patched(AsRead(text), finding)
  PROVE  /\ new \in Texts /\ new = Intended(text, finding)
         /\ EditMade(new, AsRead(text), finding)
<1>1. new \in Texts /\ EditMade(new, AsRead(text), finding)
  BY PatchedMade
<1>2. PICK off : Laid(new, Wanted(text, finding), Len(text), off)
  BY <1>1, MadeIsLaid
<1>3. Wanted(text, finding) \in Seq(Seq(Lines)) /\ Len(Wanted(text, finding)) = Len(text)
  BY WantedRows
<1>4. FlattenSeq(Wanted(text, finding)) = new
  BY <1>1, <1>2, <1>3, LaidIsFlat DEF Texts
<1> QED
  BY <1>1, <1>4 DEF Intended, Wanted

(* What a template leaves of a row ends as the row does or in a newline.      *)
LEMMA RowWantedEnds ==
  ASSUME NEW row \in Lines, NEW finding \in Findings, finding.kind # "none",
         NEW k, NEW m \in 1 .. Len(RowWanted(row, finding, k))
  PROVE  \/ RowWanted(row, finding, k)[m].end = "lf"
         \/ /\ RowWanted(row, finding, k)[m].end = row.end
            /\ m = Len(RowWanted(row, finding, k))
<1> DEFINE rows == RowWanted(row, finding, k)
<1>1. finding.kind \in {"mutable_default_argument", "shared_mutable_class_attr",
                        "schema_key_mismatch"}
  BY DEF Findings, Kinds
<1>2. /\ NewLine("guard").end = "lf" /\ NewLine("self_attr").end = "lf"
      /\ NewLine("init").end = "lf"
      /\ WithBody(row, "default_none").end = row.end /\ WithBody(row, "new_key").end = row.end
  BY DEF NewLine, WithBody, Lines
<1>3. \/ rows = <<NewLine("guard"), row>>
      \/ rows = <<WithBody(row, "default_none")>>
      \/ rows = <<row>>
      \/ rows = <<NewLine("self_attr"), row>>
      \/ rows = <<NewLine("init"), NewLine("self_attr")>>
      \/ rows = <<>>
      \/ rows = <<WithBody(row, "new_key")>>
  BY <1>1 DEF RowWanted
<1>4. m \in 1 .. Len(rows)
  OBVIOUS
<1> HIDE DEF rows
<1>5. ASSUME NEW x, rows = <<x>>, x.end = row.end
      PROVE  rows[m].end = row.end /\ m = Len(rows)
  BY <1>4, <1>5
<1>6. ASSUME NEW x, NEW y, rows = <<x, y>>, x.end = "lf", y.end \in {"lf", row.end}
      PROVE  rows[m].end = "lf" \/ (rows[m].end = row.end /\ m = Len(rows))
  <2>1. Len(rows) = 2 /\ rows[1] = x /\ rows[2] = y
    BY <1>6
  <2>2. m = 1 \/ m = 2
    BY <1>4, <2>1
  <2> QED BY <1>6, <2>1, <2>2
<1>7. rows[m].end = "lf" \/ (rows[m].end = row.end /\ m = Len(rows))
  <2>1. CASE rows = <<NewLine("guard"), row>>
    BY <1>2, <1>6, <2>1
  <2>2. CASE rows = <<WithBody(row, "default_none")>>
    BY <1>2, <1>5, <2>2
  <2>3. CASE rows = <<row>>
    BY <1>2, <1>5, <2>3
  <2>4. CASE rows = <<NewLine("self_attr"), row>>
    BY <1>2, <1>6, <2>4
  <2>5. CASE rows = <<NewLine("init"), NewLine("self_attr")>>
    BY <1>2, <1>6, <2>5
  <2>6. CASE rows = <<>>
    BY <1>4, <2>6
  <2>7. CASE rows = <<WithBody(row, "new_key")>>
    BY <1>2, <1>5, <2>7
  <2> QED BY <1>3, <2>1, <2>2, <2>3, <2>4, <2>5, <2>6, <2>7
<1> QED
  BY <1>7 DEF rows

(* Only the last line of a file may have no end.                              *)
LastEnds(text) == \A k \in 1 .. Len(text) - 1 : text[k].end # "none"

(* Of the text that is intended, only the last line may have no end, and only *)
(* if the file had none at its end.                                           *)
LEMMA IntendedEnds ==
  ASSUME NEW text \in Texts, NoFormFeed(text), LastEnds(text),
         NEW finding \in Findings, finding.kind # "none",
         finding.at # finding.first, finding.begins = finding.first,
         NEW new \in Texts, new = Intended(text, finding), NEW n \in 1 .. Len(new)
  PROVE  /\ new[n].end \in {"lf", "none"}
         /\ new[n].end = "none" =>
              /\ n = Len(new)
              /\ Len(text) \in 1 .. Len(text) /\ text[Len(text)].end = "none"
<1> DEFINE now == AsRead(text)  N == Len(text)  rows == Wanted(text, finding)
<1>1. /\ Len(now) = N /\ N \in Nat /\ rows \in Seq(Seq(Lines)) /\ Len(rows) = N
      /\ \A k \in 1 .. N : rows[k] = RowWanted(now[k], finding, k)
      /\ Len(new) \in Nat
  BY WantedRows, LenProperties DEF Texts
<1>2. \A k \in 1 .. N : /\ now[k] \in Lines /\ now[k].end \in {"lf", "none"}
                        /\ now[k].end = "none" => text[k].end = "none"
  <2> TAKE k \in 1 .. N
  <2>1. k \in DOMAIN text /\ text[k] \in Lines
    BY LenProperties DEF Texts
  <2>2. now[k] = IF text[k].end = "crlf" THEN [text[k] EXCEPT !.end = "lf"] ELSE text[k]
    BY <2>1 DEF AsRead
  <2>3. text[k].end # "ff"
    BY <2>1 DEF NoFormFeed
  <2> HIDE DEF now
  <2> QED BY <2>1, <2>2, <2>3 DEF Lines
<1>3. new = FlattenSeq(rows)
  BY DEF Intended, Wanted
<1>4. PICK P, O : Places(P, O, rows, N, new)
  BY <1>1, <1>3, FlattenPlaces
<1> HIDE DEF now, N, rows
<1>5. /\ \A q \in 1 .. Len(new) :
           /\ P[q] \in 1 .. N /\ O[q] \in 1 .. Len(rows[P[q]])
           /\ new[q] = rows[P[q]][O[q]]
           /\ NextPlace(rows, P[q - 1], O[q - 1], P[q], O[q])
  BY <1>4 DEF Places
<1> DEFINE k == P[n]  m == O[n]
<1>6. k \in 1 .. N /\ m \in 1 .. Len(rows[k]) /\ new[n] = rows[k][m]
  BY <1>5
<1>7. new[n].end = "lf" \/ (new[n].end = now[k].end /\ m = Len(rows[k]))
  <2>1. rows[k] = RowWanted(now[k], finding, k) /\ now[k] \in Lines
    BY <1>1, <1>2, <1>6
  <2> HIDE DEF k, m
  <2> QED BY <1>6, <2>1, RowWantedEnds
<1>8. new[n].end \in {"lf", "none"}
  BY <1>2, <1>6, <1>7
<1>9. ASSUME new[n].end = "none"
      PROVE  n = Len(new) /\ N \in 1 .. N /\ text[N].end = "none"
  <2>1. m = Len(rows[k]) /\ text[k].end = "none"
    BY <1>2, <1>6, <1>7, <1>9
  <2>2. ~ (k \in 1 .. N - 1)
    BY <2>1 DEF LastEnds, N
  <2> HIDE DEF k, m
  <2>3. k = N /\ N \in 1 .. N
    BY <1>1, <1>6, <2>2
  <2>4. ASSUME n # Len(new) PROVE FALSE
    <3> DEFINE q == n + 1
    <3>1. q \in 1 .. Len(new) /\ q - 1 = n
      BY <1>1, <2>4
    <3> HIDE DEF q
    <3>2. P[q] \in 1 .. N /\ O[q] \in 1 .. Len(rows[P[q]]) /\ NextPlace(rows, k, m, P[q], O[q])
      BY <1>5, <3>1 DEF k, m
    <3>3. P[q] = k /\ O[q] = m + 1
      BY <1>1, <2>3, <3>2 DEF NextPlace
    <3>4. Len(rows[k]) \in Nat
      BY <1>1, <1>6, LenProperties
    <3> QED BY <1>6, <2>1, <3>2, <3>3, <3>4
  <2> QED BY <2>1, <2>3, <2>4
<1> QED
  BY <1>8, <1>9 DEF N

-----------------------------------------------------------------------------
(* In a legible generated diff, every added line ends in a newline.           *)

(* The places of pieces laid one behind the other.                            *)
LEMMA LaidBehind ==
  ASSUME NEW S, NEW lists, NEW N \in Nat, \A k \in 1 .. N : lists[k] \in Seq(S),
         NEW text, NEW off, Laid(text, lists, N, off),
         NEW k \in 1 .. N, NEW m \in 0 .. N, k <= m
  PROVE  off[k] \in Nat /\ off[m] \in Nat /\ off[k] <= off[m]
<1>1. \A q \in 1 .. N : /\ Len(lists[q]) \in Nat /\ off[q - 1] \in Nat
                        /\ off[q] = off[q - 1] + Len(lists[q])
  <2> SUFFICES ASSUME NEW q \in 1 .. N
               PROVE  /\ Len(lists[q]) \in Nat /\ off[q - 1] \in Nat
                      /\ off[q] = off[q - 1] + Len(lists[q])
    OBVIOUS
  <2>1. lists[q] \in Seq(S)
    OBVIOUS
  <2> QED BY <2>1, LenProperties DEF Laid
<1> DEFINE T == {p \in Nat : k + p \in 0 .. N => off[k + p] \in Nat /\ off[k] <= off[k + p]}
<1>2. off[k] \in Nat
  <2>1. Len(lists[k]) \in Nat /\ off[k - 1] \in Nat /\ off[k] = off[k - 1] + Len(lists[k])
    BY <1>1
  <2> QED BY <2>1
<1>3. 0 \in T
  BY <1>2
<1>4. ASSUME NEW p \in Nat, p \in T PROVE p + 1 \in T
  <2> DEFINE r == k + (p + 1)
  <2>1. SUFFICES ASSUME r \in 0 .. N PROVE off[r] \in Nat /\ off[k] <= off[r]
    OBVIOUS
  <2>2. r \in 1 .. N /\ r - 1 = k + p /\ k + p \in 0 .. N
    BY <2>1
  <2> HIDE DEF r
  <2>3. off[k + p] \in Nat /\ off[k] <= off[k + p]
    BY <1>4, <2>2
  <2>4. Len(lists[r]) \in Nat /\ off[r] = off[k + p] + Len(lists[r])
    BY <1>1, <2>2
  <2> QED BY <1>2, <2>3, <2>4
<1> HIDE DEF T
<1>5. Nat \subseteq T
  BY <1>3, <1>4, SetInduction
<1> DEFINE p == m - k
<1>6. p \in Nat /\ k + p = m
  OBVIOUS
<1> HIDE DEF p
<1>7. p \in T
  BY <1>5, <1>6
<1> QED
  BY <1>2, <1>6, <1>7 DEF T

(* Where the row of a shown entry is.                                         *)
RowsAt(script, off) ==
  \A k \in Shown(script) : /\ off[k] \in 1 .. Len(PrintedEntries(script))
                           /\ PrintedEntries(script)[off[k]].end = script[k].line.end
                           /\ \A m \in Shown(script) : k < m => off[k] < off[m]

(* A row is of a hunk, and ends in a newline, or of an entry that is shown,   *)
(* and ends as its line does.                                                 *)
RowsFrom(script, off) ==
  \A n \in 1 .. Len(PrintedEntries(script)) :
    /\ PrintedEntries(script)[n].line.tag # "---"
    /\ \/ PrintedEntries(script)[n].end = "lf"
       \/ \E k \in Shown(script) :
            off[k] = n /\ PrintedEntries(script)[n].line = EntryLine(script, k)

(* The n-th line of the lists laid one behind the other is of the k-th list.  *)
PlaceOf(text, lists, off, n, k) ==
  \E m \in 1 .. Len(lists[k]) :
    n = off[k - 1] + m /\ off[k - 1] \in Nat /\ text[n] = lists[k][m]

(* A place of lists laid one behind the other is a place of one of them.      *)
LEMMA LaidFrom ==
  ASSUME NEW S, NEW lists \in Seq(Seq(S)), NEW text, NEW off,
         Laid(text, lists, Len(lists), off), NEW n \in 1 .. Len(text)
  PROVE  \E k \in 1 .. Len(lists) : PlaceOf(text, lists, off, n, k)
<1> DEFINE N == Len(lists)
<1>1. N \in Nat /\ \A k \in 1 .. N : lists[k] \in Seq(S)
  BY LenProperties, ElementOfSeq
<1>2. Laid(text, lists, N, off)
  OBVIOUS
<1> HIDE DEF N
<1>3. \A q \in 1 .. N : /\ Len(lists[q]) \in Nat /\ off[q - 1] \in Nat
                        /\ off[q] = off[q - 1] + Len(lists[q])
  <2> SUFFICES ASSUME NEW q \in 1 .. N
               PROVE  /\ Len(lists[q]) \in Nat /\ off[q - 1] \in Nat
                      /\ off[q] = off[q - 1] + Len(lists[q])
    OBVIOUS
  <2>1. lists[q] \in Seq(S)
    BY <1>1
  <2> QED BY <1>2, <2>1, LenProperties DEF Laid
<1> DEFINE T == {q \in 0 .. N : n <= off[q]}
<1>4. off[0] = 0 /\ Len(text) = off[N]
  BY <1>2 DEF Laid
<1>5. N \in T /\ T \in SUBSET Nat
  BY <1>1, <1>4
<1>6. PICK k \in T : \A q \in T : k <= q
  BY <1>5, LeastNumber
<1>7. k \in 1 .. N /\ n <= off[k]
  BY <1>1, <1>4, <1>6
<1>8. k - 1 \in 0 .. N /\ k - 1 \notin T
  BY <1>1, <1>6, <1>7
<1>9. off[k - 1] \in Nat /\ ~ (n <= off[k - 1]) /\ Len(lists[k]) \in Nat
      /\ off[k] = off[k - 1] + Len(lists[k])
  BY <1>3, <1>7, <1>8
<1> HIDE DEF T
<1> DEFINE m == n - off[k - 1]
<1>10. m \in 1 .. Len(lists[k]) /\ n = off[k - 1] + m
  BY <1>7, <1>9
<1> HIDE DEF m
<1>11. text[off[k - 1] + m] = lists[k][m]
  BY <1>2, <1>7, <1>10 DEF Laid
<1> QED
  BY <1>7, <1>9, <1>10, <1>11 DEF PlaceOf, N

(* Every entry that is shown has a row of its own, in their order.            *)
LEMMA EntriesHaveRows ==
  ASSUME NEW script \in Seq(Entries)
  PROVE  \E off : RowsAt(script, off) /\ RowsFrom(script, off)
<1> DEFINE rows == PrintedEntries(script)  pieces == PrintedPieces(script)  N == Len(script)
<1>1. /\ pieces \in Seq(Seq(Ended)) /\ Len(pieces) = N /\ rows = FlattenSeq(pieces)
      /\ rows \in Seq(Ended) /\ N \in Nat /\ DOMAIN script = 1 .. N /\ DOMAIN pieces = 1 .. N
  BY PiecesPrinted, LenProperties
<1>2. PICK off : Laid(rows, pieces, N, off)
  BY <1>1, FlattenLays
<1>3. \A k \in 1 .. N : pieces[k] \in Seq(Ended) /\ pieces[k] = PrintedEntry(script, k)
  BY <1>1 DEF PrintedPieces
<1> HIDE DEF rows, pieces
<1>4. ASSUME NEW k \in Shown(script)
      PROVE  /\ k \in 1 .. N /\ off[k - 1] \in Nat /\ off[k] \in Nat /\ off[k - 1] < off[k]
             /\ rows[off[k]].end = script[k].line.end
  <2>1. k \in 1 .. N /\ k \in DOMAIN script
    BY <1>1 DEF Shown
  <2> DEFINE m == Len(pieces[k])
  <2>2. m \in {1, 2} /\ pieces[k][m].end = script[k].line.end
    BY <1>3, <2>1, EntryPrinted
  <2>3. off[k - 1] \in Nat /\ off[k] = off[k - 1] + m
        /\ \A q \in 1 .. m : rows[off[k - 1] + q] = pieces[k][q]
    BY <1>2, <2>1 DEF Laid
  <2> HIDE DEF m
  <2>4. m \in 1 .. m
    BY <2>2
  <2>5. rows[off[k]] = pieces[k][m]
    BY <2>3, <2>4
  <2> QED BY <2>1, <2>2, <2>3, <2>5
<1>5. Len(rows) = off[N]
  BY <1>2 DEF Laid
<1>6. \A k \in 1 .. N : \A m \in 0 .. N : k <= m =>
        off[k] \in Nat /\ off[m] \in Nat /\ off[k] <= off[m]
  BY <1>1, <1>2, <1>3, LaidBehind
<1>7. ASSUME NEW k \in Shown(script)
      PROVE  off[k] \in 1 .. Len(rows)
  <2>1. N \in 0 .. N /\ k <= N
    BY <1>1, <1>4
  <2> QED BY <1>4, <1>5, <1>6, <2>1
<1>8. ASSUME NEW k \in Shown(script), NEW m \in Shown(script), k < m
      PROVE  off[k] < off[m]
  <2> DEFINE q == m - 1
  <2>1. q \in 0 .. N /\ k <= q
    BY <1>4, <1>8
  <2>2. off[q] \in Nat /\ off[q] < off[m]
    BY <1>4
  <2> HIDE DEF q
  <2> QED BY <1>4, <1>6, <2>1, <2>2
<1>9. ASSUME NEW n \in 1 .. Len(rows)
      PROVE  /\ rows[n].line.tag # "---"
             /\ \/ rows[n].end = "lf"
                \/ \E k \in Shown(script) : off[k] = n /\ rows[n].line = EntryLine(script, k)
  <2>1. PICK k \in 1 .. N : PlaceOf(rows, pieces, off, n, k)
    <3>1. Laid(rows, pieces, Len(pieces), off)
      BY <1>1, <1>2
    <3>2. \E k \in 1 .. Len(pieces) : PlaceOf(rows, pieces, off, n, k)
      BY <1>1, <3>1, LaidFrom
    <3> QED BY <1>1, <3>2
  <2>2. PICK m \in 1 .. Len(pieces[k]) :
          n = off[k - 1] + m /\ off[k - 1] \in Nat /\ rows[n] = pieces[k][m]
    BY <2>1 DEF PlaceOf
  <2>3. k \in DOMAIN script /\ off[k] = off[k - 1] + Len(pieces[k])
    BY <1>1, <1>2 DEF Laid
  <2> DEFINE piece == PrintedEntry(script, k)
  <2>4. /\ k \notin Shown(script) => piece = <<>>
        /\ k \in Shown(script) =>
             /\ Len(piece) \in {1, 2} /\ piece[Len(piece)].line = EntryLine(script, k)
             /\ Len(piece) = 2 => IsLine(piece[1], HunkAt(HunkStart(script, k)))
    BY <2>3, EntryPrinted
  <2>5. pieces[k] = piece
    BY <1>3
  <2> HIDE DEF piece
  <2>6. k \in Shown(script)
    BY <2>2, <2>4, <2>5
  <2>7. CASE m = Len(piece)
    <3>1. rows[n].line = EntryLine(script, k) /\ off[k] = n
      BY <2>2, <2>3, <2>4, <2>5, <2>6, <2>7
    <3>2. script[k].tag \in {"kept", "-", "+"}
      <4>1. script[k] \in Entries
        BY <2>3
      <4> QED BY <4>1 DEF Entries
    <3> QED BY <2>6, <3>1, <3>2 DEF EntryLine, Body, Blank
  <2>8. CASE m # Len(piece)
    <3>1. m = 1 /\ Len(piece) = 2
      BY <2>4, <2>5, <2>6, <2>8
    <3> QED BY <2>2, <2>4, <2>5, <2>6, <3>1 DEF IsLine, HunkAt, Blank
  <2> QED BY <2>7, <2>8
<1>10. RowsAt(script, off)
  BY <1>4, <1>7, <1>8 DEF RowsAt, rows
<1>11. RowsFrom(script, off)
  BY <1>9 DEF RowsFrom, rows
<1> QED
  BY <1>10, <1>11

(* A job of one edit that the generator made.                                 *)
OneEdit(j, script) ==
  /\ WellFormed(j) /\ j.form = "printed" /\ j.finding.kind # "none"
  /\ j.edits # <<>> /\ Len(j.edits) = 1 /\ j.edits[1].script = script

(* The lines of its diff are the headers and the rows of the edit.            *)
LEMMA OneJoined ==
  ASSUME NEW j, NEW script \in Seq(Entries), OneEdit(j, script), Shown(script) # {}
  PROVE  /\ Len(PrintedEntries(script)) \in Nat \ {0} /\ j.edits[1].path \in Paths
         /\ Joined(j) \in Seq(Ended) /\ Len(Joined(j)) = 2 + Len(PrintedEntries(script))
         /\ DOMAIN Joined(j) = 1 .. Len(Joined(j))
         /\ IsLine(Joined(j)[1], Header("---", j.edits[1].path))
         /\ IsLine(Joined(j)[2], Header("+++", j.edits[1].path))
         /\ \A r \in 1 .. Len(PrintedEntries(script)) :
              Joined(j)[2 + r] = PrintedEntries(script)[r]
<1> DEFINE N == Len(PrintedEntries(script))  part == Part(j, 1)
<1>1. 1 \in DOMAIN j.edits /\ DOMAIN j.edits = 1 .. 1
  BY LenProperties DEF OneEdit, WellFormed
<1>2. ShowsAll(j)
  BY <1>1 DEF ShowsAll, OneEdit
<1>3. /\ N \in Nat \ {0} /\ Parts(j)[1] = part /\ part \in Seq(Ended)
      /\ Ahead(j) = 2 /\ Len(part) = 2 + N /\ j.edits[1].path \in Paths
  BY <1>1, <1>2, PartLength DEF OneEdit, Lead, Trail
<1>4. /\ \A r \in 1 .. N : part[2 + r] = PrintedEntries(script)[r]
      /\ IsLine(part[1], Header("---", j.edits[1].path))
      /\ IsLine(part[2], Header("+++", j.edits[1].path))
  <2>1. PartIs(j, 1)
    BY <1>1, <1>2, PartShape DEF ShowsAll, OneEdit
  <2> QED BY <2>1 DEF PartIs, OneEdit, Lead, Rows
<1>5. Parts(j) \in Seq(Seq(Ended)) /\ Len(Parts(j)) = 1
  BY <1>1, <1>3 DEF Parts
<1>6. Joined(j) = FlattenSeq(Parts(j))
  BY DEF Joined, Parts
<1> HIDE DEF N, part
<1>7. Len(Joined(j)) = 2 + N /\ \A r \in 1 .. 2 + N : Joined(j)[r] = part[r]
  <2>1. PICK off : Laid(Joined(j), Parts(j), 1, off)
    BY <1>5, <1>6, FlattenLays
  <2>2. 1 \in 1 .. 1 /\ 1 - 1 = 0
    OBVIOUS
  <2>3. off[0] = 0 /\ Len(Joined(j)) = off[1] /\ off[1] = off[0] + Len(part)
        /\ \A r \in 1 .. Len(part) : Joined(j)[off[0] + r] = part[r]
    BY <1>3, <2>1, <2>2 DEF Laid
  <2>4. off[1] = 2 + N
    BY <1>3, <2>3
  <2>5. ASSUME NEW r \in 1 .. 2 + N PROVE Joined(j)[r] = part[r]
    <3>1. off[0] + r = r
      BY <1>3, <2>3
    <3> QED BY <1>3, <2>3, <3>1
  <2> QED BY <2>3, <2>4, <2>5
<1>8. Joined(j) \in Seq(Ended) /\ DOMAIN Joined(j) = 1 .. Len(Joined(j))
  BY <1>2, JoinedLines DEF OneEdit
<1>9. 1 \in 1 .. 2 + N /\ 2 \in 1 .. 2 + N
  BY <1>3
<1>10. \A r \in 1 .. N : Joined(j)[2 + r] = part[2 + r]
  BY <1>3, <1>7
<1> QED
  BY <1>3, <1>4, <1>7, <1>8, <1>9, <1>10 DEF N

(* Of an edit that shows nothing, nothing is printed.                         *)
LEMMA NothingJoined ==
  ASSUME NEW j, NEW script \in Seq(Entries), OneEdit(j, script), Shown(script) = {}
  PROVE  DiffOf(j) = <<>>
<1>1. 1 \in DOMAIN j.edits /\ DOMAIN j.edits = 1 .. 1
  BY LenProperties DEF OneEdit, WellFormed
<1>2. Part(j, 1) = <<>>
  <2>1. Printed(j.edits[1].path, script) = <<>>
    BY DEF Printed
  <2>2. Part(j, 1) = <<>> \o <<>>
    BY <2>1 DEF Part, OneEdit
  <2> QED BY <2>2
<1>3. Parts(j) \in Seq(Seq(Ended)) /\ Len(Parts(j)) = 1 /\ Parts(j)[1] = <<>>
  <2>1. <<>> \in Seq(Ended)
    OBVIOUS
  <2>2. \A k \in 1 .. 1 : Part(j, k) = <<>>
    BY <1>2
  <2>3. Parts(j) = [k \in 1 .. 1 |-> <<>>]
    BY <1>1, <2>2 DEF Parts
  <2> QED BY <2>1, <2>3
<1>4. Joined(j) = FlattenSeq(Parts(j))
  BY DEF Joined, Parts
<1>5. Joined(j) \in Seq(Ended)
  BY <1>3, <1>4, FlattenElements
<1>6. PICK off : Laid(Joined(j), Parts(j), 1, off)
  BY <1>3, <1>4, FlattenLays
<1>7. Len(Joined(j)) = 0
  <2>1. 1 \in 1 .. 1 /\ 1 - 1 = 0
    OBVIOUS
  <2>2. off[0] = 0 /\ Len(Joined(j)) = off[1] /\ off[1] = off[0] + Len(Parts(j)[1])
    BY <1>6, <2>1 DEF Laid
  <2> QED BY <1>3, <2>2
<1>8. Joined(j) = <<>>
  BY <1>5, <1>7, LenProperties, EmptySeq
<1> DEFINE lines == Joined(j)
<1>9. \A n \in DOMAIN lines : n < Len(lines) => lines[n].end # "none"
  BY <1>8
<1>10. DiffOf(j) = [n \in DOMAIN lines |-> lines[n].line]
  BY <1>5, <1>9, SplitLines DEF DiffOf
<1> QED
  BY <1>8, <1>10

(* In its diff, if legible, the row of one entry only may have no end.        *)
LEMMA OneUnended ==
  ASSUME NEW j, NEW script \in Seq(Entries), OneEdit(j, script), Legible(j),
         NEW k \in Shown(script), NEW m \in Shown(script),
         script[k].line.end = "none", script[m].line.end = "none"
  PROVE  k = m
<1> DEFINE N == Len(PrintedEntries(script))
<1>1. /\ N \in Nat \ {0} /\ Len(Joined(j)) = 2 + N /\ DOMAIN Joined(j) = 1 .. 2 + N
      /\ \A r \in 1 .. N : Joined(j)[2 + r] = PrintedEntries(script)[r]
  BY OneJoined
<1> HIDE DEF N
<1>2. \A r \in 1 .. N : PrintedEntries(script)[r].end = "none" => r = N
  <2> SUFFICES ASSUME NEW r \in 1 .. N, PrintedEntries(script)[r].end = "none", r # N
               PROVE  FALSE
    OBVIOUS
  <2> DEFINE q == 2 + r
  <2>1. q \in 1 .. 2 + N /\ q < 2 + N /\ Joined(j)[q] = PrintedEntries(script)[r]
    BY <1>1
  <2> HIDE DEF q
  <2>2. Joined(j)[q].end = "none" /\ q \in DOMAIN Joined(j) /\ q < Len(Joined(j))
    BY <1>1, <2>1
  <2> QED BY <2>2 DEF Legible
<1>3. PICK off : RowsAt(script, off)
  BY EntriesHaveRows
<1>4. off[k] = N /\ off[m] = N
  BY <1>2, <1>3 DEF RowsAt, N
<1>5. ~ (k < m) /\ ~ (m < k)
  BY <1>1, <1>3, <1>4 DEF RowsAt
<1>6. k \in Nat /\ m \in Nat
  BY LenProperties DEF Shown
<1> QED
  BY <1>5, <1>6

(* The texts a generated edit begins and ends with: only the last line of     *)
(* either may have no end, that of the new one only if that of the old has.   *)
EndsKnown(text, new) ==
  \A n \in 1 .. Len(new) :
    /\ new[n].end \in {"lf", "none"}
    /\ new[n].end = "none" =>
         /\ n = Len(new)
         /\ Len(text) \in 1 .. Len(text) /\ text[Len(text)].end = "none"

(* An old line of a text is an entry of its script.                           *)
LEMMA OldTextFrom ==
  ASSUME NEW script \in Seq(Entries), NEW n \in 1 .. Len(OldText(script))
  PROVE  \E k \in DOMAIN script : script[k].tag # "+" /\ OldText(script)[n] = script[k].line
<1> DEFINE places == {k \in DOMAIN script : script[k].tag # "+"}
           old == Kept(script, places)
<1>1. places \subseteq DOMAIN script
  OBVIOUS
<1>2. OldText(script) = [m \in DOMAIN old |-> old[m].line]
  BY DEF OldText
<1> HIDE DEF places
<1>3. old \in Seq(Entries) /\ DOMAIN old = 1 .. Len(old) /\ Len(old) \in Nat
  BY <1>1, KeptElements, LenProperties
<1>4. \A m \in DOMAIN old : \E k \in places : old[m] = script[k]
  BY <1>1, KeptFrom
<1> HIDE DEF old
<1>5. n \in DOMAIN old
  BY <1>2, <1>3
<1>6. PICK k \in places : old[n] = script[k]
  BY <1>4, <1>5
<1> QED
  BY <1>1, <1>2, <1>5, <1>6 DEF places

(* A change is always shown.                                                  *)
LEMMA ChangesShown ==
  ASSUME NEW script \in Seq(Entries), NEW k \in DOMAIN script, script[k].tag # "kept"
  PROVE  k \in Shown(script)
<1>1. k \in Nat
  BY LenProperties
<1>2. k \in (k - Context) .. (k + Context)
  BY <1>1, ContextAssumption
<1> QED
  BY <1>2 DEF Shown

(* The lines of the new text come from entries that are kept or added, all of *)
(* them, in their order.                                                      *)
NewFrom(script, at) ==
  LET new == NewText(script)
  IN  /\ Len(new) \in Nat
      /\ \A q \in 1 .. Len(new) : at[q] \in DOMAIN script /\ new[q] = script[at[q]].line
      /\ \A m \in DOMAIN script : script[m].tag # "-" => \E q \in 1 .. Len(new) : at[q] = m
      /\ \A p, q \in 1 .. Len(new) : p < q => at[p] < at[q]

(* Each of them has its own.                                                  *)
LEMMA NewTextFrom ==
  ASSUME NEW script \in Seq(Entries)
  PROVE  \E at : NewFrom(script, at)
<1> DEFINE places == {m \in DOMAIN script : script[m].tag # "-"}
           kept == Kept(script, places)  new == NewText(script)
<1>1. places \subseteq DOMAIN script
  OBVIOUS
<1>2. new = [m \in DOMAIN kept |-> kept[m].line]
  BY DEF NewText
<1> HIDE DEF places, new
<1> DEFINE at == InOrder(places, <)  C == Cardinality(places)
<1>3. /\ C \in Nat /\ at \in [1 .. C -> places]
      /\ \A x \in places : \E q \in 1 .. C : at[q] = x
      /\ \A p, q \in 1 .. C : p < q => at[p] < at[q]
  BY <1>1, PlacesInOrder
<1> HIDE DEF C
<1>4. kept = [q \in 1 .. C |-> script[at[q]]]
  BY <1>3 DEF Kept
<1> HIDE DEF at, kept
<1>5. Len(new) = C /\ \A q \in 1 .. C : new[q] = script[at[q]].line
  BY <1>2, <1>3, <1>4
<1>6. \A q \in 1 .. C : at[q] \in DOMAIN script
  BY <1>1, <1>3
<1>7. \A m \in DOMAIN script : script[m].tag # "-" => \E q \in 1 .. C : at[q] = m
  BY <1>3 DEF places
<1> QED
  BY <1>3, <1>5, <1>6, <1>7 DEF NewFrom, new

(* If a generated edit adds a line without an end, it is the last of the new  *)
(* text, and stands for one of the old.                                       *)
LEMMA AddedLast ==
  ASSUME NEW script \in Seq(Entries), NEW text \in Texts, OldText(script) = AsRead(text),
         EndsKnown(text, NewText(script)),
         NEW k \in DOMAIN script, script[k].tag = "+", script[k].line.end # "lf"
  PROVE  /\ script[k].line.end = "none"
         /\ \A q \in DOMAIN script : k < q => script[q].tag = "-"
         /\ \E m \in DOMAIN script : script[m].tag = "-" /\ script[m].line.end = "none"
<1> DEFINE new == NewText(script)  N == Len(text)  now == AsRead(text)  L == Len(new)
<1>1. PICK at : NewFrom(script, at)
  BY NewTextFrom
<1>2. /\ L \in Nat
      /\ \A q \in 1 .. L : at[q] \in DOMAIN script /\ new[q] = script[at[q]].line
      /\ \A m \in DOMAIN script : script[m].tag # "-" => \E q \in 1 .. L : at[q] = m
      /\ \A p, q \in 1 .. L : p < q => at[p] < at[q]
  BY <1>1 DEF NewFrom
<1>3. /\ DOMAIN script \subseteq Nat
      /\ \A q \in 1 .. L : new[q].end = "none" =>
           q = L /\ N \in 1 .. N /\ text[N].end = "none"
      /\ \A q \in 1 .. L : new[q].end \in {"lf", "none"}
  BY LenProperties DEF EndsKnown
<1> HIDE DEF new, L, N
<1>4. PICK a \in 1 .. L : at[a] = k
  BY <1>2
<1>5. new[a] = script[k].line
  BY <1>2, <1>4
<1>6. /\ script[k].line.end = "none" /\ a = L
      /\ N \in 1 .. N /\ text[N].end = "none"
  BY <1>3, <1>5
<1>7. ASSUME NEW q \in DOMAIN script, k < q, script[q].tag # "-" PROVE FALSE
  <2>1. PICK b \in 1 .. L : at[b] = q
    BY <1>2, <1>7
  <2>2. b = a \/ b < a
    BY <1>2, <1>6
  <2>3. q = k \/ q < k
    BY <1>2, <1>4, <2>1, <2>2
  <2> QED BY <1>3, <1>7, <2>3
<1>8. N \in Nat /\ DOMAIN text = 1 .. N
  BY LenProperties DEF Texts, N
<1>9. Len(now) = N /\ now[N] = text[N]
  BY <1>6, <1>8 DEF AsRead
<1>10. PICK m \in DOMAIN script : script[m].tag # "+" /\ now[N] = script[m].line
  BY <1>6, <1>9, OldTextFrom
<1>11. script[m].line.end = "none"
  BY <1>6, <1>9, <1>10
<1>12. script[m].tag \in {"kept", "-"}
  <2>1. script[m] \in Entries
    OBVIOUS
  <2> QED BY <1>10, <2>1 DEF Entries
<1>13. CASE script[m].tag = "kept"
  <2>1. PICK b \in 1 .. L : at[b] = m
    BY <1>2, <1>13
  <2>2. new[b].end = "none"
    BY <1>2, <1>11, <2>1
  <2>3. b = a
    BY <1>3, <1>6, <2>2
  <2> QED BY <1>4, <1>13, <2>1, <2>3
<1> QED
  BY <1>6, <1>7, <1>11, <1>12, <1>13

(* So a line that a legible generated diff adds ends in a newline: the rows   *)
(* of that line and of the old one would run together.                        *)
LEMMA AddedEnds ==
  ASSUME NEW j, NEW script \in Seq(Entries), OneEdit(j, script), Legible(j),
         NEW text \in Texts, OldText(script) = AsRead(text), EndsKnown(text, NewText(script)),
         NEW k \in DOMAIN script, script[k].tag = "+"
  PROVE  script[k].line.end = "lf"
<1> SUFFICES ASSUME script[k].line.end # "lf" PROVE FALSE
  OBVIOUS
<1>1. /\ script[k].line.end = "none"
      /\ \E m \in DOMAIN script : script[m].tag = "-" /\ script[m].line.end = "none"
  BY AddedLast
<1>2. PICK m \in DOMAIN script : script[m].tag = "-" /\ script[m].line.end = "none"
  BY <1>1
<1>3. k \in Shown(script) /\ m \in Shown(script)
  BY <1>2, ChangesShown
<1>4. k = m
  BY <1>1, <1>2, <1>3, OneUnended
<1> QED
  BY <1>2, <1>4

-----------------------------------------------------------------------------
(* In an illegible one, a kept or deleted line runs together with the next.   *)

(* The last line of the new text is not added before lines are deleted.       *)
Ordered(script) ==
  \A k, m \in DOMAIN script : k < m /\ script[k].tag = "+" /\ script[m].tag = "-" =>
    \E q \in DOMAIN script : k < q /\ script[q].tag # "-"

(* It is not when each change deletes before it adds.                         *)
LEMMA AlignsOrdered ==
  ASSUME NEW script, NEW old, NEW new, Aligns(script, old, new)
  PROVE  Ordered(script)
<1>1. DOMAIN script = 1 .. Len(script) /\ Len(script) \in Nat
  BY LenProperties DEF Aligns
<1> SUFFICES ASSUME NEW k \in DOMAIN script, NEW m \in DOMAIN script, k < m,
                    script[k].tag = "+", \A q \in DOMAIN script : k < q => script[q].tag = "-"
             PROVE  FALSE
  BY DEF Ordered
<1> DEFINE q == k + 1
<1>2. q \in DOMAIN script /\ q > 1 /\ k < q /\ q - 1 = k
  BY <1>1
<1> HIDE DEF q
<1>3. script[q].tag = "-"
  BY <1>2
<1> QED
  BY <1>2, <1>3 DEF Aligns

(* A line that runs together with the one behind it.                          *)
GluedLine(line) == Body(line.tag, Glued[line.body])

(* The lines before the first that has no end are read as they are, that one  *)
(* with the one behind it; the third and those behind it from no line before. *)
LEMMA SplitFirst ==
  ASSUME NEW text \in Seq(Ended), NEW k \in 1 .. Len(text), k < Len(text),
         text[k].end = "none", \A m \in 1 .. k - 1 : text[m].end # "none"
  PROVE  /\ Split(text) \in Seq(DiffLines) /\ k \in 1 .. Len(Split(text))
         /\ \A m \in 1 .. k - 1 : Split(text)[m] = text[m].line
         /\ Split(text)[k] = GluedLine(text[k].line)
         /\ \A n \in 3 .. Len(Split(text)) : \E m \in 3 .. Len(text) :
              Split(text)[n] = text[m].line \/ Split(text)[n] = GluedLine(text[m].line)
<1> DEFINE L == Len(text)
           places == {m \in DOMAIN text : m = 1 \/ text[m - 1].end # "none"}
           Read(m) == IF text[m].end = "none" /\ m < L THEN GluedLine(text[m].line)
                      ELSE text[m].line
           list == [m \in 1 .. L |-> Read(m)]
<1>1. L \in Nat /\ DOMAIN text = 1 .. L /\ \A m \in 1 .. L : text[m] \in Ended
  BY LenProperties, ElementOfSeq
<1>2. list \in Seq(DiffLines) /\ DOMAIN list = 1 .. L
  <2>1. \A m \in 1 .. L : Read(m) \in DiffLines
    <3> SUFFICES ASSUME NEW m \in 1 .. L PROVE Read(m) \in DiffLines
      OBVIOUS
    <3>1. text[m].line \in DiffLines
      BY <1>1 DEF Ended
    <3> DEFINE line == text[m].line
    <3>2. line.tag \in {"---", "+++", "@@", "kept", "-", "+", "blank", "noise"}
          /\ line.body \in Bodies
      BY <3>1 DEF DiffLines
    <3> HIDE DEF line
    <3>3. GluedLine(line) \in DiffLines
      BY <3>2, LinesOfDiffs, GluedAssumption DEF GluedLine
    <3> QED BY <3>1, <3>3 DEF line
  <2> HIDE DEF Read
  <2> QED BY <1>1, <2>1
<1>3. places \subseteq DOMAIN list
  BY <1>1, <1>2
<1>4. Split(text) = Kept(list, places)
  <2> DEFINE begins == InOrder(places, <)
             ReadAs(m) == IF text[m].end = "none" /\ m < Len(text)
                          THEN Body(text[m].line.tag, Glued[text[m].line.body])
                          ELSE text[m].line
  <2>1. Split(text) = [n \in DOMAIN begins |-> ReadAs(begins[n])]
    BY DEF Split
  <2>2. Kept(list, places) = [n \in DOMAIN begins |-> list[begins[n]]]
    BY DEF Kept
  <2>3. \A n \in DOMAIN begins : begins[n] \in places
    <3> HIDE DEF places, list
    <3>2. begins \in [1 .. Cardinality(places) -> places]
      BY <1>2, <1>3, PlacesInOrder
    <3> QED BY <3>2
  <2>4. \A m \in 1 .. L : list[m] = ReadAs(m)
    BY DEF GluedLine
  <2>5. \A n \in DOMAIN begins : list[begins[n]] = ReadAs(begins[n])
    BY <1>2, <1>3, <2>3, <2>4
  <2> HIDE DEF begins, list, ReadAs
  <2> QED BY <2>1, <2>2, <2>5
<1>5. 1 .. k \subseteq places
  <2> SUFFICES ASSUME NEW m \in 1 .. k, m # 1 PROVE text[m - 1].end # "none"
    BY <1>1
  <2>1. m - 1 \in 1 .. k - 1
    OBVIOUS
  <2> QED BY <2>1
<1> DEFINE kept == Kept(list, places)
<1>6. ASSUME NEW m \in 1 .. k PROVE m \in DOMAIN kept /\ kept[m] = list[m]
  <2> DEFINE ahead == {y \in places : y < m}
  <2>1. ahead = 1 .. m - 1
    BY <1>1, <1>5
  <2>2. Cardinality(1 .. m - 1) = m - 1
    BY FS_Interval
  <2>3. m \in places
    BY <1>5
  <2> HIDE DEF list, places
  <2>4. 1 + Cardinality(ahead) \in DOMAIN kept /\ kept[1 + Cardinality(ahead)] = list[m]
    BY <1>2, <1>3, <2>3, KeptAt
  <2> HIDE DEF ahead, kept
  <2> QED BY <2>1, <2>2, <2>4
<1>7. kept \in Seq(DiffLines) /\ DOMAIN kept = 1 .. Len(kept) /\ Len(kept) \in Nat
  <2> HIDE DEF list, places
  <2> QED BY <1>2, <1>3, KeptElements, LenProperties
<1>8. \A n \in 3 .. Len(kept) : \E m \in 3 .. L : kept[n] = list[m]
  <2> HIDE DEF list, places, L, Read, kept
  <2> DEFINE at == InOrder(places, <)
             N == Cardinality(places)
  <2>0. /\ N \in Nat /\ at \in [1 .. N -> places]
        /\ \A q, p \in 1 .. N : q < p => at[q] < at[p]
    BY <1>2, <1>3, PlacesInOrder
  <2> HIDE DEF N
  <2>1. kept = [q \in 1 .. N |-> list[at[q]]]
    BY <2>0 DEF kept, Kept
  <2> HIDE DEF at
  <2> TAKE n \in 3 .. Len(kept)
  <2>6. at \in [DOMAIN kept -> places] /\ kept[n] = list[at[n]] /\ DOMAIN kept = 1 .. N
    BY <1>7, <2>0, <2>1
  <2> HIDE DEF kept
  <2>2. 1 \in DOMAIN kept /\ 2 \in DOMAIN kept /\ n \in DOMAIN kept
    BY <1>7
  <2>3. at[1] \in 1 .. L /\ at[2] \in 1 .. L /\ at[n] \in 1 .. L
    BY <1>2, <1>3, <2>2, <2>6
  <2>4. at[1] < at[2] /\ at[2] < at[n]
    BY <2>0, <2>2, <2>6
  <2>5. at[n] \in 3 .. L
    BY <1>1, <2>3, <2>4
  <2> QED BY <2>5, <2>6
<1>9. \A m \in 1 .. L : list[m] = text[m].line \/ list[m] = GluedLine(text[m].line)
  OBVIOUS
<1>10. list[k] = GluedLine(text[k].line) /\ \A m \in 1 .. k - 1 : list[m] = text[m].line
  OBVIOUS
<1> HIDE DEF list, places
<1>11. k \in DOMAIN kept /\ kept[k] = GluedLine(text[k].line)
  <2>1. k \in 1 .. k
    OBVIOUS
  <2> QED BY <1>6, <1>10, <2>1
<1>12. \A m \in 1 .. k - 1 : kept[m] = text[m].line
  <2>1. \A m \in 1 .. k - 1 : m \in 1 .. k
    OBVIOUS
  <2> QED BY <1>6, <1>10, <2>1
<1>13. \A n \in 3 .. Len(kept) : \E m \in 3 .. L :
         kept[n] = text[m].line \/ kept[n] = GluedLine(text[m].line)
  <2>1. \A m \in 3 .. L : m \in 1 .. L
    OBVIOUS
  <2> QED BY <1>8, <1>9, <2>1
<1> HIDE DEF kept
<1> QED
  BY <1>4, <1>7, <1>11, <1>12, <1>13 DEF kept

(* The diff has one file's headers and hunks, with lines run together where   *)
(* a kept or deleted line is due, its n-th line, and no header of another.    *)
GluedAt(d, n) ==
  /\ n \in 4 .. Len(d)
  /\ d[1].tag = "---" /\ d[2].tag = "+++" /\ d[3].tag = "@@"
  /\ \A m \in 4 .. Len(d) - 1 : IsOldHeader(d[m]) /\ IsNewHeader(d[m + 1]) =>
       d[m + 1].path = NoPath
  /\ d[n].tag \in {"kept", "-"} /\ d[n].body \in Range(Glued)

(* A generated diff that shows something is legible, or it is of no use: the  *)
(* lines that run together begin with one that is kept or deleted.            *)
LEMMA IllegibleIsGlued ==
  ASSUME NEW j, NEW script \in Seq(Entries), OneEdit(j, script), Shown(script) # {},
         ~ Legible(j), ~ FalseHeader(j), Ordered(script),
         NEW text \in Texts, OldText(script) = AsRead(text), EndsKnown(text, NewText(script))
  PROVE  \E n \in Nat : GluedAt(DiffOf(j), n)
<1> DEFINE N == Len(PrintedEntries(script))  rows == PrintedEntries(script)
           lines == Joined(j)  d == DiffOf(j)
<1>1. /\ N \in Nat \ {0} /\ lines \in Seq(Ended) /\ Len(lines) = 2 + N
      /\ DOMAIN lines = 1 .. 2 + N
      /\ IsLine(lines[1], Header("---", j.edits[1].path))
      /\ IsLine(lines[2], Header("+++", j.edits[1].path))
      /\ \A r \in 1 .. N : lines[2 + r] = rows[r]
  BY OneJoined
<1>2. PICK off : RowsAt(script, off) /\ RowsFrom(script, off)
  BY EntriesHaveRows
<1>3. PICK start \in Nat : rows[1].line = HunkAt(start)
  BY FirstRow
<1>4. \E n \in DOMAIN lines : n < Len(lines) /\ lines[n].end = "none"
  <2>1. DOMAIN j.edits = {1}
    BY LenProperties DEF OneEdit, WellFormed
  <2>2. \A k \in DOMAIN j.edits : Shown(j.edits[k].script) # {}
    BY <2>1 DEF OneEdit
  <2> QED BY <2>2 DEF Legible
<1> HIDE DEF N, rows, lines, d
<1> DEFINE T == {r \in 1 .. N : r < N /\ rows[r].end = "none"}
<1>5. T \in SUBSET Nat /\ T # {}
  <2>1. PICK n \in 1 .. 2 + N : n < 2 + N /\ lines[n].end = "none"
    BY <1>1, <1>4
  <2>2. n # 1 /\ n # 2
    BY <1>1, <2>1 DEF IsLine
  <2> DEFINE r == n - 2
  <2>3. r \in 1 .. N /\ r < N /\ 2 + r = n
    BY <1>1, <2>1, <2>2
  <2> HIDE DEF r
  <2>4. rows[r].end = "none"
    BY <1>1, <2>1, <2>3
  <2> QED BY <2>3, <2>4
<1>6. PICK r \in T : \A q \in T : r <= q
  BY <1>5, LeastNumber
<1>7. r \in 1 .. N /\ r < N /\ rows[r].end = "none"
  OBVIOUS
<1>8. \A q \in 1 .. r - 1 : rows[q].end # "none"
  <2> SUFFICES ASSUME NEW q \in 1 .. r - 1, rows[q].end = "none" PROVE FALSE
    OBVIOUS
  <2>1. q \in T
    BY <1>1, <1>7
  <2> QED BY <1>6, <1>7, <2>1
<1> HIDE DEF T
<1>9. PICK k \in Shown(script) : off[k] = r /\ rows[r].line = EntryLine(script, k)
  BY <1>2, <1>7 DEF RowsFrom, N, rows
<1>10. /\ k \in DOMAIN script /\ script[k].line.end = "none"
       /\ script[k].tag \in {"kept", "-", "+"}
  <2>1. k \in DOMAIN script
    BY DEF Shown
  <2>2. rows[off[k]].end = script[k].line.end
    BY <1>2 DEF RowsAt, rows
  <2>3. script[k] \in Entries
    BY <2>1
  <2> QED BY <1>7, <1>9, <2>1, <2>2, <2>3 DEF Entries
<1>11. script[k].tag # "+"
  <2> SUFFICES ASSUME script[k].tag = "+" PROVE FALSE
    OBVIOUS
  <2>1. /\ \A q \in DOMAIN script : k < q => script[q].tag = "-"
        /\ \E m \in DOMAIN script : script[m].tag = "-" /\ script[m].line.end = "none"
    BY <1>10, AddedLast
  <2>2. PICK m \in DOMAIN script : script[m].tag = "-" /\ script[m].line.end = "none"
    BY <2>1
  <2>3. m \in Shown(script)
    BY <2>2, ChangesShown
  <2>4. k \in Nat /\ m \in Nat /\ k # m
    BY <1>10, <2>2, LenProperties
  <2>5. CASE k < m
    BY <1>10, <2>1, <2>2, <2>5 DEF Ordered
  <2>6. CASE m < k
    <3>1. off[m] \in 1 .. N /\ rows[off[m]].end = "none" /\ off[m] < off[k]
      BY <1>2, <2>2, <2>3, <2>6 DEF RowsAt, rows, N
    <3>2. off[m] \in 1 .. r - 1
      BY <1>7, <1>9, <3>1
    <3> QED BY <1>8, <3>1, <3>2
  <2> QED BY <2>4, <2>5, <2>6
<1>12. r # 1
  BY <1>3, <1>9, <1>10 DEF EntryLine, HunkAt, Body, Blank
<1> DEFINE n == 2 + r
<1>13. n \in 1 .. Len(lines) /\ n < Len(lines) /\ n \in 4 .. 2 + N /\ lines[n] = rows[r]
  BY <1>1, <1>7, <1>12
<1>14. \A m \in 1 .. n - 1 : lines[m].end # "none"
  <2> SUFFICES ASSUME NEW m \in 1 .. n - 1, m # 1, m # 2 PROVE lines[m].end # "none"
    BY <1>1 DEF IsLine
  <2> DEFINE q == m - 2
  <2>1. q \in 1 .. r - 1 /\ q \in 1 .. N /\ 2 + q = m
    BY <1>1, <1>7
  <2> HIDE DEF q, n
  <2> QED BY <1>1, <1>8, <2>1
<1>15. lines[n].end = "none"
  BY <1>7, <1>13
<1> HIDE DEF n
<1>16. /\ Split(lines) \in Seq(DiffLines) /\ n \in 1 .. Len(Split(lines))
       /\ \A m \in 1 .. n - 1 : Split(lines)[m] = lines[m].line
       /\ Split(lines)[n] = GluedLine(lines[n].line)
       /\ \A m \in 3 .. Len(Split(lines)) : \E q \in 3 .. Len(lines) :
            Split(lines)[m] = lines[q].line \/ Split(lines)[m] = GluedLine(lines[q].line)
  BY <1>1, <1>13, <1>14, <1>15, SplitFirst
<1>17. d = Split(lines)
  BY DEF d, DiffOf, lines
<1>18. d[1].tag = "---" /\ d[2].tag = "+++" /\ d[3].tag = "@@"
  <2>1. 1 \in 1 .. n - 1 /\ 2 \in 1 .. n - 1 /\ 3 \in 1 .. n - 1 /\ 1 \in 1 .. N /\ 2 + 1 = 3
    BY <1>1, <1>13
  <2>2. d[1] = lines[1].line /\ d[2] = lines[2].line /\ d[3] = lines[3].line
    BY <1>16, <1>17, <2>1
  <2>3. lines[3] = rows[1]
    BY <1>1, <2>1
  <2>4. /\ d[1] = Header("---", j.edits[1].path) /\ d[2] = Header("+++", j.edits[1].path)
        /\ d[3] = HunkAt(start)
    BY <1>1, <1>3, <2>2, <2>3 DEF IsLine
  <2> QED BY <2>4 DEF Header, HunkAt, Blank
<1>19. \A q \in 3 .. Len(lines) : lines[q].line.tag # "---"
  <2> TAKE q \in 3 .. Len(lines)
  <2> DEFINE p == q - 2
  <2>1. p \in 1 .. N /\ 2 + p = q
    BY <1>1
  <2> HIDE DEF p
  <2>2. lines[q] = rows[p]
    BY <1>1, <2>1
  <2> QED BY <1>2, <2>1, <2>2 DEF RowsFrom, rows, N
<1>20. \A m \in 3 .. Len(d) : d[m].tag # "---"
  <2> TAKE m \in 3 .. Len(d)
  <2>1. PICK q \in 3 .. Len(lines) : d[m] = lines[q].line \/ d[m] = GluedLine(lines[q].line)
    BY <1>16, <1>17
  <2>2. \A tag, body : Body(tag, body).tag = tag
    BY DEF Body, Blank
  <2> QED BY <1>19, <2>1, <2>2 DEF GluedLine
<1>24. \A m \in 4 .. Len(d) - 1 : IsOldHeader(d[m]) /\ IsNewHeader(d[m + 1]) =>
         d[m + 1].path = NoPath
  <2> SUFFICES ASSUME NEW m \in 4 .. Len(d) - 1, IsOldHeader(d[m]), IsNewHeader(d[m + 1])
               PROVE  d[m + 1].path = NoPath
    OBVIOUS
  <2>1. Len(d) \in Nat
    BY <1>16, <1>17, LenProperties
  <2>2. m \in 1 .. Len(d) - 1 /\ m \in 3 .. Len(d)
    BY <2>1
  <2>3. d[m].tag = "-"
    BY <1>20, <2>2 DEF IsOldHeader
  <2> QED BY <2>2, <2>3 DEF FalseHeader, d
<1>21. d[n].tag \in {"kept", "-"} /\ d[n].body \in Range(Glued)
  <2>2. script[k].line.body \in Bodies
    <3>1. script[k] \in Entries
      BY <1>10
    <3> QED BY <3>1 DEF Entries, Lines
  <2>3. Glued[script[k].line.body] \in Range(Glued)
    BY <2>2, GluedAssumption DEF Range
  <2>1. d[n] = GluedLine(EntryLine(script, k))
    BY <1>9, <1>13, <1>16, <1>17
  <2> QED BY <1>10, <1>11, <2>1, <2>3 DEF GluedLine, EntryLine, Body, Blank
<1>22. n \in 4 .. Len(d) /\ n \in Nat
  <2>1. Len(d) \in Nat
    BY <1>16, <1>17, LenProperties
  <2> QED BY <1>13, <1>16, <1>17, <2>1
<1>23. GluedAt(d, n)
  BY <1>18, <1>21, <1>22, <1>24 DEF GluedAt
<1> QED
  BY <1>22, <1>23 DEF d

-----------------------------------------------------------------------------
(* A generated diff in which two lines run together is of no use.             *)

(* A hunk wants such a line of the file.                                      *)
WantsGlued(hunks) ==
  \E h \in DOMAIN hunks : \E m \in DOMAIN hunks[h].lines :
    hunks[h].lines[m].tag # "+" /\ hunks[h].lines[m].body \in Range(Glued)

(* A patch does, or is of no file.                                            *)
Unusable(ps) == \E k \in DOMAIN ps : ps[k].path = NoPath \/ WantsGlued(ps[k].hunks)

(* The parser is on its way to the line and will take it for a hunk's.        *)
Towards(n) ==
  /\ i <= n
  /\ \/ i = 1
     \/ i = 3 /\ patches # <<>>
     \/ i >= 4 /\ open /\ patches # <<>> /\ patches[Len(patches)].hunks # <<>>

(* No file of the tree has a line like two lines run together.                *)
NoneGlued == \A p \in DOMAIN before : \A k \in DOMAIN before[p] : before[p][k].body \notin Range(Glued)

(* Such a diff never gets as far as to the writer.                            *)
IGlued ==
  NoneGlued => \A n \in Nat : GluedAt(diff, n) =>
    /\ pc = "parse" => Unusable(patches) \/ Towards(n)
    /\ pc = "render" => Unusable(patches)
    /\ pc # "write" /\ outcome # "applied"

(* Neither does an empty one.                                                 *)
IEmpty ==
  diff = <<>> => /\ pc = "parse" => patches = <<>>
                 /\ pc \notin {"render", "write"} /\ outcome # "applied"

(* A patch wants what it wants when it gets other hunks that want as much.    *)
LEMMA UnusableStays ==
  ASSUME NEW ps \in Seq(FilePatches), ps # <<>>, Unusable(ps), NEW hunks \in Seq(Hunks),
         WantsGlued(ps[Len(ps)].hunks) => WantsGlued(hunks)
  PROVE  Unusable(WithHunks(ps, hunks))
<1> DEFINE n == Len(ps)  more == WithHunks(ps, hunks)
<1>1. /\ more \in Seq(FilePatches) /\ Len(more) = n /\ n \in Nat \ {0}
      /\ \A k \in 1 .. n : more[k].path = ps[k].path
      /\ \A k \in 1 .. n : k # n => more[k] = ps[k]
      /\ more[n].hunks = hunks
  BY LastPatch
<1>2. DOMAIN ps = 1 .. n /\ DOMAIN more = 1 .. n
  BY <1>1, LenProperties
<1> HIDE DEF more
<1>3. PICK k \in 1 .. n : ps[k].path = NoPath \/ WantsGlued(ps[k].hunks)
  BY <1>2 DEF Unusable
<1> HIDE DEF n
<1>4. CASE ps[k].path = NoPath
  BY <1>1, <1>2, <1>4 DEF Unusable, more
<1>5. CASE WantsGlued(ps[k].hunks)
  <2>1. WantsGlued(more[k].hunks)
    <3>1. CASE k = n
      BY <1>1, <1>5, <3>1 DEF n
    <3>2. CASE k # n
      BY <1>1, <1>5, <3>2
    <3> QED BY <3>1, <3>2
  <2> QED BY <1>2, <2>1 DEF Unusable, more
<1> QED
  BY <1>3, <1>4, <1>5

(* A patch more, or a hunk or a line more in the last, wants no less.         *)
LEMMA MoreWanted ==
  /\ \A ps \in Seq(FilePatches) : \A q \in FilePatches :
       /\ Unusable(ps) => Unusable(Append(ps, q))
       /\ q.path = NoPath => Unusable(Append(ps, q))
  /\ \A hunks \in Seq(Hunks) : \A q \in Hunks :
       WantsGlued(hunks) => WantsGlued(Append(hunks, q))
  /\ \A hunks \in Seq(Hunks) : \A line \in HunkLines : hunks # <<>> =>
       /\ WantsGlued(hunks) => WantsGlued(WithLine(hunks, line))
       /\ line.tag # "+" /\ line.body \in Range(Glued) => WantsGlued(WithLine(hunks, line))
<1>1. ASSUME NEW S, NEW s \in Seq(S), NEW q \in S
      PROVE  /\ \A k \in DOMAIN s : k \in DOMAIN Append(s, q) /\ Append(s, q)[k] = s[k]
             /\ Len(s) + 1 \in DOMAIN Append(s, q) /\ Append(s, q)[Len(s) + 1] = q
  <2>1. /\ Append(s, q) \in Seq(S) /\ Len(Append(s, q)) = Len(s) + 1
        /\ \A k \in 1 .. Len(s) : Append(s, q)[k] = s[k]
        /\ Append(s, q)[Len(s) + 1] = q
    BY AppendProperties
  <2>2. DOMAIN s = 1 .. Len(s) /\ Len(s) \in Nat /\ DOMAIN Append(s, q) = 1 .. Len(Append(s, q))
    BY <2>1, LenProperties
  <2>3. \A k \in 1 .. Len(s) : k \in 1 .. Len(s) + 1
    BY <2>2
  <2>4. Len(s) + 1 \in 1 .. Len(s) + 1
    BY <2>2
  <2> QED BY <2>1, <2>2, <2>3, <2>4
<1>2. ASSUME NEW ps \in Seq(FilePatches), NEW q \in FilePatches
      PROVE  /\ Unusable(ps) => Unusable(Append(ps, q))
             /\ q.path = NoPath => Unusable(Append(ps, q))
  <2> DEFINE more == Append(ps, q)
  <2>1. /\ \A k \in DOMAIN ps : k \in DOMAIN more /\ more[k] = ps[k]
        /\ Len(ps) + 1 \in DOMAIN more /\ more[Len(ps) + 1] = q
    BY <1>1
  <2> HIDE DEF more
  <2>2. Unusable(ps) => Unusable(more)
    BY <2>1 DEF Unusable
  <2>3. q.path = NoPath => Unusable(more)
    BY <2>1 DEF Unusable
  <2> QED BY <2>2, <2>3 DEF more
<1>3. ASSUME NEW hunks \in Seq(Hunks), NEW q \in Hunks, WantsGlued(hunks)
      PROVE  WantsGlued(Append(hunks, q))
  <2> DEFINE more == Append(hunks, q)
  <2>1. \A k \in DOMAIN hunks : k \in DOMAIN more /\ more[k] = hunks[k]
    BY <1>1
  <2> HIDE DEF more
  <2>2. WantsGlued(more)
    BY <1>3, <2>1 DEF WantsGlued
  <2> QED BY <2>2 DEF more
<1>4. ASSUME NEW hunks \in Seq(Hunks), NEW line \in HunkLines, hunks # <<>>
      PROVE  /\ WantsGlued(hunks) => WantsGlued(WithLine(hunks, line))
             /\ line.tag # "+" /\ line.body \in Range(Glued) => WantsGlued(WithLine(hunks, line))
  <2> DEFINE H == Len(hunks)  more == WithLine(hunks, line)  L == Len(hunks[H].lines)
  <2>1. /\ more \in Seq(Hunks) /\ Len(more) = H /\ H \in Nat \ {0}
        /\ \A h \in 1 .. H : h # H => more[h] = hunks[h]
        /\ L \in Nat /\ Len(more[H].lines) = L + 1 /\ more[H].lines[L + 1] = line
        /\ \A n \in 1 .. L : more[H].lines[n] = hunks[H].lines[n]
    BY <1>4, LastHunk
  <2>2. DOMAIN hunks = 1 .. H /\ DOMAIN more = 1 .. H /\ H \in 1 .. H
    BY <2>1, LenProperties
  <2>3. hunks[H].lines \in Seq(HunkLines) /\ more[H].lines \in Seq(HunkLines)
    <3>1. hunks[H] \in Hunks /\ more[H] \in Hunks
      BY <2>1, <2>2, ElementOfSeq
    <3> QED BY <3>1 DEF Hunks, HunkLines
  <2>4. DOMAIN hunks[H].lines = 1 .. L /\ DOMAIN more[H].lines = 1 .. L + 1
    BY <2>1, <2>3, LenProperties
  <2> HIDE DEF more, H, L
  <2>5. L + 1 \in 1 .. L + 1 /\ \A n \in 1 .. L : n \in 1 .. L + 1
    BY <2>1
  <2>6. line.tag # "+" /\ line.body \in Range(Glued) => WantsGlued(more)
    BY <2>1, <2>2, <2>4, <2>5 DEF WantsGlued
  <2>7. ASSUME WantsGlued(hunks) PROVE WantsGlued(more)
    <3>1. PICK h \in DOMAIN hunks : \E m \in DOMAIN hunks[h].lines :
            hunks[h].lines[m].tag # "+" /\ hunks[h].lines[m].body \in Range(Glued)
      BY <2>7 DEF WantsGlued
    <3>2. PICK m \in DOMAIN hunks[h].lines :
            hunks[h].lines[m].tag # "+" /\ hunks[h].lines[m].body \in Range(Glued)
      BY <3>1
    <3>3. m \in DOMAIN more[h].lines /\ more[h].lines[m] = hunks[h].lines[m]
      <4>1. CASE h = H
        BY <2>1, <2>4, <2>5, <4>1
      <4>2. CASE h # H
        BY <2>1, <2>2, <4>2
      <4> QED BY <4>1, <4>2
    <3> QED BY <2>2, <3>2, <3>3 DEF WantsGlued
  <2> QED BY <2>6, <2>7 DEF more
<1> QED
  BY <1>2, <1>3, <1>4

(* Once a patch is of no use, the parser makes none of use of them.           *)
LEMMA UnusableReadOn ==
  ASSUME IInv, Parse, Unusable(patches)
  PROVE  Unusable(patches')
<1>1. patches \in Seq(FilePatches) /\ patches' \in Seq(FilePatches) /\ i \in Nat \ {0}
      /\ diff \in Seq(DiffLines)
  <2>1. [Next]_vars
    BY DEF Next
  <2>2. IInv'
    BY <2>1, NextIInv
  <2> QED BY <2>2 DEF IInv, IType, TypeOK
<1>2. patches # <<>>
  BY DEF Unusable
<1>3. patches[Len(patches)] \in FilePatches /\ patches[Len(patches)].hunks \in Seq(Hunks)
  <2>1. Len(patches) \in 1 .. Len(patches)
    BY <1>1, <1>2, LenProperties, EmptySeq
  <2>2. patches[Len(patches)] \in FilePatches
    BY <1>1, <2>1, ElementOfSeq
  <2> QED BY <2>2 DEF FilePatches
<1>4. CASE FileHeader
  <2> DEFINE q == [path |-> diff[i + 1].path, hunks |-> <<>>]
  <2>1. patches' = Append(patches, q)
    BY <1>4 DEF FileHeader
  <2>2. diff[i + 1] \in DiffLines
    <3>1. i + 1 \in 1 .. Len(diff)
      <4>1. i < Len(diff) /\ Len(diff) \in Nat
        BY <1>1, <1>4, LenProperties DEF FileHeader, AfterHeader
      <4> QED BY <1>1, <4>1
    <3> QED BY <1>1, <3>1, ElementOfSeq
  <2>3. q \in FilePatches
    BY <2>2 DEF FilePatches, DiffLines
  <2> HIDE DEF q
  <2> QED BY <1>1, <2>1, <2>3, MoreWanted
<1>5. CASE HunkHeader
  <2> DEFINE hunks == patches[Len(patches)].hunks  q == NewHunk(diff[i].start)
  <2>1. patches' = WithHunks(patches, Append(hunks, q))
    BY <1>5, HunkSteps
  <2>2. diff[i] \in DiffLines
    <3>1. i \in 1 .. Len(diff)
      <4>1. i <= Len(diff) /\ Len(diff) \in Nat
        BY <1>1, <1>5, LenProperties DEF HunkHeader, Parsing
      <4> QED BY <1>1, <4>1
    <3> QED BY <1>1, <3>1, ElementOfSeq
  <2>3. q \in Hunks
    BY <2>2 DEF NewHunk, Hunks, DiffLines
  <2>4. Append(hunks, q) \in Seq(Hunks) /\ (WantsGlued(hunks) => WantsGlued(Append(hunks, q)))
    <3> HIDE DEF q
    <3> QED BY <1>3, <2>3, MoreWanted
  <2> DEFINE more == Append(hunks, q)
  <2> HIDE DEF q
  <2>5. more \in Seq(Hunks) /\ (WantsGlued(patches[Len(patches)].hunks) => WantsGlued(more))
    BY <2>4
  <2> HIDE DEF more
  <2>6. Unusable(WithHunks(patches, more))
    BY <1>1, <1>2, <2>5, UnusableStays
  <2> QED BY <2>1, <2>6 DEF more
<1>6. CASE HunkLine
  <2> DEFINE hunks == patches[Len(patches)].hunks  l == BodyOf(diff[i])
             more == WithLine(hunks, l)
  <2>1. patches' = WithHunks(patches, more)
    BY <1>6, HunkSteps
  <2>2. diff[i] \in DiffLines /\ diff[i].tag \in {"kept", "+", "-", "blank", "+++"}
    <3>1. i \in 1 .. Len(diff)
      <4>1. i <= Len(diff) /\ Len(diff) \in Nat
        BY <1>1, <1>6, LenProperties DEF HunkLine, Parsing
      <4> QED BY <1>1, <4>1
    <3> QED BY <1>1, <1>6, <3>1, ElementOfSeq DEF HunkLine, IsHunkLine
  <2>3. l \in HunkLines
    BY <2>2 DEF BodyOf, HunkLines, DiffLines
  <2> HIDE DEF l
  <2>4. CASE hunks = <<>>
    <3>1. WithLine(hunks, l) = hunks
      BY <2>4 DEF WithLine
    <3>2. more \in Seq(Hunks) /\ (WantsGlued(patches[Len(patches)].hunks) => WantsGlued(more))
      BY <1>3, <3>1
    <3> HIDE DEF more
    <3> QED BY <1>1, <1>2, <2>1, <3>2, UnusableStays
  <2>5. CASE hunks # <<>>
    <3>1. more \in Seq(Hunks)
      BY <1>3, <2>3, <2>5, LastHunk
    <3>2. WantsGlued(patches[Len(patches)].hunks) => WantsGlued(more)
      BY <1>3, <2>3, <2>5, MoreWanted
    <3> HIDE DEF more
    <3> QED BY <1>1, <1>2, <2>1, <3>1, <3>2, UnusableStays
  <2> QED BY <2>4, <2>5
<1>7. CASE UNCHANGED patches
  BY <1>7
<1> QED
  BY <1>4, <1>5, <1>6, <1>7
  DEF Parse, MalformedHeader, OrphanHunk, SkippedLine, ParseEnds, NothingParsed, PatchError

(* The parser comes to the glued line, or to a header that is none.           *)
LEMMA TowardsReadOn ==
  ASSUME IInv, Parse, NEW n \in Nat, GluedAt(diff, n), Towards(n)
  PROVE  /\ pc' = "parse" => Unusable(patches') \/ Towards(n)'
         /\ pc' # "render"
<1>1. /\ patches \in Seq(FilePatches) /\ patches' \in Seq(FilePatches) /\ i \in Nat \ {0}
      /\ diff \in Seq(DiffLines)
  <2>1. [Next]_vars
    BY DEF Next
  <2>2. IInv'
    BY <2>1, NextIInv
  <2> QED BY <2>2 DEF IInv, IType, TypeOK
<1>2. /\ Len(diff) \in Nat /\ n \in 4 .. Len(diff) /\ i <= n /\ i \in 1 .. Len(diff)
      /\ i \in {1, 3} \/ i >= 4
  BY <1>1, LenProperties DEF GluedAt, Towards
<1>3. diff[i] \in DiffLines /\ (i < Len(diff) => diff[i + 1] \in DiffLines)
  <2>1. diff[i] \in DiffLines
    BY <1>1, <1>2, ElementOfSeq
  <2>2. ASSUME i < Len(diff) PROVE diff[i + 1] \in DiffLines
    <3> DEFINE k == i + 1
    <3>1. k \in 1 .. Len(diff)
      BY <1>2, <2>2
    <3> HIDE DEF k
    <3>2. diff[k] \in DiffLines
      BY <1>1, <3>1, ElementOfSeq
    <3> QED BY <3>2 DEF k
  <2> QED BY <2>1, <2>2
<1>4. ~ ParseEnds /\ ~ NothingParsed
  BY <1>2 DEF ParseEnds, NothingParsed
<1>5. CASE MalformedHeader \/ OrphanHunk
  BY <1>5 DEF MalformedHeader, OrphanHunk, PatchError
<1>6. CASE FileHeader
  <2> DEFINE q == [path |-> diff[i + 1].path, hunks |-> <<>>]
  <2>1. /\ patches' = Append(patches, q) /\ i' = i + 2 /\ i < Len(diff)
        /\ IsOldHeader(diff[i]) /\ pc' = pc /\ pc = "parse"
    BY <1>6 DEF FileHeader, AfterHeader, Parsed, Parsing
  <2>2. q \in FilePatches
    BY <1>3, <2>1 DEF FilePatches, DiffLines
  <2>3. CASE i = 1
    <3>1. i' = 3 /\ i' <= n
      BY <1>2, <2>1, <2>3
    <3>2. patches' # <<>>
      <4> HIDE DEF q
      <4> QED BY <1>1, <2>1, <2>2
    <3> QED BY <2>1, <3>1, <3>2 DEF Towards
  <2>4. CASE i = 3
    BY <2>1, <2>4 DEF IsOldHeader, GluedAt
  <2>5. CASE i >= 4
    <3>1. diff[i + 1].path = NoPath
      <4>1. i \in 4 .. Len(diff) - 1 /\ IsNewHeader(diff[i + 1])
        BY <1>2, <1>6, <2>1, <2>5 DEF FileHeader, AfterHeader
      <4> QED BY <2>1, <4>1 DEF GluedAt
    <3>2. q.path = NoPath
      BY <3>1
    <3> HIDE DEF q
    <3>3. Unusable(Append(patches, q))
      BY <1>1, <2>2, <3>2, MoreWanted
    <3> QED BY <2>1, <3>3
  <2> QED BY <1>2, <2>1, <2>3, <2>4, <2>5
<1>7. CASE HunkHeader
  <2> DEFINE hunks == patches[Len(patches)].hunks  q == NewHunk(diff[i].start)
             more == Append(hunks, q)
  <2>1. /\ patches' = WithHunks(patches, more) /\ i' = i + 1 /\ open' = TRUE
        /\ diff[i].tag = "@@" /\ pc' = pc /\ pc = "parse" /\ patches # <<>>
    BY <1>7, HunkSteps DEF HunkHeader, Parsed, Parsing
  <2>2. i # 1 /\ i # n
    BY <2>1 DEF GluedAt
  <2>3. i' <= n /\ i' >= 4
    BY <1>2, <2>1, <2>2
  <2>4. q \in Hunks /\ hunks \in Seq(Hunks)
    <3>1. q \in Hunks
      BY <1>3 DEF NewHunk, Hunks, DiffLines
    <3>2. Len(patches) \in 1 .. Len(patches)
      BY <1>1, <2>1, LenProperties, EmptySeq
    <3>3. patches[Len(patches)] \in FilePatches
      BY <1>1, <3>2, ElementOfSeq
    <3> QED BY <3>1, <3>3 DEF FilePatches
  <2>5. more \in Seq(Hunks) /\ more # <<>>
    <3> HIDE DEF q, hunks
    <3> QED BY <2>4, AppendProperties
  <2> HIDE DEF more
  <2>6. LET m == Len(patches)
            ps == WithHunks(patches, more)
        IN  Len(ps) = m /\ m \in Nat \ {0} /\ ps[m].hunks = more
    BY <1>1, <2>1, <2>5, LastPatch
  <2>7. patches' # <<>> /\ patches'[Len(patches')].hunks # <<>>
    BY <2>1, <2>5, <2>6
  <2> QED BY <2>1, <2>3, <2>7 DEF Towards
<1>8. CASE HunkLine
  <2> DEFINE hunks == patches[Len(patches)].hunks  l == BodyOf(diff[i])
             more == WithLine(hunks, l)
  <2>1. /\ patches' = WithHunks(patches, more) /\ i' = i + 1 /\ open' = open
        /\ diff[i].tag \in {"kept", "+", "-", "blank", "+++"} /\ pc' = pc /\ pc = "parse"
    BY <1>8, HunkSteps DEF HunkLine, IsHunkLine, Parsed, Parsing
  <2>2. i # 1 /\ i # 3
    BY <2>1 DEF GluedAt
  <2>3. i >= 4 /\ open /\ patches # <<>> /\ hunks # <<>>
    BY <2>2 DEF Towards
  <2>4. l \in HunkLines
    BY <1>3, <2>1 DEF BodyOf, HunkLines, DiffLines
  <2>5. hunks \in Seq(Hunks)
    <3>2. Len(patches) \in 1 .. Len(patches)
      BY <1>1, <2>3, LenProperties, EmptySeq
    <3>3. patches[Len(patches)] \in FilePatches
      BY <1>1, <3>2, ElementOfSeq
    <3> QED BY <3>3 DEF FilePatches
  <2>6. more \in Seq(Hunks) /\ more # <<>>
    <3> HIDE DEF l, hunks
    <3>1. more \in Seq(Hunks) /\ Len(more) = Len(hunks) /\ Len(hunks) \in Nat \ {0}
      BY <2>3, <2>4, <2>5, LastHunk
    <3> QED BY <3>1, LenProperties, EmptySeq
  <2>7. i = n => l.tag # "+" /\ l.body \in Range(Glued)
    BY DEF GluedAt, BodyOf
  <2>8. i = n => WantsGlued(more)
    <3> HIDE DEF l, hunks
    <3> QED BY <2>3, <2>4, <2>5, <2>7, MoreWanted
  <2> HIDE DEF more
  <2>9. LET m == Len(patches)
            ps == WithHunks(patches, more)
        IN  /\ ps \in Seq(FilePatches) /\ Len(ps) = m /\ m \in Nat \ {0}
            /\ ps[m].hunks = more
    BY <1>1, <2>3, <2>6, LastPatch
  <2>10. CASE i = n
    <3>1. Len(patches) \in DOMAIN patches'
      BY <2>1, <2>9, LenProperties
    <3>2. WantsGlued(patches'[Len(patches)].hunks)
      BY <2>1, <2>8, <2>9, <2>10
    <3> QED BY <2>1, <3>1, <3>2 DEF Unusable
  <2>11. CASE i # n
    <3>1. i' <= n /\ i' >= 4
      BY <1>2, <2>1, <2>3, <2>11
    <3>2. patches' # <<>> /\ patches'[Len(patches')].hunks # <<>>
      BY <2>1, <2>6, <2>9
    <3> QED BY <2>1, <2>3, <3>1, <3>2 DEF Towards
  <2> QED BY <2>1, <2>10, <2>11
<1>9. CASE SkippedLine
  <2>1. /\ i' = i + 1 /\ UNCHANGED <<patches, open>> /\ pc' = pc /\ pc = "parse"
        /\ ~ IsOldHeader(diff[i]) /\ diff[i].tag # "@@" /\ ~ IsHunkLine(diff[i])
    BY <1>9 DEF SkippedLine, Parsed, Parsing
  <2>2. i # 1 /\ i # 3
    BY <2>1 DEF GluedAt, IsOldHeader
  <2>3. i # n
    BY <2>1, <2>2 DEF GluedAt, IsHunkLine, Towards
  <2>4. i' <= n /\ i' >= 4
    BY <1>2, <2>1, <2>2, <2>3
  <2> QED BY <2>1, <2>2, <2>4 DEF Towards
<1> QED
  BY <1>4, <1>5, <1>6, <1>7, <1>8, <1>9 DEF Parse

(* The lines of verified hunks are looked for at places a file has lines at.  *)
LEMMA PlacesInFile ==
  ASSUME NEW original \in Seq(Lines), NEW hunks \in Seq(Hunks), Verified(original, hunks),
         NEW h \in DOMAIN hunks, NEW m \in DOMAIN hunks[h].lines, hunks[h].lines[m].tag # "+"
  PROVE  \E k \in DOMAIN original : original[k].body = hunks[h].lines[m].body
<1>1. ASSUME NEW lines \in Seq(HunkLines) PROVE OldLines(lines) \in Nat
  <2> DEFINE at == {n \in DOMAIN lines : lines[n].tag # "+"}
  <2>1. IsFiniteSet(DOMAIN lines)
    BY LenProperties, FS_Interval
  <2>2. IsFiniteSet(at)
    BY <2>1, FS_Subset
  <2>3. Cardinality(at) \in Nat
    BY <2>2, FS_CardinalityType
  <2> QED BY <2>3 DEF OldLines
<1>2. DOMAIN hunks = 1 .. Len(hunks) /\ Len(hunks) \in Nat
  BY LenProperties
<1>3. \A k \in 1 .. Len(hunks) : hunks[k].start \in Nat /\ hunks[k].lines \in Seq(HunkLines)
  <2> SUFFICES ASSUME NEW k \in 1 .. Len(hunks)
               PROVE  hunks[k].start \in Nat /\ hunks[k].lines \in Seq(HunkLines)
    OBVIOUS
  <2>1. hunks[k] \in Hunks
    BY ElementOfSeq
  <2> QED BY <2>1 DEF Hunks, HunkLines
<1> DEFINE T == {k \in Nat : k + 1 <= Len(hunks) => hunks[k + 1].start >= 1}
<1>4. 0 \in T
  <2>1. ASSUME 1 <= Len(hunks) PROVE hunks[1].start >= 1
    <3>1. 1 \in DOMAIN hunks
      BY <1>2, <2>1
    <3> QED BY <3>1 DEF Verified, Cursor
  <2> QED BY <2>1
<1>5. ASSUME NEW k \in Nat, k \in T PROVE k + 1 \in T
  <2> DEFINE n == k + 1  q == n + 1
  <2> SUFFICES ASSUME q <= Len(hunks) PROVE hunks[q].start >= 1
    OBVIOUS
  <2>1. n \in 1 .. Len(hunks) /\ q \in 1 .. Len(hunks) /\ q # 1 /\ q - 1 = n /\ n <= Len(hunks)
    BY <1>2
  <2>2. hunks[n].start >= 1
    BY <1>5, <2>1
  <2> HIDE DEF n, q
  <2>3. OldLines(hunks[n].lines) \in Nat
    BY <1>1, <1>3, <2>1
  <2>4. hunks[q].start >= Cursor(hunks, q)
    BY <1>2, <2>1 DEF Verified
  <2>5. Cursor(hunks, q) = hunks[n].start + OldLines(hunks[n].lines)
    BY <2>1 DEF Cursor
  <2> QED BY <1>3, <2>1, <2>2, <2>3, <2>4, <2>5
<1> HIDE DEF T
<1>6. Nat \subseteq T
  BY <1>4, <1>5, SetInduction
<1>7. hunks[h].start >= 1
  <2> DEFINE k == h - 1
  <2>1. k \in Nat /\ k + 1 = h /\ h <= Len(hunks)
    BY <1>2
  <2> HIDE DEF k
  <2>2. k \in T
    BY <1>6, <2>1
  <2> QED BY <2>1, <2>2 DEF T
<1> DEFINE lines == hunks[h].lines  at == LineAt(hunks[h], m)
<1>8. Matches(original, at, lines[m].body)
  BY DEF Verified
<1>9. lines \in Seq(HunkLines) /\ hunks[h].start \in Nat
  BY <1>2, <1>3
<1> HIDE DEF lines
<1>10. OldLines(SubSeq(lines, 1, m - 1)) \in Nat
  <2>1. m \in 1 .. Len(lines) /\ Len(lines) \in Nat
    BY <1>9, LenProperties DEF lines
  <2>2. \A n \in 1 .. m - 1 : lines[n] \in HunkLines
    <3>1. \A n \in 1 .. m - 1 : n \in 1 .. Len(lines)
      BY <2>1
    <3> QED BY <1>9, <3>1, ElementOfSeq
  <2>3. SubSeq(lines, 1, m - 1) \in Seq(HunkLines)
    BY <1>9, <2>1, <2>2, SubSeqProperties
  <2> QED BY <1>1, <2>3
<1>11. at = hunks[h].start + OldLines(SubSeq(lines, 1, m - 1))
  BY DEF LineAt, lines
<1>12. at \in Nat \ {0}
  BY <1>7, <1>9, <1>10, <1>11
<1> HIDE DEF at
<1>13. at <= Len(original) /\ original[at].body = lines[m].body
  BY <1>8 DEF Matches
<1>14. at \in DOMAIN original
  BY <1>12, <1>13, LenProperties
<1> QED
  BY <1>13, <1>14 DEF lines

(* A patch that is of no use is not staged.                                   *)
LEMMA UnusableNotStaged ==
  ASSUME IInv, IJob, NoneGlued, Len(staged) = Len(patches)
  PROVE  ~ Unusable(patches)
<1>1. patches \in Seq(FilePatches) /\ IStaged
  BY DEF IInv, IType, TypeOK
<1>2. SUFFICES ASSUME NEW k \in DOMAIN patches,
                      patches[k].path = NoPath \/ WantsGlued(patches[k].hunks)
               PROVE  FALSE
  BY DEF Unusable
<1>3. k \in 1 .. Len(staged) /\ k \in 1 .. Len(patches)
  BY <1>1, LenProperties
<1>4. /\ patches[k].path \in DOMAIN before
      /\ Verified(AsRead(before[patches[k].path]), patches[k].hunks)
  BY <1>1, <1>3 DEF IStaged, StagedOf
<1>5. \A p \in DOMAIN before : p \in Paths /\ before[p] \in Texts
  BY JobFacts
<1>6. patches[k].path # NoPath
  BY <1>4, <1>5, PathAssumption
<1> DEFINE hunks == patches[k].hunks  text == before[patches[k].path]
<1>7. hunks \in Seq(Hunks) /\ text \in Texts
  <2>1. patches[k] \in FilePatches
    BY <1>1, <1>3, ElementOfSeq
  <2> QED BY <1>4, <1>5, <2>1 DEF FilePatches
<1>8. \A q \in DOMAIN text : text[q].body \notin Range(Glued)
  BY <1>4 DEF NoneGlued
<1>9. WantsGlued(hunks) /\ Verified(AsRead(text), hunks)
  BY <1>2, <1>4, <1>6
<1> HIDE DEF hunks, text
<1>10. PICK h \in DOMAIN hunks : \E m \in DOMAIN hunks[h].lines :
         hunks[h].lines[m].tag # "+" /\ hunks[h].lines[m].body \in Range(Glued)
  BY <1>9 DEF WantsGlued
<1>11. PICK m \in DOMAIN hunks[h].lines :
         hunks[h].lines[m].tag # "+" /\ hunks[h].lines[m].body \in Range(Glued)
  BY <1>10
<1>12. /\ AsRead(text) \in Seq(Lines) /\ Len(AsRead(text)) = Len(text)
       /\ \A q \in DOMAIN text : AsRead(text)[q].body = text[q].body
  BY <1>7, AsReadLines
<1>13. PICK q \in DOMAIN AsRead(text) : AsRead(text)[q].body = hunks[h].lines[m].body
  BY <1>7, <1>9, <1>11, <1>12, PlacesInFile
<1>14. q \in DOMAIN text
  BY DEF AsRead
<1> QED
  BY <1>8, <1>11, <1>12, <1>13, <1>14

(* Steps keep what is known of glued and of empty diffs.                      *)
LEMMA GluedKeeps ==
  ASSUME IInv, IJob, IGlued, IEmpty, Next
  PROVE  IGlued' /\ IEmpty'
<1>1. UNCHANGED <<diff, before>>
  BY DEF Next, Parse, FileHeader, MalformedHeader, HunkHeader, OrphanHunk, HunkLine, SkippedLine,
         ParseEnds, NothingParsed, PatchError, Parsed, Render, RenderRefuses, RenderRaises,
         RenderEnds, Write, WriteRaises, WriteEnds, Done, vars
<1>2. /\ Parse => pc = "parse" /\ pc' \in {"parse", "render", "done"} /\ outcome' # "applied"
      /\ Render \/ RenderRefuses \/ RenderRaises \/ RenderEnds => pc = "render"
      /\ Render => pc' = "render" /\ UNCHANGED <<patches, outcome>>
      /\ RenderEnds => pc' = "write" /\ Len(staged) = Len(patches)
      /\ RenderRefuses \/ RenderRaises => pc' = "done" /\ outcome' # "applied"
      /\ Write \/ WriteRaises \/ WriteEnds => pc = "write"
      /\ Done => UNCHANGED <<pc, outcome, patches>> /\ pc = "done"
  <2>1. outcome # "applied" \/ pc = "done"
    BY DEF IInv, IPhase, IType, TypeOK
  <2>2. Parse => pc = "parse" /\ pc' \in {"parse", "render", "done"} /\ outcome' # "applied"
    BY <2>1 DEF Parse, FileHeader, MalformedHeader, HunkHeader, OrphanHunk, HunkLine, SkippedLine,
                ParseEnds, NothingParsed, PatchError, Parsed, Parsing
  <2>3. RenderEnds => pc' = "write" /\ Len(staged) = Len(patches)
    <3> SUFFICES ASSUME RenderEnds PROVE pc' = "write" /\ Len(staged) = Len(patches)
      OBVIOUS
    <3>1. pc = "render" /\ pc' = "write" /\ i > Len(patches)
      BY DEF RenderEnds
    <3>2. Len(staged) = i - 1 /\ i <= Len(patches) + 1 /\ i \in Nat /\ Len(patches) \in Nat
      BY <3>1, LenProperties DEF IInv, IPhase, IType, TypeOK
    <3> QED BY <3>1, <3>2
  <2> QED BY <2>2, <2>3
    DEF Render, Rendering, RenderRefuses, RenderRaises, RenderEnds, PatchError, Write, Writing,
        WriteRaises, WriteEnds, Done, vars
<1>3. IGlued'
  <2> SUFFICES ASSUME NoneGlued', NEW n \in Nat, GluedAt(diff', n)
               PROVE  /\ pc' = "parse" => Unusable(patches') \/ Towards(n)'
                      /\ pc' = "render" => Unusable(patches')
                      /\ pc' # "write" /\ outcome' # "applied"
    BY DEF IGlued
  <2>1. NoneGlued /\ GluedAt(diff, n)
    BY <1>1 DEF NoneGlued
  <2>2. /\ pc = "parse" => Unusable(patches) \/ Towards(n)
        /\ pc = "render" => Unusable(patches)
        /\ pc # "write" /\ outcome # "applied"
    BY <2>1 DEF IGlued
  <2>3. CASE Parse
    BY <1>2, <2>1, <2>2, <2>3, UnusableReadOn, TowardsReadOn
  <2>4. CASE RenderEnds
    BY <1>2, <2>1, <2>2, <2>4, UnusableNotStaged
  <2>5. CASE Render \/ RenderRefuses \/ RenderRaises
    BY <1>2, <2>2, <2>5
  <2>6. CASE Done
    BY <1>2, <2>2, <2>6
  <2> QED BY <1>2, <2>2, <2>3, <2>4, <2>5, <2>6 DEF Next
<1>4. IEmpty'
  <2> SUFFICES ASSUME diff = <<>>
               PROVE  /\ pc' = "parse" => patches' = <<>>
                      /\ pc' \notin {"render", "write"} /\ outcome' # "applied"
    BY <1>1 DEF IEmpty
  <2>1. /\ pc = "parse" => patches = <<>>
        /\ pc \notin {"render", "write"} /\ outcome # "applied"
    BY DEF IEmpty
  <2>2. ~ Parsing
    <3>1. Len(diff) = 0 /\ i \in Nat \ {0}
      BY DEF IInv, IType, TypeOK
    <3> QED BY <3>1 DEF Parsing
  <2>3. CASE Parse
    <3>1. ~ ParseEnds
      BY <2>1 DEF ParseEnds
    <3>2. NothingParsed
      BY <2>2, <2>3, <3>1 DEF Parse, FileHeader, MalformedHeader, HunkHeader, OrphanHunk, HunkLine,
                              SkippedLine
    <3> QED BY <3>2 DEF NothingParsed, PatchError
  <2>4. CASE Done
    BY <1>2, <2>1, <2>4
  <2> QED BY <1>2, <2>1, <2>3, <2>4 DEF Next
<1> QED
  BY <1>3, <1>4

-----------------------------------------------------------------------------
(* All that is invariant of the pipeline.                                     *)
PInv == /\ IInv /\ IJob /\ IRead /\ IFiles
        /\ Readable(job) => AppliedExactly
        /\ FreshDiffApplies
        /\ IGlued /\ IEmpty

(* It holds when the call begins,                                             *)
LEMMA InitPInv == PipelineInit => PInv
<1> SUFFICES ASSUME PipelineInit PROVE PInv
  OBVIOUS
<1>1. Init
  BY JobsAssumption DEF PipelineInit, Init, Trees
<1>2. IInv
  BY <1>1, InitIInv
<1>3. /\ job \in Jobs /\ diff = DiffOf(job) /\ before = job.now
      /\ pc = "parse" /\ i = 1 /\ patches = <<>> /\ open = FALSE /\ outcome = "none"
  BY DEF PipelineInit, Start
<1>4. IJob
  BY <1>3 DEF IJob
<1>5. IFiles /\ AppliedExactly /\ FreshDiffApplies
  BY <1>3 DEF IFiles, AppliedExactly, FreshDiffApplies
<1>6. IRead
  <2> SUFFICES ASSUME Legible(job)
               PROVE  0 <= Len(diff) /\ Standing(job, 0, patches, open)
    BY <1>3 DEF IRead
  <2>1. WellFormed(job)
    BY <1>4, JobFacts
  <2>2. PICK P, O : LinesPlaced(job, P, O)
    BY <2>1, LegibleLines
  <2>3. P[0] = 0
    BY <2>2 DEF LinesPlaced, Places
  <2>4. Reading(job, patches, open, P[0], O[0])
    <3>1. <<>> \in Seq(FilePatches)
      OBVIOUS
    <3> QED BY <1>3, <2>3, <3>1 DEF Reading
  <2>5. Len(diff) \in Nat
    BY <1>3, <2>1, LegibleLines
  <2> QED BY <2>2, <2>4, <2>5 DEF Standing
<1>7. IGlued
  <2> SUFFICES ASSUME NEW n \in Nat, GluedAt(diff, n) PROVE Towards(n)
    BY <1>3 DEF IGlued
  <2>1. n >= 4
    BY DEF GluedAt
  <2> QED BY <1>3, <2>1 DEF Towards
<1>8. IEmpty
  BY <1>3 DEF IEmpty
<1> QED
  BY <1>2, <1>4, <1>5, <1>6, <1>7, <1>8 DEF PInv

(* Nothing that the two properties speak of has changed.                      *)
LEMMA NothingNew ==
  ASSUME Readable(job) => AppliedExactly, FreshDiffApplies,
         UNCHANGED <<tree, before, outcome, job>>
  PROVE  (Readable(job) => AppliedExactly)' /\ FreshDiffApplies'
<1>1. Edited' = Edited /\ Readable(job)' = Readable(job)
  BY DEF Edited
<1>2. ASSUME NEW p PROVE LastScript(p)' = LastScript(p)
  BY DEF LastScript
<1>3. AppliedExactly => AppliedExactly'
  BY <1>1, <1>2 DEF AppliedExactly
<1>4. FreshDiffApplies'
  BY DEF FreshDiffApplies, Fresh
<1> QED
  BY <1>1, <1>3, <1>4

(* every step keeps it,                                                       *)
LEMMA NextPInv == PInv /\ [PipelineNext]_<<vars, job>> => PInv'
<1> SUFFICES ASSUME PInv, [PipelineNext]_<<vars, job>> PROVE PInv'
  OBVIOUS
<1>1. IInv /\ IJob /\ IRead /\ IFiles /\ (Readable(job) => AppliedExactly) /\ FreshDiffApplies
      /\ IGlued /\ IEmpty
  BY DEF PInv
<1>2. [Next]_vars
  BY DEF PipelineNext, vars
<1>3. IInv'
  BY <1>1, <1>2, NextIInv
<1>4. CASE UNCHANGED <<vars, job>>
  <2>1. UNCHANGED <<pc, diff, i, patches, open, staged, tree, before, outcome, job>>
    BY <1>4 DEF vars
  <2>2. IJob' /\ IFiles'
    BY <1>1, <2>1 DEF IJob, IFiles, NotWritten, LastWritten
  <2>3. IRead'
    BY <1>1, <2>1 DEF IRead, Spoiled
  <2>4. (Readable(job) => AppliedExactly)' /\ FreshDiffApplies'
    BY <1>1, <2>1, NothingNew
  <2>5. IGlued' /\ IEmpty'
    <3>1. /\ \A n : GluedAt(diff', n) <=> GluedAt(diff, n)
          /\ \A n : Towards(n)' <=> Towards(n)
          /\ NoneGlued' <=> NoneGlued
      BY <2>1 DEF Towards, NoneGlued
    <3> QED BY <1>1, <2>1, <3>1 DEF IGlued, IEmpty
  <2> QED BY <1>3, <2>2, <2>3, <2>4, <2>5 DEF PInv
<1>5. CASE Next /\ UNCHANGED job
  <2>1. UNCHANGED <<diff, before, job>>
    BY <1>5
    DEF Next, Parse, FileHeader, MalformedHeader, HunkHeader, OrphanHunk, HunkLine, SkippedLine,
        ParseEnds, NothingParsed, PatchError, Parsed, Render, RenderRefuses, RenderRaises,
        RenderEnds, Write, WriteRaises, WriteEnds, Done, vars
  <2>2. IJob' /\ IRead' /\ IFiles' /\ IGlued' /\ IEmpty'
    BY <1>1, <1>5, <2>1, ReadKeeps, FilesKeep, GluedKeeps DEF IJob
  <2>3. \/ Done
        \/ outcome' \notin {"applied", "refused"}
        \/ WriteEnds /\ outcome' = "applied"
        \/ /\ MalformedHeader \/ OrphanHunk \/ NothingParsed \/ RenderRefuses
           /\ outcome' = "refused"
    BY <1>1, <1>5
    DEF Next, Parse, FileHeader, MalformedHeader, HunkHeader, OrphanHunk, HunkLine, SkippedLine,
        ParseEnds, NothingParsed, PatchError, Parsed, Parsing, Render, Rendering, RenderRefuses,
        RenderRaises, RenderEnds, Write, Writing, WriteRaises, WriteEnds, IInv, IPhase
  <2>4. CASE Done
    <3>1. UNCHANGED <<tree, before, outcome, job>>
      BY <2>1, <2>4 DEF Done, vars
    <3>2. (Readable(job) => AppliedExactly)' /\ FreshDiffApplies'
      BY <1>1, <3>1, NothingNew
    <3> QED BY <1>3, <2>2, <3>2 DEF PInv
  <2>5. CASE outcome' \notin {"applied", "refused"}
    BY <1>3, <2>2, <2>5 DEF PInv, AppliedExactly, FreshDiffApplies
  <2>6. CASE WriteEnds /\ outcome' = "applied"
    <3>1. Readable(job) => AppliedExactly'
      BY <1>1, <1>5, <2>6, EndIsReplayed DEF Readable
    <3>2. FreshDiffApplies'
      BY <2>6 DEF FreshDiffApplies
    <3>3. Readable(job') => AppliedExactly'
      BY <2>1, <3>1
    <3> QED BY <1>3, <2>2, <3>2, <3>3 DEF PInv
  <2>7. CASE /\ MalformedHeader \/ OrphanHunk \/ NothingParsed \/ RenderRefuses
             /\ outcome' = "refused"
    <3>1. ~ (Fresh /\ job.form = "printed" /\ Clean(job, before))
      BY <1>1, <2>7, CleanIsNotRefused
    <3>2. FreshDiffApplies'
      BY <2>1, <3>1 DEF FreshDiffApplies, Fresh, Clean
    <3>3. AppliedExactly'
      BY <2>7 DEF AppliedExactly
    <3> QED BY <1>3, <2>2, <3>2, <3>3 DEF PInv
  <2> QED BY <2>3, <2>4, <2>5, <2>6, <2>7
<1> QED
  BY <1>4, <1>5 DEF PipelineNext

(* and so it holds always.                                                    *)
LEMMA PInvAlways == PipelineSpec => []PInv
BY InitPInv, NextPInv, PTL DEF PipelineSpec

(* When apply_unified_diff returns, the files are what the proposal's edit    *)
(* scripts say, whatever stood in them when the scripts were made: each       *)
(* file agrees with every line that the last script printed of it by          *)
(* _unified_diff shows, holds the replay of that script if it ended in a      *)
(* newline, and a file the proposal does not name has not changed.  So it     *)
(* is for every proposal that shows something of each of its files and in     *)
(* whose diff no two lines run together, however the diff was laid out and    *)
(* whatever the call comes across.  Left out is a diff with a false header: a *)
(* deleted line that begins with `-- ` and an added one that begins with `++ `*)
(* behind it, which the parser takes for the header of a file there may be.   *)
THEOREM LegibleIsReplayed == PipelineSpec => [](Legible(job) => AppliedIsReplayed)
<1>1. PInv => (Legible(job) => AppliedIsReplayed)
  BY DEF PInv, Readable, AppliedExactly, AppliedIsReplayed
<1>2. QED
  BY <1>1, PInvAlways, PTL

(* A diff that _unified_diff printed of the files as they are, none of them   *)
(* empty and each of them changed, with a newline at every end of file and    *)
(* no line that looks like a header, is never refused: parse_unified_diff     *)
(* reads it back whole, every kept and deleted line is found where its hunk   *)
(* says, and the user gets no PatchApplyError for a good patch.               *)
THEOREM FreshApplies == PipelineSpec => []FreshDiffApplies
<1>1. PInv => FreshDiffApplies
  BY DEF PInv
<1>2. QED
  BY <1>1, PInvAlways, PTL

(* The script of a generated diff of the file as it is.                       *)
Proposed(p, script) ==
  /\ script \in Seq(Entries) /\ OneEdit(job, script) /\ LastScript(p) = script
  /\ p \in DOMAIN before /\ before[p] \in Texts
  /\ OldText(script) = AsRead(before[p])
  /\ NewText(script) = Intended(before[p], job.finding)
  /\ EndsKnown(before[p], NewText(script))
  /\ Ordered(script)

(* There is one for each file that such a diff names.                         *)
LEMMA ProposalKnown ==
  ASSUME IJob, Generated, Fresh, NEW p \in Edited,
         NoFormFeed(before[p]),
         ~ job.finding.shared, job.finding.begins = job.finding.first
  PROVE  \E script : Proposed(p, script)
<1>1. before = job.base /\ job \in Jobs /\ job.finding \in Findings
  BY JobsAssumption DEF IJob, Fresh
<1> DEFINE script == job.edits[1].script
<1>2. PICK q \in DOMAIN before :
        /\ job.form = "printed" /\ TrueOf(AsRead(before[q]), job.finding)
        /\ LastEnds(before[q])
        /\ job.edits = <<[path |-> q, script |-> script]>>
        /\ Proposes(before[q], job.finding, script)
  BY <1>1, JobsAssumption DEF Generated, LastEnds
<1> HIDE DEF script
<1>4. /\ Len(job.edits) = 1 /\ DOMAIN job.edits = {1} /\ job.edits # <<>>
      /\ job.edits[1].path = q /\ job.edits[1].script = script
  BY <1>2
<1>5. p = q
  BY <1>4 DEF Edited
<1>6. /\ WellFormed(job) /\ before[q] \in Texts
      /\ \A k \in DOMAIN job.edits :
           job.edits[k].path \in Paths /\ job.edits[k].script \in Seq(Entries)
  BY <1>2, JobFacts
<1> DEFINE text == before[q]  finding == job.finding
<1>7. LastScript(p) = script
  <2>1. /\ 1 \in DOMAIN job.edits /\ DOMAIN job.edits \subseteq Nat
        /\ \A n \in DOMAIN job.edits : job.edits[n].path = job.edits[1].path => n <= 1
    BY <1>4
  <2> QED BY <1>4, <1>5, <2>1, LastScriptIs
<1>8. PICK new \in Patched(AsRead(text), finding) : Aligns(script, AsRead(text), new)
  BY <1>2 DEF Proposes
<1>9. text \in Texts /\ AsRead(text) \in Texts /\ script \in Seq(Entries)
  <2>1. text \in Texts /\ script \in Seq(Entries)
    BY <1>4, <1>6
  <2>2. AsRead(text) \in Texts
    BY <2>1, AsReadLines DEF Texts
  <2> QED BY <2>1, <2>2
<1>10. /\ NoFormFeed(text) /\ LastEnds(text) /\ TrueOf(AsRead(text), finding)
       /\ finding \in Findings /\ finding.kind # "none"
       /\ ~ finding.shared /\ finding.begins = finding.first
  BY <1>1, <1>2, <1>5 DEF Generated
<1>11. OldText(script) = AsRead(text)
  <2>1. 1 \in DOMAIN job.edits /\ q \in DOMAIN job.base
    BY <1>1, <1>4
  <2>2. OldText(job.edits[1].script) = AsRead(job.base[job.edits[1].path])
    BY <1>1, <1>4, <2>1, JobsAssumption
  <2> QED BY <1>1, <1>4, <2>2
<1> HIDE DEF text, finding
<1>16. finding.at # finding.first
  <2>1. ASSUME finding.at = 0 PROVE Patched(AsRead(text), finding) = {}
    <3>1. ~ Editable(finding)
      BY <2>1 DEF Editable
    <3>2. /\ MutableDefault(AsRead(text), finding) = {}
          /\ SharedClassAttr(AsRead(text), finding) = {}
      BY <3>1, Zenon DEF MutableDefault, SharedClassAttr
    <3>3. SchemaKey(AsRead(text), finding) = {}
      BY <2>1, Zenon DEF SchemaKey
    <3>4. finding.kind \in Kinds
      BY <1>10 DEF Findings
    <3> QED BY <3>2, <3>3, <3>4 DEF Patched, Kinds
  <2> QED BY <1>8, <1>10, <2>1 DEF TrueOf
<1>12. new \in Texts /\ new = Intended(text, finding)
  BY <1>8, <1>9, <1>10, <1>16, IntendedText
<1>13. NewText(script) = new /\ Ordered(script)
  BY <1>8, AlignsOrdered DEF Aligns
<1>14. EndsKnown(text, NewText(script))
  BY <1>9, <1>10, <1>12, <1>13, <1>16, IntendedEnds DEF EndsKnown
<1>15. OneEdit(job, script)
  BY <1>2, <1>4, <1>6, <1>10 DEF OneEdit, finding
<1> QED
  BY <1>5, <1>7, <1>9, <1>11, <1>12, <1>13, <1>14, <1>15 DEF Proposed, text, finding

(* What is applied of a legible one is what the template is meant to do.      *)
LEMMA AppliedIsIntended ==
  ASSUME Legible(job), AppliedExactly, outcome = "applied", DOMAIN tree = DOMAIN before,
         NEW p \in Edited, NEW script, Proposed(p, script)
  PROVE  tree[p] = Intended(before[p], job.finding)
<1> DEFINE text == before[p]
<1>1. /\ script \in Seq(Entries) /\ OneEdit(job, script) /\ LastScript(p) = script
      /\ p \in DOMAIN before /\ text \in Texts
      /\ OldText(script) = AsRead(text)
      /\ NewText(script) = Intended(text, job.finding)
      /\ EndsKnown(text, NewText(script))
  BY DEF Proposed
<1>2. tree[p] = Replayed(text, script)
  BY <1>1 DEF AppliedExactly
<1> HIDE DEF text
<1>3. \A k \in DOMAIN script : script[k].tag = "+" => script[k].line.end = "lf"
  BY <1>1, AddedEnds
<1>4. Replayed(text, script) = NewText(script)
  BY <1>1, <1>3, ReplayedFresh
<1> QED
  BY <1>1, <1>2, <1>4 DEF text

(* An illegible one is not applied at all.                                    *)
LEMMA IllegibleNotApplied ==
  ASSUME IJob, IGlued, IEmpty, Generated, Fresh, ~ Legible(job), ~ FalseHeader(job),
         NEW p, NEW script, Proposed(p, script)
  PROVE  outcome # "applied"
<1> DEFINE text == before[p]
<1>1. /\ script \in Seq(Entries) /\ OneEdit(job, script) /\ text \in Texts
      /\ OldText(script) = AsRead(text)
      /\ EndsKnown(text, NewText(script)) /\ Ordered(script)
  BY DEF Proposed
<1>2. diff = DiffOf(job)
  BY DEF IJob
<1>3. NoneGlued
  <2>1. before = job.base /\ job \in Jobs
    BY DEF IJob, Fresh
  <2> QED BY <2>1, JobsAssumption DEF Generated, NoneGlued
<1> HIDE DEF text
<1>4. CASE Shown(script) = {}
  <2>1. diff = <<>>
    BY <1>1, <1>2, <1>4, NothingJoined
  <2> QED BY <2>1 DEF IEmpty
<1>5. CASE Shown(script) # {}
  <2>1. \E n \in Nat : GluedAt(diff, n)
    BY <1>1, <1>2, <1>5, IllegibleIsGlued
  <2> QED BY <1>3, <2>1 DEF IGlued
<1> QED
  BY <1>4, <1>5

(* The file that a generated patch leaves differs from the one it was made    *)
(* for in the lines of its template only: whatever the template inserts and   *)
(* deletes, the rows behind stay what they were, wherever the default, the    *)
(* attribute and __init__ stand, however the file ends and whichever lines    *)
(* difflib keeps: where a line without an end makes two lines of the diff run *)
(* together, the hunk wants a line that the file does not have, and the patch *)
(* is refused.  Left out are files with form feeds; attributes and first      *)
(* statements that share their row with other code, as in a def of one row;   *)
(* first statements with decorators, where the template puts its line below   *)
(* them; and diffs with a false header.                                       *)
THEOREM PatchesAsIntended == PipelineSpec => []PatchedAsIntended
<1>1. PInv => PatchedAsIntended
  <2> SUFFICES ASSUME PInv, outcome = "applied", Generated, Fresh, NEW p \in Edited,
                      NoFormFeed(before[p]), ~ FalseHeader(job),
                      ~ job.finding.shared, job.finding.begins = job.finding.first
               PROVE  tree[p] = Intended(before[p], job.finding)
    BY DEF PatchedAsIntended
  <2>1. /\ IJob /\ IGlued /\ IEmpty /\ (Readable(job) => AppliedExactly)
        /\ DOMAIN tree = DOMAIN before
    BY DEF PInv, IInv, IType, TypeOK
  <2>2. PICK script : Proposed(p, script)
    BY <2>1, ProposalKnown
  <2>3. Legible(job)
    BY <2>1, <2>2, IllegibleNotApplied
  <2>4. AppliedExactly
    BY <2>1, <2>3 DEF Readable
  <2> QED BY <2>1, <2>2, <2>3, <2>4, AppliedIsIntended
<1>2. QED
  BY <1>1, PInvAlways, PTL
=============================================================================
