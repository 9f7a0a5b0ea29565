------------------------- MODULE PatchApplierProofs --------------------------
(* Proofs about the applier for every diff and every tree, and that what the  *)
(* pipeline feeds it is a case of that.                                       *)
EXTENDS PatchPipeline, ListProofs

(* What a file of the tree comes to when its part of the diff is rendered.    *)
RenderedOf(patch) == [path |-> patch.path,
                      text |-> Rendered(AsRead(before[patch.path]), patch.hunks)]
StagedFiles == {RenderedOf(patch) : patch \in FilePatches}

(* Each staged file is the rendering of its part of the diff, and that part   *)
(* was verified, against the files as they were when the call began.          *)
StagedOf(patch, file) ==
  /\ patch.path \in DOMAIN before
  /\ Verified(AsRead(before[patch.path]), patch.hunks)
  /\ file = RenderedOf(patch)

IType == TypeOK /\ diff \in Seq(DiffLines) /\ staged \in Seq(StagedFiles)

(* How far each phase has come.                                               *)
IPhase == /\ pc = "parse"  => outcome = "none" /\ tree = before /\ Len(staged) = 0
          /\ pc = "render" => /\ outcome = "none" /\ tree = before
                              /\ Len(staged) = i - 1 /\ i <= Len(patches) + 1
          /\ pc = "write"  => outcome = "none" /\ Len(staged) = Len(patches)

IStaged == \A k \in 1 .. Len(staged) : StagedOf(patches[k], staged[k])

(* Only the writer changes the tree, and it begins when all is staged.        *)
IWritten == tree # before => outcome # "refused" /\ Len(staged) = Len(patches)

IInv == IType /\ IPhase /\ IStaged /\ IWritten /\ OneTornFile

(* The invariant holds when the call begins.                                  *)
LEMMA InitIInv == Init => IInv
<1> SUFFICES ASSUME Init PROVE IInv
  OBVIOUS
<1>1. patches = <<>> /\ staged = <<>> /\ tree = before
  BY DEF Init, Start
<1>2. patches \in Seq(FilePatches) /\ staged \in Seq(StagedFiles)
      /\ Len(staged) = 0 /\ Len(patches) = 0
  BY <1>1
<1>3. IType
  <2>1. open \in BOOLEAN
    BY DEF Init, Start
  <2>2. pc = "parse" /\ i = 1 /\ outcome = "none" /\ diff \in Seq(DiffLines)
    BY DEF Init, Start
  <2>3. QED
    BY <1>1, <1>2, <2>1, <2>2 DEF IType, TypeOK
<1>4. IPhase /\ IStaged
  BY <1>1, <1>2 DEF Init, Start, IPhase, IStaged
<1>5. IWritten /\ OneTornFile
  BY <1>1 DEF IWritten, OneTornFile
<1>6. QED
  BY <1>3, <1>4, <1>5 DEF IInv

(* Replacing an element of a sequence.                                        *)
LEMMA SeqExcept ==
  ASSUME NEW S, NEW s \in Seq(S), NEW m, NEW e, m \in 1 .. Len(s) => e \in S
  PROVE  [s EXCEPT ![m] = e] \in Seq(S)
<1>1. s \in [1 .. Len(s) -> S] /\ Len(s) \in Nat
  OBVIOUS
<1>2. [s EXCEPT ![m] = e] \in [1 .. Len(s) -> S]
  BY <1>1
<1>3. QED
  BY <1>1, <1>2

HunkLines == [tag: {"kept", "-", "+"}, body: Bodies]

(* The parts of a diff are well-formed whatever line is read.                 *)
LEMMA ParseTypes ==
  ASSUME IInv, Parse
  PROVE  patches' \in Seq(FilePatches) /\ i' \in Nat \ {0} /\ open' \in BOOLEAN
<1>1. /\ patches \in Seq(FilePatches) /\ i \in Nat \ {0}
      /\ diff \in Seq(DiffLines)
  BY DEF IInv, IType, TypeOK
<1>2. open \in BOOLEAN
  BY DEF IInv, IType, TypeOK
<1>3. ASSUME NEW k \in 1 .. Len(diff)
      PROVE  /\ diff[k].path \in Paths \union {NoPath} /\ diff[k].start \in Nat
             /\ diff[k].body \in Bodies
  <2>1. diff[k] \in DiffLines
    BY <1>1, <1>3
  <2>2. QED
    BY <2>1 DEF DiffLines
<1>4. CASE FileHeader
  <2>1. i + 1 \in 1 .. Len(diff)
    BY <1>1, <1>4 DEF FileHeader, Parsing, AfterHeader
  <2> DEFINE patch == [path |-> diff[i + 1].path, hunks |-> <<>>]
  <2>2. patch \in FilePatches
    <3>1. <<>> \in Seq(Hunks)
      OBVIOUS
    <3>2. QED
      BY <1>3, <2>1, <3>1 DEF FilePatches
  <2>3. patches' = Append(patches, patch) /\ i' = i + 2
    BY <1>4 DEF FileHeader, Parsed
  <2>4. open' \in BOOLEAN
    BY <1>4 DEF FileHeader
  <2> HIDE DEF patch
  <2>5. QED
    BY <1>1, <2>2, <2>3, <2>4
<1>5. CASE HunkHeader
  <2>1. i \in 1 .. Len(diff)
    BY <1>1, <1>5 DEF HunkHeader, Parsing
  <2> DEFINE hunk == [start |-> diff[i].start, lines |-> <<>>]
             m == Len(patches)
             hunks == Append(patches[m].hunks, hunk)
  <2>2. hunk \in Hunks
    <3>1. <<>> \in Seq(HunkLines)
      OBVIOUS
    <3>2. QED
      BY <1>3, <2>1, <3>1 DEF Hunks, HunkLines
  <2>3. patches' = [patches EXCEPT ![m] = [patches[m] EXCEPT !.hunks = hunks]]
    BY <1>5 DEF HunkHeader
  <2>4. m \in 1 .. Len(patches) => [patches[m] EXCEPT !.hunks = hunks] \in FilePatches
    <3> SUFFICES ASSUME m \in 1 .. Len(patches)
                 PROVE  [patches[m] EXCEPT !.hunks = hunks] \in FilePatches
      OBVIOUS
    <3> DEFINE patch == patches[m]
    <3>1. patch \in FilePatches
      BY <1>1
    <3> HIDE DEF patch, hunk
    <3>2. hunks \in Seq(Hunks)
      BY <2>2, <3>1 DEF FilePatches, patch
    <3> HIDE DEF hunks
    <3>3. [patch EXCEPT !.hunks = hunks] \in FilePatches
      BY <3>1, <3>2 DEF FilePatches
    <3>4. QED
      BY <3>3 DEF patch
  <2> HIDE DEF hunks, m
  <2>5. patches' \in Seq(FilePatches)
    BY <1>1, <2>3, <2>4, SeqExcept
  <2>6. open' \in BOOLEAN
    BY <1>5 DEF HunkHeader
  <2>7. i' = i + 1
    BY <1>5 DEF HunkHeader, Parsed
  <2>8. QED
    BY <1>1, <2>5, <2>6, <2>7
<1>6. CASE HunkLine
  <2>1. i \in 1 .. Len(diff)
    <3>1. Parsing
      BY <1>6 DEF HunkLine
    <3>2. QED
      BY <1>1, <3>1 DEF Parsing
  <2> DEFINE l == [tag  |-> CASE diff[i].tag = "blank" -> "kept"
                              [] diff[i].tag = "+++"   -> "+"
                              [] OTHER                 -> diff[i].tag,
                   body |-> diff[i].body]
             m == Len(patches)
             h == Len(patches[m].hunks)
             hunk == [patches[m].hunks[h] EXCEPT !.lines = Append(patches[m].hunks[h].lines, l)]
             hunks == [patches[m].hunks EXCEPT ![h] = hunk]
             patch == [patches[m] EXCEPT !.hunks = hunks]
  <2>2. l \in HunkLines
    <3>1. diff[i].tag \in {"kept", "+", "-", "blank", "+++"}
      BY <1>6 DEF HunkLine, IsHunkLine
    <3>2. QED
      BY <1>3, <2>1, <3>1 DEF HunkLines
  <2>3. patches' = [patches EXCEPT ![m] = patch]
    BY <1>6 DEF HunkLine
  <2>4. m \in 1 .. Len(patches) => patch \in FilePatches
    <3> SUFFICES ASSUME m \in 1 .. Len(patches) PROVE patch \in FilePatches
      OBVIOUS
    <3> HIDE DEF l
    <3> DEFINE old == patches[m]
    <3>1. old \in FilePatches
      BY <1>1
    <3>2. patches[m].hunks \in Seq(Hunks)
      BY <3>1 DEF FilePatches
    <3>3. h \in 1 .. Len(patches[m].hunks) => hunk \in Hunks
      <4> DEFINE last == patches[m].hunks[h]
      <4> SUFFICES ASSUME h \in 1 .. Len(patches[m].hunks) PROVE hunk \in Hunks
        OBVIOUS
      <4>1. last \in Hunks
        BY <3>2
      <4> HIDE DEF last
      <4>2. last.lines \in Seq(HunkLines)
        BY <4>1 DEF Hunks, HunkLines
      <4> DEFINE ls == Append(last.lines, l)
      <4>3. ls \in Seq(HunkLines)
        BY <2>2, <4>2
      <4> HIDE DEF ls
      <4>4. [last EXCEPT !.lines = ls] \in Hunks
        BY <4>1, <4>3 DEF Hunks, HunkLines
      <4>5. QED
        BY <4>4 DEF last, ls
    <3> HIDE DEF hunk
    <3>4. hunks \in Seq(Hunks)
      BY <3>2, <3>3, SeqExcept
    <3> HIDE DEF hunks, old
    <3>5. [old EXCEPT !.hunks = hunks] \in FilePatches
      BY <3>1, <3>4 DEF FilePatches
    <3>6. QED
      BY <3>5 DEF old
  <2> HIDE DEF patch, m
  <2>5. patches' \in Seq(FilePatches)
    BY <1>1, <2>3, <2>4, SeqExcept
  <2>6. open' = open /\ i' = i + 1
    BY <1>6 DEF HunkLine, Parsed
  <2>7. QED
    BY <1>1, <1>2, <2>5, <2>6
<1>7. CASE SkippedLine
  <2>1. patches' = patches /\ open' = open /\ i' = i + 1
    BY <1>7 DEF SkippedLine, Parsed
  <2>2. QED
    BY <1>1, <1>2, <2>1
<1>8. CASE MalformedHeader \/ OrphanHunk \/ NothingParsed
  <2>1. patches' = patches /\ open' = open /\ i' = i
    BY <1>8 DEF MalformedHeader, OrphanHunk, NothingParsed, PatchError
  <2>2. QED
    BY <1>1, <1>2, <2>1
<1>9. CASE ParseEnds
  <2>1. patches' = patches /\ open' = open /\ i' = 1
    BY <1>9 DEF ParseEnds
  <2>2. QED
    BY <1>1, <1>2, <2>1
<1>10. QED
  BY <1>4, <1>5, <1>6, <1>7, <1>8, <1>9 DEF Parse

(* Reading the diff touches no file.                                          *)
LEMMA ParseKeeps == ASSUME IInv, Parse PROVE IInv'
<1>1. /\ pc = "parse" /\ outcome = "none" /\ tree = before /\ Len(staged) = 0
      /\ staged \in Seq(StagedFiles) /\ diff \in Seq(DiffLines) /\ patches \in Seq(FilePatches)
  <2>1. pc = "parse"
    BY DEF Parse, FileHeader, MalformedHeader, HunkHeader, OrphanHunk, HunkLine, SkippedLine,
           ParseEnds, NothingParsed, Parsing
  <2>2. QED
    BY <2>1 DEF IInv, IType, IPhase, TypeOK
<1>2. UNCHANGED <<diff, staged, tree, before>>
  BY DEF Parse, FileHeader, MalformedHeader, HunkHeader, OrphanHunk, HunkLine, SkippedLine,
         ParseEnds, NothingParsed, Parsed, PatchError
<1>3. \/ pc' = "parse" /\ outcome' = "none"
      \/ pc' = "render" /\ outcome' = "none" /\ i' = 1
      \/ pc' = "done" /\ outcome' = "refused"
  BY <1>1 DEF Parse, FileHeader, MalformedHeader, HunkHeader, OrphanHunk, HunkLine, SkippedLine,
              ParseEnds, NothingParsed, Parsed, PatchError
<1>4. IType'
  <2>1. /\ patches' \in Seq(FilePatches) /\ i' \in Nat \ {0}
    BY ParseTypes
  <2>2. open' \in BOOLEAN
    BY ParseTypes
  <2>3. diff' \in Seq(DiffLines) /\ staged' \in Seq(StagedFiles)'
    BY <1>1, <1>2 DEF StagedFiles, RenderedOf
  <2>4. Len(staged') <= Len(patches')
    BY <1>1, <1>2, <2>1
  <2>5. DOMAIN tree' = DOMAIN before'
    BY <1>1, <1>2
  <2>6. QED
    BY <1>3, <2>1, <2>2, <2>3, <2>4, <2>5 DEF IType, TypeOK
<1>5. IPhase'
  <2>1. Len(patches') \in Nat
    BY ParseTypes
  <2>2. QED
    BY <1>1, <1>2, <1>3, <2>1 DEF IPhase
<1>6. IStaged' /\ IWritten' /\ OneTornFile'
  BY <1>1, <1>2 DEF IStaged, IWritten, OneTornFile
<1>7. QED
  BY <1>4, <1>5, <1>6 DEF IInv

(* Rendering touches no file either, and stages what it verified.             *)
LEMMA RenderKeeps == ASSUME IInv, Render PROVE IInv'
<1>1. /\ pc = "render" /\ outcome = "none" /\ tree = before
      /\ Len(staged) = i - 1 /\ i <= Len(patches)
  BY DEF Render, Rendering, IInv, IPhase
<1>2. /\ staged \in Seq(StagedFiles) /\ diff \in Seq(DiffLines)
      /\ patches \in Seq(FilePatches) /\ i \in Nat \ {0}
  BY DEF IInv, IType, TypeOK
<1>3. open \in BOOLEAN
  BY DEF IInv, IType, TypeOK
<1> DEFINE file == RenderedOf(patches[i])
<1>4. patches[i] \in FilePatches
  BY <1>1, <1>2
<1>5. StagedOf(patches[i], file) /\ staged' = Append(staged, file)
  BY <1>1, <1>4 DEF Render, Target, Original, StagedOf, RenderedOf
<1>6. file \in StagedFiles
  BY <1>4 DEF StagedFiles
<1>7. UNCHANGED <<pc, diff, patches, open, tree, before, outcome>> /\ i' = i + 1
  BY DEF Render
<1> HIDE DEF file
<1>8. staged' \in Seq(StagedFiles) /\ Len(staged') = i
  BY <1>1, <1>2, <1>5, <1>6
<1>9. IType'
  <2>1. Seq(StagedFiles)' = Seq(StagedFiles)
    BY <1>7 DEF StagedFiles, RenderedOf
  <2>2. open' \in BOOLEAN
    BY <1>3, <1>7
  <2>3. Len(staged') <= Len(patches')
    BY <1>1, <1>7, <1>8
  <2>4. QED
    BY <1>1, <1>2, <1>7, <1>8, <2>1, <2>2, <2>3 DEF IType, TypeOK
<1>10. IPhase'
  BY <1>1, <1>2, <1>7, <1>8 DEF IPhase
<1>11. IStaged'
  <2> SUFFICES ASSUME NEW k \in 1 .. i PROVE StagedOf(patches[k], staged'[k])
    BY <1>7, <1>8 DEF IStaged, StagedOf, RenderedOf
  <2>1. CASE k = i
    BY <1>1, <1>2, <1>5, <2>1
  <2>2. CASE k # i
    <3>1. k \in 1 .. Len(staged) /\ staged'[k] = staged[k]
      BY <1>1, <1>2, <1>5, <2>2
    <3>2. QED
      BY <3>1 DEF IInv, IStaged
  <2>3. QED
    BY <2>1, <2>2
<1>12. IWritten' /\ OneTornFile'
  BY <1>1, <1>7 DEF IWritten, OneTornFile
<1>13. QED
  BY <1>9, <1>10, <1>11, <1>12 DEF IInv

(* What both ways to write a file have in common.                             *)
LEMMA Written ==
  ASSUME IInv, Writing
  PROVE  /\ pc = "write" /\ outcome = "none" /\ Len(staged) = Len(patches)
         /\ i \in 1 .. Len(staged) /\ staged \in Seq(StagedFiles)
         /\ staged[i].path \in DOMAIN before /\ DOMAIN tree = DOMAIN before
<1>1. pc = "write" /\ outcome = "none" /\ Len(staged) = Len(patches)
  BY DEF Writing, IInv, IPhase
<1>2. i \in Nat \ {0} /\ staged \in Seq(StagedFiles) /\ DOMAIN tree = DOMAIN before
  BY DEF IInv, IType, TypeOK
<1>3. i \in 1 .. Len(staged)
  BY <1>2 DEF Writing
<1>4. StagedOf(patches[i], staged[i])
  BY <1>3 DEF IInv, IStaged
<1>5. staged[i].path \in DOMAIN before
  BY <1>4 DEF StagedOf, RenderedOf
<1>6. QED
  BY <1>1, <1>2, <1>3, <1>5

(* A write changes the file it writes, which it then holds in full.           *)
LEMMA WriteKeeps == ASSUME IInv, Write PROVE IInv'
<1>1. /\ pc = "write" /\ outcome = "none" /\ Len(staged) = Len(patches)
      /\ i \in 1 .. Len(staged) /\ staged \in Seq(StagedFiles)
      /\ staged[i].path \in DOMAIN before /\ DOMAIN tree = DOMAIN before
  BY Written DEF Write
<1>2. /\ UNCHANGED <<pc, diff, patches, open, staged, before, outcome>> /\ i' = i + 1
      /\ tree' = [tree EXCEPT ![staged[i].path] = staged[i].text]
  BY DEF Write
<1>3. diff \in Seq(DiffLines) /\ patches \in Seq(FilePatches) /\ open \in BOOLEAN
  BY DEF IInv, IType, TypeOK
<1>4. IType'
  <2>1. open' \in BOOLEAN
    BY <1>2, <1>3
  <2>2. Seq(StagedFiles)' = Seq(StagedFiles)
    BY <1>2 DEF StagedFiles, RenderedOf
  <2>3. i' \in Nat \ {0} /\ DOMAIN tree' = DOMAIN before' /\ Len(staged') <= Len(patches')
    BY <1>1, <1>2, <1>3
  <2>4. QED
    BY <1>1, <1>2, <1>3, <2>1, <2>2, <2>3 DEF IType, TypeOK
<1>5. IPhase' /\ IWritten'
  BY <1>1, <1>2 DEF IPhase, IWritten
<1>6. IStaged'
  BY <1>2 DEF IInv, IStaged, StagedOf, RenderedOf
<1>7. OneTornFile'
  <2> SUFFICES ASSUME NEW p \in DOMAIN tree, tree'[p] # before[p]
               PROVE  \E k \in DOMAIN staged :
                        /\ staged[k].path = p /\ k <= i + 1 /\ tree'[p] = staged[k].text
    BY <1>1, <1>2 DEF OneTornFile
  <2>1. CASE p = staged[i].path
    BY <1>1, <1>2, <2>1
  <2>2. CASE p # staged[i].path
    <3>1. tree'[p] = tree[p]
      BY <1>2, <2>2
    <3>2. PICK k \in DOMAIN staged : /\ staged[k].path = p /\ k <= i
                                      /\ tree[p] = staged[k].text
      BY <1>1, <3>1 DEF IInv, OneTornFile
    <3>3. k \in 1 .. Len(staged)
      BY <1>1, <3>2
    <3>4. QED
      BY <1>1, <3>1, <3>2, <3>3
  <2>3. QED
    BY <2>1, <2>2
<1>8. QED
  BY <1>4, <1>5, <1>6, <1>7 DEF IInv

(* A write that fails may tear the file it was writing.                       *)
LEMMA WriteRaisesKeeps == ASSUME IInv, WriteRaises PROVE IInv'
<1>1. /\ pc = "write" /\ outcome = "none" /\ Len(staged) = Len(patches)
      /\ i \in 1 .. Len(staged) /\ staged \in Seq(StagedFiles)
      /\ staged[i].path \in DOMAIN before /\ DOMAIN tree = DOMAIN before
  BY Written DEF WriteRaises
<1>2. /\ UNCHANGED <<diff, i, patches, open, staged, before>>
      /\ outcome' = "raised" /\ pc' = "done"
  BY DEF WriteRaises
<1>3. PICK text : tree' = tree \/ tree' = [tree EXCEPT ![staged[i].path] = text]
  BY DEF WriteRaises
<1>4. diff \in Seq(DiffLines) /\ patches \in Seq(FilePatches) /\ open \in BOOLEAN
  BY DEF IInv, IType, TypeOK
<1>5. IType'
  <2>1. open' \in BOOLEAN
    BY <1>2, <1>4
  <2>2. Seq(StagedFiles)' = Seq(StagedFiles)
    BY <1>2 DEF StagedFiles, RenderedOf
  <2>3. i' \in Nat \ {0} /\ DOMAIN tree' = DOMAIN before' /\ Len(staged') <= Len(patches')
    BY <1>1, <1>2, <1>3, <1>4
  <2>4. QED
    BY <1>1, <1>2, <1>4, <2>1, <2>2, <2>3 DEF IType, TypeOK
<1>6. IPhase' /\ IWritten'
  BY <1>1, <1>2 DEF IPhase, IWritten
<1>7. IStaged'
  BY <1>2 DEF IInv, IStaged, StagedOf, RenderedOf
<1>8. OneTornFile'
  <2> SUFFICES ASSUME NEW p \in DOMAIN tree, tree'[p] # before[p]
               PROVE  \E k \in DOMAIN staged :
                        /\ staged[k].path = p /\ k <= i
                        /\ tree'[p] = staged[k].text \/ k = i
    BY <1>1, <1>2, <1>3 DEF OneTornFile
  <2>1. CASE p = staged[i].path
    BY <1>1, <2>1
  <2>2. CASE p # staged[i].path
    <3>1. tree'[p] = tree[p]
      BY <1>3, <2>2
    <3>2. QED
      BY <1>1, <3>1 DEF IInv, OneTornFile
  <2>3. QED
    BY <2>1, <2>2
<1>9. QED
  BY <1>5, <1>6, <1>7, <1>8 DEF IInv

(* The steps that leave the files and what is staged alone.                   *)
LEMMA EndsKeep ==
  ASSUME IInv,
         RenderRefuses \/ RenderRaises \/ RenderEnds \/ WriteEnds \/ UNCHANGED vars
  PROVE  IInv'
<1>1. UNCHANGED <<diff, patches, open, staged, tree, before>>
  BY DEF RenderRefuses, RenderRaises, RenderEnds, WriteEnds, PatchError, vars
<1>2. /\ diff \in Seq(DiffLines) /\ patches \in Seq(FilePatches) /\ i \in Nat \ {0}
      /\ staged \in Seq(StagedFiles) /\ Len(staged) <= Len(patches)
      /\ DOMAIN tree = DOMAIN before /\ open \in BOOLEAN
  BY DEF IInv, IType, TypeOK
<1>3. i' \in Nat \ {0} /\ pc' \in {"parse", "render", "write", "done"}
      /\ outcome' \in {"none", "applied", "refused", "raised"}
  BY <1>2 DEF RenderRefuses, RenderRaises, RenderEnds, WriteEnds, PatchError, vars, IInv, IType,
              TypeOK
<1>4. IType'
  <2>1. open' \in BOOLEAN
    BY <1>1, <1>2
  <2>2. Seq(StagedFiles)' = Seq(StagedFiles)
    BY <1>1 DEF StagedFiles, RenderedOf
  <2>3. QED
    BY <1>1, <1>2, <1>3, <2>1, <2>2 DEF IType, TypeOK
<1>5. IPhase'
  BY <1>1, <1>2 DEF IInv, IPhase, RenderRefuses, RenderRaises, RenderEnds, WriteEnds, PatchError,
                    Rendering, vars
<1>6. IStaged'
  BY <1>1 DEF IInv, IStaged, StagedOf, RenderedOf
<1>7. IWritten'
  BY <1>1 DEF IInv, IPhase, IWritten, RenderRefuses, RenderRaises, RenderEnds, WriteEnds,
              PatchError, Rendering, vars
<1>8. OneTornFile'
  <2>1. CASE tree = before
    BY <1>1, <2>1 DEF OneTornFile
  <2>2. CASE tree # before
    <3>1. pc \in {"write", "done"} /\ (pc = "write" => outcome = "none")
      BY <2>2 DEF IInv, IType, TypeOK, IPhase
    <3>2. i' = i /\ (outcome = "raised" => outcome' = "raised")
      BY <3>1 DEF RenderRefuses, RenderRaises, RenderEnds, WriteEnds, Rendering, vars
    <3>3. QED
      BY <1>1, <3>2 DEF IInv, OneTornFile
  <2>3. QED
    BY <2>1, <2>2
<1>9. QED
  BY <1>4, <1>5, <1>6, <1>7, <1>8 DEF IInv

(* The invariant is inductive.                                                *)
LEMMA NextIInv == IInv /\ [Next]_vars => IInv'
<1> SUFFICES ASSUME IInv, [Next]_vars PROVE IInv'
  OBVIOUS
<1>1. CASE Parse
  BY <1>1, ParseKeeps
<1>2. CASE Render
  BY <1>2, RenderKeeps
<1>3. CASE Write
  BY <1>3, WriteKeeps
<1>4. CASE WriteRaises
  BY <1>4, WriteRaisesKeeps
<1>5. CASE RenderRefuses \/ RenderRaises \/ RenderEnds \/ WriteEnds \/ UNCHANGED vars
  BY <1>5, EndsKeep
<1>6. QED
  BY <1>1, <1>2, <1>3, <1>4, <1>5 DEF Next, Done

(* Whatever it is given, the applier keeps the invariant.                     *)
LEMMA IInvAlways == Spec => []IInv
<1>1. QED
  BY InitIInv, NextIInv, PTL DEF Spec

(* The variables keep their types: the parts of a diff are well-formed        *)
(* whatever lines it has, and no file appears or goes.                        *)
THEOREM ApplierTypes == Spec => []TypeOK
<1>1. IInv => TypeOK
  BY DEF IInv, IType
<1>2. QED
  BY <1>1, IInvAlways, PTL

(* apply_unified_diff's docstring, "nothing is written until all hunks of all *)
(* files verified": for every diff, every tree and every way to fail.         *)
THEOREM NothingHalfVerified == Spec => []AllOrNothing
<1>1. IInv => AllOrNothing
  <2> SUFFICES ASSUME IInv, tree # before
               PROVE  /\ outcome # "refused" /\ Len(staged) = Len(patches)
                      /\ \A k \in DOMAIN patches :
                           /\ patches[k].path \in DOMAIN before
                           /\ Verified(AsRead(before[patches[k].path]), patches[k].hunks)
                           /\ staged[k].text
                                = Rendered(AsRead(before[patches[k].path]), patches[k].hunks)
    BY DEF AllOrNothing
  <2>1. outcome # "refused" /\ Len(staged) = Len(patches)
    BY DEF IInv, IWritten
  <2>2. ASSUME NEW k \in DOMAIN patches PROVE StagedOf(patches[k], staged[k])
    <3>1. patches \in Seq(FilePatches)
      BY DEF IInv, IType, TypeOK
    <3>2. k \in 1 .. Len(staged)
      BY <2>1, <2>2, <3>1
    <3>3. QED
      BY <3>2 DEF IInv, IStaged
  <2>3. ASSUME NEW k \in DOMAIN patches
        PROVE  /\ patches[k].path \in DOMAIN before
               /\ Verified(AsRead(before[patches[k].path]), patches[k].hunks)
               /\ staged[k].text = Rendered(AsRead(before[patches[k].path]), patches[k].hunks)
    <3> DEFINE patch == patches[k]
               text == Rendered(AsRead(before[patch.path]), patch.hunks)
    <3>1. StagedOf(patch, staged[k])
      BY <2>2, <2>3
    <3>2. staged[k] = [path |-> patch.path, text |-> text]
      BY <3>1 DEF StagedOf, RenderedOf
    <3>3. patch.path \in DOMAIN before /\ Verified(AsRead(before[patch.path]), patch.hunks)
      BY <3>1 DEF StagedOf
    <3> HIDE DEF text
    <3>4. staged[k].text = text
      BY <3>2
    <3>5. QED
      BY <3>3, <3>4 DEF text
  <2>4. QED
    BY <2>1, <2>3
<1>2. QED
  BY <1>1, IInvAlways, PTL

(* A failing write leaves at most the file it was writing torn.               *)
THEOREM TornFileIsTheLast == Spec => []OneTornFile
<1>1. IInv => OneTornFile
  BY DEF IInv
<1>2. QED
  BY <1>1, IInvAlways, PTL

(* What the generator or another provider hands over is a case of the above:  *)
(* every behaviour of the pipeline is one of the applier.                     *)
THEOREM PipelineApplies == PipelineSpec => Spec
<1>1. PipelineInit => Init
  BY JobsAssumption DEF PipelineInit, Init, Trees
<1>2. [PipelineNext]_<<vars, job>> => [Next]_vars
  BY DEF PipelineNext, vars
<1>3. QED
  BY <1>1, <1>2, PTL DEF PipelineSpec, Spec

-----------------------------------------------------------------------------
(* What a verified rendering is: the edit that the hunks show.                *)

(* Counting the numbers of a set up to a bound.                               *)
CountTo(P, p) == Cardinality({j \in 1 .. p : j \in P})

(* A number more is counted if it is in the set.                              *)
LEMMA Counts ==
  ASSUME NEW P, NEW p \in Nat
  PROVE  /\ CountTo(P, p) \in Nat
         /\ CountTo(P, 0) = 0
         /\ CountTo(P, p + 1) = CountTo(P, p) + IF p + 1 \in P THEN 1 ELSE 0
<1> DEFINE T(q) == {j \in 1 .. q : j \in P}
<1>1. \A q \in Nat : IsFiniteSet(T(q)) /\ Cardinality(T(q)) \in Nat
  <2> TAKE q \in Nat
  <2>1. IsFiniteSet(1 .. q)
    BY FS_Interval
  <2> QED BY <2>1, FS_Subset, FS_CardinalityType
<1>2. T(0) = {}
  OBVIOUS
<1>3. CASE p + 1 \in P
  <2>1. T(p + 1) = T(p) \union {p + 1} /\ p + 1 \notin T(p)
    BY <1>3
  <2>2. Cardinality(T(p) \union {p + 1}) = Cardinality(T(p)) + 1
    BY <1>1, <2>1, FS_AddElement
  <2> QED BY <1>1, <1>2, <1>3, <2>1, <2>2, FS_EmptySet DEF CountTo
<1>4. CASE p + 1 \notin P
  <2>1. T(p + 1) = T(p)
    BY <1>4
  <2>2. Cardinality(T(p + 1)) = Cardinality(T(p)) /\ Cardinality(T(p)) \in Nat
    BY <1>1, <2>1
  <2>3. Cardinality(T(0)) = 0
    BY <1>2, FS_EmptySet
  <2>4. CountTo(P, p + 1) = CountTo(P, p) /\ CountTo(P, p) \in Nat /\ CountTo(P, 0) = 0
    BY <2>2, <2>3 DEF CountTo
  <2> QED BY <1>4, <2>4
<1> QED
  BY <1>3, <1>4

(* The line an entry is at: the first is at the first, and an entry of the    *)
(* old text moves on by one.                                                  *)
LEMMA OldLineSteps ==
  ASSUME NEW script \in Seq(Entries)
  PROVE  /\ OldLine(script, 1) = 1
         /\ \A k \in 1 .. Len(script) + 1 : OldLine(script, k) \in Nat \ {0}
         /\ \A k \in DOMAIN script :
              OldLine(script, k + 1) = OldLine(script, k)
                                       + IF script[k].tag # "+" THEN 1 ELSE 0
<1> DEFINE P == {j \in DOMAIN script : script[j].tag # "+"}
<1>1. DOMAIN script = 1 .. Len(script) /\ Len(script) \in Nat
  BY LenProperties
<1>2. \A k \in 1 .. Len(script) + 1 : OldLine(script, k) = 1 + CountTo(P, k - 1)
  <2> TAKE k \in 1 .. Len(script) + 1
  <2>1. {j \in 1 .. (k - 1) : script[j].tag # "+"} = {j \in 1 .. (k - 1) : j \in P}
    BY <1>1
  <2> QED BY <2>1 DEF OldLine, CountTo
<1>3. \A p \in Nat : /\ CountTo(P, p) \in Nat
                     /\ CountTo(P, 0) = 0
                     /\ CountTo(P, p + 1) = CountTo(P, p) + IF p + 1 \in P THEN 1 ELSE 0
  BY Counts
<1>4. \A k \in DOMAIN script : k \in P <=> script[k].tag # "+"
  OBVIOUS
<1> HIDE DEF P
<1>5. OldLine(script, 1) = 1
  <2>1. 1 \in 1 .. Len(script) + 1 /\ 1 - 1 = 0 /\ 0 \in Nat
    BY <1>1
  <2>2. OldLine(script, 1) = 1 + CountTo(P, 1 - 1)
    BY <1>2, <2>1
  <2>3. CountTo(P, 0) = 0
    BY <1>3, <2>1
  <2> QED BY <2>1, <2>2, <2>3
<1>6. ASSUME NEW k \in 1 .. Len(script) + 1 PROVE OldLine(script, k) \in Nat \ {0}
  <2>1. k - 1 \in Nat
    BY <1>1
  <2>2. CountTo(P, k - 1) \in Nat
    BY <1>3, <2>1
  <2> QED BY <1>2, <2>2
<1>7. ASSUME NEW k \in DOMAIN script
      PROVE  OldLine(script, k + 1) = OldLine(script, k)
                                      + IF script[k].tag # "+" THEN 1 ELSE 0
  <2>1. k \in 1 .. Len(script) + 1 /\ k + 1 \in 1 .. Len(script) + 1 /\ k - 1 \in Nat
        /\ (k - 1) + 1 = k /\ (k + 1) - 1 = k
    BY <1>1
  <2>2. CountTo(P, k) = CountTo(P, k - 1) + IF k \in P THEN 1 ELSE 0
    BY <1>3, <2>1
  <2>3. OldLine(script, k) = 1 + CountTo(P, k - 1) /\ OldLine(script, k + 1) = 1 + CountTo(P, k)
    BY <1>2, <2>1
  <2>4. CountTo(P, k - 1) \in Nat
    BY <1>3, <2>1
  <2> QED BY <1>4, <2>2, <2>3, <2>4
<1> QED
  BY <1>5, <1>6, <1>7

(* It never falls.                                                            *)
LEMMA OldLineGrows ==
  ASSUME NEW script \in Seq(Entries), NEW a \in 1 .. Len(script) + 1,
         NEW b \in 1 .. Len(script) + 1, a <= b
  PROVE  OldLine(script, a) <= OldLine(script, b)
<1> DEFINE N == Len(script)  old(k) == OldLine(script, k)
           S == {p \in Nat : a + p <= N + 1 => old(a) <= old(a + p)}
<1>1. N \in Nat /\ DOMAIN script = 1 .. N
  BY LenProperties
<1>2. /\ \A k \in 1 .. N + 1 : old(k) \in Nat \ {0}
      /\ \A k \in 1 .. N : old(k + 1) = old(k) + IF script[k].tag # "+" THEN 1 ELSE 0
  BY <1>1, OldLineSteps
<1>3. a \in 1 .. N + 1 /\ b \in 1 .. N + 1 /\ a <= b
  OBVIOUS
<1> HIDE DEF N, old
<1>4. 0 \in S
  <2>1. a + 0 = a /\ old(a) \in Nat
    BY <1>1, <1>2, <1>3
  <2> QED BY <2>1
<1>5. ASSUME NEW p \in Nat, p \in S PROVE p + 1 \in S
  <2>1. p + 1 \in Nat
    OBVIOUS
  <2>2. ASSUME a + (p + 1) <= N + 1 PROVE old(a) <= old(a + (p + 1))
    <3>1. a + p \in 1 .. N /\ a + p <= N + 1 /\ (a + p) + 1 = a + (p + 1)
          /\ a + p \in 1 .. N + 1 /\ a + (p + 1) \in 1 .. N + 1
      BY <1>1, <1>3, <2>2
    <3>2. old(a) <= old(a + p)
      BY <1>5, <3>1
    <3>3. old((a + p) + 1) = old(a + p) + IF script[a + p].tag # "+" THEN 1 ELSE 0
      BY <1>2, <3>1
    <3>4. old(a) \in Nat /\ old(a + p) \in Nat
      BY <1>2, <1>3, <3>1
    <3>5. old((a + p) + 1) >= old(a + p)
      BY <3>3, <3>4
    <3>6. old(a + (p + 1)) \in Nat
      BY <1>2, <3>1
    <3> HIDE DEF S
    <3> QED BY <3>1, <3>2, <3>4, <3>5, <3>6
  <2> QED BY <2>1, <2>2
<1> HIDE DEF S
<1>6. b - a \in Nat /\ Nat \subseteq S
  BY <1>1, <1>3, <1>4, <1>5, SetInduction
<1>7. b - a \in S /\ a + (b - a) = b /\ b <= N + 1
  BY <1>1, <1>3, <1>6
<1> QED
  BY <1>7 DEF S, old

(* A list of entries of the old text has as many as there are old lines.      *)
LEMMA OldTextLength ==
  ASSUME NEW script \in Seq(Entries)
  PROVE  /\ OldText(script) \in Seq(Lines)
         /\ Len(OldText(script)) = OldLine(script, Len(script) + 1) - 1
<1> DEFINE places == {k \in DOMAIN script : script[k].tag # "+"}
           old == Kept(script, places)
<1>1. DOMAIN script = 1 .. Len(script) /\ Len(script) \in Nat
  BY LenProperties
<1>2. old \in Seq(Entries) /\ Len(old) = Cardinality(places)
  BY KeptElements
<1>3. OldText(script) = [k \in DOMAIN old |-> old[k].line]
  BY DEF OldText
<1>4. places = {j \in 1 .. ((Len(script) + 1) - 1) : script[j].tag # "+"}
  BY <1>1
<1>5. OldLine(script, Len(script) + 1) = 1 + Cardinality(places)
  BY <1>4 DEF OldLine
<1> HIDE DEF old, places
<1>6. DOMAIN old = 1 .. Len(old) /\ Len(old) \in Nat /\ \A k \in DOMAIN old : old[k].line \in Lines
  <2>1. DOMAIN old = 1 .. Len(old) /\ Len(old) \in Nat /\ \A k \in DOMAIN old : old[k] \in Entries
    BY <1>2
  <2>2. \A e \in Entries : e.line \in Lines
    BY DEF Entries
  <2> QED BY <2>1, <2>2
<1>7. OldText(script) \in Seq(Lines) /\ Len(OldText(script)) = Len(old)
  BY <1>3, <1>6
<1> QED
  BY <1>2, <1>5, <1>6, <1>7

(* The part of a list from one place to another, as far as the list goes.     *)
Cut(s, p, q) == SubSeq(s, p, Least(q, Len(s)))

(* A cut and the one behind it make one.                                      *)
LEMMA CutJoins ==
  ASSUME NEW S, NEW s \in Seq(S), NEW p \in Nat \ {0}, NEW q \in Nat, NEW r \in Nat,
         p <= q + 1, q <= r \/ Len(s) <= r
  PROVE  Cut(s, p, q) \o Cut(s, q + 1, r) = Cut(s, p, r)
<1> DEFINE L == Len(s)
<1>1. L \in Nat /\ \A k \in 1 .. L : s[k] \in S
  BY LenProperties
<1> HIDE DEF L
<1>2. CASE q <= L
  <2> DEFINE n == Least(r, L)
  <2>1. n \in q .. L /\ Least(q, L) = q /\ p \in 1 .. L + 1 /\ q \in p - 1 .. L
    BY <1>1, <1>2 DEF Least, L
  <2> HIDE DEF n
  <2>2. SubSeq(s, p, q) \o SubSeq(s, q + 1, n) = SubSeq(s, p, n)
    BY <2>1, ConcatAdjacentSubSeq DEF L
  <2> QED BY <2>1, <2>2 DEF Cut, n, L
<1>3. CASE q > L
  <2>1. Least(q, L) = L /\ Least(r, L) = L /\ L < q + 1 /\ q + 1 \in Int /\ L \in Int
    BY <1>1, <1>3 DEF Least, L
  <2>2. SubSeq(s, q + 1, L) = <<>>
    BY <2>1, SubSeqEmpty
  <2>3. SubSeq(s, p, L) \in Seq(S)
    BY <1>1, SubSeqProperties
  <2>4. SubSeq(s, p, L) \o <<>> = SubSeq(s, p, L)
    BY <2>3, ConcatEmptySeq
  <2> QED BY <2>1, <2>2, <2>4 DEF Cut, L
<1> QED
  BY <1>1, <1>2, <1>3

(* Cuts of no line and of one.                                                *)
LEMMA CutSmall ==
  ASSUME NEW S, NEW s \in Seq(S), NEW p \in Nat \ {0}, NEW q \in Nat
  PROVE  /\ Cut(s, p, q) \in Seq(S)
         /\ q < p => Cut(s, p, q) = <<>>
         /\ q = p => Cut(s, p, q) = IF p <= Len(s) THEN <<s[p]>> ELSE <<>>
<1> DEFINE L == Len(s)  n == Least(q, L)
<1>1. L \in Nat /\ \A k \in 1 .. L : s[k] \in S
  BY LenProperties
<1>2. n \in Int /\ n <= L /\ n <= q /\ (n = q \/ n = L)
  BY <1>1 DEF Least
<1>3. Cut(s, p, q) = SubSeq(s, p, n)
  BY DEF Cut
<1> HIDE DEF L, n
<1>4. SubSeq(s, p, n) \in Seq(S)
  BY <1>1, <1>2, SubSeqProperties
<1>5. ASSUME n < p PROVE SubSeq(s, p, n) = <<>>
  BY <1>2, <1>5, SubSeqEmpty
<1>6. ASSUME n = p PROVE SubSeq(s, p, n) = <<s[p]>>
  <2>1. s[p] \in S
    BY <1>1, <1>2, <1>6
  <2>2. /\ SubSeq(s, p, p) \in Seq(S) /\ Len(SubSeq(s, p, p)) = 1
        /\ \A k \in 1 .. 1 : SubSeq(s, p, p)[k] = s[p + k - 1]
    BY <2>1, SubSeqProperties
  <2>3. SubSeq(s, p, p)[1] = s[p]
    BY <2>2
  <2>4. <<s[p]>> \in Seq(S) /\ Len(<<s[p]>>) = 1 /\ <<s[p]>>[1] = s[p]
    BY <2>1
  <2> HIDE DEF L
  <2> DEFINE a == SubSeq(s, p, p)  b == <<s[p]>>
  <2>5. Len(a) = Len(b) /\ \A k \in 1 .. Len(a) : a[k] = b[k]
    BY <2>2, <2>3, <2>4
  <2>6. a = b
    <3>1. a \in Seq(S) /\ b \in Seq(S)
      BY <2>2, <2>4
    <3> HIDE DEF a, b
    <3> QED BY <3>1, <2>5, SeqEqual
  <2> QED BY <1>6, <2>6
<1> QED
  BY <1>1, <1>2, <1>3, <1>4, <1>5, <1>6 DEF L

(* Reading a text changes line ends only.                                     *)
LEMMA AsReadLines ==
  ASSUME NEW text \in Texts
  PROVE  /\ AsRead(text) \in Seq(Lines)
         /\ Len(AsRead(text)) = Len(text)
         /\ \A k \in DOMAIN text : AsRead(text)[k].body = text[k].body
         /\ \A k \in DOMAIN text : AsRead(text)[k].end = "ff" <=> text[k].end = "ff"
<1> DEFINE r(k) == IF text[k].end = "crlf" THEN [text[k] EXCEPT !.end = "lf"] ELSE text[k]
<1>1. DOMAIN text = 1 .. Len(text) /\ Len(text) \in Nat /\ \A k \in DOMAIN text : text[k] \in Lines
  BY LenProperties DEF Texts
<1>2. ASSUME NEW k \in DOMAIN text
      PROVE  r(k) \in Lines /\ r(k).body = text[k].body
             /\ (r(k).end = "ff" <=> text[k].end = "ff")
  <2>1. text[k] \in Lines
    BY <1>1
  <2> QED BY <2>1 DEF Lines
<1>3. AsRead(text) = [k \in DOMAIN text |-> r(k)]
  BY DEF AsRead
<1> HIDE DEF r
<1>4. AsRead(text) \in Seq(Lines) /\ Len(AsRead(text)) = Len(text)
  BY <1>1, <1>2, <1>3
<1> QED
  BY <1>2, <1>3, <1>4

(* What the entry of a script puts into the text it makes of a file.          *)
Piece(original, script, k) ==
  CASE script[k].tag = "+" -> <<[script[k].line EXCEPT !.end = "lf"]>>
    [] script[k].tag = "-" -> <<>>
    [] script[k].tag = "kept" ->
         IF OldLine(script, k) <= Len(original) THEN <<original[OldLine(script, k)]>> ELSE <<>>

(* The texts that its first entries make.                                     *)
Replays(F, original, script) ==
  /\ F \in [Nat -> Seq(Lines)] /\ F[0] = <<>>
  /\ \A k \in Nat : k < Len(script) => F[k + 1] = F[k] \o Piece(original, script, k + 1)

(* It is a list of lines.                                                     *)
LEMMA PieceLines ==
  ASSUME NEW original \in Seq(Lines), NEW script \in Seq(Entries), NEW k \in DOMAIN script
  PROVE  Piece(original, script, k) \in Seq(Lines)
<1>1. script[k].tag \in {"kept", "-", "+"} /\ script[k].line \in Lines
  <2>1. script[k] \in Entries
    OBVIOUS
  <2> QED BY <2>1 DEF Entries
<1>2. [script[k].line EXCEPT !.end = "lf"] \in Lines
  BY <1>1 DEF Lines
<1>3. OldLine(script, k) \in Nat \ {0}
  <2>1. k \in 1 .. Len(script) + 1
    BY LenProperties
  <2> QED BY <2>1, OldLineSteps
<1>4. OldLine(script, k) <= Len(original) => original[OldLine(script, k)] \in Lines
  BY <1>3
<1>5. CASE script[k].tag = "+"
  BY <1>2, <1>5 DEF Piece
<1>6. CASE script[k].tag = "-"
  BY <1>6 DEF Piece
<1>7. CASE script[k].tag = "kept"
  BY <1>4, <1>7 DEF Piece
<1> QED
  BY <1>1, <1>5, <1>6, <1>7

(* Replayed is the last of them, with the lines behind it.                    *)
LEMMA ReplayExists ==
  ASSUME NEW text \in Texts, NEW script \in Seq(Entries)
  PROVE  \E F : /\ Replays(F, AsRead(text), script)
                /\ Replayed(text, script)
                     = F[Len(script)] \o Cut(AsRead(text), OldLine(script, Len(script) + 1),
                                             Len(AsRead(text)))
<1> DEFINE now == AsRead(text)
           pieces == [k \in DOMAIN script |-> Piece(now, script, k)]
           rest == SubSeq(now, Len(OldText(script)) + 1, Len(now))
<1>1. now \in Seq(Lines) /\ Len(now) \in Nat
  BY AsReadLines
<1>2. DOMAIN script = 1 .. Len(script) /\ Len(script) \in Nat
  BY LenProperties
<1>3. pieces \in Seq(Seq(Lines)) /\ Len(pieces) = Len(script)
  <2>1. \A k \in DOMAIN script : pieces[k] \in Seq(Lines)
    BY <1>1, PieceLines
  <2> QED BY <1>2, <2>1
<1>4. Replayed(text, script) = FlattenSeq(pieces) \o rest
  BY DEF Replayed, Piece
<1>5. OldLine(script, Len(script) + 1) = Len(OldText(script)) + 1
  <2>1. OldLine(script, Len(script) + 1) \in Nat
    BY <1>2, OldLineSteps
  <2> QED BY <2>1, OldTextLength
<1>6. rest = Cut(now, OldLine(script, Len(script) + 1), Len(now))
  BY <1>1, <1>5 DEF Cut, Least
<1>7. \A k \in DOMAIN script : pieces[k] = Piece(now, script, k)
  OBVIOUS
<1> HIDE DEF pieces, rest, now
<1>8. PICK F \in [Nat -> Seq(Lines)] :
        /\ F[0] = <<>>
        /\ \A p \in Nat : p < Len(pieces) => F[p + 1] = F[p] \o pieces[p + 1]
        /\ FlattenSeq(pieces) = F[Len(pieces)]
  BY <1>3, FlattenAppends
<1>9. Replays(F, now, script)
  <2>1. ASSUME NEW k \in Nat, k < Len(script)
        PROVE  F[k + 1] = F[k] \o Piece(now, script, k + 1)
    <3>1. k + 1 \in DOMAIN script
      BY <1>2, <2>1
    <3> QED BY <1>3, <1>7, <1>8, <2>1, <3>1
  <2> QED BY <1>8, <2>1 DEF Replays
<1> QED
  BY <1>3, <1>4, <1>6, <1>8, <1>9 DEF now

(* The order of joining lists does not matter.                                *)
LEMMA Reassociated ==
  \A x, y, z \in Seq(Lines) : (x \o y) \o z = x \o (y \o z)
BY ConcatAssociative

(* Where entries are kept, the text goes on as the file does.                 *)
LEMMA KeptEntries ==
  ASSUME NEW original \in Seq(Lines), NEW script \in Seq(Entries),
         NEW F, Replays(F, original, script),
         NEW a \in Nat, NEW b \in Nat, a <= b, b <= Len(script),
         \A k \in (a + 1) .. b : script[k].tag = "kept"
  PROVE  F[b] = F[a] \o Cut(original, OldLine(script, a + 1), OldLine(script, b + 1) - 1)
<1> DEFINE N == Len(script)
           old(k) == OldLine(script, k)
           S == {p \in Nat : a + p <= b =>
                   F[a + p] = F[a] \o Cut(original, old(a + 1), old(a + p + 1) - 1)}
<1>1. N \in Nat /\ DOMAIN script = 1 .. N
  BY LenProperties
<1>2. /\ \A k \in 1 .. N + 1 : old(k) \in Nat \ {0}
      /\ \A k \in DOMAIN script : script[k].tag = "kept" => old(k + 1) = old(k) + 1
  BY OldLineSteps
<1>3. \A k \in Nat : F[k] \in Seq(Lines)
  BY DEF Replays
<1>4. old(a + 1) \in Nat \ {0} /\ b <= N
  BY <1>1, <1>2
<1>9. \A q \in Nat : q < N => F[q + 1] = F[q] \o Piece(original, script, q + 1)
  BY DEF Replays
<1> HIDE DEF N, old
<1>5. 0 \in S
  <2>1. Cut(original, old(a + 1), old(a + 1) - 1) = <<>>
    <3>1. old(a + 1) - 1 \in Nat /\ old(a + 1) - 1 < old(a + 1)
      BY <1>4
    <3> QED BY <1>4, <3>1, CutSmall
  <2>2. F[a] \o <<>> = F[a]
    BY <1>3, ConcatEmptySeq
  <2>3. a + 0 = a /\ a + 0 + 1 = a + 1
    OBVIOUS
  <2> QED BY <2>1, <2>2, <2>3
<1>6. ASSUME NEW p \in Nat, p \in S PROVE p + 1 \in S
  <2>0. p + 1 \in Nat
    OBVIOUS
  <2> SUFFICES ASSUME a + (p + 1) <= b
               PROVE  F[a + (p + 1)] = F[a] \o Cut(original, old(a + 1), old(a + (p + 1) + 1) - 1)
    BY <2>0
  <2> DEFINE k == a + p + 1
  <2>1. k \in (a + 1) .. b /\ k \in 1 .. N /\ k \in 1 .. N + 1 /\ k + 1 \in 1 .. N + 1
        /\ a + (p + 1) = k /\ a + p = k - 1 /\ k - 1 \in Nat /\ k - 1 < N /\ a + p <= b
        /\ (k - 1) + 1 = k
    BY <1>1, <1>4
  <2> HIDE DEF k
  <2>2. script[k].tag = "kept" /\ old(k + 1) = old(k) + 1 /\ old(k) \in Nat \ {0}
        /\ old(k + 1) \in Nat \ {0}
    BY <1>1, <1>2, <2>1
  <2>3. F[k] = F[k - 1] \o Piece(original, script, k)
    <3>1. F[(k - 1) + 1] = F[k - 1] \o Piece(original, script, (k - 1) + 1)
      BY <1>9, <2>1
    <3> QED BY <2>1, <3>1
  <2>4. Piece(original, script, k) = Cut(original, old(k), old(k))
    <3>1. Cut(original, old(k), old(k))
          = IF old(k) <= Len(original) THEN <<original[old(k)]>> ELSE <<>>
      BY <2>2, CutSmall
    <3> QED BY <2>2, <3>1 DEF Piece, old
  <2>5. F[k - 1] = F[a] \o Cut(original, old(a + 1), old(k) - 1)
    <3>1. F[a + p] = F[a] \o Cut(original, old(a + 1), old(a + p + 1) - 1)
      BY <1>6, <2>1
    <3>2. a + p + 1 = k
      BY DEF k
    <3> QED BY <2>1, <3>1, <3>2
  <2>6. old(a + 1) <= old(k)
    <3> DEFINE T == {q \in Nat : q <= p => old(a + 1) <= old(a + q + 1)}
    <3>1. 0 \in T
      BY <1>4
    <3>2. ASSUME NEW q \in Nat, q \in T PROVE q + 1 \in T
      <4> SUFFICES ASSUME q + 1 <= p PROVE old(a + 1) <= old(a + (q + 1) + 1)
        OBVIOUS
      <4>1. a + q + 1 \in (a + 1) .. b /\ a + q + 1 \in 1 .. N /\ a + q + 1 \in 1 .. N + 1
            /\ (a + q + 1) + 1 = a + (q + 1) + 1 /\ q <= p
        BY <1>1, <1>4, <3>2, <2>1
      <4>2. old((a + q + 1) + 1) = old(a + q + 1) + 1 /\ old(a + q + 1) \in Nat
        BY <1>1, <1>2, <4>1
      <4> QED BY <1>4, <3>2, <4>1, <4>2
    <3> HIDE DEF T
    <3>3. p \in T
      BY <3>1, <3>2, SetInduction
    <3> QED BY <3>3, <2>1 DEF T, k
  <2>7. Cut(original, old(a + 1), old(k) - 1) \o Cut(original, old(k), old(k))
        = Cut(original, old(a + 1), old(k))
    <3>1. old(k) - 1 \in Nat /\ old(k) \in Nat /\ (old(k) - 1) + 1 = old(k)
          /\ old(a + 1) <= (old(k) - 1) + 1 /\ old(k) - 1 <= old(k)
      BY <2>2, <2>6
    <3> DEFINE q == old(k) - 1
    <3>2. q \in Nat /\ q + 1 = old(k) /\ old(a + 1) <= q + 1 /\ q <= old(k)
      BY <3>1
    <3> HIDE DEF q
    <3>3. Cut(original, old(a + 1), q) \o Cut(original, q + 1, old(k))
          = Cut(original, old(a + 1), old(k))
      BY <1>4, <3>1, <3>2, CutJoins
    <3> QED BY <3>2, <3>3 DEF q
  <2>8. Cut(original, old(a + 1), old(k) - 1) \in Seq(Lines)
        /\ Cut(original, old(k), old(k)) \in Seq(Lines) /\ F[a] \in Seq(Lines)
    <3>1. old(k) - 1 \in Nat /\ old(k) \in Nat
      BY <2>2
    <3> QED BY <1>3, <1>4, <2>2, <3>1, CutSmall
  <2>9. F[k] = F[a] \o Cut(original, old(a + 1), old(k))
    <3> DEFINE x == F[a]
               y == Cut(original, old(a + 1), old(k) - 1)
               z == Cut(original, old(k), old(k))
    <3>1. x \in Seq(Lines) /\ y \in Seq(Lines) /\ z \in Seq(Lines)
      BY <2>8
    <3>2. F[k] = (x \o y) \o z
      BY <2>3, <2>4, <2>5
    <3>3. y \o z = Cut(original, old(a + 1), old(k))
      BY <2>7
    <3> HIDE DEF x, y, z
    <3>4. (x \o y) \o z = x \o (y \o z)
      BY <3>1, Reassociated
    <3> QED BY <3>2, <3>3, <3>4 DEF x
  <2>10. old(k + 1) - 1 = old(k)
    BY <2>2
  <2> QED BY <2>1, <2>9, <2>10
<1> HIDE DEF S
<1>7. b - a \in Nat /\ b - a \in S
  BY <1>5, <1>6, SetInduction
<1>8. a + (b - a) = b /\ a + (b - a) <= b
  OBVIOUS
<1> QED
  BY <1>7, <1>8 DEF S, old

(* A hunk that shows the entries a to b of a script, with lines behind them   *)
(* that are kept, such as the blank ones between the parts of a diff.         *)
Shows(hunk, script, a, b) ==
  /\ 1 <= a /\ a <= b /\ b <= Len(script)
  /\ hunk.start = HunkStart(script, a)
  /\ b - a + 1 <= Len(hunk.lines)
  /\ \A n \in 1 .. b - a + 1 :
       hunk.lines[n] = [tag |-> script[a + n - 1].tag, body |-> script[a + n - 1].line.body]
  /\ \A n \in b - a + 2 .. Len(hunk.lines) : hunk.lines[n].tag = "kept"

(* The cursor in a hunk, by counting.                                         *)
LEMMA CursorCounts ==
  ASSUME NEW hunk \in Hunks
  PROVE  \E P : /\ \A n \in DOMAIN hunk.lines : n \in P <=> hunk.lines[n].tag # "+"
                /\ \A p \in 0 .. Len(hunk.lines) :
                     LineAt(hunk, p + 1) = hunk.start + CountTo(P, p)
                /\ OldLines(hunk.lines) = CountTo(P, Len(hunk.lines))
<1> DEFINE lines == hunk.lines
           P == {n \in DOMAIN lines : lines[n].tag # "+"}
           Tagged == [tag: {"kept", "-", "+"}, body: Bodies]
<1>1. lines \in Seq(Tagged) /\ hunk.start \in Nat
  BY DEF Hunks
<1>2. DOMAIN lines = 1 .. Len(lines) /\ Len(lines) \in Nat
      /\ \A n \in 1 .. Len(lines) : lines[n] \in Tagged
  BY <1>1, LenProperties
<1> HIDE DEF lines, Tagged
<1>3. OldLines(lines) = CountTo(P, Len(lines))
  <2>1. {n \in DOMAIN lines : lines[n].tag # "+"} = {n \in 1 .. Len(lines) : n \in P}
    BY <1>2
  <2> QED BY <2>1 DEF OldLines, CountTo
<1>4. ASSUME NEW p \in 0 .. Len(lines)
      PROVE  LineAt(hunk, p + 1) = hunk.start + CountTo(P, p)
  <2> DEFINE front == SubSeq(lines, 1, p)
  <2>1. /\ front \in Seq(Tagged) /\ Len(front) = p
        /\ \A k \in 1 .. p : front[k] = lines[k]
    <3>1. 1 \in Int /\ p \in Int /\ \A k \in 1 .. p : lines[k] \in Tagged
      BY <1>2
    <3>2. /\ front \in Seq(Tagged) /\ Len(front) = IF 1 <= p THEN p - 1 + 1 ELSE 0
          /\ \A k \in 1 .. p - 1 + 1 : front[k] = lines[1 + k - 1]
      BY <3>1, SubSeqProperties
    <3>3. (IF 1 <= p THEN p - 1 + 1 ELSE 0) = p /\ p - 1 + 1 = p
      BY <1>2
    <3>4. \A k \in 1 .. p : 1 + k - 1 = k
      BY <1>2
    <3> QED BY <3>2, <3>3, <3>4
  <2> HIDE DEF front
  <2>2. DOMAIN front = 1 .. p
    BY <2>1, LenProperties
  <2>3. {n \in DOMAIN front : front[n].tag # "+"} = {n \in 1 .. p : n \in P}
    BY <1>2, <2>1, <2>2
  <2>4. OldLines(front) = CountTo(P, p)
    BY <2>3 DEF OldLines, CountTo
  <2>5. (p + 1) - 1 = p
    BY <1>2
  <2> QED BY <2>4, <2>5 DEF LineAt, front, lines
<1> QED
  BY <1>3, <1>4 DEF lines

(* In a hunk that starts where its first entry is, each line is where its     *)
(* entry is.                                                                  *)
LEMMA HunkCursor ==
  ASSUME NEW script \in Seq(Entries), NEW hunk \in Hunks, NEW a \in Nat, NEW b \in Nat,
         Shows(hunk, script, a, b), hunk.start = OldLine(script, a)
  PROVE  LET m == b - a + 1
             pad == Len(hunk.lines) - m
         IN  /\ \A p \in 0 .. m : LineAt(hunk, p + 1) = OldLine(script, a + p)
             /\ \A q \in 0 .. pad : LineAt(hunk, m + q + 1) = OldLine(script, b + 1) + q
             /\ hunk.start + OldLines(hunk.lines) = OldLine(script, b + 1) + pad
<1> DEFINE m == b - a + 1  L == Len(hunk.lines)  pad == L - m
           old(k) == OldLine(script, k)
<1>1. L \in Nat /\ hunk.start \in Nat /\ DOMAIN hunk.lines = 1 .. L
      /\ DOMAIN script = 1 .. Len(script) /\ Len(script) \in Nat
  <2>1. hunk.lines \in Seq([tag: {"kept", "-", "+"}, body: Bodies]) /\ hunk.start \in Nat
    BY DEF Hunks
  <2> QED BY <2>1, LenProperties
<1>2. /\ 1 <= a /\ a <= b /\ b <= Len(script) /\ m <= L
      /\ \A n \in 1 .. m : hunk.lines[n].tag = script[a + n - 1].tag
      /\ \A n \in m + 1 .. L : hunk.lines[n].tag = "kept"
  <2>1. /\ 1 <= a /\ a <= b /\ b <= Len(script) /\ b - a + 1 <= L
        /\ \A n \in 1 .. b - a + 1 : hunk.lines[n]
             = [tag |-> script[a + n - 1].tag, body |-> script[a + n - 1].line.body]
        /\ \A n \in b - a + 2 .. L : hunk.lines[n].tag = "kept"
    BY DEF Shows
  <2>2. b - a + 2 = m + 1
    OBVIOUS
  <2>3. ASSUME NEW n \in 1 .. m PROVE hunk.lines[n].tag = script[a + n - 1].tag
    <3>1. hunk.lines[n] = [tag |-> script[a + n - 1].tag, body |-> script[a + n - 1].line.body]
      BY <2>1
    <3> QED BY <3>1
  <2> QED BY <2>1, <2>2, <2>3
<1>3. PICK P : /\ \A n \in DOMAIN hunk.lines : n \in P <=> hunk.lines[n].tag # "+"
               /\ \A p \in 0 .. L : LineAt(hunk, p + 1) = hunk.start + CountTo(P, p)
               /\ OldLines(hunk.lines) = CountTo(P, L)
  BY CursorCounts
<1>4. \A p \in Nat : /\ CountTo(P, p) \in Nat /\ CountTo(P, 0) = 0
                     /\ CountTo(P, p + 1) = CountTo(P, p) + IF p + 1 \in P THEN 1 ELSE 0
  BY Counts
<1>5. /\ \A k \in 1 .. Len(script) + 1 : old(k) \in Nat \ {0}
      /\ \A k \in DOMAIN script :
           old(k + 1) = old(k) + IF script[k].tag # "+" THEN 1 ELSE 0
  BY OldLineSteps
<1>6. m \in Nat /\ pad \in Nat /\ a + m = b + 1 /\ m + pad = L
  <2>1. a <= b /\ m <= L
    BY <1>2
  <2> HIDE DEF L
  <2> QED BY <1>1, <2>1
<1>7. hunk.start = old(a)
  OBVIOUS
<1> HIDE DEF L, pad, old
<1>8. \A p \in 0 .. m : hunk.start + CountTo(P, p) = old(a + p)
  <2> DEFINE S == {p \in Nat : p <= m => hunk.start + CountTo(P, p) = old(a + p)}
  <2>1. 0 \in S
    <3>1. CountTo(P, 0) = 0 /\ a + 0 = a
      BY <1>4
    <3> QED BY <1>1, <1>7, <3>1
  <2>2. ASSUME NEW p \in Nat, p \in S PROVE p + 1 \in S
    <3>0. p + 1 \in Nat
      OBVIOUS
    <3> SUFFICES ASSUME p + 1 <= m PROVE hunk.start + CountTo(P, p + 1) = old(a + (p + 1))
      BY <3>0
    <3> DEFINE k == a + p
    <3>1. k \in DOMAIN script /\ a + (p + 1) = k + 1 /\ k \in 1 .. Len(script) + 1
          /\ p <= m /\ p + 1 \in 1 .. m /\ p + 1 \in 1 .. L /\ a + (p + 1) - 1 = k
      BY <1>1, <1>2, <1>6
    <3>2. hunk.start + CountTo(P, p) = old(k)
      BY <2>2, <3>1
    <3> HIDE DEF k, m
    <3>3. hunk.lines[p + 1].tag = script[k].tag
      BY <1>2, <3>1
    <3>4. p + 1 \in P <=> script[k].tag # "+"
      BY <1>1, <1>3, <3>1, <3>3
    <3>5. old(k + 1) = old(k) + IF script[k].tag # "+" THEN 1 ELSE 0
      BY <1>5, <3>1
    <3>6. CountTo(P, p + 1) = CountTo(P, p) + (IF p + 1 \in P THEN 1 ELSE 0)
          /\ CountTo(P, p) \in Nat
      BY <1>4
    <3>7. CASE p + 1 \in P
      <4>1. old(k + 1) = old(k) + 1 /\ CountTo(P, p + 1) = CountTo(P, p) + 1
        BY <3>4, <3>5, <3>6, <3>7
      <4> QED BY <1>1, <3>1, <3>2, <3>6, <4>1
    <3>8. CASE p + 1 \notin P
      <4>1. old(k + 1) = old(k) + 0 /\ CountTo(P, p + 1) = CountTo(P, p) + 0
        BY <3>4, <3>5, <3>6, <3>8
      <4> QED BY <1>1, <3>1, <3>2, <3>6, <4>1
    <3> QED BY <3>7, <3>8
  <2> HIDE DEF S
  <2>3. Nat \subseteq S
    BY <2>1, <2>2, SetInduction
  <2> QED BY <1>6, <2>3 DEF S
<1>9. \A q \in 0 .. pad : hunk.start + CountTo(P, m + q) = old(b + 1) + q
  <2> DEFINE S == {q \in Nat : q <= pad => hunk.start + CountTo(P, m + q) = old(b + 1) + q}
  <2>1. 0 \in S
    <3>1. m \in 0 .. m /\ m + 0 = m
      BY <1>6
    <3>2. hunk.start + CountTo(P, m) = old(b + 1)
      BY <1>6, <1>8, <3>1
    <3>3. old(b + 1) \in Nat
      BY <1>1, <1>2, <1>5
    <3> QED BY <3>1, <3>2, <3>3
  <2>2. ASSUME NEW q \in Nat, q \in S PROVE q + 1 \in S
    <3>0. q + 1 \in Nat
      OBVIOUS
    <3> SUFFICES ASSUME q + 1 <= pad
                 PROVE  hunk.start + CountTo(P, m + (q + 1)) = old(b + 1) + (q + 1)
      BY <3>0
    <3>1. m + q + 1 \in m + 1 .. L /\ m + q + 1 \in 1 .. L /\ m + q \in Nat /\ q <= pad
          /\ m + (q + 1) = (m + q) + 1
      BY <1>1, <1>6
    <3>2. hunk.start + CountTo(P, m + q) = old(b + 1) + q
      BY <2>2, <3>1
    <3>3. m + q + 1 \in P
      BY <1>1, <1>2, <1>3, <3>1
    <3>4. CountTo(P, (m + q) + 1) = CountTo(P, m + q) + 1 /\ CountTo(P, m + q) \in Nat
      BY <1>4, <3>1, <3>3
    <3>5. old(b + 1) \in Nat
      BY <1>1, <1>2, <1>5
    <3> DEFINE c == CountTo(P, m + q)  o == old(b + 1)
    <3>6. hunk.start + c = o + q /\ CountTo(P, m + (q + 1)) = c + 1 /\ c \in Nat /\ o \in Nat
      BY <3>1, <3>2, <3>4, <3>5
    <3> HIDE DEF c, o, m
    <3>7. hunk.start + (c + 1) = o + (q + 1)
      BY <1>1, <3>6
    <3> QED BY <3>6, <3>7 DEF o
  <2> HIDE DEF S
  <2>3. Nat \subseteq S
    BY <2>1, <2>2, SetInduction
  <2> QED BY <1>6, <2>3 DEF S
<1>10. \A p \in 0 .. m : LineAt(hunk, p + 1) = old(a + p)
  <2> TAKE p \in 0 .. m
  <2>1. p \in 0 .. L
    BY <1>1, <1>6
  <2> QED BY <1>3, <1>8, <2>1
<1>11. \A q \in 0 .. pad : LineAt(hunk, m + q + 1) = old(b + 1) + q
  <2> TAKE q \in 0 .. pad
  <2>1. m + q \in 0 .. L
    BY <1>6
  <2> QED BY <1>3, <1>9, <2>1
<1>12. hunk.start + OldLines(hunk.lines) = old(b + 1) + pad
  <2>1. pad \in 0 .. pad
    BY <1>6
  <2> QED BY <1>3, <1>6, <1>9, <2>1
<1> QED
  BY <1>10, <1>11, <1>12 DEF pad, L, old

(* What a line of a hunk puts into the rendered file.                         *)
LinePart(original, hunk, n) ==
  LET l == hunk.lines[n]
  IN  CASE l.tag = "+" -> <<[body |-> l.body, end |-> "lf"]>>
        [] l.tag = "-" -> <<>>
        [] l.tag = "kept" -> <<original[LineAt(hunk, n)]>>

(* Every line of the hunk that is not added is the one that stands there.     *)
HunkMatches(original, hunk) ==
  \A n \in DOMAIN hunk.lines :
    hunk.lines[n].tag # "+" => Matches(original, LineAt(hunk, n), hunk.lines[n].body)

(* A line of a hunk puts there what its entry puts into the replayed text, or *)
(* behind the entries, the line that stands in the file.                      *)
LEMMA LineParts ==
  ASSUME NEW script \in Seq(Entries), NEW original \in Seq(Lines), NEW hunk \in Hunks,
         NEW a \in Nat, NEW b \in Nat, Shows(hunk, script, a, b),
         hunk.start = OldLine(script, a), HunkMatches(original, hunk)
  PROVE  LET m == b - a + 1
             pad == Len(hunk.lines) - m
             o == OldLine(script, b + 1)
         IN  /\ \A p \in 1 .. m :
                  LinePart(original, hunk, p) = Piece(original, script, a + p - 1)
             /\ \A q \in 1 .. pad :
                  LinePart(original, hunk, m + q) = Cut(original, o + q - 1, o + q - 1)
<1> DEFINE m == b - a + 1  L == Len(hunk.lines)  pad == L - m
           o == OldLine(script, b + 1)
<1>1. /\ \A p \in 0 .. m : LineAt(hunk, p + 1) = OldLine(script, a + p)
      /\ \A q \in 0 .. pad : LineAt(hunk, m + q + 1) = o + q
  BY HunkCursor
<1>2. L \in Nat /\ DOMAIN hunk.lines = 1 .. L
      /\ DOMAIN script = 1 .. Len(script) /\ Len(script) \in Nat
      /\ Len(original) \in Nat
  <2>1. hunk.lines \in Seq([tag: {"kept", "-", "+"}, body: Bodies])
    BY DEF Hunks
  <2> QED BY <2>1, LenProperties
<1>3. /\ 1 <= a /\ a <= b /\ b <= Len(script) /\ m <= L
      /\ \A n \in 1 .. m :
           hunk.lines[n] = [tag |-> script[a + n - 1].tag, body |-> script[a + n - 1].line.body]
  BY DEF Shows
<1>4. \A n \in m + 1 .. L : hunk.lines[n].tag = "kept"
  <2>1. \A n \in b - a + 2 .. L : hunk.lines[n].tag = "kept"
    BY DEF Shows
  <2>2. b - a + 2 = m + 1
    OBVIOUS
  <2> QED BY <2>1, <2>2
<1>5. m \in Nat /\ pad \in Nat /\ a + m = b + 1 /\ m + pad = L
  <2>1. a <= b /\ m <= L
    BY <1>3
  <2> HIDE DEF L
  <2> QED BY <1>2, <2>1
<1>6. \A k \in 1 .. Len(script) + 1 : OldLine(script, k) \in Nat \ {0}
  BY OldLineSteps
<1>7. o \in Nat \ {0}
  BY <1>2, <1>3, <1>6
<1> HIDE DEF L, pad, o
<1>8. ASSUME NEW p \in 1 .. m
      PROVE  LinePart(original, hunk, p) = Piece(original, script, a + p - 1)
  <2> DEFINE k == a + p - 1
  <2>1. k \in DOMAIN script /\ p - 1 \in 0 .. m /\ (p - 1) + 1 = p /\ a + (p - 1) = k
        /\ p \in 1 .. L
    BY <1>2, <1>3, <1>5
  <2>2. LineAt(hunk, p) = OldLine(script, k)
    BY <1>1, <2>1
  <2>3. hunk.lines[p] = [tag |-> script[k].tag, body |-> script[k].line.body]
    BY <1>3
  <2>4. hunk.lines[p].tag = script[k].tag /\ hunk.lines[p].body = script[k].line.body
    BY <2>3
  <2>5. script[k].tag \in {"kept", "-", "+"} /\ script[k].line \in Lines
    <3>1. script[k] \in Entries
      BY <2>1
    <3> QED BY <3>1 DEF Entries
  <2> HIDE DEF k, m
  <2>6. CASE script[k].tag = "+"
    <3>1. Piece(original, script, k) = <<[script[k].line EXCEPT !.end = "lf"]>>
      BY <2>6 DEF Piece
    <3>2. LinePart(original, hunk, p) = <<[body |-> script[k].line.body, end |-> "lf"]>>
      BY <2>4, <2>6 DEF LinePart
    <3>3. [script[k].line EXCEPT !.end = "lf"] = [body |-> script[k].line.body, end |-> "lf"]
      BY <2>5 DEF Lines
    <3> QED BY <3>1, <3>2, <3>3 DEF k
  <2>7. CASE script[k].tag = "-"
    <3>1. Piece(original, script, k) = <<>>
      BY <2>7 DEF Piece
    <3>2. LinePart(original, hunk, p) = <<>>
      BY <2>4, <2>7 DEF LinePart
    <3> QED BY <3>1, <3>2 DEF k
  <2>8. CASE script[k].tag = "kept"
    <3>1. Matches(original, LineAt(hunk, p), hunk.lines[p].body)
      BY <1>2, <2>1, <2>4, <2>8 DEF HunkMatches
    <3>2. OldLine(script, k) <= Len(original)
      BY <2>2, <3>1 DEF Matches
    <3>3. Piece(original, script, k) = <<original[OldLine(script, k)]>>
      BY <2>8, <3>2 DEF Piece
    <3>4. LinePart(original, hunk, p) = <<original[LineAt(hunk, p)]>>
      BY <2>4, <2>8 DEF LinePart
    <3> QED BY <2>2, <3>3, <3>4 DEF k
  <2> QED BY <2>5, <2>6, <2>7, <2>8
<1>9. ASSUME NEW q \in 1 .. pad
      PROVE  LinePart(original, hunk, m + q) = Cut(original, o + q - 1, o + q - 1)
  <2> DEFINE n == m + q  at == o + q - 1
  <2>1. n \in m + 1 .. L /\ n \in 1 .. L /\ q - 1 \in 0 .. pad /\ m + (q - 1) + 1 = n
        /\ o + (q - 1) = at /\ at \in Nat \ {0}
    BY <1>5, <1>7
  <2>2. LineAt(hunk, n) = at
    <3>1. LineAt(hunk, m + (q - 1) + 1) = o + (q - 1)
      BY <1>1, <2>1
    <3> QED BY <2>1, <3>1
  <2>3. hunk.lines[n].tag = "kept"
    BY <1>4, <2>1
  <2> HIDE DEF n, at, m
  <2>4. Matches(original, LineAt(hunk, n), hunk.lines[n].body)
    BY <1>2, <2>1, <2>3 DEF HunkMatches
  <2>5. at <= Len(original)
    BY <2>2, <2>4 DEF Matches
  <2>6. Cut(original, at, at) = <<original[at]>>
    <3>1. Cut(original, at, at) = IF at <= Len(original) THEN <<original[at]>> ELSE <<>>
      BY <2>1, CutSmall
    <3> QED BY <2>5, <3>1
  <2>7. LinePart(original, hunk, n) = <<original[LineAt(hunk, n)]>>
    BY <2>3 DEF LinePart
  <2> QED BY <2>2, <2>6, <2>7 DEF n, at
<1> QED
  BY <1>8, <1>9 DEF pad, L, o

(* The text of the entries before a hunk with the result of the hunk is the   *)
(* text of all entries up to its last one, and then goes on with the file.    *)
HunkGoesOn(script, original, hunk, a, b, F) ==
  LET o == OldLine(script, b + 1)
      pad == Len(hunk.lines) - (b - a + 1)
  IN  /\ HunkResult(original, hunk) \in Seq(Lines)
      /\ F[a - 1] \o HunkResult(original, hunk) = F[b] \o Cut(original, o, o + pad - 1)

(* A hunk that passes the checks does that.                                   *)
LEMMA HunkAppends ==
  ASSUME NEW script \in Seq(Entries), NEW original \in Seq(Lines), NEW hunk \in Hunks,
         NEW a \in Nat, NEW b \in Nat, Shows(hunk, script, a, b),
         hunk.start = OldLine(script, a), HunkMatches(original, hunk),
         NEW F, Replays(F, original, script)
  PROVE  HunkGoesOn(script, original, hunk, a, b, F)
<1> DEFINE m == b - a + 1  L == Len(hunk.lines)  pad == L - m
           o == OldLine(script, b + 1)
           parts == [n \in DOMAIN hunk.lines |-> LinePart(original, hunk, n)]
<1>1. /\ \A p \in 1 .. m : LinePart(original, hunk, p) = Piece(original, script, a + p - 1)
      /\ \A q \in 1 .. pad :
           LinePart(original, hunk, m + q) = Cut(original, o + q - 1, o + q - 1)
  BY LineParts
<1>2. L \in Nat /\ DOMAIN hunk.lines = 1 .. L
      /\ DOMAIN script = 1 .. Len(script) /\ Len(script) \in Nat
  <2>1. hunk.lines \in Seq([tag: {"kept", "-", "+"}, body: Bodies])
    BY DEF Hunks
  <2> QED BY <2>1, LenProperties
<1>3. 1 <= a /\ a <= b /\ b <= Len(script) /\ m <= L
  BY DEF Shows
<1>4. m \in Nat /\ pad \in Nat /\ a + m = b + 1 /\ m + pad = L
  <2> HIDE DEF L
  <2> QED BY <1>2, <1>3
<1>5. o \in Nat \ {0}
  <2>1. b + 1 \in 1 .. Len(script) + 1
    BY <1>2, <1>3
  <2> QED BY <2>1, OldLineSteps
<1>6. HunkResult(original, hunk) = FlattenSeq(parts)
  BY DEF HunkResult, LinePart
<1> HIDE DEF L, pad, o
<1>7. parts \in Seq(Seq(Lines)) /\ Len(parts) = L
      /\ \A n \in 1 .. L : parts[n] = LinePart(original, hunk, n)
  <2>1. ASSUME NEW n \in 1 .. L PROVE LinePart(original, hunk, n) \in Seq(Lines)
    <3>1. CASE n <= m
      <4>1. n \in 1 .. m /\ a + n - 1 \in DOMAIN script
        BY <1>2, <1>3, <1>4, <3>1
      <4> QED BY <1>1, <4>1, PieceLines
    <3>2. CASE n > m
      <4>1. n - m \in 1 .. pad /\ m + (n - m) = n
        BY <1>2, <1>4, <3>2
      <4> DEFINE at == o + (n - m) - 1
      <4>2. at \in Nat \ {0}
        BY <1>2, <1>4, <1>5, <3>2
      <4>3. LinePart(original, hunk, n) = Cut(original, at, at)
        BY <1>1, <4>1
      <4> HIDE DEF at
      <4> QED BY <4>2, <4>3, CutSmall
    <3> QED BY <1>2, <1>4, <3>1, <3>2
  <2> QED BY <1>2, <2>1
<1> HIDE DEF parts
<1>8. PICK G \in [Nat -> Seq(Lines)] :
        /\ G[0] = <<>>
        /\ \A p \in Nat : p < Len(parts) => G[p + 1] = G[p] \o parts[p + 1]
        /\ FlattenSeq(parts) = G[Len(parts)]
  BY <1>7, FlattenAppends
<1>9. F \in [Nat -> Seq(Lines)]
      /\ \A k \in Nat : k < Len(script) => F[k + 1] = F[k] \o Piece(original, script, k + 1)
  BY DEF Replays
<1>10. \A p \in Nat : p <= m => F[a - 1] \o G[p] = F[a - 1 + p]
  <2> DEFINE S == {p \in Nat : p <= m => F[a - 1] \o G[p] = F[a - 1 + p]}
  <2>1. 0 \in S
    <3>1. a - 1 \in Nat /\ a - 1 + 0 = a - 1
      BY <1>3
    <3>2. F[a - 1] \o <<>> = F[a - 1]
      BY <1>9, <3>1, ConcatEmptySeq
    <3> QED BY <1>8, <3>1, <3>2
  <2>2. ASSUME NEW p \in Nat, p \in S PROVE p + 1 \in S
    <3>0. p + 1 \in Nat
      OBVIOUS
    <3> SUFFICES ASSUME p + 1 <= m PROVE F[a - 1] \o G[p + 1] = F[a - 1 + (p + 1)]
      BY <3>0
    <3> DEFINE k == a - 1 + p
    <3>1. k \in Nat /\ k < Len(script) /\ p <= m /\ p + 1 \in 1 .. m /\ p + 1 \in 1 .. L /\ p < L
          /\ a + (p + 1) - 1 = k + 1 /\ a - 1 + (p + 1) = k + 1 /\ a - 1 \in Nat
          /\ k + 1 \in DOMAIN script
      <4>1. a - 1 \in Nat /\ p <= m /\ p + 1 \in 1 .. m /\ p + 1 \in 1 .. L /\ p < L
        BY <1>2, <1>3, <1>4
      <4>2. k \in Nat /\ k < b
        BY <1>3, <1>4, <4>1
      <4>4. k < Len(script) /\ k + 1 \in 1 .. Len(script)
        <5>1. b <= Len(script) /\ Len(script) \in Nat
          BY <1>2, <1>3
        <5> DEFINE N == Len(script)
        <5>2. b <= N /\ N \in Nat
          BY <5>1
        <5> HIDE DEF k, S, m, N
        <5>3. k < N
          BY <4>2, <5>2
        <5>4. k + 1 \in 1 .. N
          BY <4>2, <5>2
        <5> QED BY <5>3, <5>4 DEF N
      <4>3. a + (p + 1) - 1 = k + 1 /\ a - 1 + (p + 1) = k + 1
        OBVIOUS
      <4> QED BY <1>2, <4>1, <4>2, <4>3, <4>4
    <3>2. F[a - 1] \o G[p] = F[k]
      BY <2>2, <3>1
    <3> DEFINE x == F[a - 1]  y == G[p]  z == parts[p + 1]
    <3> HIDE DEF k, m
    <3>3. parts[p + 1] = Piece(original, script, k + 1)
      BY <1>1, <1>7, <3>1
    <3>4. x \in Seq(Lines) /\ y \in Seq(Lines) /\ z \in Seq(Lines)
      BY <1>8, <1>9, <3>1, <3>3, PieceLines
    <3>5. F[k + 1] = (x \o y) \o z
      BY <1>9, <3>1, <3>2, <3>3
    <3>6. G[p + 1] = y \o z
      BY <1>7, <1>8, <3>1
    <3> HIDE DEF x, y, z
    <3>7. (x \o y) \o z = x \o (y \o z)
      BY <3>4, Reassociated
    <3> QED BY <3>1, <3>5, <3>6, <3>7 DEF x
  <2> HIDE DEF S
  <2>3. Nat \subseteq S
    BY <2>1, <2>2, SetInduction
  <2> QED BY <2>3 DEF S
<1>11. \A q \in Nat : q <= pad => F[a - 1] \o G[m + q] = F[b] \o Cut(original, o, o + q - 1)
  <2> DEFINE S == {q \in Nat :
                    q <= pad => F[a - 1] \o G[m + q] = F[b] \o Cut(original, o, o + q - 1)}
  <2>1. 0 \in S
    <3>1. m + 0 = m /\ a - 1 + m = b /\ o + 0 - 1 = o - 1 /\ o - 1 \in Nat /\ o - 1 < o
      BY <1>4, <1>5
    <3>2. F[a - 1] \o G[m] = F[b]
      <4>1. F[a - 1] \o G[m] = F[a - 1 + m]
        <5>1. m \in Nat /\ m <= m
          BY <1>4
        <5> QED BY <1>10, <5>1
      <4> QED BY <3>1, <4>1
    <3>3. Cut(original, o, o - 1) = <<>>
      BY <1>5, <3>1, CutSmall
    <3>4. F[b] \o <<>> = F[b]
      BY <1>9, ConcatEmptySeq
    <3> HIDE DEF m
    <3> QED BY <3>1, <3>2, <3>3, <3>4
  <2>2. ASSUME NEW q \in Nat, q \in S PROVE q + 1 \in S
    <3>0. q + 1 \in Nat
      OBVIOUS
    <3> SUFFICES ASSUME q + 1 <= pad
                 PROVE  F[a - 1] \o G[m + (q + 1)] = F[b] \o Cut(original, o, o + (q + 1) - 1)
      BY <3>0
    <3> DEFINE n == m + q  r == o + q - 1
    <3>1. n \in Nat /\ n < L /\ n + 1 \in 1 .. L /\ m + (q + 1) = n + 1 /\ q <= pad
          /\ q + 1 \in 1 .. pad /\ o + (q + 1) - 1 = r + 1 /\ r \in Nat /\ r + 1 \in Nat \ {0}
          /\ o <= r + 1 /\ r <= r + 1 /\ a - 1 \in Nat
      BY <1>2, <1>3, <1>4, <1>5
    <3>2. F[a - 1] \o G[n] = F[b] \o Cut(original, o, r)
      BY <2>2, <3>1
    <3>3. LinePart(original, hunk, n + 1) = Cut(original, r + 1, r + 1)
      <4>1. LinePart(original, hunk, m + (q + 1)) = Cut(original, o + (q + 1) - 1, o + (q + 1) - 1)
        BY <1>1, <3>1
      <4> QED BY <3>1, <4>1
    <3> HIDE DEF n, r, m
    <3>11. /\ Cut(original, o, r) \o Cut(original, r + 1, r + 1) = Cut(original, o, r + 1)
           /\ Cut(original, r + 1, r + 1) \in Seq(Lines) /\ Cut(original, o, r) \in Seq(Lines)
      <4>1. r + 1 \in Nat
        BY <3>1
      <4>2. Cut(original, o, r) \o Cut(original, r + 1, r + 1) = Cut(original, o, r + 1)
        BY <1>5, <3>1, <4>1, CutJoins
      <4>3. Cut(original, r + 1, r + 1) \in Seq(Lines)
        BY <3>1, <4>1, CutSmall
      <4>4. Cut(original, o, r) \in Seq(Lines)
        BY <1>5, <3>1, CutSmall
      <4> QED BY <4>2, <4>3, <4>4
    <3> DEFINE x == F[a - 1]  y == G[n]  z == parts[n + 1]  u == F[b]  v == Cut(original, o, r)
    <3>4. z = Cut(original, r + 1, r + 1)
      BY <1>7, <3>1, <3>3
    <3>5. /\ x \in Seq(Lines) /\ y \in Seq(Lines) /\ z \in Seq(Lines)
          /\ u \in Seq(Lines) /\ v \in Seq(Lines)
      <4>1. z \in Seq(Lines) /\ v \in Seq(Lines)
        BY <3>4, <3>11
      <4> QED BY <1>8, <1>9, <3>1, <4>1
    <3>6. v \o z = Cut(original, o, r + 1)
      BY <3>4, <3>11
    <3>7. G[n + 1] = y \o z
      BY <1>7, <1>8, <3>1
    <3>8. x \o y = u \o v
      BY <3>2
    <3> HIDE DEF x, y, z, u, v
    <3>9. x \o (y \o z) = u \o (v \o z)
      <4>3. x \in Seq(Lines) /\ y \in Seq(Lines) /\ z \in Seq(Lines)
        BY <3>5
      <4>1. (x \o y) \o z = x \o (y \o z)
        BY <4>3, Reassociated
      <4>2. (u \o v) \o z = u \o (v \o z)
        BY <3>5, Reassociated
      <4> QED BY <3>8, <4>1, <4>2
    <3>10. F[a - 1] \o G[n + 1] = F[b] \o Cut(original, o, r + 1)
      BY <3>6, <3>7, <3>9 DEF x, u
    <3> QED BY <3>1, <3>10
  <2> HIDE DEF S
  <2>3. Nat \subseteq S
    BY <2>1, <2>2, SetInduction
  <2> QED BY <2>3 DEF S
<1>12. F[a - 1] \o G[m + pad] = F[b] \o Cut(original, o, o + pad - 1)
  <2>1. pad \in Nat /\ pad <= pad
    BY <1>4
  <2> QED BY <1>11, <2>1
<1>13. FlattenSeq(parts) = G[m + pad] /\ G[m + pad] \in Seq(Lines)
  BY <1>2, <1>4, <1>7, <1>8
<1> QED
  BY <1>6, <1>12, <1>13 DEF pad, L, o, HunkGoesOn

(* KeptEntries and HunkAppends with their hypotheses and conclusions named.   *)
KeptGiven(script, original, a, b, F) ==
  /\ script \in Seq(Entries) /\ original \in Seq(Lines) /\ Replays(F, original, script)
  /\ a \in Nat /\ b \in Nat /\ a <= b /\ b <= Len(script)
  /\ \A k \in (a + 1) .. b : script[k].tag = "kept"

KeptGoesOn(script, original, a, b, F) ==
  F[b] = F[a] \o Cut(original, OldLine(script, a + 1), OldLine(script, b + 1) - 1)

(* KeptEntries again.                                                         *)
LEMMA KeptMoves ==
  ASSUME NEW script, NEW original, NEW a, NEW b, NEW F, KeptGiven(script, original, a, b, F)
  PROVE  KeptGoesOn(script, original, a, b, F)
BY KeptEntries DEF KeptGiven, KeptGoesOn

HunkGiven(script, original, hunk, a, b, F) ==
  /\ script \in Seq(Entries) /\ original \in Seq(Lines) /\ hunk \in Hunks
  /\ a \in Nat /\ b \in Nat /\ Shows(hunk, script, a, b)
  /\ hunk.start = OldLine(script, a) /\ HunkMatches(original, hunk)
  /\ Replays(F, original, script)

(* HunkAppends again.                                                         *)
LEMMA HunkMoves ==
  ASSUME NEW script, NEW original, NEW hunk, NEW a, NEW b, NEW F,
         HunkGiven(script, original, hunk, a, b, F)
  PROVE  HunkGoesOn(script, original, hunk, a, b, F)
<1>1. script \in Seq(Entries) /\ original \in Seq(Lines) /\ hunk \in Hunks
      /\ a \in Nat /\ b \in Nat /\ Shows(hunk, script, a, b)
      /\ hunk.start = OldLine(script, a) /\ HunkMatches(original, hunk)
      /\ Replays(F, original, script)
  BY DEF HunkGiven
<1> QED
  BY <1>1, HunkAppends

(* Hunks that show a script: each a range of entries, one behind the other,   *)
(* together what is to be shown of it.                                        *)
Covers(hunks, script, from, to) ==
  /\ \A h \in DOMAIN hunks : Shows(hunks[h], script, from[h], to[h])
  /\ \A g, h \in DOMAIN hunks : g < h => to[g] < from[h]
  /\ \A k \in DOMAIN script :
       k \in Shown(script) <=> \E h \in DOMAIN hunks : from[h] <= k /\ k <= to[h]

HunksShow(hunks, script) ==
  \E from, to \in [DOMAIN hunks -> DOMAIN script] : Covers(hunks, script, from, to)

(* What is not shown is kept.                                                 *)
LEMMA HiddenIsKept ==
  ASSUME NEW script \in Seq(Entries), NEW k \in DOMAIN script, k \notin Shown(script)
  PROVE  script[k].tag = "kept"
<1>1. k \in (k - Context) .. (k + Context)
  <2>1. k \in Nat
    BY LenProperties
  <2> QED BY <2>1, ContextAssumption
<1> QED
  BY <1>1 DEF Shown

(* Hunks that are verified begin where their first entries are.               *)
LEMMA HunksBegin ==
  ASSUME NEW original, NEW script \in Seq(Entries), NEW hunks \in Seq(Hunks),
         NEW from, NEW to, Covers(hunks, script, from, to), Verified(original, hunks),
         NEW h \in DOMAIN hunks
  PROVE  hunks[h].start = OldLine(script, from[h])
<1>1. hunks[h].start = HunkStart(script, from[h])
  BY DEF Covers, Shows
<1>2. OldText(script) # <<>>
  <2> SUFFICES ASSUME OldText(script) = <<>> PROVE FALSE
    OBVIOUS
  <2>1. 1 \in DOMAIN hunks
    BY LenProperties
  <2>2. hunks[1].start = 0
    BY <2>1 DEF Covers, Shows, HunkStart
  <2>3. hunks[1].start >= 1
    BY <2>1 DEF Verified, Cursor
  <2> QED BY <2>2, <2>3
<1> QED
  BY <1>1, <1>2 DEF HunkStart

(* The lines a verified hunk keeps or deletes are there.                      *)
LEMMA HunksMatch ==
  ASSUME NEW original, NEW hunks, Verified(original, hunks), NEW h \in DOMAIN hunks
  PROVE  HunkMatches(original, hunks[h]) /\ hunks[h].start >= Cursor(hunks, h)
BY DEF Verified, HunkMatches

(* One hunk further: the lines in front of it and its own.                    *)
StepGoesOn(script, original, hunks, to, F, h, e, c) ==
  LET part == Copied(original, hunks, h) \o HunkResult(original, hunks[h])
      next == Cursor(hunks, h + 1)
      o == OldLine(script, to[h] + 1)
  IN  /\ part \in Seq(Lines) /\ next \in Nat \ {0} /\ o <= next
      /\ (F[e] \o Cut(original, OldLine(script, e + 1), c - 1)) \o part
         = F[to[h]] \o Cut(original, o, next - 1)

(* If the text before a hunk is that of the entries before it, with the file  *)
(* up to the cursor, it is so behind the hunk.                                *)
LEMMA HunkStep ==
  ASSUME NEW script \in Seq(Entries), NEW original \in Seq(Lines), NEW hunks \in Seq(Hunks),
         NEW from \in [DOMAIN hunks -> DOMAIN script], NEW to \in [DOMAIN hunks -> DOMAIN script],
         Covers(hunks, script, from, to), Verified(original, hunks),
         NEW F, Replays(F, original, script),
         NEW h \in DOMAIN hunks, NEW e \in Nat, e < from[h],
         \A k \in (e + 1) .. (from[h] - 1) : script[k].tag = "kept",
         NEW c \in Nat \ {0}, c = Cursor(hunks, h), OldLine(script, e + 1) <= c
  PROVE  StepGoesOn(script, original, hunks, to, F, h, e, c)
<1> DEFINE hunk == hunks[h]  a == from[h]  b == to[h]  start == hunk.start
           o == OldLine(script, b + 1)  p == OldLine(script, e + 1)  N == Len(script)
           pad == Len(hunk.lines) - (b - a + 1)
           copied == Copied(original, hunks, h)  result == HunkResult(original, hunk)
           next == Cursor(hunks, h + 1)
<1>1. N \in Nat /\ DOMAIN script = 1 .. N /\ Len(hunks) \in Nat /\ DOMAIN hunks = 1 .. Len(hunks)
  BY LenProperties
<1>2. a \in 1 .. N /\ b \in 1 .. N
  BY <1>1
<1>3. hunk \in Hunks /\ start \in Nat /\ Len(hunk.lines) \in Nat
  <2>1. hunk \in Hunks
    OBVIOUS
  <2>2. start \in Nat /\ hunk.lines \in Seq([tag: {"kept", "-", "+"}, body: Bodies])
    BY <2>1 DEF Hunks
  <2> QED BY <2>1, <2>2, LenProperties
<1>4. Shows(hunk, script, a, b)
  BY DEF Covers
<1>5. start = OldLine(script, a)
  BY HunksBegin
<1>6. HunkMatches(original, hunk) /\ start >= c
  BY HunksMatch
<1>7. a \in Nat /\ b \in Nat /\ e + 1 \in 1 .. N + 1 /\ b + 1 \in 1 .. N + 1 /\ e \in Nat
      /\ a - 1 \in Nat /\ e <= a - 1 /\ a - 1 <= N /\ (a - 1) + 1 = a
  <2>1. e < a
    OBVIOUS
  <2> HIDE DEF a, b, N
  <2> QED BY <1>1, <1>2, <2>1
<1>8. o \in Nat \ {0} /\ p \in Nat \ {0}
  <2> HIDE DEF a, b, N
  <2>1. \A k \in 1 .. N + 1 : OldLine(script, k) \in Nat \ {0}
    BY OldLineSteps DEF N
  <2> QED BY <1>7, <2>1
<1>9. pad \in Nat
  <2>1. b - a + 1 <= Len(hunk.lines)
    BY <1>4 DEF Shows
  <2> DEFINE L == Len(hunk.lines)
  <2>2. L \in Nat /\ b - a + 1 <= L
    BY <1>3, <2>1
  <2> HIDE DEF a, b, L
  <2>3. L - (b - a + 1) \in Nat
    BY <1>7, <2>2
  <2> QED BY <2>3 DEF L
<1>10. next = o + pad
  <2>1. start + OldLines(hunk.lines) = o + pad
    <3> HIDE DEF a, b, hunk
    <3> QED BY <1>3, <1>4, <1>5, <1>7, HunkCursor DEF start
  <2>2. next = start + OldLines(hunk.lines)
    <3>1. h + 1 # 1 /\ (h + 1) - 1 = h
      BY <1>1
    <3> QED BY <3>1 DEF Cursor
  <2> QED BY <2>1, <2>2
<1>11. copied = Cut(original, c, start - 1)
  <2>1. ~ (h > Len(hunks))
    BY <1>1
  <2>2. copied = SubSeq(original, Cursor(hunks, h), Least(hunks[h].start - 1, Len(original)))
    BY <2>1 DEF Copied
  <2> QED BY <2>2 DEF Cut
<1>12. /\ result \in Seq(Lines)
       /\ F[a - 1] \o result = F[b] \o Cut(original, o, o + pad - 1)
  <2>1. hunk.start = OldLine(script, a) /\ HunkMatches(original, hunk)
    BY <1>5, <1>6
  <2> HIDE DEF a, b, hunk
  <2>2. LET at == OldLine(script, b + 1)
            more == Len(hunk.lines) - (b - a + 1)
        IN  /\ HunkResult(original, hunk) \in Seq(Lines)
            /\ F[a - 1] \o HunkResult(original, hunk) = F[b] \o Cut(original, at, at + more - 1)
    <3>1. script \in Seq(Entries) /\ original \in Seq(Lines) /\ hunk \in Hunks
          /\ a \in Nat /\ b \in Nat /\ Shows(hunk, script, a, b)
          /\ Replays(F, original, script)
      BY <1>3, <1>4, <1>7
    <3>2. HunkGiven(script, original, hunk, a, b, F)
      BY <2>1, <3>1 DEF HunkGiven
    <3>3. HunkGoesOn(script, original, hunk, a, b, F)
      BY <3>2, HunkMoves
    <3> QED BY <3>3 DEF HunkGoesOn
  <2> QED BY <2>2
<1>13. F[a - 1] = F[e] \o Cut(original, p, start - 1)
  <2>1. \A k \in (e + 1) .. (a - 1) : script[k].tag = "kept"
    OBVIOUS
  <2>2. F[a - 1] = F[e] \o Cut(original, p, OldLine(script, (a - 1) + 1) - 1)
    <3> DEFINE d == a - 1
    <3>1. d \in Nat /\ e <= d /\ d <= Len(script)
      BY <1>7
    <3>2. \A k \in (e + 1) .. d : script[k].tag = "kept"
      BY <2>1
    <3> HIDE DEF d
    <3>3. F[d] = F[e] \o Cut(original, OldLine(script, e + 1), OldLine(script, d + 1) - 1)
      <4>1. script \in Seq(Entries) /\ original \in Seq(Lines) /\ Replays(F, original, script)
        OBVIOUS
      <4>2. KeptGiven(script, original, e, d, F)
        BY <4>1, <3>1, <3>2 DEF KeptGiven
      <4>3. KeptGoesOn(script, original, e, d, F)
        BY <4>2, KeptMoves
      <4> QED BY <4>3 DEF KeptGoesOn
    <3> QED BY <3>3 DEF d
  <2> QED BY <1>5, <1>7, <2>2
<1> HIDE DEF hunk, a, b, o, p, pad, copied, result, next, start, N
<1>14. Cut(original, p, c - 1) \o Cut(original, c, start - 1) = Cut(original, p, start - 1)
  <2> DEFINE q == c - 1  r == start - 1
  <2>1. q \in Nat /\ r \in Nat /\ q + 1 = c /\ p <= q + 1 /\ q <= r
    <3>1. p <= c
      BY DEF p
    <3> QED BY <1>3, <1>6, <1>8, <3>1
  <2> HIDE DEF q, r
  <2>2. Cut(original, p, q) \o Cut(original, q + 1, r) = Cut(original, p, r)
    BY <1>8, <2>1, CutJoins
  <2> QED BY <2>1, <2>2 DEF q, r
<1>15. /\ F[e] \in Seq(Lines) /\ F[a - 1] \in Seq(Lines) /\ Cut(original, p, c - 1) \in Seq(Lines)
       /\ Cut(original, c, start - 1) \in Seq(Lines)
  <2>1. c - 1 \in Nat /\ start - 1 \in Nat
    BY <1>3, <1>6
  <2>2. Cut(original, p, c - 1) \in Seq(Lines)
    BY <1>8, <2>1, CutSmall
  <2>3. Cut(original, c, start - 1) \in Seq(Lines)
    BY <2>1, CutSmall
  <2>4. F \in [Nat -> Seq(Lines)]
    BY DEF Replays
  <2> QED BY <1>7, <2>2, <2>3, <2>4
<1> DEFINE u == F[e]  v == Cut(original, p, c - 1)  w == Cut(original, c, start - 1)
<1>16. u \in Seq(Lines) /\ v \in Seq(Lines) /\ w \in Seq(Lines) /\ result \in Seq(Lines)
  BY <1>12, <1>15
<1>17. F[a - 1] = u \o (v \o w)
  BY <1>13, <1>14
<1>18. next - 1 = o + pad - 1 /\ next \in Nat \ {0} /\ o <= next
  BY <1>8, <1>9, <1>10
<1>19. copied \o result = w \o result
  BY <1>11
<1>20. F[a - 1] \o result = F[b] \o Cut(original, o, next - 1)
  BY <1>12, <1>18
<1> HIDE DEF u, v, w
<1>21. (u \o v) \o (w \o result) = (u \o (v \o w)) \o result /\ w \o result \in Seq(Lines)
  <2>1. w \o result \in Seq(Lines) /\ v \o w \in Seq(Lines)
    BY <1>16, ConcatProperties
  <2>2. (u \o v) \o (w \o result) = u \o (v \o (w \o result))
    <3>1. u \in Seq(Lines) /\ v \in Seq(Lines) /\ w \o result \in Seq(Lines)
      BY <1>16, <2>1
    <3> QED BY <3>1, Reassociated
  <2>3. (v \o w) \o result = v \o (w \o result)
    <3>1. v \in Seq(Lines) /\ w \in Seq(Lines) /\ result \in Seq(Lines)
      BY <1>16
    <3> QED BY <3>1, Reassociated
  <2>4. (u \o (v \o w)) \o result = u \o ((v \o w) \o result)
    <3>1. u \in Seq(Lines) /\ v \o w \in Seq(Lines) /\ result \in Seq(Lines)
      BY <1>16, <2>1
    <3> QED BY <3>1, Reassociated
  <2> QED BY <2>1, <2>2, <2>3, <2>4
<1>22. copied \o result \in Seq(Lines)
       /\ (F[e] \o Cut(original, p, c - 1)) \o (copied \o result)
          = F[b] \o Cut(original, o, next - 1)
  <2>1. (u \o v) \o (copied \o result) = F[b] \o Cut(original, o, next - 1)
    BY <1>17, <1>19, <1>20, <1>21
  <2> QED BY <1>19, <1>21, <2>1 DEF u, v
<1> QED
  BY <1>18, <1>22 DEF hunk, a, b, o, p, copied, result, next, StepGoesOn

(* HunkStep with its hypotheses named.                                        *)
StepGiven(script, original, hunks, from, to, F, h, e, c) ==
  /\ script \in Seq(Entries) /\ original \in Seq(Lines) /\ hunks \in Seq(Hunks)
  /\ from \in [DOMAIN hunks -> DOMAIN script] /\ to \in [DOMAIN hunks -> DOMAIN script]
  /\ Covers(hunks, script, from, to) /\ Verified(original, hunks) /\ Replays(F, original, script)
  /\ h \in DOMAIN hunks /\ e \in Nat /\ e < from[h]
  /\ \A k \in (e + 1) .. (from[h] - 1) : script[k].tag = "kept"
  /\ c \in Nat \ {0} /\ c = Cursor(hunks, h) /\ OldLine(script, e + 1) <= c

(* HunkStep again.                                                            *)
LEMMA StepMoves ==
  ASSUME NEW script, NEW original, NEW hunks, NEW from, NEW to, NEW F, NEW h, NEW e, NEW c,
         StepGiven(script, original, hunks, from, to, F, h, e, c)
  PROVE  StepGoesOn(script, original, hunks, to, F, h, e, c)
BY HunkStep DEF StepGiven

(* The last entry shown by the first hunks.                                   *)
LastOf(to, h) == IF h = 0 THEN 0 ELSE to[h]

(* What no hunk shows between the hunks and behind them is kept.              *)
GapsKept(script, hunks, from, to, h) ==
  /\ LastOf(to, h) \in Nat /\ LastOf(to, h) <= Len(script)
  /\ h < Len(hunks) => LastOf(to, h) < from[h + 1]
  /\ \A k \in DOMAIN script :
       /\ LastOf(to, h) < k
       /\ h = Len(hunks) \/ k < from[h + 1]
       => script[k].tag = "kept"

(* Hunks that cover what is to be shown leave only kept entries out.          *)
LEMMA GapsAreKept ==
  ASSUME NEW script \in Seq(Entries), NEW hunks \in Seq(Hunks),
         NEW from \in [DOMAIN hunks -> DOMAIN script], NEW to \in [DOMAIN hunks -> DOMAIN script],
         Covers(hunks, script, from, to), NEW h \in Nat, h <= Len(hunks)
  PROVE  GapsKept(script, hunks, from, to, h)
<1> DEFINE N == Len(script)  H == Len(hunks)
<1>1. N \in Nat /\ DOMAIN script = 1 .. N /\ H \in Nat /\ DOMAIN hunks = 1 .. H
  BY LenProperties
<1>2. /\ \A g \in 1 .. H : from[g] \in 1 .. N /\ to[g] \in 1 .. N /\ from[g] <= to[g]
      /\ \A f, g \in 1 .. H : f < g => to[f] < from[g]
      /\ \A k \in 1 .. N :
           k \in Shown(script) <=> \E g \in 1 .. H : from[g] <= k /\ k <= to[g]
  BY <1>1 DEF Covers, Shows
<1>3. h <= H
  OBVIOUS
<1>4. \A k \in 1 .. N : k \notin Shown(script) => script[k].tag = "kept"
  BY <1>1, HiddenIsKept
<1> HIDE DEF N, H
<1>5. h = 0 \/ h \in 1 .. H
  BY <1>1, <1>3
<1>6. LastOf(to, h) \in 0 .. N
  BY <1>1, <1>2, <1>5 DEF LastOf
<1>7. ASSUME h < H PROVE LastOf(to, h) < from[h + 1]
  <2>1. h + 1 \in 1 .. H
    BY <1>1, <1>7
  <2>2. CASE h = 0
    BY <1>1, <1>2, <2>1, <2>2 DEF LastOf
  <2>3. CASE h # 0
    <3>1. h \in 1 .. H /\ h < h + 1
      BY <1>5, <2>3
    <3> QED BY <1>2, <2>1, <2>3, <3>1 DEF LastOf
  <2> QED BY <2>2, <2>3
<1>8. ASSUME NEW k \in 1 .. N, LastOf(to, h) < k, h = H \/ k < from[h + 1]
      PROVE  script[k].tag = "kept"
  <2> SUFFICES ASSUME NEW g \in 1 .. H, from[g] <= k, k <= to[g] PROVE FALSE
    BY <1>2, <1>4
  <2>1. CASE g <= h
    <3>1. h \in 1 .. H /\ LastOf(to, h) = to[h]
      BY <1>1, <1>5, <2>1 DEF LastOf
    <3>2. to[g] <= to[h]
      <4>1. CASE g = h
        BY <1>2, <3>1, <4>1
      <4>2. CASE g < h
        <5>1. to[g] < from[h] /\ from[h] <= to[h] /\ to[g] \in 1 .. N /\ to[h] \in 1 .. N
              /\ from[h] \in 1 .. N
          BY <1>2, <3>1, <4>2
        <5> QED BY <1>1, <5>1
      <4> QED BY <2>1, <4>1, <4>2
    <3>3. to[g] \in 1 .. N /\ to[h] \in 1 .. N
      BY <1>2, <3>1
    <3> QED BY <1>1, <1>8, <3>1, <3>2, <3>3
  <2>2. CASE g > h
    <3>1. h + 1 \in 1 .. H /\ h # H /\ h + 1 <= g
      BY <1>1, <2>2
    <3>2. k < from[h + 1]
      BY <1>8, <3>1
    <3>3. from[h + 1] <= from[g]
      <4>1. CASE g = h + 1
        BY <1>2, <3>1, <4>1
      <4>2. CASE h + 1 < g
        <5>1. to[h + 1] < from[g] /\ from[h + 1] <= to[h + 1]
              /\ to[h + 1] \in 1 .. N /\ from[g] \in 1 .. N /\ from[h + 1] \in 1 .. N
          BY <1>2, <3>1, <4>2
        <5> QED BY <1>1, <5>1
      <4> QED BY <3>1, <4>1, <4>2
    <3>4. from[g] \in 1 .. N /\ from[h + 1] \in 1 .. N
      BY <1>2, <3>1
    <3> QED BY <1>1, <3>2, <3>3, <3>4
  <2> QED BY <2>1, <2>2
<1>9. LastOf(to, h) \in Nat /\ LastOf(to, h) <= N
  BY <1>1, <1>6
<1>10. \A k \in DOMAIN script :
         LastOf(to, h) < k /\ (h = H \/ k < from[h + 1]) => script[k].tag = "kept"
  BY <1>1, <1>8
<1> QED
  BY <1>7, <1>9, <1>10 DEF N, H, GapsKept

(* After its last hunk the rendered file has come as far as the replayed text.*)
HunksRendered(script, original, hunks, to, F) ==
  LET parts == [k \in DOMAIN hunks |->
                  Copied(original, hunks, k) \o HunkResult(original, hunks[k])]
      e == LastOf(to, Len(hunks))
      next == Cursor(hunks, Len(hunks) + 1)
  IN  /\ next \in Nat \ {0} /\ OldLine(script, e + 1) <= next
      /\ FlattenSeq(parts) = F[e] \o Cut(original, OldLine(script, e + 1), next - 1)

(* By induction over the hunks.                                               *)
LEMMA HunksRender ==
  ASSUME NEW script \in Seq(Entries), NEW original \in Seq(Lines), NEW hunks \in Seq(Hunks),
         NEW from \in [DOMAIN hunks -> DOMAIN script], NEW to \in [DOMAIN hunks -> DOMAIN script],
         Covers(hunks, script, from, to), Verified(original, hunks),
         NEW F, Replays(F, original, script)
  PROVE  HunksRendered(script, original, hunks, to, F)
<1> DEFINE H == Len(hunks)
           parts == [k \in DOMAIN hunks |->
                       Copied(original, hunks, k) \o HunkResult(original, hunks[k])]
           next(h) == Cursor(hunks, h + 1)
           o(h) == OldLine(script, LastOf(to, h) + 1)
           Good(h, text) == /\ next(h) \in Nat \ {0} /\ o(h) <= next(h)
                            /\ text = F[LastOf(to, h)] \o Cut(original, o(h), next(h) - 1)
<1>1. H \in Nat /\ DOMAIN hunks = 1 .. H
      /\ DOMAIN script = 1 .. Len(script) /\ Len(script) \in Nat
  BY LenProperties
<1>2. F \in [Nat -> Seq(Lines)] /\ F[0] = <<>>
  BY DEF Replays
<1>3. ASSUME NEW h \in Nat, h < H, next(h) \in Nat \ {0}, o(h) <= next(h)
      PROVE  StepGoesOn(script, original, hunks, to, F, h + 1, LastOf(to, h), next(h))
  <2>1. h \in Nat /\ h <= Len(hunks)
    BY <1>1, <1>3
  <2>2. /\ LastOf(to, h) \in Nat
        /\ LastOf(to, h) < from[h + 1]
        /\ \A k \in DOMAIN script : LastOf(to, h) < k /\ k < from[h + 1] => script[k].tag = "kept"
    <3>1. GapsKept(script, hunks, from, to, h)
      BY <2>1, GapsAreKept
    <3> QED BY <1>3, <3>1 DEF GapsKept
  <2>3. h + 1 \in DOMAIN hunks /\ from[h + 1] \in 1 .. Len(script)
    <3>1. h + 1 \in DOMAIN hunks
      BY <1>1, <1>3
    <3> QED BY <1>1, <3>1
  <2>4. \A k \in (LastOf(to, h) + 1) .. (from[h + 1] - 1) : script[k].tag = "kept"
    <3> TAKE k \in (LastOf(to, h) + 1) .. (from[h + 1] - 1)
    <3> DEFINE e == LastOf(to, h)  b == from[h + 1]  N == Len(script)
    <3>1. e \in Nat /\ b \in 1 .. N /\ N \in Nat /\ k \in (e + 1) .. (b - 1)
      BY <1>1, <2>2, <2>3
    <3> HIDE DEF e, b, N
    <3>2. k \in 1 .. N /\ e < k /\ k < b
      BY <3>1
    <3> QED BY <1>1, <2>2, <3>2 DEF e, b, N
  <2> DEFINE e == LastOf(to, h)  c == next(h)
  <2>5. StepGiven(script, original, hunks, from, to, F, h + 1, e, c)
    <3>1. script \in Seq(Entries) /\ original \in Seq(Lines) /\ hunks \in Seq(Hunks)
          /\ from \in [DOMAIN hunks -> DOMAIN script] /\ to \in [DOMAIN hunks -> DOMAIN script]
          /\ Covers(hunks, script, from, to) /\ Verified(original, hunks)
          /\ Replays(F, original, script)
      OBVIOUS
    <3>2. c \in Nat \ {0} /\ c = Cursor(hunks, h + 1) /\ OldLine(script, e + 1) <= c
      BY <1>3
    <3> HIDE DEF e, c
    <3> QED BY <2>2, <2>3, <2>4, <3>1, <3>2 DEF StepGiven, e
  <2> HIDE DEF e, c
  <2>6. StepGoesOn(script, original, hunks, to, F, h + 1, e, c)
    BY <2>5, StepMoves
  <2> QED BY <2>6 DEF e, c
<1>4. Good(0, <<>>)
  <2>1. LastOf(to, 0) = 0 /\ next(0) = 1
    BY DEF LastOf, Cursor
  <2>2. o(0) = 1
    BY <2>1, OldLineSteps
  <2>3. Cut(original, 1, 0) = <<>> /\ 1 \in Nat \ {0}
    BY CutSmall
  <2>4. F[0] \o <<>> = <<>>
    BY <1>2
  <2>5. next(0) - 1 = 0 /\ next(0) \in Nat \ {0} /\ o(0) <= next(0)
    BY <2>1, <2>2
  <2>6. Cut(original, o(0), next(0) - 1) = <<>>
    BY <2>2, <2>3, <2>5
  <2>7. F[LastOf(to, 0)] \o Cut(original, o(0), next(0) - 1) = <<>>
    BY <2>1, <2>4, <2>6
  <2> HIDE DEF next, o
  <2> QED BY <2>5, <2>7
<1>5. ASSUME NEW h \in Nat, h < H, NEW text, Good(h, text)
      PROVE  /\ parts[h + 1] \in Seq(Lines)
             /\ Good(h + 1, text \o parts[h + 1])
  <2>1. StepGoesOn(script, original, hunks, to, F, h + 1, LastOf(to, h), next(h))
    BY <1>3, <1>5
  <2>2. h + 1 \in DOMAIN hunks /\ LastOf(to, h + 1) = to[h + 1]
    BY <1>1, <1>5 DEF LastOf
  <2>3. parts[h + 1] = Copied(original, hunks, h + 1) \o HunkResult(original, hunks[h + 1])
    BY <2>2
  <2>4. text = F[LastOf(to, h)] \o Cut(original, o(h), next(h) - 1)
    BY <1>5
  <2> HIDE DEF parts
  <2> QED BY <2>1, <2>2, <2>3, <2>4 DEF StepGoesOn
<1> HIDE DEF parts, Good, H
<1>6. \A k \in Nat : k < H => parts[k + 1] \in Seq(Lines)
  <2> DEFINE S == {h \in Nat : h <= H => \E text : Good(h, text)}
  <2>1. 0 \in S
    BY <1>4
  <2>2. ASSUME NEW h \in Nat, h \in S PROVE h + 1 \in S
    <3>1. h + 1 \in Nat
      OBVIOUS
    <3>2. ASSUME h + 1 <= H PROVE \E text : Good(h + 1, text)
      <4>1. h < H /\ h <= H
        BY <1>1, <3>2
      <4>2. PICK text : Good(h, text)
        BY <2>2, <4>1
      <4> QED BY <1>5, <4>1, <4>2
    <3> QED BY <3>1, <3>2
  <2> HIDE DEF S
  <2>3. Nat \subseteq S
    BY <2>1, <2>2, SetInduction
  <2> TAKE k \in Nat
  <2>4. ASSUME k < H PROVE parts[k + 1] \in Seq(Lines)
    <3>1. k <= H
      BY <1>1, <2>4
    <3>2. PICK text : Good(k, text)
      BY <2>3, <3>1 DEF S
    <3> QED BY <1>5, <2>4, <3>2
  <2> QED BY <2>4
<1>7. parts \in Seq(Seq(Lines)) /\ Len(parts) = H
  <2>1. ASSUME NEW g \in 1 .. H PROVE parts[g] \in Seq(Lines)
    <3>1. g - 1 \in Nat /\ g - 1 < H /\ (g - 1) + 1 = g
      BY <1>1
    <3>2. parts[(g - 1) + 1] \in Seq(Lines)
      BY <1>6, <3>1
    <3> QED BY <3>1, <3>2
  <2>2. parts = [k \in 1 .. H |-> parts[k]]
    BY <1>1 DEF parts
  <2> QED BY <1>1, <2>1, <2>2
<1>8. PICK R \in [Nat -> Seq(Lines)] :
        /\ R[0] = <<>>
        /\ \A p \in Nat : p < Len(parts) => R[p + 1] = R[p] \o parts[p + 1]
        /\ FlattenSeq(parts) = R[Len(parts)]
  BY <1>7, FlattenAppends
<1>9. Good(H, R[H])
  <2> DEFINE S == {h \in Nat : h <= H => Good(h, R[h])}
  <2>1. 0 \in S
    BY <1>4, <1>8
  <2>2. ASSUME NEW h \in Nat, h \in S PROVE h + 1 \in S
    <3>1. h + 1 \in Nat
      OBVIOUS
    <3>2. ASSUME h + 1 <= H PROVE Good(h + 1, R[h + 1])
      <4>1. h < H /\ h <= H
        BY <1>1, <3>2
      <4>2. Good(h, R[h])
        BY <2>2, <4>1
      <4>3. R[h + 1] = R[h] \o parts[h + 1]
        BY <1>7, <1>8, <4>1
      <4>4. Good(h + 1, R[h] \o parts[h + 1])
        BY <1>5, <4>1, <4>2
      <4> QED BY <4>3, <4>4
    <3> QED BY <3>1, <3>2
  <2> HIDE DEF S
  <2>3. H \in S
    BY <1>1, <2>1, <2>2, SetInduction
  <2>4. H <= H
    BY <1>1
  <2> QED BY <2>3, <2>4 DEF S
<1>10. Good(H, FlattenSeq(parts))
  BY <1>7, <1>8, <1>9
<1> QED
  BY <1>10 DEF Good, parts, H, HunksRendered

(* Every shown line of the old text that verified hunks name is in the file.  *)
LEMMA VerifiedAgrees ==
  ASSUME NEW text \in Texts, NEW script \in Seq(Entries), NEW hunks \in Seq(Hunks),
         NEW from \in [DOMAIN hunks -> DOMAIN script], NEW to \in [DOMAIN hunks -> DOMAIN script],
         Covers(hunks, script, from, to), Verified(AsRead(text), hunks)
  PROVE  Agrees(text, script)
<1> DEFINE now == AsRead(text)
<1>1. now \in Seq(Lines) /\ Len(now) = Len(text) /\ DOMAIN text = 1 .. Len(text)
      /\ Len(text) \in Nat
      /\ \A k \in DOMAIN text : now[k].body = text[k].body
  <2>1. DOMAIN text = 1 .. Len(text) /\ Len(text) \in Nat
    BY LenProperties DEF Texts
  <2> QED BY <2>1, AsReadLines
<1>2. DOMAIN script = 1 .. Len(script) /\ Len(script) \in Nat
  BY LenProperties
<1>3. Verified(now, hunks)
  OBVIOUS
<1> HIDE DEF now
<1> SUFFICES ASSUME NEW k \in Shown(script), script[k].tag # "+"
             PROVE  /\ OldLine(script, k) \in DOMAIN text
                    /\ text[OldLine(script, k)].body = script[k].line.body
  BY DEF Agrees
<1>4. k \in DOMAIN script
  BY DEF Shown
<1>5. PICK h \in DOMAIN hunks : from[h] <= k /\ k <= to[h]
  BY <1>4 DEF Covers
<1> DEFINE hunk == hunks[h]  a == from[h]  b == to[h]  p == k - a
<1>6. hunk \in Hunks /\ a \in 1 .. Len(script) /\ b \in 1 .. Len(script)
      /\ Shows(hunk, script, a, b) /\ a <= k /\ k <= b
  BY <1>2, <1>5 DEF Covers
<1>7. hunk.start = OldLine(script, a)
  BY HunksBegin
<1>8. HunkMatches(now, hunk)
  BY <1>3, HunksMatch
<1>9. hunk.lines \in Seq([tag: {"kept", "-", "+"}, body: Bodies])
  BY <1>6 DEF Hunks
<1>10. DOMAIN hunk.lines = 1 .. Len(hunk.lines) /\ Len(hunk.lines) \in Nat
  BY <1>9, LenProperties
<1> HIDE DEF hunk, a, b
<1>11. /\ a \in Nat /\ b \in Nat /\ p \in 0 .. b - a + 1 /\ a + p = k
       /\ p + 1 \in 1 .. b - a + 1 /\ a + (p + 1) - 1 = k
  BY <1>2, <1>4, <1>6
<1>12. LineAt(hunk, p + 1) = OldLine(script, k)
  <2> HIDE DEF p
  <2>1. LineAt(hunk, p + 1) = OldLine(script, a + p)
    BY <1>6, <1>7, <1>11, HunkCursor
  <2> QED BY <1>11, <2>1
<1> HIDE DEF p
<1>13. /\ b - a + 1 <= Len(hunk.lines)
       /\ hunk.lines[p + 1] = [tag |-> script[a + (p + 1) - 1].tag,
                              body |-> script[a + (p + 1) - 1].line.body]
  BY <1>6, <1>11 DEF Shows
<1>14. hunk.lines[p + 1].tag = script[k].tag /\ hunk.lines[p + 1].body = script[k].line.body
  BY <1>11, <1>13
<1>15. p + 1 \in DOMAIN hunk.lines
  BY <1>10, <1>11, <1>13
<1>16. Matches(now, LineAt(hunk, p + 1), hunk.lines[p + 1].body)
  BY <1>8, <1>14, <1>15 DEF HunkMatches
<1>17. OldLine(script, k) <= Len(now) /\ now[OldLine(script, k)].body = script[k].line.body
  BY <1>12, <1>14, <1>16 DEF Matches
<1>18. OldLine(script, k) \in Nat \ {0}
  <2>1. k \in 1 .. Len(script) + 1
    BY <1>2, <1>4
  <2> QED BY <2>1, OldLineSteps
<1>19. OldLine(script, k) \in DOMAIN text
  BY <1>1, <1>17, <1>18
<1> QED
  BY <1>1, <1>17, <1>19

(* Whatever the file has become: if the hunks of a script pass the applier's  *)
(* checks on it, the rendering is the text that the script stands for, and    *)
(* the lines shown were the file's.                                           *)
THEOREM RenderedIsReplayed ==
  ASSUME NEW text \in Texts, NEW script \in Seq(Entries), NEW hunks \in Seq(Hunks),
         HunksShow(hunks, script), Verified(AsRead(text), hunks)
  PROVE  /\ Rendered(AsRead(text), hunks) = Replayed(text, script)
         /\ Agrees(text, script)
<1> DEFINE now == AsRead(text)
<1>1. PICK from \in [DOMAIN hunks -> DOMAIN script], to \in [DOMAIN hunks -> DOMAIN script] :
        Covers(hunks, script, from, to)
  BY DEF HunksShow
<1>2. now \in Seq(Lines) /\ Verified(now, hunks)
  BY AsReadLines
<1>3. PICK F : /\ Replays(F, now, script)
               /\ Replayed(text, script)
                    = F[Len(script)] \o Cut(now, OldLine(script, Len(script) + 1), Len(now))
  BY ReplayExists
<1> DEFINE parts == [k \in DOMAIN hunks |->
                       Copied(now, hunks, k) \o HunkResult(now, hunks[k])]
           H == Len(hunks)  N == Len(script)  L == Len(now)
           e == LastOf(to, H)  o == OldLine(script, e + 1)  next == Cursor(hunks, H + 1)
           end == OldLine(script, N + 1)
<1>4. H \in Nat /\ N \in Nat /\ L \in Nat /\ DOMAIN script = 1 .. N
  BY <1>2, LenProperties
<1>5. Rendered(now, hunks) = FlattenSeq(parts) \o Cut(now, next, L)
  <2>1. H + 1 > Len(hunks)
    BY <1>4
  <2>2. Copied(now, hunks, H + 1) = SubSeq(now, next, L)
    BY <2>1 DEF Copied
  <2>3. Cut(now, next, L) = SubSeq(now, next, L)
    BY <1>4 DEF Cut, Least
  <2> QED BY <2>2, <2>3 DEF Rendered
<1>6. /\ next \in Nat \ {0} /\ o <= next
      /\ FlattenSeq(parts) = F[e] \o Cut(now, o, next - 1)
  <2>1. HunksRendered(script, now, hunks, to, F)
    <3> HIDE DEF now
    <3> QED BY <1>1, <1>2, <1>3, HunksRender
  <2> QED BY <2>1 DEF HunksRendered
<1>7. GapsKept(script, hunks, from, to, H)
  <2>1. H <= H
    BY <1>4
  <2> QED BY <1>1, <1>4, <2>1, GapsAreKept
<1>8. e \in Nat /\ e <= N /\ \A k \in (e + 1) .. N : script[k].tag = "kept"
  <2>1. e \in Nat /\ e <= N /\ \A k \in DOMAIN script : e < k => script[k].tag = "kept"
    BY <1>7 DEF GapsKept
  <2> HIDE DEF e, N
  <2>2. \A k \in (e + 1) .. N : k \in 1 .. N /\ e < k
    BY <1>4, <2>1
  <2> QED BY <1>4, <2>1, <2>2
<1>9. F[N] = F[e] \o Cut(now, o, end - 1)
  <2>1. N <= N
    BY <1>4
  <2> HIDE DEF now, e
  <2>2. KeptGiven(script, now, e, N, F)
    BY <1>2, <1>3, <1>4, <1>8, <2>1 DEF KeptGiven
  <2>3. KeptGoesOn(script, now, e, N, F)
    BY <2>2, KeptMoves
  <2> QED BY <2>3 DEF KeptGoesOn
<1> HIDE DEF now, H, N, L, e, next, parts
<1>10. o \in Nat \ {0} /\ end \in Nat \ {0} /\ o <= end
  <2>1. \A k \in 1 .. N + 1 : OldLine(script, k) \in Nat \ {0}
    BY OldLineSteps DEF N
  <2>2. e + 1 \in 1 .. N + 1 /\ N + 1 \in 1 .. N + 1
    BY <1>4, <1>8
  <2>3. OldLine(script, e + 1) <= OldLine(script, N + 1)
    BY <1>4, <1>8, <2>2, OldLineGrows DEF N
  <2> QED BY <2>1, <2>2, <2>3
<1> HIDE DEF o, end
<1>11. Cut(now, o, next - 1) \o Cut(now, next, L) = Cut(now, o, L)
  <2> DEFINE q == next - 1
  <2>1. q \in Nat /\ q + 1 = next /\ o <= q + 1 /\ L <= L
    BY <1>4, <1>6, <1>10
  <2> HIDE DEF q
  <2>2. Cut(now, o, q) \o Cut(now, q + 1, L) = Cut(now, o, L)
    BY <1>2, <1>4, <1>10, <2>1, CutJoins DEF L
  <2> QED BY <2>1, <2>2 DEF q
<1>12. Cut(now, o, end - 1) \o Cut(now, end, L) = Cut(now, o, L)
  <2> DEFINE q == end - 1
  <2>1. q \in Nat /\ q + 1 = end /\ o <= q + 1 /\ L <= L
    BY <1>4, <1>10
  <2> HIDE DEF q
  <2>2. Cut(now, o, q) \o Cut(now, q + 1, L) = Cut(now, o, L)
    BY <1>2, <1>4, <1>10, <2>1, CutJoins DEF L
  <2> QED BY <2>1, <2>2 DEF q
<1>13. F[e] \in Seq(Lines)
  BY <1>3, <1>8 DEF Replays
<1>14. \A p \in Nat \ {0}, q \in Nat : Cut(now, p, q) \in Seq(Lines)
  BY <1>2, CutSmall
<1>15. Rendered(now, hunks) = F[e] \o Cut(now, o, L)
  <2>1. next - 1 \in Nat
    BY <1>6
  <2>2. /\ F[e] \in Seq(Lines) /\ Cut(now, o, next - 1) \in Seq(Lines)
        /\ Cut(now, next, L) \in Seq(Lines)
    BY <1>4, <1>6, <1>10, <1>13, <1>14, <2>1
  <2>3. (F[e] \o Cut(now, o, next - 1)) \o Cut(now, next, L)
        = F[e] \o (Cut(now, o, next - 1) \o Cut(now, next, L))
    BY <2>2, Reassociated
  <2> QED BY <1>5, <1>6, <1>11, <2>3
<1>16. Replayed(text, script) = F[e] \o Cut(now, o, L)
  <2>1. end - 1 \in Nat
    BY <1>10
  <2>2. /\ F[e] \in Seq(Lines) /\ Cut(now, o, end - 1) \in Seq(Lines)
        /\ Cut(now, end, L) \in Seq(Lines)
    BY <1>4, <1>10, <1>13, <1>14, <2>1
  <2>3. (F[e] \o Cut(now, o, end - 1)) \o Cut(now, end, L)
        = F[e] \o (Cut(now, o, end - 1) \o Cut(now, end, L))
    BY <2>2, Reassociated
  <2>4. Replayed(text, script) = F[N] \o Cut(now, end, L)
    BY <1>3 DEF N, L, end
  <2> QED BY <1>9, <1>12, <2>3, <2>4
<1>17. Agrees(text, script)
  BY <1>1, VerifiedAgrees
<1> QED
  BY <1>15, <1>16, <1>17 DEF now
==============================================================================
