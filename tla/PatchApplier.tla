---------------------------- MODULE PatchApplier -----------------------------
(* apply_unified_diff: one call, from the text of a diff to the files it      *)
(* wrote.  The parser reads the diff line by line; every file is rendered in  *)
(* memory from the file on disk; then the rendered files are written one      *)
(* after the other.                                                           *)
EXTENDS Integers, SequencesExt

CONSTANTS
  Paths,    \* the paths a diff may name, without their a/ or b/
  NoPath,   \* a path that no file has
  Bodies,   \* what a line holds, without its tag and its line end
  Empty,    \* the body of a blank line
  Dashed,   \* the bodies that begin with `-- `
  Plussed   \* the bodies that begin with `++ `, with the path each would name

ASSUME PathAssumption == NoPath \notin Paths
ASSUME BodyAssumption ==
  /\ Empty \in Bodies /\ Dashed \subseteq Bodies /\ DOMAIN Plussed \subseteq Bodies
  /\ Plussed \in [DOMAIN Plussed -> Paths \union {NoPath}]

(* A file is the list of lines str.splitlines(keepends=True) makes of it: it  *)
(* splits at line ends and also at form feeds.  The last may have no end.     *)
Lines == [body: Bodies, end: {"lf", "crlf", "ff", "none"}]
Texts == Seq(Lines)
Trees == UNION {[P -> Texts] : P \in SUBSET Paths}

(* A line of a diff, after splitlines() dropped its end.  "kept" is a context *)
(* line, of the prefix blank, "blank" an empty line, "noise" one that belongs *)
(* to no file (`diff --git`, `\ No newline`).  The path of a line is the one  *)
(* it names if it is read as a new file's header, its body what it keeps,     *)
(* deletes or adds if it is read as a line of a hunk.                         *)
DiffLines == [tag: {"---", "+++", "@@", "kept", "-", "+", "blank", "noise"},
              path: Paths \union {NoPath}, start: Nat, body: Bodies]
Blank == [tag |-> "blank", path |-> NoPath, start |-> 0, body |-> Empty]
Noise == [Blank EXCEPT !.tag = "noise"]
Header(tag, path) == [Blank EXCEPT !.tag = tag, !.path = path]
HunkAt(start) == [Blank EXCEPT !.tag = "@@", !.start = start]
Body(tag, body) ==
  [Blank EXCEPT !.tag = tag, !.body = body,
                !.path = IF tag = "+" /\ body \in DOMAIN Plussed THEN Plussed[body] ELSE NoPath]

(* Hunk and FilePatch: the counts of a hunk's header are never looked at.     *)
Hunks == [start: Nat, lines: Seq([tag: {"kept", "-", "+"}, body: Bodies])]
FilePatches == [path: Paths \union {NoPath}, hunks: Seq(Hunks)]

VARIABLES
  pc,       \* "parse", "render", "write" or "done"
  diff,     \* diff_text, split into lines
  i,        \* the next line, FilePatch or staged file
  patches,  \* the FilePatches parsed so far
  open,     \* is there a hunk that takes lines?
  staged,   \* the rendered files
  tree,     \* the files under root
  before,   \* the files when the call began (history)
  outcome   \* "none", "applied", "refused" (PatchError) or "raised" (OSError)

vars == <<pc, diff, i, patches, open, staged, tree, before, outcome>>

Start ==
  /\ pc = "parse" /\ i = 1
  /\ patches = <<>> /\ open = FALSE /\ staged = <<>>
  /\ before = tree /\ outcome = "none"

Init == diff \in Seq(DiffLines) /\ tree \in Trees /\ Start

PatchError == /\ outcome' = "refused" /\ pc' = "done"
              /\ UNCHANGED <<diff, i, patches, open, staged, tree, before>>

-----------------------------------------------------------------------------
(* parse_unified_diff                                                         *)

(* line.startswith("--- "), line.startswith("+++ "): a deleted line that      *)
(* begins with dashes looks like a header, an added one with pluses as well,  *)
(* and the pair of them is taken for the header of another file.              *)
IsOldHeader(l) == l.tag = "---" \/ (l.tag = "-" /\ l.body \in Dashed)
IsNewHeader(l) == l.tag = "+++" \/ (l.tag = "+" /\ l.body \in DOMAIN Plussed)

Parsing == pc = "parse" /\ i <= Len(diff)
AfterHeader == i < Len(diff) /\ IsNewHeader(diff[i + 1])
Parsed(step) == i' = i + step /\ UNCHANGED <<pc, diff, staged, tree, before, outcome>>

FileHeader ==
  /\ Parsing /\ IsOldHeader(diff[i]) /\ AfterHeader
  /\ patches' = Append(patches, [path |-> diff[i + 1].path, hunks |-> <<>>])
  /\ open' = FALSE
  /\ Parsed(2)

MalformedHeader == Parsing /\ IsOldHeader(diff[i]) /\ ~ AfterHeader /\ PatchError

HunkHeader ==
  /\ Parsing /\ diff[i].tag = "@@" /\ patches # <<>>
  /\ patches' = [patches EXCEPT ![Len(patches)].hunks =
                   Append(@, [start |-> diff[i].start, lines |-> <<>>])]
  /\ open' = TRUE
  /\ Parsed(1)

OrphanHunk == Parsing /\ diff[i].tag = "@@" /\ patches = <<>> /\ PatchError

IsHunkLine(l) == open /\ l.tag \in {"kept", "+", "-", "blank", "+++"} /\ ~ IsOldHeader(l)

(* A blank line is taken for a context line that lost its blank, the header   *)
(* of a new file without that of the old one for an added line.               *)
HunkLine ==
  /\ Parsing /\ IsHunkLine(diff[i])
  /\ LET l == [tag  |-> CASE diff[i].tag = "blank" -> "kept"
                          [] diff[i].tag = "+++"   -> "+"
                          [] OTHER                 -> diff[i].tag,
               body |-> diff[i].body]
         n == Len(patches)
     IN  patches' = [patches EXCEPT ![n].hunks[Len(patches[n].hunks)].lines = Append(@, l)]
  /\ UNCHANGED open
  /\ Parsed(1)

MutantSkippedLine ==
  /\ Parsing
  /\ ~ IsOldHeader(diff[i]) /\ diff[i].tag # "@@" /\ ~ IsHunkLine(diff[i])
  /\ UNCHANGED <<patches, open>>
  /\ Parsed(0)

SkippedLine ==
  /\ Parsing
  /\ ~ IsOldHeader(diff[i]) /\ diff[i].tag # "@@" /\ ~ IsHunkLine(diff[i])
  /\ UNCHANGED <<patches, open>>
  /\ Parsed(1)

MutantParseEnds ==
  /\ pc = "parse" /\ i > Len(diff) /\ patches # <<>>
  /\ pc' = "render" /\ i' = 0
  /\ UNCHANGED <<diff, patches, open, staged, tree, before, outcome>>

ParseEnds ==
  /\ pc = "parse" /\ i > Len(diff) /\ patches # <<>>
  /\ pc' = "render" /\ i' = 1
  /\ UNCHANGED <<diff, patches, open, staged, tree, before, outcome>>

NothingParsed == pc = "parse" /\ i > Len(diff) /\ patches = <<>> /\ PatchError

-----------------------------------------------------------------------------
(* render_file_patch                                                          *)

(* read_text: universal newlines.                                             *)
AsRead(text) ==
  [k \in DOMAIN text |-> IF text[k].end = "crlf" THEN [text[k] EXCEPT !.end = "lf"] ELSE text[k]]

Least(a, b) == IF a < b THEN a ELSE b

MutantMatches(original, at, body) == at <= Len(original)

(* original[cursor].rstrip("\r\n") == content: a form feed is not stripped.   *)
Matches(original, at, body) ==
  at <= Len(original) /\ original[at].body = body /\ original[at].end # "ff"

(* The cursor at a line of a hunk, and before hunk k (behind the last one,    *)
(* for the hunk after it): the lines that are not added move it.              *)
OldLines(lines) == Cardinality({n \in DOMAIN lines : lines[n].tag # "+"})
MutantLineAt(hunk, n) == hunk.start + n - 1
LineAt(hunk, n) == hunk.start + OldLines(SubSeq(hunk.lines, 1, n - 1))
Cursor(hunks, k) ==
  IF k = 1 THEN 1 ELSE hunks[k - 1].start + OldLines(hunks[k - 1].lines)

(* No hunk begins before the end of the last, and every line a hunk keeps or  *)
(* deletes is the one that stands there.                                      *)
Verified(original, hunks) ==
  \A k \in DOMAIN hunks :
    /\ hunks[k].start >= Cursor(hunks, k)
    /\ \A n \in DOMAIN hunks[k].lines :
         LET l == hunks[k].lines[n]
         IN  l.tag # "+" => Matches(original, LineAt(hunks[k], n), l.body)

(* A hunk's part of the result, and the lines copied in front of it.          *)
HunkResult(original, hunk) ==
  FlattenSeq([n \in DOMAIN hunk.lines |->
    LET l == hunk.lines[n]
    IN  CASE l.tag = "+" -> <<[body |-> l.body, end |-> "lf"]>>
          [] l.tag = "-" -> <<>>
          [] l.tag = "kept" -> <<original[LineAt(hunk, n)]>>])

Copied(original, hunks, k) ==
  SubSeq(original, Cursor(hunks, k),
         IF k > Len(hunks) THEN Len(original) ELSE Least(hunks[k].start - 1, Len(original)))

(* The text of a patched file.                                                *)
Rendered(original, hunks) ==
  FlattenSeq([k \in DOMAIN hunks |->
               Copied(original, hunks, k) \o HunkResult(original, hunks[k])])
  \o Copied(original, hunks, Len(hunks) + 1)

Rendering == pc = "render" /\ i <= Len(patches)
Target == patches[i].path
Original == AsRead(tree[Target])

MutantRender ==
  /\ Rendering /\ Target \in DOMAIN tree /\ Verified(Original, patches[i].hunks)
  /\ LET text == Rendered(Original, patches[i].hunks)
     IN  /\ staged' = Append(staged, [path |-> Target, text |-> text])
         /\ tree' = [tree EXCEPT ![Target] = text]
  /\ i' = i + 1
  /\ UNCHANGED <<pc, diff, patches, open, before, outcome>>

Render ==
  /\ Rendering /\ Target \in DOMAIN tree /\ Verified(Original, patches[i].hunks)
  /\ staged' = Append(staged, [path |-> Target, text |-> Rendered(Original, patches[i].hunks)])
  /\ i' = i + 1
  /\ UNCHANGED <<pc, diff, patches, open, tree, before, outcome>>

(* No such file, overlapping hunks, a line that is not the expected one.      *)
RenderRefuses ==
  /\ Rendering
  /\ Target \in DOMAIN tree => ~ Verified(Original, patches[i].hunks)
  /\ PatchError

(* The file cannot be read or is not UTF-8.                                   *)
RenderRaises ==
  /\ Rendering /\ Target \in DOMAIN tree
  /\ outcome' = "raised" /\ pc' = "done"
  /\ UNCHANGED <<diff, i, patches, open, staged, tree, before>>

RenderEnds ==
  /\ pc = "render" /\ i > Len(patches)
  /\ pc' = "write" /\ i' = 1
  /\ UNCHANGED <<diff, patches, open, staged, tree, before, outcome>>

-----------------------------------------------------------------------------
Writing == pc = "write" /\ i <= Len(staged)

MutantWrite ==
  /\ Writing
  /\ tree' = [tree EXCEPT ![staged[i].path] = @ \o staged[i].text]
  /\ i' = i + 1
  /\ UNCHANGED <<pc, diff, patches, open, staged, before, outcome>>

Write ==
  /\ Writing
  /\ tree' = [tree EXCEPT ![staged[i].path] = staged[i].text]
  /\ i' = i + 1
  /\ UNCHANGED <<pc, diff, patches, open, staged, before, outcome>>

(* write_text truncates the file when it opens it: the error may come before  *)
(* that or when a part has been written.                                      *)
WriteRaises ==
  /\ Writing
  /\ \/ UNCHANGED tree
     \/ \E n \in 0 .. Len(staged[i].text) :
          tree' = [tree EXCEPT ![staged[i].path] = SubSeq(staged[i].text, 1, n)]
  /\ outcome' = "raised" /\ pc' = "done"
  /\ UNCHANGED <<diff, i, patches, open, staged, before>>

WriteEnds ==
  /\ pc = "write" /\ i > Len(staged)
  /\ outcome' = "applied" /\ pc' = "done"
  /\ UNCHANGED <<diff, i, patches, open, staged, tree, before>>

Done == pc = "done" /\ UNCHANGED vars

Parse == FileHeader \/ MalformedHeader \/ HunkHeader \/ OrphanHunk \/ HunkLine
         \/ SkippedLine \/ ParseEnds \/ NothingParsed

Next == \/ Parse
        \/ Render \/ RenderRefuses \/ RenderRaises \/ RenderEnds
        \/ Write \/ WriteRaises \/ WriteEnds \/ Done

Spec == Init /\ [][Next]_vars

-----------------------------------------------------------------------------
TypeOK ==
  /\ pc \in {"parse", "render", "write", "done"}
  /\ i \in Nat \ {0} /\ open \in BOOLEAN
  /\ patches \in Seq(FilePatches)
  /\ Len(staged) <= Len(patches)
  /\ DOMAIN tree = DOMAIN before
  /\ outcome \in {"none", "applied", "refused", "raised"}

(* A diff that is refused leaves the tree untouched, and no file is touched   *)
(* before every hunk of every file has been verified against the files as     *)
(* they were: a stale diff cannot half-patch a tree.                          *)
AllOrNothing ==
  tree # before =>
    /\ outcome # "refused"
    /\ Len(staged) = Len(patches)
    /\ \A k \in DOMAIN patches :
         LET original == AsRead(before[patches[k].path])
         IN  /\ patches[k].path \in DOMAIN before
             /\ Verified(original, patches[k].hunks)
             /\ staged[k].text = Rendered(original, patches[k].hunks)

(* A write that fails leaves at most one file torn, the one it was writing:   *)
(* every other file holds what it held or what was rendered for it, in the    *)
(* order of the diff.                                                         *)
OneTornFile ==
  \A p \in DOMAIN tree : tree[p] # before[p] =>
    \E k \in DOMAIN staged : /\ staged[k].path = p /\ k <= i
                             /\ tree[p] = staged[k].text \/ (k = i /\ outcome = "raised")
=============================================================================
