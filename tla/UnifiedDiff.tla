----------------------------- MODULE UnifiedDiff -----------------------------
(* What a unified diff stands for: an edit script of a file, the diff that    *)
(* _unified_diff prints of it, and the text the edit is meant to produce.     *)
EXTENDS PatchApplier, Lists

CONSTANT
  Context  \* the lines of context difflib prints around a change (3)

CONSTANT
  Glued    \* what a body becomes when the next line of the diff runs together with it

ASSUME ContextAssumption == Context \in Nat \ {0}
ASSUME GluedAssumption == Glued \in [Bodies -> Bodies]

(* A script lists the lines of the old file, kept or deleted ("-"), and the   *)
(* added ones ("+") where they come.                                          *)
Entries == [tag: {"kept", "-", "+"}, line: Lines]

OldText(script) == LET old == Kept(script, {k \in DOMAIN script : script[k].tag # "+"})
                   IN  [k \in DOMAIN old |-> old[k].line]
NewText(script) == LET new == Kept(script, {k \in DOMAIN script : script[k].tag # "-"})
                   IN  [k \in DOMAIN new |-> new[k].line]

(* The number of the old line an entry is at.                                 *)
OldLine(script, k) == 1 + Cardinality({j \in 1 .. (k - 1) : script[j].tag # "+"})

(* difflib.SequenceMatcher: which of the lines that both texts have are kept  *)
(* is left to its search for long common blocks, so that every alignment of   *)
(* the two texts is possible; between two kept lines it deletes before it     *)
(* adds.                                                                      *)
Aligns(script, old, new) ==
  /\ script \in Seq(Entries)
  /\ OldText(script) = old /\ NewText(script) = new
  /\ \A k \in DOMAIN script : k > 1 /\ script[k].tag = "-" => script[k - 1].tag # "+"

(* The entries that are in a hunk: changes, and lines close to one.           *)
Shown(script) ==
  {k \in DOMAIN script : \E j \in (k - Context) .. (k + Context) :
                           j \in DOMAIN script /\ script[j].tag # "kept"}

-----------------------------------------------------------------------------
(* A hunk of no old line (of an empty file) counts from 0.                    *)
HunkStart(script, k) == IF OldText(script) = <<>> THEN 0 ELSE OldLine(script, k)

(* The lines of the diff with the line ends they are printed with.  The lines *)
(* of a file keep theirs: one without an end runs together with the next.     *)
WithEnd(line, end) == <<[line |-> line, end |-> end]>>
PrintedEntry(script, k) ==
  IF k \notin Shown(script) THEN <<>>
  ELSE (IF k - 1 \in Shown(script) THEN <<>> ELSE WithEnd(HunkAt(HunkStart(script, k)), "lf"))
       \o WithEnd(Body(script[k].tag, script[k].line.body), script[k].line.end)

PrintedEntries(script) == FlattenSeq([k \in DOMAIN script |-> PrintedEntry(script, k)])

Printed(path, script) ==
  IF Shown(script) = {} THEN <<>>
  ELSE WithEnd(Header("---", path), "lf") \o WithEnd(Header("+++", path), "lf")
       \o PrintedEntries(script)

(* splitlines() of the joined diff.                                           *)
Split(text) ==
  LET begins == InOrder({k \in DOMAIN text : k = 1 \/ text[k - 1].end # "none"}, <)
      Read(k) == IF text[k].end = "none" /\ k < Len(text)
                 THEN Body(text[k].line.tag, Glued[text[k].line.body]) ELSE text[k].line
  IN  [n \in DOMAIN begins |-> Read(begins[n])]

-----------------------------------------------------------------------------
(* The text an edit is meant to make of a file: the lines the diff shows are  *)
(* kept, deleted and added as it says, those it does not show stay as they    *)
(* are now, and added lines end in a newline.                                 *)
Replayed(text, script) ==
  LET now == AsRead(text)
  IN  FlattenSeq([k \in DOMAIN script |->
        CASE script[k].tag = "+" -> <<[script[k].line EXCEPT !.end = "lf"]>>
          [] script[k].tag = "-" -> <<>>
          [] script[k].tag = "kept" ->
               IF OldLine(script, k) <= Len(now) THEN <<now[OldLine(script, k)]>> ELSE <<>>])
      \o SubSeq(now, Len(OldText(script)) + 1, Len(now))

(* The lines it shows are those of the file.                                  *)
Agrees(text, script) ==
  \A k \in Shown(script) : script[k].tag # "+" =>
    /\ OldLine(script, k) \in DOMAIN text
    /\ text[OldLine(script, k)].body = script[k].line.body

Terminated(text) == \A k \in DOMAIN text : text[k].end # "none"
NoFormFeed(text) == \A k \in DOMAIN text : text[k].end # "ff"
=============================================================================
