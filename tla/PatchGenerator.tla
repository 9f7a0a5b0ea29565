--------------------------- MODULE PatchGenerator ----------------------------
(* The patch templates.  The generator reads a file, finds the statement a    *)
(* hypothesis is about in its AST, and edits the list of lines splitlines()   *)
(* makes of the file at the row the AST reports.                              *)
(*                                                                            *)
(* A finding tells where the statement really stands: `at` is the row (in     *)
(* splitlines' count) of the default, of the class attribute or of the key, 0 *)
(* when there is no such file or statement; `begins` the row the first        *)
(* statement of the function's body or of __init__ begins in, with its        *)
(* decorators, 0 without an __init__; `first` the row ast gives as its        *)
(* lineno, that of its def or class if it is decorated; `wrapped` whether the *)
(* statement spans several rows; `shared` whether the attribute or the first  *)
(* statement shares its row with other code, as in a def of one row.          *)
EXTENDS UnifiedDiff

Kinds == {"mutable_default_argument", "shared_mutable_class_attr", "schema_key_mismatch", "none"}

(* The bodies the templates read and write.                                   *)
Statements == {"default", "default_none", "guard", "attr", "init", "self_attr",
               "old_key", "new_key", "garbled"}
ASSUME StatementsAssumption == Statements \subseteq Bodies

Findings == [kind: Kinds, at: Nat, begins: Nat, first: Nat, wrapped: BOOLEAN, shared: BOOLEAN]
Editable(finding) == finding.at # 0 /\ ~ finding.wrapped

(* What the AST says is true: its rows are rows of the file, there is a       *)
(* default in the row it gives for one, and the function has a body.          *)
TrueOf(text, finding) ==
  /\ finding.at <= Len(text) /\ finding.first <= Len(text)
  /\ finding.begins <= finding.first
  /\ finding.at # 0 /\ finding.at = finding.first => finding.shared
  /\ finding.kind = "mutable_default_argument" /\ finding.at # 0 =>
       text[finding.at].body = "default" /\ finding.first # 0

(* The number ast gives to a row: its lines end at line ends only.            *)
LineNo(text, row) == 1 + Cardinality({k \in 1 .. (row - 1) : text[k].end # "ff"})

NewLine(body) == [body |-> body, end |-> "lf"]

(* The default is cut out of its line by column and None put in its place.    *)
WithNone(body) == IF body = "default" THEN "default_none" ELSE "garbled"

(* _patch_mutable_default                                                     *)
MutableDefault(text, finding) ==
  IF ~ Editable(finding) THEN {}
  ELSE LET edited == [text EXCEPT ![LineNo(text, finding.at)].body = WithNone(@)]
       IN  {InsertAt(edited, LineNo(text, finding.first), NewLine("guard"))}

MutantSharedClassAttr(text, finding) ==
  LET attr == LineNo(text, finding.at)
      first == LineNo(text, finding.first)
  IN  IF ~ Editable(finding) THEN {}
      ELSE IF finding.first = 0
      THEN {SubSeq(text, 1, attr - 1) \o <<NewLine("init"), NewLine("self_attr")>>
            \o SubSeq(text, attr + 1, Len(text))}
      ELSE {RemoveAt(InsertAt(text, first, NewLine("self_attr")), attr)}

(* _patch_shared_class_attr: the insertion moves an attribute that stands     *)
(* below __init__ down by one row.                                            *)
SharedClassAttr(text, finding) ==
  LET attr == LineNo(text, finding.at)
      first == LineNo(text, finding.first)
  IN  IF ~ Editable(finding) THEN {}
      ELSE IF finding.first = 0
      THEN {SubSeq(text, 1, attr - 1) \o <<NewLine("init"), NewLine("self_attr")>>
            \o SubSeq(text, attr + 1, Len(text))}
      ELSE {RemoveAt(InsertAt(text, first, NewLine("self_attr")),
                     IF first <= attr THEN attr + 1 ELSE attr)}

(* _patch_schema_key: the only template that looks at the line it edits.      *)
SchemaKey(text, finding) ==
  LET row == LineNo(text, finding.at)
  IN  IF finding.at # 0 /\ row <= Len(text) /\ text[row].body = "old_key"
      THEN {[text EXCEPT ![row].body = "new_key"]} ELSE {}

(* generate_patch: the text it arrives at, if any.                            *)
Patched(text, finding) ==
  CASE finding.kind = "mutable_default_argument"  -> MutableDefault(text, finding)
    [] finding.kind = "shared_mutable_class_attr" -> SharedClassAttr(text, finding)
    [] finding.kind = "schema_key_mismatch"       -> SchemaKey(text, finding)
    [] finding.kind = "none"                      -> {}

(* The edits whose diff it may propose for the file.                          *)
Proposes(text, finding, script) ==
  \E new \in Patched(AsRead(text), finding) : Aligns(script, AsRead(text), new)

-----------------------------------------------------------------------------
(* What a template is meant to do to each row of the file: what it adds to a  *)
(* body comes before its first statement and the decorators of it.  This is   *)
(* the intention only where attribute and statement have rows of their own.   *)
IntendedRow(text, finding, k) ==
  LET row == text[k] IN
  CASE finding.kind = "mutable_default_argument" ->
         (IF k = finding.begins THEN <<NewLine("guard")>> ELSE <<>>)
         \o <<IF k = finding.at THEN [row EXCEPT !.body = "default_none"] ELSE row>>
    [] finding.kind = "shared_mutable_class_attr" ->
         (IF k = finding.begins THEN <<NewLine("self_attr")>> ELSE <<>>)
         \o (IF k # finding.at THEN <<row>>
             ELSE IF finding.begins = 0 THEN <<NewLine("init"), NewLine("self_attr")>> ELSE <<>>)
    [] finding.kind = "schema_key_mismatch" ->
         <<IF k = finding.at THEN [row EXCEPT !.body = "new_key"] ELSE row>>

Intended(text, finding) ==
  FlattenSeq([k \in DOMAIN text |-> IntendedRow(AsRead(text), finding, k)])
=============================================================================
