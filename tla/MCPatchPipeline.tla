-------------------------- MODULE MCPatchPipeline ----------------------------
(* A small instance of PatchPipeline: two files, one line of context.         *)
EXTENDS PatchPipeline

MC_Bodies == Statements \union {"", "a", "b", "c", "d", "e", "class", "def", "stmt",
                                "deco", "one_row", "dash", "plus", "plus_g",
                                "glued", "dash_glued", "plus_glued"}
MC_Plussed == "plus" :> "elsewhere" @@ "plus_g" :> "g" @@ "plus_glued" :> "elsewhere"
MC_Glued == [b \in MC_Bodies |-> CASE b = "dash" -> "dash_glued"
                                    [] b \in DOMAIN MC_Plussed -> "plus_glued"
                                    [] OTHER -> "glued"]

Text(bodies, end, last) ==
  [k \in DOMAIN bodies |->
    IF bodies[k] = "page" THEN [body |-> "", end |-> "ff"]
    ELSE [body |-> bodies[k], end |-> IF k = Len(bodies) THEN last ELSE end]]

-----------------------------------------------------------------------------
(* Generated jobs: files with something to patch, near their ends and far     *)
(* from them, with a page break (a row of a form feed and the rest of its     *)
(* line) above, below or nowhere.                                             *)
Tails == {<<>>, <<"a">>, <<"a", "b", "c">>}
Heads == {<<>>, <<"page", "">>, <<"page", "", "c">>, <<"d", "e">>}

DefaultFiles == {h \o <<"default", "stmt">> \o t : h \in Heads, t \in Tails}
                \union {<<"default">> \o t : t \in Tails}
                \union {<<"default", "deco", "stmt">>}
AttrFiles == {h \o c \o t : h \in Heads, t \in Tails,
              c \in {<<"class", "attr">>, <<"class", "attr", "def", "stmt">>,
                     <<"class", "attr", "one_row">>, <<"class", "def", "deco", "stmt", "attr">>,
                     <<"class", "attr", "c", "d", "def", "stmt">>,
                     <<"class", "def", "stmt", "attr">>,
                     <<"class", "def", "stmt", "c", "d", "attr">>}}
KeyFiles == {h \o <<"old_key">> \o t : h \in Heads, t \in Tails}

RowOf(text, body) ==
  LET rows == {k \in DOMAIN text : text[k].body = body}
  IN  IF rows = {} THEN 0 ELSE Min(rows)

(* A function without a statement of its own has its body in its first row.   *)
OneRow(text) == RowOf(text, "stmt") = 0
FindingIn(text, kind, wrapped) ==
  LET Body1(row) == IF OneRow(text) THEN row ELSE RowOf(text, "stmt")
      Found(at, first) ==
        [kind |-> kind, at |-> at, first |-> first, wrapped |-> wrapped,
         begins |-> IF RowOf(text, "deco") = 0 THEN first ELSE RowOf(text, "deco"),
         shared |-> OneRow(text) /\ first # 0]
  IN  CASE kind = "mutable_default_argument"  ->
             Found(RowOf(text, "default"), Body1(RowOf(text, "default")))
        [] kind = "shared_mutable_class_attr" ->
             Found(RowOf(text, "attr"), Body1(RowOf(text, "one_row")))
        [] kind = "schema_key_mismatch"       -> Found(RowOf(text, "old_key"), 0)

FilesFor == ("mutable_default_argument"  :> DefaultFiles)
            @@ ("shared_mutable_class_attr" :> AttrFiles)
            @@ ("schema_key_mismatch"       :> KeyFiles)

(* The alignments of two texts that keep every line both have, as far as      *)
(* their order allows, or give up `spare` pairs of equal lines.               *)
Alignments(old, new, spare) ==
  LET Grow(tag, line, tails) == {<<[tag |-> tag, line |-> line]>> \o t : t \in tails}
      Among(line, text, k) == \E m \in k .. Len(text) : text[m] = line
      from[left \in (1 .. Len(old) + 1) \X (1 .. Len(new) + 1) \X (0 .. spare)] ==
        LET a == left[1]
            b == left[2]
            n == left[3]
            deletes == a <= Len(old) /\ ~ Among(old[a], new, b)
            adds    == b <= Len(new) /\ ~ Among(new[b], old, a)
            deleted == Grow("-", old[a], from[<<a + 1, b, n>>])
            added   == Grow("+", new[b], from[<<a, b + 1, n>>])
        IN  IF a > Len(old) /\ b > Len(new) THEN {<<>>}
            ELSE IF deletes THEN deleted
            ELSE IF adds THEN added
            ELSE IF old[a] # new[b] THEN deleted \union added
            ELSE Grow("kept", old[a], from[<<a + 1, b + 1, n>>])
                 \union IF n = 0 THEN {} ELSE Grow("-", old[a], from[<<a + 1, b, n - 1>>])
  IN  {s \in from[<<1, 1, spare>>] : Aligns(s, old, new)}

MC_Spare == 1  \* bound: the pairs of equal lines a diff may give up
MC_Proposed(text, finding) ==
  UNION {Alignments(AsRead(text), new, MC_Spare) : new \in Patched(AsRead(text), finding)}

(* What may have become of a file since the diff was made.                    *)
Drifted(text) ==
  {text, <<NewLine("e")>> \o text, Tail(text)}
  \union {[text EXCEPT ![k].body = "e"] : k \in DOMAIN text}
  \union {[text EXCEPT ![Len(text)].end = "none"]}

GeneratedJobs ==
  LET Jobs1(kind, text, wrapped) ==
        {[edits |-> <<[path |-> "f", script |-> s]>>, base |-> "f" :> text, now |-> "f" :> now,
          form |-> "printed", finding |-> FindingIn(text, kind, wrapped)] :
           s \in MC_Proposed(text, FindingIn(text, kind, wrapped)),
           now \in {text, [text EXCEPT ![1].body = "e"]}}
  IN  UNION {Jobs1(kind, Text(file, end, last), wrapped) :
               <<kind, file, end, last, wrapped>> \in
                 UNION {{kind} \X FilesFor[kind] \X {"lf", "crlf"} \X {"lf", "none"} \X BOOLEAN :
                          kind \in DOMAIN FilesFor}}

-----------------------------------------------------------------------------
(* Foreign jobs: every script of a file of up to four lines, some longer ones *)
(* of two hunks, and lines that look like headers, of no file or of a second  *)
(* one; alone or, unless it has four lines, before another edit of the same   *)
(* file or of the second.                                                     *)
Names == <<"a", "b", "c", "d", "e", "a", "b">>
ScriptOf(tags) ==
  [k \in DOMAIN tags |-> [tag |-> tags[k], line |-> NewLine(Names[k])]]
Spell(tags, bodies) ==
  [k \in DOMAIN tags |-> [tag |-> tags[k], line |-> NewLine(bodies[k])]]

ShortScripts == {ScriptOf(tags) : tags \in UNION {[1 .. n -> {"kept", "-", "+"}] : n \in 1 .. 4}}
LongScripts == {ScriptOf(tags) : tags \in {<<"-", "kept", "kept", "kept", "+">>,
                                           <<"+", "kept", "kept", "kept", "-", "+">>,
                                           <<"-", "kept", "kept", "kept", "kept", "-", "kept">>}}
OddScripts ==
  {Spell(<<"kept", "-", "+", "kept">>, <<"a", x, y, z>>) :
     x \in {"b", "dash"}, y \in {"c", "plus", "plus_g", "dash"}, z \in {"d", "", "dash"}}

(* An old text of which a first and a second edit are made.                   *)
Seconds == {ScriptOf(<<"kept", "-", "+">>), Spell(<<"-", "+", "kept">>, <<"a", "e", "b">>),
            Spell(<<"kept", "kept", "+">>, <<"a", "b", "d">>)}

EditsOf(s) ==
  {<<[path |-> "f", script |-> s]>>}
  \union IF Len(s) = 4 THEN {} ELSE
    {<<[path |-> "f", script |-> s], [path |-> "g", script |-> t]>> : t \in Seconds}
    \union {<<[path |-> "f", script |-> s], [path |-> "f", script |-> t]>> :
              t \in {u \in Seconds : OldText(u) = OldText(s)}}

NoFinding == [kind |-> "none", at |-> 0, begins |-> 0, first |-> 0,
              wrapped |-> FALSE, shared |-> FALSE]

ForeignJob(edits, text, f, form) ==
  LET other == Text(<<"a", "b">>, "lf", "lf")
  IN  [edits |-> edits, base |-> ("f" :> text) @@ ("g" :> other),
       now |-> ("f" :> f) @@ ("g" :> other), form |-> form, finding |-> NoFinding]

ForeignJobs ==
  LET Scripted(s) ==
        LET text == OldText(s)
            nows == IF text = <<>> THEN {text} ELSE Drifted(text)
        IN  {ForeignJob(e, text, f, "printed") : e \in EditsOf(s), f \in nows}
            \union {ForeignJob(e, text, text, form) :
                      e \in EditsOf(s), form \in {"spaced", "headless"}}
  IN  UNION {Scripted(s) : s \in ShortScripts \union LongScripts \union OddScripts}

(* A file that is gone.                                                       *)
GoneJobs == {[j EXCEPT !.now = "g" :> j.now["g"]] :
               j \in {k \in ForeignJobs : Len(k.edits) = 2 /\ k.base = k.now}}

MC_Jobs == GeneratedJobs \union ForeignJobs \union GoneJobs
=============================================================================
