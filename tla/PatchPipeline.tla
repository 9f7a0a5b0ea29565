---------------------------- MODULE PatchPipeline ----------------------------
(* A proposal on its way into a working copy: the generator prints the diff   *)
(* of a file as it was when it was read, or another provider hands over a     *)
(* diff of several files; the applier meets the files as they are now.        *)
EXTENDS PatchGenerator

CONSTANT
  Jobs  \* bound: the proposals and the trees they meet

(* A job: the edits of the diff, file by file; the files they were made from  *)
(* and the files now; whether the files' parts come as they were printed,     *)
(* with a blank line behind each ("spaced") or without their headers          *)
(* ("headless"); and the finding, of a kind if the generator made the diff.   *)
VARIABLE job

(* The part of a file; git writes a line of its own before it.                *)
Part(j, k) ==
  LET printed == Printed(j.edits[k].path, j.edits[k].script)
  IN  (IF j.finding.kind = "none" THEN WithEnd(Noise, "lf") ELSE <<>>)
      \o CASE j.form = "printed"  -> printed
           [] j.form = "spaced"   -> printed \o WithEnd(Blank, "lf")
           [] j.form = "headless" -> SubSeq(printed, 3, Len(printed))

Joined(j) == FlattenSeq([k \in DOMAIN j.edits |-> Part(j, k)])
DiffOf(j) == Split(Joined(j))

Edits == [path: Paths, script: Seq(Entries)]

(* A script was made from the file of its path, as it was read; only the last *)
(* line of a file may have no end.  If the generator made the diff, it is of  *)
(* one file, what the AST said of that file is true, and no line of a file    *)
(* reads like two of its lines run together.                                  *)
ASSUME JobsAssumption ==
  \A j \in Jobs :
    /\ j.edits \in Seq(Edits) /\ j.edits # <<>>
    /\ j.form \in {"printed", "spaced", "headless"}
    /\ j.finding \in Findings
    /\ DiffOf(j) \in Seq(DiffLines)
    /\ \E P, Q \in SUBSET Paths : j.base \in [P -> Texts] /\ j.now \in [Q -> Texts]
    /\ \A p \in DOMAIN j.base : \A k \in 1 .. Len(j.base[p]) - 1 : j.base[p][k].end # "none"
    /\ \A k \in DOMAIN j.edits :
         LET e == j.edits[k]
         IN  e.path \in DOMAIN j.base => OldText(e.script) = AsRead(j.base[e.path])
    /\ j.finding.kind # "none" =>
         \E p \in DOMAIN j.base :
           /\ j.form = "printed" /\ TrueOf(AsRead(j.base[p]), j.finding)
           /\ j.edits = <<[path |-> p, script |-> j.edits[1].script]>>
           /\ Proposes(j.base[p], j.finding, j.edits[1].script)
    /\ j.finding.kind # "none" =>
         \A p \in DOMAIN j.base : \A k \in DOMAIN j.base[p] : j.base[p][k].body \notin Range(Glued)

PipelineInit == /\ job \in Jobs
                /\ diff = DiffOf(job) /\ tree = job.now
                /\ Start

PipelineNext == Next /\ UNCHANGED job

PipelineSpec == PipelineInit /\ [][PipelineNext]_<<vars, job>> /\ WF_<<vars, job>>(PipelineNext)

-----------------------------------------------------------------------------
Generated == job.finding.kind # "none"
Fresh == job.now = job.base
Edited == {job.edits[k].path : k \in DOMAIN job.edits}

(* The diff's last word on a file.                                            *)
LastScript(p) == LET last == CHOOSE k \in DOMAIN job.edits :
                       /\ job.edits[k].path = p
                       /\ \A n \in DOMAIN job.edits : job.edits[n].path = p => n <= k
                 IN  job.edits[last].script

(* A deleted line that begins with `-- ` and an added one that begins with    *)
(* `++ ` behind it are taken for the header of a file that there may be.      *)
FalseHeader(j) ==
  LET d == DiffOf(j)
  IN  \E n \in 1 .. Len(d) - 1 :
        /\ d[n].tag = "-" /\ IsOldHeader(d[n])
        /\ IsNewHeader(d[n + 1]) /\ d[n + 1].path # NoPath

(* A diff that was applied, stale or not, agrees with each of its files and   *)
(* did to it what it shows and nothing else; where it names a file twice,     *)
(* only the last part counts.  Diffs with a false header are left out, what   *)
(* they show behind it is lost; so are files whose last line has no end: a    *)
(* line added behind it would be glued to it.                                 *)
AppliedIsReplayed ==
  outcome = "applied" /\ ~ FalseHeader(job) => \A p \in DOMAIN tree :
    /\ p \notin Edited => tree[p] = before[p]
    /\ p \in Edited => Agrees(before[p], LastScript(p))
    /\ p \in Edited /\ Terminated(before[p]) =>
         tree[p] = Replayed(before[p], LastScript(p))

(* No deleted or kept line that a diff shows is lost on its way.              *)
Printable(script) == \A k \in Shown(script) :
  /\ script[k].tag # "+" => script[k].line.end # "ff"
  /\ ~ (script[k].tag = "-" /\ script[k].line.body \in Dashed)

(* A diff is never refused by the files it was made from, when each of them   *)
(* ends in a newline, no changed part holds a form feed or a deleted line     *)
(* that looks like a header, and no blank lines stand between the files.      *)
FreshDiffApplies ==
  outcome = "refused" /\ Fresh /\ job.form = "printed" =>
    \E k \in DOMAIN job.edits :
      LET e == job.edits[k]
      IN  \/ e.path \notin DOMAIN before
          \/ OldText(e.script) = <<>> \/ Shown(e.script) = {}
          \/ ~ Terminated(NewText(e.script)) \/ ~ Terminated(before[e.path])
          \/ ~ Printable(e.script)

(* The file a generated patch leaves differs from the one it was made for in  *)
(* the lines of the template only, wherever attribute and __init__ stand,     *)
(* however the file ends and whichever lines the diff keeps.  Left out are    *)
(* files with form feeds, attributes and first statements that share their    *)
(* row with other code, first statements with decorators (what is added is    *)
(* put between a decorator and its def) and diffs with a false header.        *)
PatchedAsIntended ==
  /\ outcome = "applied" /\ Generated /\ Fresh /\ ~ FalseHeader(job)
  /\ ~ job.finding.shared /\ job.finding.begins = job.finding.first
  => \A p \in Edited :
       NoFormFeed(before[p]) => tree[p] = Intended(before[p], job.finding)

(* The parser, the renderer and the writer come to an end.                    *)
Terminates == <>(pc = "done")

(* The claim of the generator and of the applier: what the one proposes for a *)
(* file, the other can use on that file ("Both are acceptable for the         *)
(* generator/applier pair").  An unterminated last line refutes it.           *)
GeneratedDiffApplies == outcome = "refused" => ~ (Generated /\ Fresh)

(* The claim of the applier: "Context lines are verified before any file is   *)
(* written; a mismatch raises `PatchError` and leaves the tree untouched".    *)
(* The lines that a diff shows behind a false header refute it.               *)
ContextVerified ==
  outcome = "applied" => \A k \in DOMAIN job.edits :
    LET e == job.edits[k]
    IN  e.path \in DOMAIN before => Agrees(before[e.path], e.script)
=============================================================================
