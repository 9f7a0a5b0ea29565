------------------------------ MODULE MCEngine -------------------------------
(* Small instances of Engine.                                                 *)
EXTENDS EngineProperties, TLC

Hypothesis(c, s, f) ==
  [confidence |-> c, status |-> "open", shape |-> s, ran |-> FALSE, findings |-> f,
   supporting |-> {}, contradicting |-> {}]

(* Below and above the threshold, with and without experiment and findings.   *)
Drafts == {Hypothesis(c, s, f) : c \in {30, 70}, s \in {"none", "command", "script"},
                                 f \in {0, 1}}

(* Every list of at most two of them; ties are among them.                    *)
PairProposals == {<<>>} \union {<<a>> : a \in Drafts} \union {<<a, b>> : a, b \in Drafts}

(* Lists longer than the budget of two, so that it can run out.               *)
LongProposals ==
  {<<Hypothesis(55, "script", 2), Hypothesis(55, s, 1), Hypothesis(c, "command_negated", f),
     Hypothesis(60, "none", f)>> :
     s \in {"blank", "script"}, c \in {10, 55, 100}, f \in {0, 1}}

OneFailure == {<<[frame |-> TRUE, node |-> TRUE]>>}
FewFailures == {<<>>, <<[frame |-> TRUE, node |-> FALSE]>>,
                <<[frame |-> FALSE, node |-> TRUE], [frame |-> TRUE, node |-> TRUE]>>}
=============================================================================
