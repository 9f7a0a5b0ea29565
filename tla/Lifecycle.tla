------------------------------ MODULE Lifecycle ------------------------------
(* What StateMachine promises of every investigation, whoever drives it: the  *)
(* state only moves along an edge of TRANSITIONS and every state reached is   *)
(* recorded.  The history is kept as the set of states visited, which is all  *)
(* its readers (InvestigationEngine._report) ask of it.                       *)
EXTENDS Transitions

VARIABLES
  fsm,      \* StateMachine.state
  visited   \* the members of StateMachine.history

lifecycleVars == <<fsm, visited>>

Init == /\ fsm = "CREATED"
        /\ visited = {"CREATED"}

(* StateMachine.transition up to the emit: the state has moved and the        *)
(* history has grown before any sink is called.                               *)
Move(to) == /\ CanTransition(fsm, to)
            /\ fsm' = to
            /\ visited' = visited \union {to}

Next == \E to \in States : Move(to)

Spec == Init /\ [][Next]_lifecycleVars

-----------------------------------------------------------------------------
TypeOK == /\ fsm \in States
          /\ visited \subseteq States
          /\ fsm \in visited

(* The three outcomes InvestigationEngine._report chooses between never       *)
(* compete: an investigation that was ever FAILED was never NO_FAILURE, and   *)
(* the reverse, so the order of the tests in _report cannot change its answer. *)
OutcomesExclusive == ~ ({"FAILED", "NO_FAILURE"} \subseteq visited)

(* FAILED and NO_FAILURE are final verdicts: from then on the machine only    *)
(* reports and completes.                                                     *)
VerdictsAreFinal ==
  /\ "FAILED" \in visited => fsm \in {"FAILED", "REPORT", "COMPLETE"}
  /\ "NO_FAILURE" \in visited => fsm \in {"NO_FAILURE", "REPORT", "COMPLETE"}

(* No patch is worked on, validated or regression-tested in an investigation  *)
(* that has not named a root cause, and the suite ran before that.            *)
PatchNeedsRootCause ==
  /\ visited \intersect {"PATCH", "VALIDATE", "REGRESSION"} # {}
       => "ROOT_CAUSE" \in visited
  /\ "ROOT_CAUSE" \in visited => {"EXECUTE", "RANK"} \subseteq visited
=============================================================================
