----------------------------- MODULE Transitions -----------------------------
(* The states of an investigation and the edges between them, as the table in *)
(* investigate/state_machine.py gives them.                                   *)

States == {"CREATED", "INGEST", "GRAPH", "EXECUTE", "OBSERVE", "HYPOTHESIZE",
           "RANK", "VERIFY", "ROOT_CAUSE", "PATCH", "VALIDATE", "REGRESSION",
           "REPORT", "COMPLETE", "NO_FAILURE", "FAILED"}

(* One row for each state that has a successor; COMPLETE has none.            *)
TRANSITIONS ==
  ({"CREATED"}     \X {"INGEST", "FAILED"}) \union
  ({"INGEST"}      \X {"GRAPH", "FAILED"}) \union
  ({"GRAPH"}       \X {"EXECUTE", "FAILED"}) \union
  ({"EXECUTE"}     \X {"OBSERVE", "NO_FAILURE", "FAILED"}) \union
  ({"OBSERVE"}     \X {"HYPOTHESIZE", "FAILED"}) \union
  ({"HYPOTHESIZE"} \X {"RANK", "FAILED"}) \union
  ({"RANK"}        \X {"VERIFY", "ROOT_CAUSE", "FAILED"}) \union
  ({"VERIFY"}      \X {"RANK", "ROOT_CAUSE", "FAILED"}) \union
  ({"ROOT_CAUSE"}  \X {"PATCH", "REPORT", "FAILED"}) \union
  ({"PATCH"}       \X {"VALIDATE", "REPORT", "FAILED"}) \union
  ({"VALIDATE"}    \X {"REGRESSION", "REPORT", "FAILED"}) \union
  ({"REGRESSION"}  \X {"REPORT", "FAILED"}) \union
  ({"REPORT"}      \X {"COMPLETE"}) \union
  ({"NO_FAILURE"}  \X {"REPORT"}) \union
  ({"FAILED"}      \X {"REPORT"})

(* StateMachine.can_transition, and transition's own check.                   *)
MutantAlwaysFail(from, to) == to = "FAILED" \/ <<from, to>> \in TRANSITIONS
CanTransition(from, to) == <<from, to>> \in TRANSITIONS
=============================================================================
