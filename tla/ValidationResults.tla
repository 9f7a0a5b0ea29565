-------------------------- MODULE ValidationResults --------------------------
(* ValidationResult as validate_patch can return it.                          *)

(* original_run and regression_run say whether the run was recorded.  A       *)
(* verdict of rejected_original without a run: the diff did not apply.        *)
ValidationResults ==
  {v \in [verdict: {"rejected_original", "rejected_regression", "accepted"},
          original_run: BOOLEAN, original_passed: BOOLEAN,
          regression_run: BOOLEAN, regression_passed: BOOLEAN] :
     /\ v.original_passed => v.original_run
     /\ v.regression_run <=> v.original_passed
     /\ v.regression_passed => v.regression_run
     /\ v.verdict = IF ~ v.original_passed THEN "rejected_original"
                    ELSE IF v.regression_passed THEN "accepted"
                    ELSE "rejected_regression"}

(* The ValidationResult a validation starts from.                             *)
NotRun == [verdict |-> "not_run", original_run |-> FALSE, original_passed |-> FALSE,
           regression_run |-> FALSE, regression_passed |-> FALSE]
=============================================================================
