-------------------------- MODULE MCPatchValidation --------------------------
(* A small instance of PatchValidation: three tests, one of them flaky.       *)
EXTENDS PatchValidation

CONSTANTS t1, t2, t3

MC_Tests == {t1, t2, t3}
MC_Flaky == {t3}
=============================================================================
