--------------------------- MODULE MCSessionStore ----------------------------
(* Small instances of SessionStore.                                           *)
EXTENDS SessionStore, TLC

CONSTANTS r1, r2, r3

MC_Runs == {r1, r2, r3}
Symmetric == Permutations(MC_Runs)
=============================================================================
