---------------------------- MODULE MCSemanticRetry ----------------------------
(***************************************************************************)
(* Four commands: one whose PASS is not used up, one that read the         *)
(* history before it and two that read it after.                           *)
(***************************************************************************)
EXTENDS SemanticRetry, TLC
CONSTANTS c1, c2, c3, c4

MCCall == {c1, c2, c3, c4}
MCSymmetry == Permutations(MCCall)
=============================================================================
