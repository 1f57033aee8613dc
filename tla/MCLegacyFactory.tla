--------------------------- MODULE MCLegacyFactory ---------------------------
(***************************************************************************)
(* Two processes and two attempts: enough for a process that outlives its  *)
(* claim, for a retry, and for two planning jobs of one script.            *)
(***************************************************************************)
EXTENDS LegacyFactory, TLC
CONSTANTS w1, w2

MCWorker == {w1, w2}
MCSymmetry == Permutations(MCWorker)
=============================================================================
