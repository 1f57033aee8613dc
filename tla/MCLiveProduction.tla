--------------------------- MODULE MCLiveProduction ---------------------------
(***************************************************************************)
(* Three runs of the CLI for one key, each with the worker id of its own   *)
(* process: one that fails before the boundary, one that pays, and one     *)
(* that read the job in between.                                           *)
(***************************************************************************)
EXTENDS LiveProduction, TLC
CONSTANTS r1, r2, r3

MCRun == {r1, r2, r3}
OwnIds == [c \in MCRun |-> c]
MCSymmetry == Permutations(MCRun)
=============================================================================
