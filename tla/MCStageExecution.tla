--------------------------- MODULE MCStageExecution ---------------------------
(***************************************************************************)
(* Two worker processes, each with a worker id of its own, and a job of a  *)
(* few stages.                                                             *)
(***************************************************************************)
EXTENDS StageExecution, TLC
CONSTANTS w1, w2, i1, i2

MCWorker == {w1, w2}
MCId == {i1, i2}
OwnIds == (w1 :> i1) @@ (w2 :> i2)
=============================================================================
