--------------------------- MODULE MCMediaExecution ---------------------------
(***************************************************************************)
(* Three invocations for one asset.  c1 and c2 run in one process and      *)
(* share its worker id, c3 runs in another.  Three calls are enough to     *)
(* lose an answer, refuse, and claim again, with two calls of one worker.  *)
(***************************************************************************)
EXTENDS MediaExecution, TLC
CONSTANTS c1, c2, c3, w1, w2

MCCall == {c1, c2, c3}
MCWorker == {w1, w2}
MCWorkerOf == (c1 :> w1) @@ (c2 :> w1) @@ (c3 :> w2)
=============================================================================
