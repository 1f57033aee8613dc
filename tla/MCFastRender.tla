----------------------------- MODULE MCFastRender -----------------------------
(***************************************************************************)
(* Three calls, two of them under one worker id: one may post, one be      *)
(* refused and one claim again.                                            *)
(***************************************************************************)
EXTENDS FastRender, TLC
CONSTANTS c1, c2, c3, w1, w2

MCCall == {c1, c2, c3}
MCWorker == {w1, w2}
MCWorkerOf == (c1 :> w1) @@ (c2 :> w1) @@ (c3 :> w2)
=============================================================================
