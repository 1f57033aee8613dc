---------------------------- MODULE MCPublication ----------------------------
(***************************************************************************)
(* Three calls, so that a retry can follow a retry, and two reconcilers,   *)
(* one of which may outlive its lease.                                     *)
(***************************************************************************)
EXTENDS Publication
CONSTANTS c1, c2, c3, r1, r2

MCCall == {c1, c2, c3}
MCReconciler == {r1, r2}
=============================================================================
