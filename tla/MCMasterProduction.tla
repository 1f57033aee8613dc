-------------------------- MODULE MCMasterProduction --------------------------
(***************************************************************************)
(* Inputs of one or two shots in one or two scenes, around a shot of 2 s   *)
(* and one of 5.1 s; every tolerance is used to its limit and passed by    *)
(* one.  Two runs: one that is interrupted, and the next.  The delivered   *)
(* files are short, shorter than tolerated for one of the shots, whole,    *)
(* and, as a voice, too long.                                              *)
(***************************************************************************)
EXTENDS MasterProduction, TLC
CONSTANTS r1, r2

MCRun == {r1, r2}
MCSymmetry == Permutations(MCRun)
MCDurations == {700, 1300, 3200, 5200}

\* 33 frames at 16 per second are 2063 ms, 81 are 5063.
MCShots == [length : {20000, 20004, 20005, 51000}, frames : {33, 81}]
Shot(k, s) == [scene |-> k, length |-> s.length, frames |-> s.frames, fps |-> 16]

OneShot ==
  {[shots |-> <<Shot(1, s)>>, scenes |-> <<s.length + d>>, target |-> s.length + t, voice |-> v] :
     s \in MCShots, d \in {0}, t \in {-2500, 0}, v \in BOOLEAN}

TwoShots ==
  {[shots |-> <<Shot(1, s), Shot(2, s)>>, scenes |-> <<s.length + d, s.length + d>>,
    target |-> 2 * (s.length + d) + t, voice |-> v] :
     s \in [length : {20000, 20005}, frames : {33}], d \in {-501, -500, 0}, t \in {-2501, -2500, 0}, v \in BOOLEAN}

\* 121 frames at 24 per second are 5042 ms; 11 s are three shots of 3667 ms.
Console == {OperatorInput(d, 121, 24) : d \in {4, 8, 11}}

MCInputs == OneShot \cup TwoShots \cup Console
=============================================================================
