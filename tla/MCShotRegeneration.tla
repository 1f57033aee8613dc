------------------------- MODULE MCShotRegeneration -------------------------
\* Three calls of regenerateShot() for two requests, one call of recover(), two
\* shots and two runs of the job.  The shots are alike, and so are the two calls of r2.
EXTENDS ShotRegeneration, TLC

CONSTANTS s1, s2, c1, c2, c3, r1, r2, q1

MCRequestOf == c1 :> r1 @@ c2 :> r2 @@ c3 :> r2
MCSymmetry == Permutations({s1, s2}) \cup Permutations({c2, c3})
=============================================================================
