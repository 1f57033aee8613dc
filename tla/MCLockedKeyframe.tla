-------------------------- MODULE MCLockedKeyframe --------------------------
(* Two calls over the opening shot of one draft. *)
EXTENDS LockedKeyframe, TLC

CONSTANTS c1, c2, p1, p2

MCCall == {c1, c2}
MCPlan == {p1, p2}
MCSymmetry == Permutations(MCCall) \union Permutations(MCPlan)
=============================================================================
