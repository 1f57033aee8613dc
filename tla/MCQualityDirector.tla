-------------------------- MODULE MCQualityDirector --------------------------
(* Two sessions of the console over one draft. *)
EXTENDS QualityDirector, TLC

CONSTANTS s1, s2, i1, t1, t2, b1, b2

MCSession == {s1, s2}
MCInput == {i1}
MCText == {t1, t2}
MCBoard == {b1, b2}
MCSymmetry == Permutations(MCSession) \union Permutations(MCText) \union Permutations(MCBoard)

\* What is stored together; a history that was disturbed is followed with one less.
MCStored == Len(scripts) + Len(boards) + Len(flows) + Len(frames) + Len(pilots)
MCBound == MCStored <= IF disturbed THEN 5 ELSE 6
=============================================================================
