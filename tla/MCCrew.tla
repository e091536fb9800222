------------------------------- MODULE MCCrew -------------------------------
(* One or two children, one respawn each, two or three cycles.             *)
EXTENDS Crew, TLC
CONSTANTS c1, c2, none
OneChild == {c1}
TwoChildren == {c1, c2}
Symmetry == Permutations(TwoChildren)
=============================================================================
