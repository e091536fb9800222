------------------------- MODULE MCAssignmentPhases -------------------------
(* One row and two actors that read and submit in any order.  No action     *)
(* tells the actors apart.                                                  *)
EXTENDS AssignmentPhases, TLC
CONSTANTS r1, alice, bob
OneRow == {r1}
TwoActors == {alice, bob}
ActorSymmetry == Permutations(TwoActors)
=============================================================================
