---------------------------- MODULE MCHandClaims ----------------------------
(* Two Hands that compete for a spark.                                     *)
EXTENDS HandClaims
CONSTANTS h1, h2
TwoHands == {h1, h2}
=============================================================================
