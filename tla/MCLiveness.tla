----------------------------- MODULE MCLiveness -----------------------------
(* One claim, ages up to three ticks, and one or two watchdogs.            *)
EXTENDS Liveness
CONSTANTS r1, w1, w2
OneRow == {r1}
OneWatchdog == {w1}
TwoWatchdogs == {w1, w2}
=============================================================================
