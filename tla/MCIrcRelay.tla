---------------------------- MODULE MCIrcRelay ----------------------------
(* Two events, one or two rows a pass, two attempts.  A malformed event    *)
(* fails like one whose channel is not joined yet.                         *)
EXTENDS IrcRelay
TwoEvents == {1, 2}
ThreeKinds == {"denied", "orphan", "fine"}
FineOnly == {"fine"}
=============================================================================
