--------------------------- MODULE SparkOwnership ---------------------------
(***************************************************************************)
(* What claims promise about a spark, whoever spawns, reaps, sweeps or     *)
(* releases: it has one owner or none, and it changes hands only by being  *)
(* free in between.                                                        *)
(***************************************************************************)
CONSTANTS Sparks, Hands, Nobody

VARIABLE owner  \* owner[s]: the Hand that owns spark s, or Nobody

OwnershipInit == owner = [s \in Sparks |-> Nobody]

Take(s, h) == owner[s] = Nobody /\ owner' = [owner EXCEPT ![s] = h]

Free(s) == owner[s] # Nobody /\ owner' = [owner EXCEPT ![s] = Nobody]

OwnershipNext ==
  \E s \in Sparks : Free(s) \/ \E h \in Hands : Take(s, h)

OwnershipSpec == OwnershipInit /\ [][OwnershipNext]_owner
=============================================================================
