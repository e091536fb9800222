--------------------------- MODULE LivenessProofs ---------------------------
(***************************************************************************)
(* For any number of claims and watchdogs and all thresholds: the outbox   *)
(* tells the liveness of every claim, edge by edge.  Only the comparison   *)
(* of each verdict with the column makes it true, so the invariant says    *)
(* nothing about how old a verdict may be.                                 *)
(***************************************************************************)
EXTENDS Liveness, TLAPS

\* A verdict never tells a row to stay where it is.
VerdictsMove ==
  \A w \in Watchdogs : \A v \in watch[w].todo : v.from # v.to

IInv == TypeOK /\ VerdictsMove /\ ReplayAgrees

LEMMA InitIInv == Init => IInv
<1> SUFFICES ASSUME Init PROVE IInv
  OBVIOUS
<1>1. 0 \in Age
  BY LivenessConstants DEF Age
<1> QED
  BY <1>1 DEF Init, IInv, TypeOK, VerdictsMove, ReplayAgrees, Replayed, Edge,
              AssignmentLiveness

LEMMA ClassifyType ==
  ASSUME NEW a \in Age
  PROVE  Classify(a) \in AssignmentLiveness
  BY DEF Classify, AssignmentLiveness

\* Advance writes the column and the edge alike.
LEMMA AdvanceEffect ==
  ASSUME TypeOK, ReplayAgrees, NEW r \in Rows,
         NEW to \in AssignmentLiveness, Advance(r, liveness[r], to)
  PROVE  /\ liveness' \in [Rows -> AssignmentLiveness] /\ edge' \in [Rows -> Edge]
         /\ ReplayAgrees'
         /\ to # liveness[r] =>
              \A q \in Rows : edge'[q].n # edge[q].n =>
                edge'[q].from = edge[q].to /\ edge'[q].to # edge'[q].from
<1> DEFINE new == [from |-> liveness[r], to |-> to, n |-> 1 - edge[r].n]
<1>1. /\ liveness' = [liveness EXCEPT ![r] = to]
      /\ edge' = [edge EXCEPT ![r] = new]
  BY DEF Advance
<1>2. edge[r] \in Edge /\ liveness[r] \in AssignmentLiveness
  BY DEF TypeOK
<1>3. new \in Edge
  BY <1>2 DEF Edge
<1>4. new.from = liveness[r] /\ new.to = to
  OBVIOUS
<1> HIDE DEF new
<1>5. liveness' \in [Rows -> AssignmentLiveness] /\ edge' \in [Rows -> Edge]
  BY <1>1, <1>3 DEF TypeOK
<1>6. ReplayAgrees'
  BY <1>1, <1>4 DEF ReplayAgrees, Replayed, TypeOK
<1>7. ASSUME NEW q \in Rows, edge'[q].n # edge[q].n, to # liveness[r]
      PROVE  edge'[q].from = edge[q].to /\ edge'[q].to # edge'[q].from
  <2>1. q = r
    BY <1>1, <1>7 DEF TypeOK
  <2>2. edge'[r] = new
    BY <1>1 DEF TypeOK
  <2> QED
    BY <1>4, <1>7, <2>1, <2>2 DEF ReplayAgrees, Replayed
<1> QED
  BY <1>5, <1>6, <1>7

\* The outbox and the column are touched by Advance alone, from the liveness
\* the row has to another one.
LEMMA LivenessStep ==
  ASSUME IInv, [Next]_livenessVars
  PROVE  \/ UNCHANGED <<liveness, edge>>
         \/ \E r \in Rows, to \in AssignmentLiveness :
              to # liveness[r] /\ Advance(r, liveness[r], to)
<1>1. ASSUME NEW r \in Rows, Escalate(r)
      PROVE  \/ UNCHANGED <<liveness, edge>>
             \/ \E to \in AssignmentLiveness :
                  to # liveness[r] /\ Advance(r, liveness[r], to)
  BY <1>1 DEF Escalate, AssignmentLiveness
<1>2. ASSUME NEW w \in Watchdogs, NEW v \in watch[w].todo, Apply(w, v)
      PROVE  \/ UNCHANGED <<liveness, edge>>
             \/ \E r \in Rows, to \in AssignmentLiveness :
                  to # liveness[r] /\ Advance(r, liveness[r], to)
  <2>1. v \in Verdict /\ v.from # v.to
    BY DEF IInv, TypeOK, VerdictsMove
  <2>2. v.row \in Rows /\ v.to \in AssignmentLiveness
    BY <2>1 DEF Verdict
  <2> QED
    BY <1>2, <2>1, <2>2 DEF Apply
<1> QED
  BY <1>1, <1>2
  DEF Next, livenessVars, Tick, Spawn, Beat, SidecarStops, HandDies, Close, Reap,
      EndClaim, WatchdogStep, Fetch, WatchdogFails

LEMMA ReplayAgreesStep ==
  ASSUME IInv, [Next]_livenessVars
  PROVE  ReplayAgrees'
<1>1. CASE UNCHANGED <<liveness, edge>>
  BY <1>1 DEF IInv, ReplayAgrees, Replayed
<1> QED
  BY <1>1, LivenessStep, AdvanceEffect DEF IInv

LEMMA WatchStep ==
  ASSUME IInv, [Next]_livenessVars
  PROVE  /\ watch' \in [Watchdogs -> [up : BOOLEAN, todo : SUBSET Verdict]]
         /\ VerdictsMove'
<1> USE DEF IInv, TypeOK, VerdictsMove
<1>1. ASSUME NEW w \in Watchdogs, NEW todo \in SUBSET Verdict, NEW up \in BOOLEAN,
             watch' = [watch EXCEPT ![w] = [up |-> up, todo |-> todo]],
             \A v \in todo : v.from # v.to
      PROVE  /\ watch' \in [Watchdogs -> [up : BOOLEAN, todo : SUBSET Verdict]]
             /\ VerdictsMove'
  BY <1>1
<1>2. ASSUME NEW w \in Watchdogs, Fetch(w)
      PROVE  /\ watch' \in [Watchdogs -> [up : BOOLEAN, todo : SUBSET Verdict]]
             /\ VerdictsMove'
  <2> DEFINE todo ==
        {[row |-> r, from |-> liveness[r], to |-> Classify(age[r])] :
           r \in {q \in Rows : status[q] = "active" /\ liveness[q] # Classify(age[q])}}
  <2>1. watch' = [watch EXCEPT ![w].todo = todo]
    BY <1>2 DEF Fetch
  <2>2. todo \in SUBSET Verdict /\ \A v \in todo : v.from # v.to
    BY ClassifyType DEF Verdict
  <2> HIDE DEF todo
  <2> QED
    BY <2>1, <2>2
<1>3. ASSUME NEW w \in Watchdogs, NEW v \in watch[w].todo, Apply(w, v)
      PROVE  /\ watch' \in [Watchdogs -> [up : BOOLEAN, todo : SUBSET Verdict]]
             /\ VerdictsMove'
  BY <1>3 DEF Apply
<1>4. ASSUME NEW w \in Watchdogs, WatchdogFails(w)
      PROVE  /\ watch' \in [Watchdogs -> [up : BOOLEAN, todo : SUBSET Verdict]]
             /\ VerdictsMove'
  BY <1>4 DEF WatchdogFails
<1> QED
  BY <1>2, <1>3, <1>4
  DEF Next, livenessVars, Tick, Spawn, Beat, SidecarStops, HandDies, Close, Reap,
      EndClaim, Escalate, WatchdogStep

LEMMA TypeOKStep ==
  ASSUME IInv, [Next]_livenessVars
  PROVE  TypeOK'
<1>1. liveness' \in [Rows -> AssignmentLiveness] /\ edge' \in [Rows -> Edge]
  BY LivenessStep, AdvanceEffect DEF IInv, TypeOK
<1>2. watch' \in [Watchdogs -> [up : BOOLEAN, todo : SUBSET Verdict]]
  BY WatchStep
<1>3. age' \in [Rows -> Age]
  <2>1. CASE Tick
    <3>1. ASSUME NEW r \in Rows
          PROVE  (IF status[r] = "active" /\ age[r] <= StuckAfter THEN age[r] + 1
                  ELSE age[r]) \in Age
      BY LivenessConstants DEF IInv, TypeOK, Age
    <3> QED
      BY <2>1, <3>1 DEF Tick
  <2>2. CASE \E r \in Rows : Beat(r)
    BY <2>2, LivenessConstants DEF Beat, IInv, TypeOK, Age
  <2>3. CASE UNCHANGED age
    BY <2>3 DEF IInv, TypeOK
  <2> QED
    BY <2>1, <2>2, <2>3
    DEF Next, livenessVars, Spawn, SidecarStops, HandDies, Close, Reap, EndClaim,
        Escalate, WatchdogStep, Fetch, Apply, WatchdogFails
<1>4. /\ status' \in [Rows -> {"absent", "active", "ended"}]
  BY DEF IInv, TypeOK, Next, livenessVars, Tick, Spawn, Beat, SidecarStops, HandDies,
         Close, Reap, EndClaim, Escalate, WatchdogStep, Fetch, Apply, WatchdogFails
<1>5. hand' \in [Rows -> BOOLEAN] /\ sidecar' \in [Rows -> BOOLEAN]
  <2>1. ASSUME NEW r \in Rows, NEW beats \in BOOLEAN, Spawn(r, beats)
        PROVE  hand' \in [Rows -> BOOLEAN] /\ sidecar' \in [Rows -> BOOLEAN]
    <3>1. hand' = [hand EXCEPT ![r] = TRUE] /\ sidecar' = [sidecar EXCEPT ![r] = beats]
      BY <2>1 DEF Spawn
    <3> QED
      BY <3>1, Zenon DEF IInv, TypeOK
  <2>2. CASE \E r \in Rows : SidecarStops(r) \/ HandDies(r)
    BY <2>2 DEF SidecarStops, HandDies, IInv, TypeOK
  <2>3. CASE UNCHANGED <<hand, sidecar>>
    BY <2>3 DEF IInv, TypeOK
  <2> QED
    BY <2>1, <2>2, <2>3
    DEF Next, livenessVars, Tick, Beat, Close, Reap, EndClaim, Escalate, WatchdogStep,
        Fetch, Apply, WatchdogFails
<1> QED
  BY <1>1, <1>2, <1>3, <1>4, <1>5 DEF TypeOK

LEMMA IInvHolds == Spec => []IInv
<1>1. IInv /\ [Next]_livenessVars => IInv'
  BY TypeOKStep, WatchStep, ReplayAgreesStep DEF IInv
<1> QED
  BY InitIInv, <1>1, PTL DEF Spec

\* Every reachable state of claims, sidecars and watchdogs is well typed.
THEOREM TypeCorrectness == Spec => []TypeOK
<1>1. IInv => TypeOK
  BY DEF IInv
<1> QED
  BY IInvHolds, <1>1, PTL

\* The liveness a projector replays from the outbox is the column's.
THEOREM ReplayIsLive == Spec => []ReplayAgrees
<1>1. IInv => ReplayAgrees
  BY DEF IInv
<1> QED
  BY IInvHolds, <1>1, PTL

\* The outbox tells every liveness transition once, each from where the last
\* one went.
THEOREM NoEdgeTwice == Spec => EdgesChain
<1>1. IInv /\ [Next]_livenessVars =>
        [\A r \in Rows :
           edge'[r].n # edge[r].n =>
             edge'[r].from = edge[r].to /\ edge'[r].to # edge'[r].from]_livenessVars
  <2> SUFFICES ASSUME IInv, [Next]_livenessVars, NEW r \in Rows, edge'[r].n # edge[r].n
               PROVE  edge'[r].from = edge[r].to /\ edge'[r].to # edge'[r].from
    OBVIOUS
  <2> QED
    BY LivenessStep, AdvanceEffect DEF IInv
<1> QED
  BY IInvHolds, <1>1, PTL DEF Spec, EdgesChain

-----------------------------------------------------------------------------
(* What old verdicts can do to a claim that has fallen silent. *)

Silent(r) == status[r] = "active" /\ age[r] > StuckAfter

\* The verdicts on r under way that take it somewhere else.
Delaying(r) ==
  {p \in Watchdogs \X Verdict :
     p[2] \in watch[p[1]].todo /\ p[2].row = r /\ p[2].to # "stuck"}

\* While a claim is silent no verdict is added that would delay its being
\* Stuck, and its liveness moves anywhere else only by using one up: there are
\* as many delays as old verdicts.
DelaysWearOff ==
  [][\A r \in Rows :
       Silent(r) /\ Silent(r)' =>
         /\ Delaying(r)' \subseteq Delaying(r)
         /\ liveness'[r] # liveness[r] =>
              liveness'[r] = "stuck" \/ Delaying(r)' # Delaying(r)]_livenessVars

LEMMA SilentIsStuck ==
  ASSUME TypeOK, NEW r \in Rows, age[r] > StuckAfter
  PROVE  Classify(age[r]) = "stuck"
  BY DEF Classify

LEMMA DelayingShrinks ==
  ASSUME IInv, [Next]_livenessVars, NEW r \in Rows, Silent(r)
  PROVE  Delaying(r)' \subseteq Delaying(r)
<1> SUFFICES ASSUME NEW w \in Watchdogs, NEW v \in Verdict,
                    v \in watch'[w].todo, v.row = r, v.to # "stuck"
             PROVE  v \in watch[w].todo
  BY DEF Delaying
<1> USE DEF IInv, TypeOK
<1>1. ASSUME NEW u \in Watchdogs, Fetch(u) PROVE v \in watch[w].todo
  <2> DEFINE todo ==
        {[row |-> q, from |-> liveness[q], to |-> Classify(age[q])] :
           q \in {p \in Rows : status[p] = "active" /\ liveness[p] # Classify(age[p])}}
  <2>1. watch' = [watch EXCEPT ![u].todo = todo]
    BY <1>1 DEF Fetch
  <2>2. v \notin todo
    BY SilentIsStuck DEF Silent
  <2> HIDE DEF todo
  <2> QED
    BY <2>1, <2>2
<1>2. ASSUME NEW u \in Watchdogs, NEW x \in watch[u].todo, Apply(u, x)
      PROVE  v \in watch[w].todo
  BY <1>2 DEF Apply
<1>3. ASSUME NEW u \in Watchdogs, WatchdogFails(u) PROVE v \in watch[w].todo
  BY <1>3 DEF WatchdogFails
<1> QED
  BY <1>1, <1>2, <1>3
  DEF Next, livenessVars, Tick, Spawn, Beat, SidecarStops, HandDies, Close, Reap,
      EndClaim, Escalate, WatchdogStep

\* Who moves the liveness of a row, and where to.
LEMMA MoverOfLiveness ==
  ASSUME IInv, [Next]_livenessVars, NEW r \in Rows, liveness'[r] # liveness[r]
  PROVE  \/ liveness'[r] = "stuck"
         \/ \E w \in Watchdogs : \E v \in watch[w].todo :
              Apply(w, v) /\ v.row = r /\ v.to = liveness'[r]
<1> USE DEF IInv, TypeOK
<1>1. ASSUME NEW q \in Rows, Escalate(q) PROVE liveness'[r] = "stuck"
  BY <1>1 DEF Escalate, Advance
<1>2. ASSUME NEW w \in Watchdogs, NEW v \in watch[w].todo, Apply(w, v)
      PROVE  v.row = r /\ v.to = liveness'[r]
  <2>1. v.row \in Rows
    BY DEF Verdict
  <2> QED
    BY <1>2, <2>1 DEF Apply, Advance
<1> QED
  BY <1>1, <1>2
  DEF Next, livenessVars, Tick, Spawn, Beat, SidecarStops, HandDies, Close, Reap,
      EndClaim, WatchdogStep, Fetch, WatchdogFails

\* tick of heartbeat_watchdog.rs reads all rows at one instant and each verdict
\* is applied once: after the silence has set in, a claim can be kept from
\* being Stuck as often as there were verdicts under way, and not once more.
THEOREM SilenceIsDelayedFinitely == Spec => DelaysWearOff
<1>1. ASSUME IInv, [Next]_livenessVars, NEW r \in Rows, Silent(r),
             liveness'[r] # liveness[r], liveness'[r] # "stuck"
      PROVE  Delaying(r)' # Delaying(r)
  <2>1. PICK w \in Watchdogs : \E v \in watch[w].todo :
               Apply(w, v) /\ v.row = r /\ v.to = liveness'[r]
    BY <1>1, MoverOfLiveness
  <2>2. PICK v \in watch[w].todo : Apply(w, v) /\ v.row = r /\ v.to # "stuck"
    BY <1>1, <2>1
  <2>3. v \in Verdict
    BY <1>1 DEF IInv, TypeOK
  <2>4. <<w, v>> \in Delaying(r)
    BY <2>2, <2>3 DEF Delaying
  <2>5. v \notin watch'[w].todo
    BY <1>1, <2>2 DEF Apply, IInv, TypeOK
  <2>6. <<w, v>> \notin Delaying(r)'
    BY <2>5 DEF Delaying
  <2> QED
    BY <2>4, <2>6
<1>2. IInv /\ [Next]_livenessVars =>
        [\A r \in Rows :
           Silent(r) /\ Silent(r)' =>
             /\ Delaying(r)' \subseteq Delaying(r)
             /\ liveness'[r] # liveness[r] =>
                  liveness'[r] = "stuck" \/ Delaying(r)' # Delaying(r)]_livenessVars
  BY <1>1, DelayingShrinks
<1> QED
  BY <1>2, IInvHolds, PTL DEF Spec, DelaysWearOff
=============================================================================
