------------------------------ MODULE Liveness ------------------------------
(***************************************************************************)
(* Liveness of the claims: the sidecar of a Hand stamps heartbeats, the    *)
(* watchdog ages every active row and moves its liveness, and the phase    *)
(* machine or a Head escalates it.  A watchdog pass reads all active rows  *)
(* at once and then writes verdict after verdict, each in a transaction of *)
(* its own; every app that has the workshop open may run one.              *)
(*                                                                         *)
(* Time is the age of the newest heartbeat, in ticks, cut off one past the *)
(* larger threshold: nothing compares ages beyond it.                      *)
(***************************************************************************)
EXTENDS Naturals

CONSTANTS
  Rows,         \* assignment ids
  Watchdogs,    \* watchdog tasks on one database
  AtRiskAfter,  \* 2 * heartbeat_interval_secs
  StuckAfter,   \* stuck_threshold_secs
  Faults        \* may a query of the watchdog fail?

ASSUME LivenessConstants ==
  /\ AtRiskAfter \in Nat /\ StuckAfter \in Nat /\ AtRiskAfter < StuckAfter
  /\ Faults \in BOOLEAN

VARIABLES
  status,    \* status[r]: absent, active or ended
  age,       \* age[r]: ticks since last_heartbeat_at, or else assigned_at
  liveness,  \* liveness[r]: assignments.liveness
  edge,      \* edge[r]: newest LivenessTransitioned row of the outbox
  hand,      \* hand[r]: the agent process runs
  sidecar,   \* sidecar[r]: its heartbeat-loop runs
  watch      \* watch[w]: is the task there, and its verdicts to apply

livenessVars == <<status, age, liveness, edge, hand, sidecar, watch>>

AssignmentLiveness == {"healthy", "at_risk", "stuck"}
Age == 0..(StuckAfter + 1)

\* n tells an edge from an equal one before it.
Edge == [from : AssignmentLiveness, to : AssignmentLiveness, n : 0..1]
Verdict == [row : Rows, from : AssignmentLiveness, to : AssignmentLiveness]

TypeOK ==
  /\ status \in [Rows -> {"absent", "active", "ended"}]
  /\ age \in [Rows -> Age]
  /\ liveness \in [Rows -> AssignmentLiveness]
  /\ edge \in [Rows -> Edge]
  /\ hand \in [Rows -> BOOLEAN]
  /\ sidecar \in [Rows -> BOOLEAN]
  /\ watch \in [Watchdogs -> [up : BOOLEAN, todo : SUBSET Verdict]]

Init ==
  /\ status = [r \in Rows |-> "absent"]
  /\ age = [r \in Rows |-> 0]
  /\ liveness = [r \in Rows |-> "healthy"]
  /\ edge = [r \in Rows |-> [from |-> "healthy", to |-> "healthy", n |-> 0]]
  /\ hand = [r \in Rows |-> FALSE]
  /\ sidecar = [r \in Rows |-> FALSE]
  /\ watch = [w \in Watchdogs |-> [up |-> TRUE, todo |-> {}]]

-----------------------------------------------------------------------------
(* Hands and their claims. *)

\* spawn_hand, whose sidecar may fail to start; a Hand spawned by the UI or
\* claiming on its own has none.
Spawn(r, beats) ==
  /\ status[r] = "absent"
  /\ status' = [status EXCEPT ![r] = "active"]
  /\ hand' = [hand EXCEPT ![r] = TRUE]
  /\ sidecar' = [sidecar EXCEPT ![r] = beats]
  /\ UNCHANGED <<age, liveness, edge, watch>>

\* emit_heartbeat finds the claim active: the column and the outbox in one
\* transaction.
Beat(r) ==
  /\ sidecar[r] /\ status[r] = "active"
  /\ age' = [age EXCEPT ![r] = 0]
  /\ UNCHANGED <<status, liveness, edge, hand, sidecar, watch>>

\* emit_heartbeat finds it ended and the loop stops, or the sidecar dies.
SidecarStops(r) ==
  /\ sidecar[r]
  /\ sidecar' = [sidecar EXCEPT ![r] = FALSE]
  /\ UNCHANGED <<status, age, liveness, edge, hand, watch>>

\* The agent ends.  Its sidecar lives in a tmux session of its own.
HandDies(r) ==
  /\ hand[r]
  /\ hand' = [hand EXCEPT ![r] = FALSE]
  /\ UNCHANGED <<status, age, liveness, edge, sidecar, watch>>

\* abandon, complete, handoff: whoever calls them.
EndClaim(r) ==
  /\ status[r] = "active"
  /\ status' = [status EXCEPT ![r] = "ended"]
  /\ UNCHANGED <<age, liveness, edge, hand, sidecar, watch>>

\* The Hand closes its assignment, hands it off or is released.
Close(r) == hand[r] /\ EndClaim(r)

\* reconcile_sessions abandons the claim of a Hand that is gone from tmux.
Reap(r) == ~hand[r] /\ EndClaim(r)

Tick ==
  /\ age' = [r \in Rows |->
               IF status[r] = "active" /\ age[r] <= StuckAfter THEN age[r] + 1
               ELSE age[r]]
  /\ UNCHANGED <<status, liveness, edge, hand, sidecar, watch>>

-----------------------------------------------------------------------------
(* Liveness transitions. *)

\* The column and its outbox row, in one transaction.
Advance(r, from, to) ==
  /\ liveness' = [liveness EXCEPT ![r] = to]
  /\ edge' = [edge EXCEPT ![r] = [from |-> from, to |-> to, n |-> 1 - edge[r].n]]

\* escalate_to_stuck_in_tx, for a repair past the limit or a Head's override.
\* An active row is escalated even if it is Stuck already: nothing is written
\* then.
Escalate(r) ==
  /\ status[r] = "active"
  /\ IF liveness[r] # "stuck" THEN Advance(r, liveness[r], "stuck")
     ELSE UNCHANGED <<liveness, edge>>
  /\ UNCHANGED <<status, age, hand, sidecar, watch>>

\* Mutant: the smaller threshold is compared first.
Classify_AtRiskFirst(a) ==
  IF a > AtRiskAfter THEN "at_risk" ELSE IF a > StuckAfter THEN "stuck" ELSE "healthy"

Classify(a) ==
  IF a > StuckAfter THEN "stuck" ELSE IF a > AtRiskAfter THEN "at_risk" ELSE "healthy"

\* tick: all active rows are read in one query, at one `now`.
Fetch(w) ==
  /\ watch[w].up /\ watch[w].todo = {}
  /\ watch' = [watch EXCEPT ![w].todo =
       {[row |-> r, from |-> liveness[r], to |-> Classify(age[r])] :
          r \in {q \in Rows : status[q] = "active" /\ liveness[q] # Classify(age[q])}}]
  /\ UNCHANGED <<status, age, liveness, edge, hand, sidecar>>

\* Mutant: the outbox row is written though the UPDATE matched no row.
Apply_EmitsAnyway(w, v) ==
  /\ v \in watch[w].todo
  /\ watch' = [watch EXCEPT ![w].todo = watch[w].todo \ {v}]
  /\ IF status[v.row] = "active" /\ liveness[v.row] = v.from
     THEN Advance(v.row, v.from, v.to)
     ELSE /\ edge' = [edge EXCEPT ![v.row] =
                        [from |-> v.from, to |-> v.to, n |-> 1 - edge[v.row].n]]
          /\ liveness' = liveness
  /\ UNCHANGED <<status, age, hand, sidecar>>

\* Mutant: the UPDATE does not compare the liveness the verdict is based on.
Apply_Unconditional(w, v) ==
  /\ v \in watch[w].todo
  /\ watch' = [watch EXCEPT ![w].todo = watch[w].todo \ {v}]
  /\ IF status[v.row] = "active" THEN Advance(v.row, v.from, v.to)
     ELSE UNCHANGED <<liveness, edge>>
  /\ UNCHANGED <<status, age, hand, sidecar>>

\* apply_transition: UPDATE ... WHERE active AND liveness = from, and the
\* outbox row if it matched.
Apply(w, v) ==
  /\ v \in watch[w].todo
  /\ watch' = [watch EXCEPT ![w].todo = watch[w].todo \ {v}]
  /\ IF status[v.row] = "active" /\ liveness[v.row] = v.from
     THEN Advance(v.row, v.from, v.to)
     ELSE UNCHANGED <<liveness, edge>>
  /\ UNCHANGED <<status, age, hand, sidecar>>

\* A query fails: `?` ends tick and run with it.
WatchdogFails(w) ==
  /\ Faults /\ watch[w].up
  /\ watch' = [watch EXCEPT ![w] = [up |-> FALSE, todo |-> {}]]
  /\ UNCHANGED <<status, age, liveness, edge, hand, sidecar>>

-----------------------------------------------------------------------------
WatchdogStep(w) == Fetch(w) \/ \E v \in watch[w].todo : Apply(w, v)

Next ==
  \/ Tick
  \/ \E r \in Rows :
       \/ \E beats \in BOOLEAN : Spawn(r, beats)
       \/ Beat(r) \/ SidecarStops(r) \/ HandDies(r)
       \/ Close(r) \/ Reap(r) \/ Escalate(r)
  \/ \E w \in Watchdogs : WatchdogStep(w) \/ WatchdogFails(w)

Spec == Init /\ [][Next]_livenessVars

\* Time passes, a watchdog that is up keeps its poll interval, and the app
\* reconciles every three seconds.
FairSpec ==
  /\ Spec
  /\ WF_livenessVars(Tick)
  /\ \A w \in Watchdogs : WF_livenessVars(WatchdogStep(w))
  /\ \A r \in Rows : WF_livenessVars(Reap(r))

-----------------------------------------------------------------------------
(* Properties. *)

\* What the projector makes of the outbox: the newest edge wins.
Replayed(r) == edge[r].to

\* "Live and replayed state stay byte-equal" (heartbeat_watchdog.rs): the
\* projected liveness is the column's, through delayed verdicts of several
\* watchdogs and escalations between read and write.
ReplayAgrees == \A r \in Rows : Replayed(r) = liveness[r]

\* Every edge starts where the previous one ended and goes somewhere else:
\* no transition is told twice ("roll back without emitting a duplicate
\* event").
EdgesChain ==
  [][\A r \in Rows :
       edge'[r].n # edge[r].n =>
         edge'[r].from = edge[r].to /\ edge'[r].to # edge'[r].from]_livenessVars

\* A claim whose heartbeats have stopped becomes and stays Stuck as long as one
\* watchdog task lives; an old verdict of any of them may only delay that.
SilenceIsNoticed ==
  \A r \in Rows :
    <>[](/\ status[r] = "active" /\ age[r] > StuckAfter
         /\ \E w \in Watchdogs : watch[w].up)
      => <>[](liveness[r] = "stuck")
=============================================================================
