-------------------------- MODULE AssignmentPhases --------------------------
(***************************************************************************)
(* The phase machine of the `assignments` rows: create_assignment and      *)
(* assign insert a row, transition_assignment_phase and its wrappers move  *)
(* it, a repair that exceeds the limit and a Head's override escalate its  *)
(* liveness, the claim on it ends at any moment, and two functions of      *)
(* assignment_repo write the repair count and the liveness directly.       *)
(*                                                                         *)
(* A transition is one SQLite transaction and so one action, but the       *)
(* caller read the row some time before it: `seen` holds what each actor   *)
(* last read, which any number of other calls may have made stale.         *)
(***************************************************************************)
EXTENDS Phases, Integers

CONSTANTS
  Rows,              \* assignment ids
  Actors,            \* actor ids: authors, reviewers, merge hands, heads
  NoActor,
  DefaultRepairCycleLimit, \* DEFAULT_REPAIR_CYCLE_LIMIT
  CallerLimits,      \* limits the callers of the _with_limit variant pass
  DirectLiveness,    \* values set_liveness, which only tests call, writes
  UpdateVersions,    \* versions the callers of update_assignment store
  MaxVersion,        \* bound on event_version
  MaxRepairs         \* bound on repair_cycle_count

ASSUME PhaseConstants ==
  /\ NoActor \notin Actors
  /\ UpdateVersions \subseteq 0..MaxVersion
  /\ DefaultRepairCycleLimit \in Nat /\ CallerLimits \subseteq Int
  /\ DirectLiveness \subseteq {"healthy", "at_risk", "stuck"}
  /\ MaxVersion \in Nat /\ MaxRepairs \in Nat

VARIABLES
  status,     \* status[r]: absent, active, or ended in one of four ways
  author,     \* author[r]: assignments.actor_id
  phase,      \* phase[r]: assignments.assignment_phase
  version,    \* version[r]: assignments.event_version
  repairs,    \* repairs[r]: assignments.repair_cycle_count
  liveness,   \* liveness[r]: assignments.liveness
  lastEdge,   \* lastEdge[r]: newest LivenessTransitioned row of the outbox
  approval,   \* approval[r]: newest "approved" event since the submission
  seen,       \* seen[a]: the row as actor a last read it
  direct      \* history: rows whose count or liveness was written directly,
              \* and that no escalation has written since

phaseVars == <<status, author, phase, version, repairs, liveness, lastEdge,
               approval, seen, direct>>

Status == {"absent", "active", "ended"}
Liveness == {"healthy", "at_risk", "stuck"}

Snapshot == [row : Rows, phase : Phase \cup {NullPhase}, version : 0..MaxVersion]
NoSnapshot == [row |-> NoActor]
Approval == [by : Actors, role : TransitionActorRole]
NoApproval == [by |-> NoActor, role |-> "none"]
Edge == [from : Liveness, to : Liveness, by : {"override", "repair", "watchdog"}]
NoEdge == [from |-> "healthy", to |-> "healthy", by |-> "none"]

\* Every limit a transition may be given.
RepairLimits == {DefaultRepairCycleLimit} \cup CallerLimits

TypeOK ==
  /\ status \in [Rows -> Status]
  /\ author \in [Rows -> Actors \cup {NoActor}]
  /\ phase \in [Rows -> Phase \cup {NullPhase}]
  /\ version \in [Rows -> 0..MaxVersion]
  /\ repairs \in [Rows -> 0..MaxRepairs]
  /\ liveness \in [Rows -> Liveness]
  /\ lastEdge \in [Rows -> Edge \cup {NoEdge}]
  /\ approval \in [Rows -> Approval \cup {NoApproval}]
  /\ seen \in [Actors -> Snapshot \cup {NoSnapshot}]
  /\ direct \in SUBSET Rows

Init ==
  /\ status = [r \in Rows |-> "absent"]
  /\ author = [r \in Rows |-> NoActor]
  /\ phase = [r \in Rows |-> NullPhase]
  /\ version = [r \in Rows |-> 0]
  /\ repairs = [r \in Rows |-> 0]
  /\ liveness = [r \in Rows |-> "healthy"]
  /\ lastEdge = [r \in Rows |-> NoEdge]
  /\ approval = [r \in Rows |-> NoApproval]
  /\ seen = [a \in Actors |-> NoSnapshot]
  /\ direct = {}

-----------------------------------------------------------------------------
(* Rows come and go. *)

Insert(r, a, p, v) ==
  /\ status[r] = "absent"
  /\ status' = [status EXCEPT ![r] = "active"]
  /\ author' = [author EXCEPT ![r] = a]
  /\ phase' = [phase EXCEPT ![r] = p]
  /\ version' = [version EXCEPT ![r] = v]
  /\ UNCHANGED <<repairs, liveness, lastEdge, approval, seen, direct>>

\* create_assignment: version 1 and a phase, "assigned" wherever it is called.
CreateAssignment(r, a) == MaxVersion > 0 /\ Insert(r, a, "assigned", 1)

\* assignment_repo::assign leaves the phase NULL and the version at its
\* default, 0.
Assign(r, a) == Insert(r, a, NullPhase, 0)

\* complete, handoff, abandon, expire_stale_claims: nothing but the status,
\* whatever the phase is.
EndClaim(r) ==
  /\ status[r] = "active"
  /\ status' = [status EXCEPT ![r] = "ended"]
  /\ UNCHANGED <<author, phase, version, repairs, liveness, lastEdge, approval,
                 seen, direct>>

\* update_assignment: the caller's event_version is stored as it comes.
UpdateAssignment(r, v) ==
  /\ status[r] # "absent"
  /\ version' = [version EXCEPT ![r] = v]
  /\ UNCHANGED <<status, author, phase, repairs, liveness, lastEdge, approval,
                 seen, direct>>

\* An actor reads a row, outside the transaction it will submit later.
Read(a, r) ==
  /\ status[r] # "absent"
  /\ seen' = [seen EXCEPT ![a] =
                [row |-> r, phase |-> phase[r], version |-> version[r]]]
  /\ UNCHANGED <<status, author, phase, version, repairs, liveness, lastEdge,
                 approval, direct>>

-----------------------------------------------------------------------------
(* Liveness escalation. *)

\* Mutant: the outbox row names the phase the row had.
Escalate_NamesPhase(r, by) ==
  IF status[r] = "active" /\ liveness[r] # "stuck"
  THEN /\ liveness' = [liveness EXCEPT ![r] = "stuck"]
       /\ lastEdge' = [lastEdge EXCEPT ![r] =
                         [from |-> phase[r], to |-> "stuck", by |-> by]]
       /\ direct' = direct \ {r}
  ELSE UNCHANGED <<liveness, lastEdge, direct>>

\* escalate_to_stuck_in_tx: only an active row that is not Stuck already, and
\* the outbox row names the liveness it had.
Escalate(r, by) ==
  IF status[r] = "active" /\ liveness[r] # "stuck"
  THEN /\ liveness' = [liveness EXCEPT ![r] = "stuck"]
       /\ lastEdge' = [lastEdge EXCEPT ![r] =
                         [from |-> liveness[r], to |-> "stuck", by |-> by]]
       /\ direct' = direct \ {r}
  ELSE UNCHANGED <<liveness, lastEdge, direct>>

\* transition_liveness_to_stuck, behind validate_stuck_origin.
TransitionLivenessToStuck(r, role) ==
  /\ role \in CanOverride
  /\ status[r] # "absent"
  /\ Escalate(r, "override")
  /\ UNCHANGED <<status, author, phase, version, repairs, approval, seen>>

\* assignment_repo::set_liveness: no outbox row.
SetLiveness(r, l) ==
  /\ status[r] = "active"
  /\ liveness' = [liveness EXCEPT ![r] = l]
  /\ direct' = direct \cup {r}
  /\ UNCHANGED <<status, author, phase, version, repairs, lastEdge, approval,
                 seen>>

\* assignment_repo::increment_repair_cycle: no escalation.
IncrementRepairCycle(r) ==
  /\ status[r] = "active"
  /\ repairs[r] < MaxRepairs
  /\ repairs' = [repairs EXCEPT ![r] = @ + 1]
  /\ direct' = direct \cup {r}
  /\ UNCHANGED <<status, author, phase, version, liveness, lastEdge, approval,
                 seen>>

-----------------------------------------------------------------------------
(* Phase transitions. *)

\* The newest phase event says who approved what was last submitted.
RecordEvent(r, a, role, target) ==
  approval' = CASE target = "approved" ->
                     [approval EXCEPT ![r] = [by |-> a, role |-> role]]
                [] target = "awaiting_review" ->
                     [approval EXCEPT ![r] = NoApproval]
                [] OTHER -> approval

\* Mutant: the count is compared before it is incremented.
RepairCycle_CountsLate(r, target, limit) ==
  IF phase[r] = "rejected" /\ target = "in_repair"
  THEN /\ repairs[r] < MaxRepairs
       /\ repairs' = [repairs EXCEPT ![r] = @ + 1]
       /\ IF repairs[r] > limit
          THEN Escalate(r, "repair")
          ELSE UNCHANGED <<liveness, lastEdge, direct>>
  ELSE UNCHANGED <<repairs, liveness, lastEdge, direct>>

\* Rejected -> InRepair counts a cycle; past the limit the caller passed, the
\* same transaction escalates.
RepairCycle(r, target, limit) ==
  IF phase[r] = "rejected" /\ target = "in_repair"
  THEN /\ repairs[r] < MaxRepairs
       /\ repairs' = [repairs EXCEPT ![r] = @ + 1]
       /\ IF repairs[r] + 1 > limit
          THEN Escalate(r, "repair")
          ELSE UNCHANGED <<liveness, lastEdge, direct>>
  ELSE UNCHANGED <<repairs, liveness, lastEdge, direct>>

\* transition_assignment_phase_inner.  It does not look at the row's status,
\* and stores the version it is given.
Transition(r, a, role, target, expected, override, reason, v, limit) ==
  /\ status[r] # "absent"
  /\ phase[r] \in Phase
  /\ ValidTransition(phase[r], target, expected, role, override)
  /\ ValidReason(phase[r], target, reason)
  /\ ReviewerNotAuthor(role, target, a, author[r])
  /\ RecordEvent(r, a, role, target)
  /\ phase' = [phase EXCEPT ![r] = target]
  /\ version' = [version EXCEPT ![r] = v]
  /\ RepairCycle(r, target, limit)
  /\ UNCHANGED <<status, author>>

\* Submitting uses up the snapshot; its version plus one is the new version.
FromSnapshot(a, r) ==
  /\ seen[a] # NoSnapshot /\ seen[a].row = r
  /\ seen[a].version < MaxVersion
  /\ seen' = [seen EXCEPT ![a] = NoSnapshot]

\* transition_assignment_phase, _override and _with_reason: the phase the
\* caller saw is the one it expects, and the limit is the default.  Only
\* _with_reason, which never overrides, passes a reason.
Submit(a, r, role, target, override, reason) ==
  /\ FromSnapshot(a, r)
  /\ override => reason = "other"
  /\ Transition(r, a, role, target, seen[a].phase, override, reason,
                seen[a].version + 1, DefaultRepairCycleLimit)

\* transition_assignment_phase_with_limit: the caller's own limit, neither
\* override nor reason.
SubmitWithLimit(a, r, role, target, limit) ==
  /\ FromSnapshot(a, r)
  /\ Transition(r, a, role, target, seen[a].phase, FALSE, "other",
                seen[a].version + 1, limit)

\* The wrappers expect the phase of their own edge, whatever the caller saw.
RejectApprovedForConflict(a, r) ==
  /\ FromSnapshot(a, r)
  /\ Transition(r, a, "merge_hand", "rejected", "approved", FALSE,
                ConflictReason, seen[a].version + 1, DefaultRepairCycleLimit)

MarkAssignmentMerged(a, r) ==
  /\ FromSnapshot(a, r)
  /\ Transition(r, a, "merge_hand", "merged", "ready_for_merge", FALSE,
                "other", seen[a].version + 1, DefaultRepairCycleLimit)

\* override_stuck_to_in_progress; the audit event it appends is a log line.
OverrideStuckToInProgress(a, r, role) ==
  /\ role \in CanOverride
  /\ FromSnapshot(a, r)
  /\ Transition(r, a, role, "in_progress", "stuck", TRUE, "other",
                seen[a].version + 1, DefaultRepairCycleLimit)

-----------------------------------------------------------------------------
Next ==
  \E r \in Rows :
    \/ EndClaim(r)
    \/ \E v \in UpdateVersions : UpdateAssignment(r, v)
    \/ \E role \in TransitionActorRole : TransitionLivenessToStuck(r, role)
    \/ \E l \in DirectLiveness : SetLiveness(r, l)
    \/ IncrementRepairCycle(r)
    \/ \E a \in Actors :
         \/ CreateAssignment(r, a)
         \/ Assign(r, a)
         \/ Read(a, r)
         \/ RejectApprovedForConflict(a, r)
         \/ MarkAssignmentMerged(a, r)
         \/ \E role \in TransitionActorRole :
              \/ OverrideStuckToInProgress(a, r, role)
              \/ \E target \in Phase, override \in BOOLEAN, reason \in Reason :
                   Submit(a, r, role, target, override, reason)
              \/ \E target \in Phase, limit \in CallerLimits :
                   SubmitWithLimit(a, r, role, target, limit)

Spec == Init /\ [][Next]_phaseVars

-----------------------------------------------------------------------------
(* Properties. *)

\* Work that has passed review carries an approval given after its latest
\* submission, by somebody other than its author unless a Head or Director
\* overrode the review (transition.rs, "Reviewer identity invariant").
\* Delayed requests, repairs, conflict handoffs and recoveries from Stuck all
\* have to preserve it.
ApprovalIntegrity ==
  \A r \in Rows :
    phase[r] \in {"approved", "ready_for_merge", "merged"} =>
      /\ approval[r] \in Approval
      /\ \/ approval[r].role = "reviewer_hand" /\ approval[r].by # author[r]
         \/ approval[r].role \in CanOverride

\* Without a watchdog in the picture, an active row with more repairs than any
\* limit in use allows is Stuck and the outbox has told it, whichever limits
\* the single calls passed: the escalation is in the transaction that counts
\* the cycle, and no later phase undoes it.  Rows whose count or liveness was
\* written past the transitions are excepted until an escalation writes them.
OverLimitIsStuck ==
  \A r \in Rows \ direct :
    /\ status[r] = "active"
    /\ \A limit \in RepairLimits : repairs[r] > limit
    => liveness[r] = "stuck" /\ lastEdge[r].to = "stuck"

\* The phase machinery implements ReviewGate: phases before a submission are
\* "open", and Approved and ReadyForMerge are both "endorsed".
GateOf(p) ==
  CASE p = "awaiting_review" -> "submitted"
    [] p \in {"approved", "ready_for_merge"} -> "endorsed"
    [] p = "merged" -> "merged"
    [] OTHER -> "open"

Gate == INSTANCE ReviewGate WITH
  Items <- Rows, Workers <- Actors, NoWorker <- NoActor,
  gate <- [r \in Rows |-> GateOf(phase[r])],
  owner <- author,
  endorser <- [r \in Rows |-> approval[r].by],
  byOverride <- [r \in Rows |-> approval[r].role \in CanOverride]

\* Every step of the phase machine is a step of the review gate or leaves it
\* alone.
ImplementsReviewGate == Gate!GateSpec

\* A row that turns Stuck is taken to phase Stuck as well, which is what
\* blocks its merge (types.rs, AssignmentLiveness: "the companion
\* assignment_phase is also flipped to Stuck").
StuckFlipsPhase ==
  [][\A r \in Rows :
       (liveness[r] # "stuck" /\ liveness'[r] = "stuck") => phase'[r] = "stuck"]_phaseVars
=============================================================================
