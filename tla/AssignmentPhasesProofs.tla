----------------------- MODULE AssignmentPhasesProofs -----------------------
(***************************************************************************)
(* For every set of rows and actors, all repair limits and every bound:    *)
(* the phase machine keeps its types, never loses the integrity of an      *)
(* approval, escalates what exceeds the repair limit, and implements the   *)
(* review gate.                                                            *)
(***************************************************************************)
EXTENDS AssignmentPhases, TLAPS

\* What the transition table allows, edge by edge: the only fact about the
\* table the proofs below use.
LEMMA LegalEdges ==
  ASSUME NEW current, NEW target, NEW expected, NEW role, NEW override,
         ValidTransition(current, target, expected, role, override)
  PROVE  \/ current = "awaiting_review" /\ target = "approved"
            /\ (role = "reviewer_hand" \/ role \in CanOverride)
         \/ current = "approved" /\ target = "ready_for_merge"
         \/ current = "ready_for_merge" /\ target = "merged"
         \/ current = "approved" /\ target = "rejected"
         \/ current = "awaiting_review" /\ target \in {"rejected", "stuck"}
         \/ current \in {"in_progress", "in_repair"} /\ target = "awaiting_review"
         \/ current \in {"assigned", "in_progress", "rejected", "in_repair", "stuck"}
            /\ target \in {"in_progress", "in_repair", "stuck"}
  BY DEF ValidTransition, LEGAL_TRANSITIONS, Rule

-----------------------------------------------------------------------------
\* A row that was never inserted has none of the traces of one that was: what
\* Insert relies on.
FreshRows ==
  \A r \in Rows :
    /\ status[r] = "absent" =>
         author[r] = NoActor /\ phase[r] = NullPhase /\ repairs[r] = 0
    /\ status[r] # "absent" => author[r] \in Actors

\* A Stuck row was escalated: an escalation that finds the row Stuck does
\* nothing, so an earlier one must have written the outbox row.
StuckIsTold ==
  \A r \in Rows \ direct : liveness[r] = "stuck" => lastEdge[r].to = "stuck"

\* Every transition comes from one of these four calls.
TransitionStep(r, a) ==
  \E role \in TransitionActorRole, target \in Phase, expected \in Phase \cup {NullPhase},
     override \in BOOLEAN, reason \in Reason, v \in 0..MaxVersion,
     limit \in RepairLimits :
    /\ Transition(r, a, role, target, expected, override, reason, v, limit)
    /\ seen' = [seen EXCEPT ![a] = NoSnapshot]

\* The calls that submit a transition differ only in what they expect, so
\* each is a TransitionStep.
LEMMA SubmitIsTransition ==
  ASSUME TypeOK, NEW r \in Rows, NEW a \in Actors, NEW role \in TransitionActorRole,
         \/ RejectApprovedForConflict(a, r)
         \/ MarkAssignmentMerged(a, r)
         \/ OverrideStuckToInProgress(a, r, role)
         \/ \E target \in Phase, override \in BOOLEAN, reason \in Reason :
              Submit(a, r, role, target, override, reason)
         \/ \E target \in Phase, limit \in CallerLimits :
              SubmitWithLimit(a, r, role, target, limit)
  PROVE  TransitionStep(r, a)
<1> DEFINE v == seen[a].version + 1
<1>1. FromSnapshot(a, r)
  BY DEF RejectApprovedForConflict, MarkAssignmentMerged,
         OverrideStuckToInProgress, Submit, SubmitWithLimit
<1>2. seen[a] \in Snapshot
  BY <1>1 DEF TypeOK, FromSnapshot
<1>3. v \in 0..MaxVersion /\ seen[a].phase \in Phase \cup {NullPhase}
  BY <1>1, <1>2, PhaseConstants DEF FromSnapshot, Snapshot
<1>4. seen' = [seen EXCEPT ![a] = NoSnapshot]
  BY <1>1 DEF FromSnapshot
<1>0. DefaultRepairCycleLimit \in RepairLimits
  BY DEF RepairLimits
<1> HIDE DEF v
<1>5. CASE RejectApprovedForConflict(a, r)
  <2>1. Transition(r, a, "merge_hand", "rejected", "approved", FALSE, ConflictReason, v,
                   DefaultRepairCycleLimit)
    BY <1>5 DEF RejectApprovedForConflict, v
  <2>2. /\ "merge_hand" \in TransitionActorRole
        /\ "rejected" \in Phase /\ "approved" \in Phase \cup {NullPhase}
        /\ ConflictReason \in Reason
    BY DEF TransitionActorRole, Phase, Reason
  <2> QED
    BY <2>1, <2>2, <1>0, <1>3, <1>4 DEF TransitionStep
<1>6. CASE MarkAssignmentMerged(a, r)
  <2>1. Transition(r, a, "merge_hand", "merged", "ready_for_merge", FALSE, "other", v,
                   DefaultRepairCycleLimit)
    BY <1>6 DEF MarkAssignmentMerged, v
  <2>2. /\ "merge_hand" \in TransitionActorRole
        /\ "merged" \in Phase /\ "ready_for_merge" \in Phase \cup {NullPhase}
        /\ "other" \in Reason
    BY DEF TransitionActorRole, Phase, Reason
  <2> QED
    BY <2>1, <2>2, <1>0, <1>3, <1>4 DEF TransitionStep
<1>7. CASE OverrideStuckToInProgress(a, r, role)
  <2>1. Transition(r, a, role, "in_progress", "stuck", TRUE, "other", v,
                   DefaultRepairCycleLimit)
    BY <1>7 DEF OverrideStuckToInProgress, v
  <2>2. /\ "in_progress" \in Phase /\ "stuck" \in Phase \cup {NullPhase}
        /\ "other" \in Reason
    BY DEF Phase, Reason
  <2> QED
    BY <2>1, <2>2, <1>0, <1>3, <1>4 DEF TransitionStep
<1>8. CASE \E target \in Phase, override \in BOOLEAN, reason \in Reason :
             Submit(a, r, role, target, override, reason)
  <2>1. PICK target \in Phase, override \in BOOLEAN, reason \in Reason :
          Submit(a, r, role, target, override, reason)
    BY <1>8
  <2>2. Transition(r, a, role, target, seen[a].phase, override, reason, v,
                   DefaultRepairCycleLimit)
    BY <2>1 DEF Submit, v
  <2> QED
    BY <2>2, <1>0, <1>3, <1>4 DEF TransitionStep
<1>9. CASE \E target \in Phase, limit \in CallerLimits :
             SubmitWithLimit(a, r, role, target, limit)
  <2>1. PICK target \in Phase, limit \in CallerLimits :
          SubmitWithLimit(a, r, role, target, limit)
    BY <1>9
  <2>2. Transition(r, a, role, target, seen[a].phase, FALSE, "other", v, limit)
    BY <2>1 DEF SubmitWithLimit, v
  <2>3. limit \in RepairLimits /\ "other" \in Reason
    BY <2>1 DEF RepairLimits, Reason
  <2> QED
    BY <2>2, <2>3, <1>3, <1>4 DEF TransitionStep
<1> QED
  BY <1>5, <1>6, <1>7, <1>8, <1>9

\* The nine kinds of step, with both insertions and all transitions merged.
LEMMA StepCases ==
  ASSUME TypeOK, Next
  PROVE  \E r \in Rows :
           \/ EndClaim(r)
           \/ \E v \in 0..MaxVersion : UpdateAssignment(r, v)
           \/ \E role \in TransitionActorRole : TransitionLivenessToStuck(r, role)
           \/ \E l \in DirectLiveness : SetLiveness(r, l)
           \/ IncrementRepairCycle(r)
           \/ \E a \in Actors :
                \/ \E p \in {"assigned", NullPhase}, v \in 0..MaxVersion : Insert(r, a, p, v)
                \/ Read(a, r)
                \/ TransitionStep(r, a)
<1>1. PICK r \in Rows :
        \/ EndClaim(r)
        \/ \E v \in UpdateVersions : UpdateAssignment(r, v)
        \/ \E role \in TransitionActorRole : TransitionLivenessToStuck(r, role)
        \/ \E l \in DirectLiveness : SetLiveness(r, l)
        \/ IncrementRepairCycle(r)
        \/ \E a \in Actors :
             \/ CreateAssignment(r, a)
             \/ Assign(r, a)
             \/ Read(a, r)
             \/ RejectApprovedForConflict(a, r)
             \/ MarkAssignmentMerged(a, r)
             \/ \E role \in TransitionActorRole :
                  \/ OverrideStuckToInProgress(a, r, role)
                  \/ \E target \in Phase, override \in BOOLEAN, reason \in Reason :
                       Submit(a, r, role, target, override, reason)
                  \/ \E target \in Phase, limit \in CallerLimits :
                       SubmitWithLimit(a, r, role, target, limit)
  BY DEF Next
<1>2. CASE \E v \in UpdateVersions : UpdateAssignment(r, v)
  BY <1>2, PhaseConstants
<1>3. CASE \E a \in Actors : CreateAssignment(r, a) \/ Assign(r, a)
  <2>1. PICK a \in Actors : CreateAssignment(r, a) \/ Assign(r, a)
    BY <1>3
  <2>2. CASE CreateAssignment(r, a)
    <3>1. 1 \in 0..MaxVersion /\ Insert(r, a, "assigned", 1)
      BY <2>2, PhaseConstants DEF CreateAssignment
    <3> QED
      BY <3>1
  <2>3. CASE Assign(r, a)
    <3>1. 0 \in 0..MaxVersion /\ Insert(r, a, NullPhase, 0)
      BY <2>3, PhaseConstants DEF Assign
    <3> QED
      BY <3>1
  <2> QED
    BY <2>1, <2>2, <2>3
<1>4. CASE \E a \in Actors : RejectApprovedForConflict(a, r) \/ MarkAssignmentMerged(a, r)
  <2>1. "hand" \in TransitionActorRole
    BY DEF TransitionActorRole
  <2> QED
    BY <1>4, <2>1, SubmitIsTransition
<1>5. CASE \E a \in Actors, role \in TransitionActorRole :
             \/ OverrideStuckToInProgress(a, r, role)
             \/ \E target \in Phase, override \in BOOLEAN, reason \in Reason :
                  Submit(a, r, role, target, override, reason)
             \/ \E target \in Phase, limit \in CallerLimits :
                  SubmitWithLimit(a, r, role, target, limit)
  <2>1. PICK a \in Actors, role \in TransitionActorRole :
          \/ OverrideStuckToInProgress(a, r, role)
          \/ \E target \in Phase, override \in BOOLEAN, reason \in Reason :
               Submit(a, r, role, target, override, reason)
          \/ \E target \in Phase, limit \in CallerLimits :
               SubmitWithLimit(a, r, role, target, limit)
    BY <1>5
  <2>2. TransitionStep(r, a)
    BY <2>1, SubmitIsTransition
  <2> QED
    BY <2>2
<1> QED
  BY <1>1, <1>2, <1>3, <1>4, <1>5

-----------------------------------------------------------------------------
\* The inductive invariant.  ApprovalIntegrity and OverLimitIsStuck need
\* FreshRows: an Insert may neither bring a phase that needs an approval nor
\* activate a row with repair cycles on it.  OverLimitIsStuck needs StuckIsTold
\* for a row that a Head escalated before it exceeded the limit.
IInv == TypeOK /\ FreshRows /\ StuckIsTold /\ ApprovalIntegrity /\ OverLimitIsStuck

LEMMA InitIInv == Init => IInv
<1> SUFFICES ASSUME Init PROVE IInv
  OBVIOUS
<1>1. TypeOK
  BY PhaseConstants DEF Init, TypeOK, Status, Liveness
<1>2. FreshRows /\ ApprovalIntegrity
  BY DEF Init, FreshRows, ApprovalIntegrity, NullPhase
<1>3. StuckIsTold /\ OverLimitIsStuck
  BY DEF Init, StuckIsTold, OverLimitIsStuck
<1> QED
  BY <1>1, <1>2, <1>3 DEF IInv

\* Type correctness is preserved by every step.
LEMMA TypeOKStep ==
  ASSUME TypeOK, [Next]_phaseVars
  PROVE  TypeOK'
<1>1. CASE UNCHANGED phaseVars
  BY <1>1 DEF phaseVars, TypeOK
<1>2. CASE Next
  <2>1. PICK r \in Rows :
          \/ EndClaim(r)
          \/ \E v \in 0..MaxVersion : UpdateAssignment(r, v)
          \/ \E role \in TransitionActorRole : TransitionLivenessToStuck(r, role)
          \/ \E l \in DirectLiveness : SetLiveness(r, l)
          \/ IncrementRepairCycle(r)
          \/ \E a \in Actors :
               \/ \E p \in {"assigned", NullPhase}, v \in 0..MaxVersion : Insert(r, a, p, v)
               \/ Read(a, r)
               \/ TransitionStep(r, a)
    BY <1>2, StepCases
  <2>2. CASE EndClaim(r)
    BY <2>2 DEF EndClaim, TypeOK, Status
  <2>3. CASE \E v \in 0..MaxVersion : UpdateAssignment(r, v)
    BY <2>3 DEF UpdateAssignment, TypeOK
  <2>4. ASSUME NEW by \in {"override", "repair"}, Escalate(r, by)
        PROVE  /\ liveness' \in [Rows -> Liveness] /\ direct' \in SUBSET Rows
               /\ lastEdge' \in [Rows -> Edge \cup {NoEdge}]
    BY <2>4 DEF Escalate, TypeOK, Liveness, Edge
  <2>5. CASE \E role \in TransitionActorRole : TransitionLivenessToStuck(r, role)
    BY <2>5, <2>4 DEF TransitionLivenessToStuck, TypeOK
  <2>9. CASE (\E l \in DirectLiveness : SetLiveness(r, l)) \/ IncrementRepairCycle(r)
    BY <2>9, PhaseConstants DEF SetLiveness, IncrementRepairCycle, TypeOK, Liveness
  <2>6. ASSUME NEW a \in Actors,
               \E p \in {"assigned", NullPhase}, v \in 0..MaxVersion : Insert(r, a, p, v)
        PROVE  TypeOK'
    BY <2>6 DEF Insert, TypeOK, Status, Phase
  <2>7. ASSUME NEW a \in Actors, Read(a, r)
        PROVE  TypeOK'
    BY <2>7 DEF Read, TypeOK, Snapshot
  <2>8. ASSUME NEW a \in Actors, TransitionStep(r, a)
        PROVE  TypeOK'
    <3>1. PICK role \in TransitionActorRole, target \in Phase,
               expected \in Phase \cup {NullPhase},
               override \in BOOLEAN, reason \in Reason, v \in 0..MaxVersion,
             limit \in RepairLimits :
            /\ Transition(r, a, role, target, expected, override, reason, v, limit)
            /\ seen' = [seen EXCEPT ![a] = NoSnapshot]
      BY <2>8 DEF TransitionStep
    <3>2. phase' \in [Rows -> Phase \cup {NullPhase}] /\ version' \in [Rows -> 0..MaxVersion]
      BY <3>1 DEF Transition, TypeOK
    <3>3. approval' \in [Rows -> Approval \cup {NoApproval}]
      BY <3>1 DEF Transition, RecordEvent, TypeOK, Approval
    <3>4. repairs' \in [Rows -> 0..MaxRepairs]
      BY <3>1, PhaseConstants DEF Transition, RepairCycle, TypeOK
    <3>5. /\ liveness' \in [Rows -> Liveness] /\ direct' \in SUBSET Rows
          /\ lastEdge' \in [Rows -> Edge \cup {NoEdge}]
      BY <3>1, <2>4 DEF Transition, RepairCycle, TypeOK
    <3>6. UNCHANGED <<status, author>>
      BY <3>1 DEF Transition
    <3> QED
      BY <3>1, <3>2, <3>3, <3>4, <3>5, <3>6 DEF TypeOK
  <2> QED
    BY <2>1, <2>2, <2>3, <2>5, <2>6, <2>7, <2>8, <2>9
<1> QED
  BY <1>1, <1>2

\* Only an Insert takes a row out of "absent".
LEMMA FreshRowsStep ==
  ASSUME TypeOK, FreshRows, [Next]_phaseVars
  PROVE  FreshRows'
<1>1. CASE UNCHANGED phaseVars
  BY <1>1 DEF phaseVars, FreshRows
<1>2. CASE Next
  <2>1. PICK r \in Rows :
          \/ EndClaim(r)
          \/ \E v \in 0..MaxVersion : UpdateAssignment(r, v)
          \/ \E role \in TransitionActorRole : TransitionLivenessToStuck(r, role)
          \/ \E l \in DirectLiveness : SetLiveness(r, l)
          \/ IncrementRepairCycle(r)
          \/ \E a \in Actors :
               \/ \E p \in {"assigned", NullPhase}, v \in 0..MaxVersion : Insert(r, a, p, v)
               \/ Read(a, r)
               \/ TransitionStep(r, a)
    BY <1>2, StepCases
  <2>2. CASE EndClaim(r)
    BY <2>2 DEF EndClaim, TypeOK, FreshRows
  <2>3. CASE \/ \E v \in 0..MaxVersion : UpdateAssignment(r, v)
             \/ \E role \in TransitionActorRole : TransitionLivenessToStuck(r, role)
             \/ \E l \in DirectLiveness : SetLiveness(r, l)
             \/ IncrementRepairCycle(r)
             \/ \E a \in Actors : Read(a, r)
    BY <2>3 DEF UpdateAssignment, TransitionLivenessToStuck, SetLiveness,
                IncrementRepairCycle, Read, TypeOK, FreshRows
  <2>4. ASSUME NEW a \in Actors,
               \E p \in {"assigned", NullPhase}, v \in 0..MaxVersion : Insert(r, a, p, v)
        PROVE  FreshRows'
    BY <2>4 DEF Insert, TypeOK, FreshRows
  <2>5. ASSUME NEW a \in Actors, TransitionStep(r, a)
        PROVE  FreshRows'
    BY <2>5 DEF TransitionStep, Transition, RepairCycle, TypeOK, FreshRows
  <2> QED
    BY <2>1, <2>2, <2>3, <2>4, <2>5
<1> QED
  BY <1>1, <1>2

\* A step keeps the approval of what passed review: a new approval obeys the
\* reviewer check, the later phases are only entered from the approved one,
\* and no other step touches phase, approval or the author of such a row.
LEMMA ApprovalIntegrityStep ==
  ASSUME TypeOK, FreshRows, ApprovalIntegrity, [Next]_phaseVars
  PROVE  ApprovalIntegrity'
<1>1. CASE UNCHANGED phaseVars
  BY <1>1 DEF phaseVars, ApprovalIntegrity
<1>2. CASE Next
  <2>1. PICK r \in Rows :
          \/ EndClaim(r)
          \/ \E v \in 0..MaxVersion : UpdateAssignment(r, v)
          \/ \E role \in TransitionActorRole : TransitionLivenessToStuck(r, role)
          \/ \E l \in DirectLiveness : SetLiveness(r, l)
          \/ IncrementRepairCycle(r)
          \/ \E a \in Actors :
               \/ \E p \in {"assigned", NullPhase}, v \in 0..MaxVersion : Insert(r, a, p, v)
               \/ Read(a, r)
               \/ TransitionStep(r, a)
    BY <1>2, StepCases
  <2>2. CASE \/ EndClaim(r)
             \/ \E v \in 0..MaxVersion : UpdateAssignment(r, v)
             \/ \E role \in TransitionActorRole : TransitionLivenessToStuck(r, role)
             \/ \E l \in DirectLiveness : SetLiveness(r, l)
             \/ IncrementRepairCycle(r)
             \/ \E a \in Actors : Read(a, r)
    BY <2>2 DEF EndClaim, UpdateAssignment, TransitionLivenessToStuck, SetLiveness,
                IncrementRepairCycle, Read, ApprovalIntegrity
  <2>3. ASSUME NEW a \in Actors,
               \E p \in {"assigned", NullPhase}, v \in 0..MaxVersion : Insert(r, a, p, v)
        PROVE  ApprovalIntegrity'
    BY <2>3 DEF Insert, TypeOK, ApprovalIntegrity, NullPhase
  <2>4. ASSUME NEW a \in Actors, TransitionStep(r, a)
        PROVE  ApprovalIntegrity'
    <3>1. PICK role \in TransitionActorRole, target \in Phase,
               expected \in Phase \cup {NullPhase},
               override \in BOOLEAN, reason \in Reason, v \in 0..MaxVersion,
             limit \in RepairLimits :
            Transition(r, a, role, target, expected, override, reason, v, limit)
      BY <2>4 DEF TransitionStep
    <3>2. /\ ValidTransition(phase[r], target, expected, role, override)
          /\ ReviewerNotAuthor(role, target, a, author[r])
          /\ author' = author /\ phase' = [phase EXCEPT ![r] = target]
      BY <3>1 DEF Transition
    <3>3. SUFFICES ASSUME NEW q \in Rows,
                          phase'[q] \in {"approved", "ready_for_merge", "merged"}
                   PROVE  /\ approval'[q] \in Approval
                          /\ \/ approval'[q].role = "reviewer_hand"
                                /\ approval'[q].by # author'[q]
                             \/ approval'[q].role \in CanOverride
      BY DEF ApprovalIntegrity
    <3>4. CASE q # r
      <4>1. phase'[q] = phase[q] /\ approval'[q] = approval[q]
        BY <3>1, <3>2, <3>4 DEF RecordEvent, Transition, TypeOK
      <4> QED
        BY <4>1, <3>2, <3>3 DEF ApprovalIntegrity
    <3>5. CASE q = r /\ target = "approved"
      <4>1. role = "reviewer_hand" \/ role \in CanOverride
        BY <3>2, <3>5, LegalEdges DEF CanOverride
      <4>2. approval'[r] = [by |-> a, role |-> role]
        BY <3>1, <3>5 DEF Transition, RecordEvent, TypeOK
      <4>3. role = "reviewer_hand" => a # author[r]
        BY <3>2, <3>5 DEF ReviewerNotAuthor
      <4> QED
        BY <4>1, <4>2, <4>3, <3>2, <3>5 DEF Approval
    <3>6. CASE q = r /\ target # "approved"
      <4>1. phase'[r] = target
        BY <3>2 DEF TypeOK
      <4>2. target \in {"ready_for_merge", "merged"}
        BY <4>1, <3>3, <3>6
      <4>3. phase[r] \in {"approved", "ready_for_merge"}
        BY <4>2, <3>2, LegalEdges
      <4>4. approval' = approval
        BY <4>2, <3>1 DEF Transition, RecordEvent
      <4> QED
        BY <4>3, <4>4, <3>2, <3>6 DEF ApprovalIntegrity
    <3> QED
      BY <3>4, <3>5, <3>6
  <2> QED
    BY <2>1, <2>2, <2>3, <2>4
<1> QED
  BY <1>1, <1>2

\* A step keeps the escalation: the transaction that counts a cycle past the
\* limit also escalates, and nothing makes a Stuck row anything else.
LEMMA OverLimitIsStuckStep ==
  ASSUME TypeOK, FreshRows, StuckIsTold, OverLimitIsStuck, [Next]_phaseVars
  PROVE  StuckIsTold' /\ OverLimitIsStuck'
<1>1. CASE UNCHANGED phaseVars
  BY <1>1 DEF phaseVars, StuckIsTold, OverLimitIsStuck
<1>2. CASE Next
  <2>1. PICK r \in Rows :
          \/ EndClaim(r)
          \/ \E v \in 0..MaxVersion : UpdateAssignment(r, v)
          \/ \E role \in TransitionActorRole : TransitionLivenessToStuck(r, role)
          \/ \E l \in DirectLiveness : SetLiveness(r, l)
          \/ IncrementRepairCycle(r)
          \/ \E a \in Actors :
               \/ \E p \in {"assigned", NullPhase}, v \in 0..MaxVersion : Insert(r, a, p, v)
               \/ Read(a, r)
               \/ TransitionStep(r, a)
    BY <1>2, StepCases
  <2>2. CASE EndClaim(r)
    BY <2>2 DEF EndClaim, TypeOK, StuckIsTold, OverLimitIsStuck
  <2>3. CASE \/ \E v \in 0..MaxVersion : UpdateAssignment(r, v)
             \/ \E a \in Actors : Read(a, r)
    BY <2>3 DEF UpdateAssignment, Read, StuckIsTold, OverLimitIsStuck
  <2>4. ASSUME NEW by \in {"override", "repair"}, Escalate(r, by)
        PROVE  \A q \in Rows :
                 /\ liveness[q] = "stuck" /\ lastEdge[q].to = "stuck" =>
                      liveness'[q] = "stuck" /\ lastEdge'[q].to = "stuck"
                 /\ q = r /\ status[r] = "active" => liveness'[q] = "stuck"
                 /\ q \notin direct' /\ liveness'[q] = "stuck" => lastEdge'[q].to = "stuck"
                 /\ q \in direct /\ q \notin direct' => liveness'[q] = "stuck"
    BY <2>4 DEF Escalate, StuckIsTold, TypeOK
  <2>5. CASE \E role \in TransitionActorRole : TransitionLivenessToStuck(r, role)
    BY <2>5, <2>4 DEF TransitionLivenessToStuck, StuckIsTold, OverLimitIsStuck
  <2>8. CASE (\E l \in DirectLiveness : SetLiveness(r, l)) \/ IncrementRepairCycle(r)
    BY <2>8 DEF SetLiveness, IncrementRepairCycle, TypeOK, StuckIsTold, OverLimitIsStuck
  <2>6. ASSUME NEW a \in Actors,
               \E p \in {"assigned", NullPhase}, v \in 0..MaxVersion : Insert(r, a, p, v)
        PROVE  StuckIsTold' /\ OverLimitIsStuck'
    <3>1. ~ \A limit \in RepairLimits : 0 > limit
      BY PhaseConstants DEF RepairLimits
    <3>2. \A q \in Rows : status'[q] = "active" => status[q] = "active" \/ repairs[q] = 0
      BY <2>6 DEF Insert, TypeOK, FreshRows
    <3>3. UNCHANGED <<repairs, liveness, lastEdge, direct>>
      BY <2>6 DEF Insert
    <3> QED
      BY <3>1, <3>2, <3>3 DEF StuckIsTold, OverLimitIsStuck
  <2>7. ASSUME NEW a \in Actors, TransitionStep(r, a)
        PROVE  StuckIsTold' /\ OverLimitIsStuck'
    BY <2>7, <2>4 DEF TransitionStep, Transition, RepairCycle, TypeOK, StuckIsTold, OverLimitIsStuck
  <2> QED
    BY <2>1, <2>2, <2>3, <2>5, <2>6, <2>7, <2>8
<1> QED
  BY <1>1, <1>2

-----------------------------------------------------------------------------
LEMMA IInvHolds == Spec => []IInv
<1>1. IInv /\ [Next]_phaseVars => IInv'
  BY TypeOKStep, FreshRowsStep, ApprovalIntegrityStep, OverLimitIsStuckStep DEF IInv
<1> QED
  BY InitIInv, <1>1, PTL DEF Spec

\* Every reachable state of the phase machine is well typed.
THEOREM TypeCorrectness == Spec => []TypeOK
<1>1. IInv => TypeOK
  BY DEF IInv
<1> QED
  BY IInvHolds, <1>1, PTL

\* What is approved, ready for merge or merged was approved after its latest
\* submission by somebody else than its author, or by a Head's or Director's
\* override, however many calls were delayed.
THEOREM ApprovalIsSound == Spec => []ApprovalIntegrity
<1>1. IInv => ApprovalIntegrity
  BY DEF IInv
<1> QED
  BY IInvHolds, <1>1, PTL

\* Whatever limits the calls pass, an active row past all of them that only
\* transitions have counted is Stuck, and the outbox says so.
THEOREM RepairLimitEscalates == Spec => []OverLimitIsStuck
<1>1. IInv => OverLimitIsStuck
  BY DEF IInv
<1> QED
  BY IInvHolds, <1>1, PTL

-----------------------------------------------------------------------------
(* Refinement of ReviewGate. *)

LEMMA InitRefines == Init => Gate!GateInit
<1> SUFFICES ASSUME Init PROVE Gate!GateInit
  OBVIOUS
<1>1. [r \in Rows |-> GateOf(phase[r])] = [r \in Rows |-> "open"]
  BY DEF Init, GateOf, NullPhase
<1>2. [r \in Rows |-> approval[r].by] = [r \in Rows |-> NoActor]
  BY DEF Init, NoApproval
<1>3. [r \in Rows |-> approval[r].role \in CanOverride] = [r \in Rows |-> FALSE]
  <2>1. \A r \in Rows : (approval[r].role \in CanOverride) = FALSE
    BY DEF Init, NoApproval, CanOverride
  <2> QED
    BY <2>1
<1> QED
  BY <1>1, <1>2, <1>3 DEF Init, Gate!GateInit

\* A transition is one step of the gate, or none when it moves between phases
\* the gate does not tell apart.
LEMMA TransitionRefines ==
  ASSUME TypeOK, FreshRows, NEW r \in Rows, NEW a \in Actors, TransitionStep(r, a)
  PROVE  Gate!GateNext \/ UNCHANGED Gate!gateVars
<1> DEFINE gateNow == [q \in Rows |-> GateOf(phase[q])]
           gateNext == [q \in Rows |-> GateOf(phase'[q])]
           byNow == [q \in Rows |-> approval[q].by]
           byNext == [q \in Rows |-> approval'[q].by]
           ovNow == [q \in Rows |-> approval[q].role \in CanOverride]
           ovNext == [q \in Rows |-> approval'[q].role \in CanOverride]
<1>1. PICK role \in TransitionActorRole, target \in Phase,
           expected \in Phase \cup {NullPhase},
           override \in BOOLEAN, reason \in Reason, v \in 0..MaxVersion,
         limit \in RepairLimits :
        Transition(r, a, role, target, expected, override, reason, v, limit)
  BY DEF TransitionStep
<1>2. /\ ValidTransition(phase[r], target, expected, role, override)
      /\ ReviewerNotAuthor(role, target, a, author[r])
      /\ RecordEvent(r, a, role, target)
      /\ phase' = [phase EXCEPT ![r] = target]
      /\ status[r] # "absent" /\ author' = author
  BY <1>1 DEF Transition
<1>3. author[r] # NoActor
  BY <1>2, PhaseConstants DEF FreshRows
<1>4. gateNext = [gateNow EXCEPT ![r] = GateOf(target)]
  BY <1>2 DEF TypeOK
<1>5. CASE phase[r] = "awaiting_review" /\ target = "approved"
  <2>1. role = "reviewer_hand" \/ role \in CanOverride
    BY <1>2, <1>5, LegalEdges DEF CanOverride
  <2>2. (role \in CanOverride) \/ a # author[r]
    BY <2>1, <1>2, <1>5 DEF ReviewerNotAuthor
  <2>3. approval' = [approval EXCEPT ![r] = [by |-> a, role |-> role]]
    BY <1>2, <1>5 DEF RecordEvent
  <2>4. byNext = [byNow EXCEPT ![r] = a]
    BY <2>3 DEF TypeOK
  <2>5. ovNext = [ovNow EXCEPT ![r] = (role \in CanOverride)]
    BY <2>3 DEF TypeOK
  <2>6. gateNow[r] = "submitted" /\ GateOf(target) = "endorsed"
    BY <1>5 DEF GateOf
  <2>7. Gate!Endorse(r, a, role \in CanOverride)
    BY <1>2, <1>4, <2>2, <2>4, <2>5, <2>6 DEF Gate!Endorse
  <2>8. (role \in CanOverride) \in BOOLEAN
    OBVIOUS
  <2> QED
    BY <2>7, <2>8 DEF Gate!GateNext
<1>6. CASE phase[r] \in {"in_progress", "in_repair"} /\ target = "awaiting_review"
  <2>1. approval' = [approval EXCEPT ![r] = NoApproval]
    BY <1>2, <1>6 DEF RecordEvent
  <2>2. byNext = [byNow EXCEPT ![r] = NoActor]
    BY <2>1 DEF TypeOK, NoApproval
  <2>3. ovNext = [ovNow EXCEPT ![r] = FALSE]
    <3>1. (NoApproval.role \in CanOverride) = FALSE
      BY DEF NoApproval, CanOverride
    <3>2. ovNext = [ovNow EXCEPT ![r] = (NoApproval.role \in CanOverride)]
      BY <2>1 DEF TypeOK
    <3> QED
      BY <3>1, <3>2
  <2>4. gateNow[r] = "open" /\ GateOf(target) = "submitted"
    BY <1>6 DEF GateOf
  <2>5. Gate!Submit(r)
    BY <1>2, <1>3, <1>4, <2>2, <2>3, <2>4 DEF Gate!Submit
  <2> QED
    BY <2>5 DEF Gate!GateNext
<1>7. CASE target \notin {"approved", "awaiting_review"}
  <2>1. approval' = approval
    BY <1>2, <1>7 DEF RecordEvent
  <2>2. CASE gateNow[r] = GateOf(target)
    <3>1. gateNext = gateNow
      BY <1>4, <2>2
    <3> QED
      BY <2>1, <3>1, <1>2 DEF Gate!gateVars
  <2>3. CASE phase[r] \in {"awaiting_review", "approved"} /\ target \in {"rejected", "stuck"}
    <3>1. gateNow[r] \in {"submitted", "endorsed"} /\ GateOf(target) = "open"
      BY <2>3 DEF GateOf
    <3>2. Gate!SendBack(r)
      BY <3>1, <2>1, <1>2, <1>4 DEF Gate!SendBack
    <3> QED
      BY <3>2 DEF Gate!GateNext
  <2>4. CASE phase[r] = "ready_for_merge" /\ target = "merged"
    <3>1. gateNow[r] = "endorsed" /\ GateOf(target) = "merged"
      BY <2>4 DEF GateOf
    <3>2. Gate!Merge(r)
      BY <3>1, <2>1, <1>2, <1>4 DEF Gate!Merge
    <3> QED
      BY <3>2 DEF Gate!GateNext
  <2>5. \/ gateNow[r] = GateOf(target)
        \/ phase[r] \in {"awaiting_review", "approved"} /\ target \in {"rejected", "stuck"}
        \/ phase[r] = "ready_for_merge" /\ target = "merged"
    BY <1>2, <1>7, LegalEdges DEF GateOf
  <2> QED
    BY <2>2, <2>3, <2>4, <2>5
<1>8. \/ phase[r] = "awaiting_review" /\ target = "approved"
      \/ phase[r] \in {"in_progress", "in_repair"} /\ target = "awaiting_review"
      \/ target \notin {"approved", "awaiting_review"}
  BY <1>2, LegalEdges
<1> QED
  BY <1>5, <1>6, <1>7, <1>8

LEMMA NextRefines ==
  ASSUME TypeOK, FreshRows, [Next]_phaseVars
  PROVE  Gate!GateNext \/ UNCHANGED Gate!gateVars
<1>1. CASE UNCHANGED phaseVars
  BY <1>1 DEF phaseVars, Gate!gateVars
<1>2. CASE Next
  <2>1. PICK r \in Rows :
          \/ EndClaim(r)
          \/ \E v \in 0..MaxVersion : UpdateAssignment(r, v)
          \/ \E role \in TransitionActorRole : TransitionLivenessToStuck(r, role)
          \/ \E l \in DirectLiveness : SetLiveness(r, l)
          \/ IncrementRepairCycle(r)
          \/ \E a \in Actors :
               \/ \E p \in {"assigned", NullPhase}, v \in 0..MaxVersion : Insert(r, a, p, v)
               \/ Read(a, r)
               \/ TransitionStep(r, a)
    BY <1>2, StepCases
  <2>2. CASE \/ EndClaim(r)
             \/ \E v \in 0..MaxVersion : UpdateAssignment(r, v)
             \/ \E role \in TransitionActorRole : TransitionLivenessToStuck(r, role)
             \/ \E l \in DirectLiveness : SetLiveness(r, l)
             \/ IncrementRepairCycle(r)
             \/ \E a \in Actors : Read(a, r)
    BY <2>2 DEF EndClaim, UpdateAssignment, TransitionLivenessToStuck, SetLiveness,
                IncrementRepairCycle, Read, Gate!gateVars
  <2>3. ASSUME NEW a \in Actors,
               \E p \in {"assigned", NullPhase}, v \in 0..MaxVersion : Insert(r, a, p, v)
        PROVE  Gate!GateNext
    <3>1. PICK p \in {"assigned", NullPhase}, v \in 0..MaxVersion : Insert(r, a, p, v)
      BY <2>3
    <3>2. /\ author[r] = NoActor /\ phase[r] = NullPhase
          /\ author' = [author EXCEPT ![r] = a]
          /\ phase' = [phase EXCEPT ![r] = p] /\ approval' = approval
      BY <3>1 DEF Insert, FreshRows
    <3>3. GateOf(phase[r]) = "open" /\ GateOf(p) = "open"
      BY <3>2 DEF GateOf, NullPhase
    <3>4. [q \in Rows |-> GateOf(phase'[q])] = [q \in Rows |-> GateOf(phase[q])]
      BY <3>2, <3>3 DEF TypeOK
    <3>5. Gate!TakeOn(r, a)
      BY <3>2, <3>3, <3>4 DEF Gate!TakeOn
    <3> QED
      BY <3>5 DEF Gate!GateNext
  <2> QED
    BY <2>1, <2>2, <2>3, TransitionRefines
<1> QED
  BY <1>1, <1>2

\* The phase machine, with every interleaving of reads and submissions,
\* implements the review gate.
THEOREM Refinement == Spec => ImplementsReviewGate
<1>1. IInv /\ [Next]_phaseVars => Gate!GateNext \/ UNCHANGED Gate!gateVars
  BY NextRefines DEF IInv
<1> QED
  BY InitRefines, IInvHolds, <1>1, PTL DEF Spec, ImplementsReviewGate, Gate!GateSpec

-----------------------------------------------------------------------------
(* What a step may never do to work that has passed review. *)

Passed == {"approved", "ready_for_merge", "merged"}

\* Work that has passed review is merged as the author's it was, under the
\* approval it passed with: no later request gives it another one, it is sent
\* back only before it is ready, and nothing unmerges it.
ApprovalIsBinding ==
  [][\A r \in Rows : phase[r] \in Passed =>
       /\ author'[r] = author[r]
       /\ \/ phase'[r] \in Passed /\ approval'[r] = approval[r]
          \/ phase[r] = "approved" /\ phase'[r] = "rejected"
       /\ phase[r] = "merged" => phase'[r] = "merged"]_phaseVars

\* A transition moves the phase of its row along an edge of the table.
LEMMA TransitionMoves ==
  ASSUME TypeOK, NEW r \in Rows, NEW a \in Actors, TransitionStep(r, a),
         NEW q \in Rows, phase[q] \in Passed
  PROVE  /\ author'[q] = author[q]
         /\ \/ phase'[q] \in Passed /\ approval'[q] = approval[q]
            \/ phase[q] = "approved" /\ phase'[q] = "rejected"
         /\ phase[q] = "merged" => phase'[q] = "merged"
<1>1. PICK role \in TransitionActorRole, target \in Phase, expected \in Phase \cup {NullPhase},
           override \in BOOLEAN, reason \in Reason, v \in 0..MaxVersion,
         limit \in RepairLimits :
        Transition(r, a, role, target, expected, override, reason, v, limit)
  BY DEF TransitionStep
<1>2. /\ author' = author
      /\ phase' = [phase EXCEPT ![r] = target]
      /\ ValidTransition(phase[r], target, expected, role, override)
      /\ RecordEvent(r, a, role, target)
  BY <1>1 DEF Transition
<1>3. CASE q # r
  <2>1. phase'[q] = phase[q] /\ approval'[q] = approval[q]
    BY <1>2, <1>3 DEF TypeOK, RecordEvent
  <2> QED
    BY <1>2, <2>1
<1>4. CASE q = r
  <2>1. \/ phase[r] = "approved" /\ target = "ready_for_merge"
        \/ phase[r] = "ready_for_merge" /\ target = "merged"
        \/ phase[r] = "approved" /\ target = "rejected"
    BY <1>2, <1>4, LegalEdges DEF Passed
  <2>2. phase'[r] = target
    BY <1>2 DEF TypeOK
  <2>3. approval' = approval
    BY <1>2, <2>1 DEF RecordEvent
  <2> QED
    BY <1>2, <1>4, <2>1, <2>2, <2>3 DEF Passed
<1> QED
  BY <1>3, <1>4

\* For any rows, actors and delayed requests: what is merged was approved as it
\* is, and merged is final (transition.rs, LEGAL_TRANSITIONS has no edge out).
THEOREM ApprovalsBind == Spec => ApprovalIsBinding
<1>1. TypeOK /\ FreshRows /\ [Next]_phaseVars =>
        [\A r \in Rows : phase[r] \in Passed =>
           /\ author'[r] = author[r]
           /\ \/ phase'[r] \in Passed /\ approval'[r] = approval[r]
              \/ phase[r] = "approved" /\ phase'[r] = "rejected"
           /\ phase[r] = "merged" => phase'[r] = "merged"]_phaseVars
  <2> SUFFICES ASSUME TypeOK, FreshRows, Next, NEW q \in Rows, phase[q] \in Passed
               PROVE  /\ author'[q] = author[q]
                      /\ \/ phase'[q] \in Passed /\ approval'[q] = approval[q]
                         \/ phase[q] = "approved" /\ phase'[q] = "rejected"
                      /\ phase[q] = "merged" => phase'[q] = "merged"
    OBVIOUS
  <2>1. ASSUME NEW r \in Rows, NEW a \in Actors, NEW p \in {"assigned", NullPhase},
               NEW v \in 0..MaxVersion, Insert(r, a, p, v)
        PROVE  phase'[q] = phase[q] /\ author'[q] = author[q] /\ approval'[q] = approval[q]
    <3>1. q # r
      BY <2>1 DEF Insert, FreshRows, Passed, NullPhase
    <3> QED
      BY <2>1, <3>1 DEF Insert, TypeOK
  <2>2. ASSUME UNCHANGED <<phase, author, approval>>
        PROVE  phase'[q] = phase[q] /\ author'[q] = author[q] /\ approval'[q] = approval[q]
    BY <2>2
  <2>3. ASSUME NEW r \in Rows, NEW a \in Actors, TransitionStep(r, a)
        PROVE  /\ author'[q] = author[q]
               /\ \/ phase'[q] \in Passed /\ approval'[q] = approval[q]
                  \/ phase[q] = "approved" /\ phase'[q] = "rejected"
               /\ phase[q] = "merged" => phase'[q] = "merged"
    BY <2>3, TransitionMoves
  <2> QED
    BY StepCases, <2>1, <2>2, <2>3
       DEF EndClaim, UpdateAssignment, TransitionLivenessToStuck, SetLiveness,
           IncrementRepairCycle, Read
<1> QED
  BY <1>1, IInvHolds, PTL DEF Spec, ApprovalIsBinding, IInv
=============================================================================
