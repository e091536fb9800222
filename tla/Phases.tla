------------------------------- MODULE Phases -------------------------------
(***************************************************************************)
(* The assignment-phase transition table of data/src/sparks/transition.rs  *)
(* and the three checks that guard a transition.  Constant-level: no       *)
(* state, so that the state machines and the proofs share one table.       *)
(***************************************************************************)

Phase == {"assigned", "in_progress", "awaiting_review", "approved",
          "rejected", "in_repair", "ready_for_merge", "merged", "stuck"}

\* `assignments.assignment_phase` is NULL on the rows `assign` inserts; the
\* transition path finds no phase in it and refuses every target.
NullPhase == "null"

TransitionActorRole ==
  {"hand", "reviewer_hand", "merge_hand", "head", "director"}

CanOverride == {"head", "director"}

\* The only reason string the code compares with; any other one, or none, is
\* "other".
ConflictReason == "conflict"
Reason == {ConflictReason, "other"}

Rule(from, to, roles, override) ==
  [from |-> from, to |-> to, roles |-> roles, override |-> override]

\* Mutant: a table that takes a Stuck assignment back to Approved.
LEGAL_TRANSITIONS_StuckToApproved ==
  { Rule("assigned",    "in_progress", {"hand"}, TRUE),
    Rule("in_progress", "stuck",       {"hand"}, TRUE),
    Rule("stuck",       "approved",    {},       TRUE) }

LEGAL_TRANSITIONS ==
  { Rule("assigned",        "in_progress",     {"hand"},          TRUE),
    Rule("in_progress",     "awaiting_review", {"hand"},          TRUE),
    Rule("awaiting_review", "approved",        {"reviewer_hand"}, TRUE),
    Rule("awaiting_review", "rejected",        {"reviewer_hand"}, TRUE),
    Rule("approved",        "rejected",        {"merge_hand"},    FALSE),
    Rule("rejected",        "in_repair",       {"hand"},          TRUE),
    Rule("in_repair",       "awaiting_review", {"hand"},          TRUE),
    Rule("approved",        "ready_for_merge", {"merge_hand"},    TRUE),
    Rule("ready_for_merge", "merged",          {"merge_hand"},    FALSE),
    Rule("in_progress",     "stuck",           {"hand"},          TRUE),
    Rule("awaiting_review", "stuck",           {"hand"},          TRUE),
    Rule("in_repair",       "stuck",           {"hand"},          TRUE),
    Rule("stuck",           "in_progress",     {},                TRUE) }

\* validate_transition: the caller's expectation holds, the edge is in the
\* table, and the role is listed or overrides a rule that can be overridden.
ValidTransition(current, target, expected, role, override) ==
  /\ current = expected
  /\ \E rule \in LEGAL_TRANSITIONS :
       /\ rule.from = current
       /\ rule.to = target
       /\ \/ role \in rule.roles
          \/ override /\ role \in CanOverride /\ rule.override

\* validate_transition_reason
ValidReason(from, to, reason) ==
  (from = "approved" /\ to = "rejected") => reason = ConflictReason

\* Mutant: the reviewer's identity is checked on a rejection only.
ReviewerNotAuthor_RejectionsOnly(role, target, actor, author) ==
  (role = "reviewer_hand" /\ target = "rejected") => actor # author

\* validate_reviewer_not_author
ReviewerNotAuthor(role, target, actor, author) ==
  (role = "reviewer_hand" /\ target \in {"approved", "rejected"})
    => actor # author
=============================================================================
