-------------------------------- MODULE Crew --------------------------------
(***************************************************************************)
(* `ryve head orchestrate`: a Head fans a parent spark out to one Hand per *)
(* child, then polls, notifies, reassigns and finally spawns the Merger.   *)
(* Each poll leaves a report that the rest of the cycle acts on, while     *)
(* Hands, the user, the reconciler and other Heads go on changing what it  *)
(* reports.  The process keeps its counters in memory; it may die at any   *)
(* database error and be started again on the same children.               *)
(***************************************************************************)
EXTENDS Naturals

CONSTANTS
  Children,     \* the child sparks of the crew
  NoChild,
  MaxRespawns,  \* max_respawns_per_spark
  MaxCycles,    \* --max-cycles
  MaxLives,     \* bound: how often the command is started
  MaxRows,      \* bound: claims of a child up to which rivals claim it
  MaxBlocks,    \* bound: how often one assignment gets stuck
  Rivals,       \* do others claim the children of this crew?
  Returns,      \* do sessions claim a child again that they have lost?
  Reopens,      \* does the user reopen closed sparks?
  Faults        \* may the Head die and its queries fail?

ASSUME CrewConstants ==
  /\ NoChild \notin Children
  /\ MaxRespawns \in Nat /\ MaxCycles \in Nat \ {0} /\ MaxLives \in Nat \ {0}
  /\ MaxRows \in Nat /\ MaxBlocks \in Nat
  /\ Rivals \in BOOLEAN /\ Returns \in BOOLEAN
  /\ Reopens \in BOOLEAN /\ Faults \in BOOLEAN

VARIABLES
  spark,     \* spark[s]: open, closed as completed, or closed as other
  claim,     \* claim[s]: the newest assignments row of s
  pc,        \* where the command is
  cur,       \* the child reassign_stalled is respawning
  todo,      \* children the current pass has still to visit
  tracked,   \* CrewHandle.spark_ids
  seen,      \* the PollReport
  respawns,  \* respawn_counts
  cycles,
  told,      \* marker comments on the parent
  flared,    \* flare embers
  merger,    \* the Merger was spawned
  spawned,   \* rows this run of the command inserted, per child
  life       \* how often the command was started

envVars == <<spark, claim>>
headVars == <<pc, cur, todo, tracked, seen, respawns, cycles>>
outVars == <<told, flared, merger>>
crewVars == <<envVars, headVars, outVars, spawned, life>>

MemberState == {"Unassigned", "Stalled", "Stuck", "Running", "Completed",
                "ClosedOther"}
Unseen == [state |-> "none", n |-> 0, sess |-> 0, block |-> 0]

\* Rows of a child are numbered; sess is the session of the row, named by the
\* first row of its own.  hushed is memory: the sessions that claimed the child
\* and whose heartbeat was once older than stall_after.
Claim == [n : Nat, sess : Nat, active : BOOLEAN, fresh : BOOLEAN,
          hushed : SUBSET Nat, ours : BOOLEAN,
          phase : {"null", "working", "stuck"}, block : Nat]
Report == [state : MemberState \cup {"none"}, n : Nat, sess : Nat, block : Nat]

\* A block of an assignment: the child, the row and its how-many-th time.
Block == Children \X Nat \X Nat

\* A marker comment: the block it tells of, and the pass that wrote it.
Marker == [block : Block, life : Nat, cycle : Nat]

TypeOK ==
  /\ spark \in [Children -> {"open", "completed", "other"}]
  /\ claim \in [Children -> Claim]
  /\ pc \in {"spawn", "prune", "poll", "notify", "reassign", "respawn",
             "finalize", "done", "dead"}
  /\ cur \in Children \cup {NoChild}
  /\ todo \in SUBSET Children
  /\ tracked \in SUBSET Children
  /\ seen \in [Children -> Report]
  /\ respawns \in [Children -> Nat]
  /\ cycles \in 0..MaxCycles
  /\ told \in SUBSET Marker
  /\ flared \in SUBSET Block
  /\ merger \in BOOLEAN
  /\ spawned \in [Children -> Nat]
  /\ life \in 1..MaxLives

NoClaim == [n |-> 0, sess |-> 0, active |-> FALSE, fresh |-> TRUE, hushed |-> {},
            ours |-> FALSE, phase |-> "null", block |-> 0]

\* The row that follows c.  `assign` leaves its phase NULL; create_assignment
\* gives it one.
Row(c, sess, active, ours, phase) ==
  [n |-> c.n + 1, sess |-> sess, active |-> active, fresh |-> TRUE,
   hushed |-> c.hushed, ours |-> ours, phase |-> phase, block |-> 0]

NewSession(c) == c.n + 1

Init ==
  /\ spark = [s \in Children |-> "open"]
  /\ claim = [s \in Children |-> NoClaim]
  /\ pc = "spawn" /\ cur = NoChild /\ todo = Children /\ tracked = {}
  /\ seen = [s \in Children |-> Unseen]
  /\ respawns = [s \in Children |-> 0] /\ cycles = 0
  /\ told = {} /\ flared = {} /\ merger = FALSE
  /\ spawned = [s \in Children |-> 0] /\ life = 1

-----------------------------------------------------------------------------
(* What the workgraph does meanwhile. *)

EnvUnchanged == UNCHANGED <<headVars, outVars, spawned, life>>

\* The newest heartbeat of the claim crosses stall_after, or a beat comes.
Quiet(s) ==
  /\ claim[s].active /\ claim[s].fresh
  /\ claim' = [claim EXCEPT ![s].fresh = FALSE, ![s].hushed = @ \cup {claim[s].sess}]
  /\ UNCHANGED spark /\ EnvUnchanged

Beat(s) ==
  /\ claim[s].active /\ ~claim[s].fresh
  /\ claim' = [claim EXCEPT ![s].fresh = TRUE]
  /\ UNCHANGED spark /\ EnvUnchanged

\* `ryve assign close`, `ryve assign release` or the reconciler.
EndClaim(s) ==
  /\ claim[s].active
  /\ claim' = [claim EXCEPT ![s].active = FALSE]
  /\ UNCHANGED spark /\ EnvUnchanged

\* spark_repo::close, by the Hand or the user; claims stay as they are.
CloseSpark(s, reason) ==
  /\ spark[s] = "open"
  /\ spark' = [spark EXCEPT ![s] = reason]
  /\ UNCHANGED claim /\ EnvUnchanged

\* `ryve spark status <id> open`
Reopen(s) ==
  /\ Reopens /\ spark[s] # "open"
  /\ spark' = [spark EXCEPT ![s] = "open"]
  /\ UNCHANGED claim /\ EnvUnchanged

\* Another Head, Hand or user claims the child.
RivalClaims(s, phase) ==
  /\ Rivals /\ claim[s].n < MaxRows
  /\ ~claim[s].active /\ (phase = "working" => MaxBlocks > 0)
  /\ claim' = [claim EXCEPT ![s] = Row(@, NewSession(@), TRUE, FALSE, phase)]
  /\ UNCHANGED spark /\ EnvUnchanged

\* `ryve assign claim` by a session that has lost or given up the child before.
ClaimsAgain(s, sess) ==
  /\ Returns /\ claim[s].n < MaxRows
  /\ ~claim[s].active
  /\ claim' = [claim EXCEPT ![s] = Row(@, sess, TRUE, FALSE, "null")]
  /\ UNCHANGED spark /\ EnvUnchanged

\* The Hand reports that it is blocked; a Head or Director overrides that.
GetStuck(s) ==
  /\ claim[s].phase = "working" /\ claim[s].block < MaxBlocks
  /\ claim' = [claim EXCEPT ![s].phase = "stuck", ![s].block = @ + 1]
  /\ UNCHANGED spark /\ EnvUnchanged

Override(s) ==
  /\ claim[s].phase = "stuck"
  /\ claim' = [claim EXCEPT ![s].phase = "working"]
  /\ UNCHANGED spark /\ EnvUnchanged

Env(s) ==
  \/ Quiet(s) \/ Beat(s) \/ EndClaim(s)
  \/ CloseSpark(s, "completed") \/ CloseSpark(s, "other") \/ Reopen(s)
  \/ RivalClaims(s, "null") \/ RivalClaims(s, "working")
  \/ \E sess \in 1..claim[s].n : ClaimsAgain(s, sess)
  \/ GetStuck(s) \/ Override(s)

-----------------------------------------------------------------------------
(* spawn_hand, as far as the crew sees it. *)

\* The new session claims the child; `launched` tells whether tmux took it.
ClaimFor(s, launched) ==
  /\ ~claim[s].active
  /\ claim' = [claim EXCEPT ![s] = Row(@, NewSession(@), launched, TRUE, "null")]
  /\ spawned' = [spawned EXCEPT ![s] = @ + 1]
  /\ UNCHANGED spark

\* AlreadyClaimed or a failed launch: the command dies.
SpawnFails(s) ==
  /\ \/ claim[s].active /\ UNCHANGED <<envVars, spawned>>
     \/ Faults /\ ClaimFor(s, FALSE)
  /\ pc' = "dead"
  /\ UNCHANGED <<cur, todo, tracked, seen, respawns, cycles, outVars, life>>

-----------------------------------------------------------------------------
(* The command, primitive by primitive. *)

HeadOnly == UNCHANGED <<envVars, outVars, spawned, life>>

\* spawn_crew, one child; the CrewHandle exists once all are there.
SpawnChild(s) ==
  /\ pc = "spawn" /\ s \in todo
  /\ ClaimFor(s, TRUE)
  /\ todo' = todo \ {s}
  /\ IF todo = {s} THEN pc' = "prune" /\ tracked' = Children
                   ELSE UNCHANGED <<pc, tracked>>
  /\ UNCHANGED <<cur, seen, respawns, cycles, outVars, life>>

SpawnChildFails(s) == pc = "spawn" /\ s \in todo /\ SpawnFails(s)

\* What drop_closed_siblings takes off the list.
Dropped == {s \in tracked : spark[s] = "other"}

\* drop_closed_siblings, then the start of poll_crew.  A failure is a warning.
Prune ==
  /\ pc = "prune"
  /\ \/ tracked' = tracked \ Dropped
     \/ Faults /\ UNCHANGED tracked
  /\ todo' = tracked'
  /\ seen' = [s \in Children |-> Unseen]
  /\ pc' = "poll"
  /\ HeadOnly /\ UNCHANGED <<cur, respawns, cycles>>

\* The state of a claim whose child is open.
OwnerState(c) ==
  CASE ~c.active -> "Unassigned"
    [] c.active /\ c.phase = "stuck" -> "Stuck"
    [] c.active /\ c.phase # "stuck" /\ ~c.fresh -> "Stalled"
    [] OTHER -> "Running"

\* Mutant: a child counts as running as long as someone holds it.
StateOf_ClaimFirst(s) ==
  IF claim[s].active THEN OwnerState(claim[s])
  ELSE IF spark[s] = "open" THEN "Unassigned" ELSE "Completed"

\* Mutant: a child without a claim is taken for finished.
StateOf_UnclaimedIsDone(s) ==
  IF claim[s].active THEN OwnerState(claim[s]) ELSE "Completed"

StateOf(s) ==
  CASE spark[s] = "completed" -> "Completed"
    [] spark[s] = "other" -> "ClosedOther"
    [] OTHER -> OwnerState(claim[s])

\* poll_crew, one member.
PollMember(s) ==
  /\ pc = "poll" /\ s \in todo
  /\ seen' = [seen EXCEPT ![s] =
                [state |-> StateOf(s), n |-> claim[s].n, sess |-> claim[s].sess,
                 block |-> claim[s].block]]
  /\ todo' = todo \ {s}
  /\ HeadOnly /\ UNCHANGED <<pc, cur, tracked, respawns, cycles>>

PollEnds ==
  /\ pc = "poll" /\ todo = {}
  /\ pc' = "notify"
  /\ HeadOnly /\ UNCHANGED <<cur, todo, tracked, seen, respawns, cycles>>

In(states) == {s \in tracked : seen[s].state \in states}
BlockSeen(s) == <<s, seen[s].n, seen[s].block>>
MarkerOf(s) == [block |-> BlockSeen(s), life |-> life, cycle |-> cycles]

\* Mutant: the marker is not looked for.
Unnotified_Ignored == In({"Stuck"})

\* Stuck members whose assignment has no marker comment on the parent yet.
Unnotified == {s \in In({"Stuck"}) :
                 \A t \in told : ~(t.block[1] = s /\ t.block[2] = seen[s].n)}

AllDone == tracked # {} /\ In({"Completed", "ClosedOther"}) = tracked

\* Mutant: the comment is written before the ember.
Notify_CommentFirst(embers, comments) ==
  /\ flared' = flared \cup {BlockSeen(s) : s \in comments}
  /\ told' = told \cup {MarkerOf(s) : s \in embers}

\* notify_stuck: for each member an ember, then the comment; an error ends the
\* pass with a warning, between the two or before either.
Notify(embers, comments) ==
  /\ flared' = flared \cup {BlockSeen(s) : s \in embers}
  /\ told' = told \cup {MarkerOf(s) : s \in comments}

NotifyStuck ==
  /\ pc = "notify"
  /\ \/ Notify(Unnotified, Unnotified)
     \/ /\ Faults
        /\ \E done \in SUBSET Unnotified :
             \/ Notify(done, done)
             \/ \E s \in Unnotified \ done : Notify(done \cup {s}, done)
  /\ pc' = IF AllDone THEN "finalize" ELSE "reassign"
  /\ todo' = IF AllDone THEN {} ELSE In({"Stalled", "Unassigned"})
  /\ UNCHANGED <<envVars, cur, tracked, seen, respawns, cycles, merger, spawned, life>>

\* Mutant: one respawn more than configured.
Capped_OneMore(s) == respawns[s] > MaxRespawns

Capped(s) == respawns[s] >= MaxRespawns

SkipCapped(s) ==
  /\ pc = "reassign" /\ s \in todo /\ Capped(s)
  /\ todo' = todo \ {s}
  /\ HeadOnly /\ UNCHANGED <<pc, cur, tracked, seen, respawns, cycles>>

\* Mutant: whoever holds the child now loses it.
Abandon_Whoever(s) == claim' = [claim EXCEPT ![s].active = FALSE]

\* assignment_repo::abandon: whatever claim the session of the report now holds
\* on the child.
Abandon(s) ==
  claim' = IF claim[s].sess = seen[s].sess THEN [claim EXCEPT ![s].active = FALSE] ELSE claim

\* reassign_stalled: release, if the member was seen stalled, ...
Release(s) ==
  /\ pc = "reassign" /\ s \in todo /\ ~Capped(s)
  /\ IF seen[s].state = "Stalled" THEN Abandon(s) ELSE UNCHANGED claim
  /\ pc' = "respawn" /\ cur' = s
  /\ UNCHANGED <<spark, todo, tracked, seen, respawns, cycles, outVars, spawned, life>>

\* ... then respawn, and count it.
Respawn ==
  /\ pc = "respawn"
  /\ ClaimFor(cur, TRUE)
  /\ respawns' = [respawns EXCEPT ![cur] = @ + 1]
  /\ pc' = "reassign" /\ cur' = NoChild /\ todo' = todo \ {cur}
  /\ UNCHANGED <<tracked, seen, cycles, outVars, life>>

RespawnFails == pc = "respawn" /\ SpawnFails(cur)

\* The end of a cycle: give up after max_cycles, or sleep and go on.
EndCycle ==
  /\ pc = "reassign" /\ todo = {}
  /\ cycles' = cycles + 1
  /\ pc' = IF cycles' >= MaxCycles THEN "done" ELSE "prune"
  /\ HeadOnly /\ UNCHANGED <<cur, todo, tracked, seen, respawns>>

\* finalize_with_merger
Finalize ==
  /\ pc = "finalize"
  /\ merger' = TRUE /\ pc' = "done"
  /\ UNCHANGED <<envVars, cur, todo, tracked, seen, respawns, cycles, told, flared,
                 spawned, life>>

HeadStep ==
  \/ \E s \in Children : \/ SpawnChild(s) \/ SpawnChildFails(s) \/ PollMember(s)
                         \/ SkipCapped(s) \/ Release(s)
  \/ Prune \/ PollEnds \/ NotifyStuck \/ Respawn \/ RespawnFails \/ EndCycle \/ Finalize

\* Any other database error, a failed Merger, or the process is killed.
HeadDies ==
  /\ Faults /\ pc \notin {"done", "dead"}
  /\ pc' = "dead"
  /\ HeadOnly /\ UNCHANGED <<cur, todo, tracked, seen, respawns, cycles>>

\* The command is started again on the same children.
Restart ==
  /\ pc = "dead" /\ life < MaxLives
  /\ life' = life + 1
  /\ pc' = "spawn" /\ cur' = NoChild /\ todo' = Children /\ tracked' = {}
  /\ seen' = [s \in Children |-> Unseen]
  /\ respawns' = [s \in Children |-> 0] /\ cycles' = 0
  /\ spawned' = [s \in Children |-> 0]
  /\ UNCHANGED <<envVars, outVars>>

Next == HeadStep \/ HeadDies \/ Restart \/ \E s \in Children : Env(s)

Spec == Init /\ [][Next]_crewVars
FairSpec == Spec /\ WF_crewVars(HeadStep)

-----------------------------------------------------------------------------
(* Properties. *)

\* One run of the command puts at most one Hand and max_respawns_per_spark
\* replacements on a child, failed launches included.
RespawnCap == \A s \in Children : spawned[s] <= 1 + MaxRespawns

\* Where no closed spark is reopened, the Merger starts on closed children only,
\* whichever of them were dropped from the list and however old the report is.
MergerAfterClose == merger => \A s \in Children : spark[s] # "open"

\* A claim the command releases is held by a session whose heartbeat on this
\* child once was too old; what a rival claimed between the poll and the release
\* is never touched.  A fresh claim of the silent session itself may be.
OnlySilentHandsLoseTheirClaim ==
  [][\A s \in Children :
       cur' = s /\ cur # s /\ claim[s].active /\ ~claim'[s].active
         => claim[s].sess \in claim[s].hushed]_crewVars

\* However often an assignment gets stuck, however many polls see it stuck and
\* whichever restart does, the parent gets one marker comment for it, from one
\* pass.
OneMarkerPerAssignment ==
  \A t, u \in told : t.block[1] = u.block[1] /\ t.block[2] = u.block[2] => t = u

\* A marker keeps later passes silent, so none exists whose flare was not sent,
\* at whatever point a pass failed.
NoSilentMarker == \A t \in told : t.block \in flared

\* Once every child is closed, one of them as completed, a command that still
\* has a full cycle left spawns the Merger, unless it dies or a child is
\* reopened.  Held claims do not keep it.
MergerComes ==
  /\ pc \in {"prune", "poll", "notify", "reassign", "respawn"}
  /\ cycles + 1 < MaxCycles
  /\ \A s \in Children : spark[s] # "open"
  /\ \E s \in tracked : spark[s] = "completed"
  ~> merger \/ pc = "dead" \/ \E s \in Children : spark[s] = "open"

\* Claimed by the docs: a Head started again picks up where the dead one left
\* off; the claims of its own Hands do not stop it.
RestartPicksUp ==
  [][\A s \in Children : pc = "spawn" /\ s \in todo /\ claim[s].active /\ claim[s].ours
       => pc' # "dead"]_crewVars
=============================================================================
