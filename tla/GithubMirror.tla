---------------------------- MODULE GithubMirror ----------------------------
(***************************************************************************)
(* The GitHub mirror of data/src/github: a poller that fetches what        *)
(* happened to a pull request since its cursor and applies each event in a *)
(* transaction of its own (poller.rs, applier.rs), while the assignment's  *)
(* Hands move its phase themselves.  One pull request, one assignment.     *)
(*                                                                         *)
(* Whatever starts the poller, and the closure that does the HTTP request, *)
(* are outside the repository.  The closure returns all events since the   *)
(* cursor.  run_forever returns at the first error of a tick; the caller   *)
(* may start it again, and need not.                                       *)
(***************************************************************************)
EXTENDS Naturals, Phases

CONSTANTS
  Event,       \* the events, numbered in the order GitHub lists them
  Stories,     \* what kind of event each can be: functions from Event to Kind
  FirstPhase,  \* phases the assignment can be in when its branch is pushed
  MaxNow,      \* bound on the clock
  MaxTrouble   \* bound on failing fetches, busy databases and restarts

Kind == {"opened", "approved", "changes", "ci_failed", "merged",
         "ignored", "unsupported", "malformed"}

ASSUME MirrorConstants ==
  /\ Event \subseteq Nat
  /\ Stories \subseteq [Event -> Kind]
  /\ FirstPhase \subseteq Phase \cup {NullPhase}
  /\ MaxNow \in Nat /\ MaxTrouble \in Nat

VARIABLES
  now,       \* seconds on the clock that GitHub and the poller share
  story,     \* the kinds of the events
  postedAt,  \* postedAt[e]: when e happened, 0 before that
  phase,     \* assignments.assignment_phase
  linked,    \* github_artifact_pr_number is set
  seen,      \* github_events_seen
  effects,   \* effects[e]: rows that e has put into event_outbox
  cursor,    \* Poller.cursor
  throttled, \* throttled_until_epoch or an exhausted quota lies ahead
  tick,      \* the tick under way
  trouble    \* what has gone wrong so far

mirrorVars == <<now, story, postedAt, phase, linked, seen, effects, cursor,
                throttled, tick, trouble>>

\* Between two ticks, and after run_forever has returned.
NoTick == [stage |-> "idle", at |-> 0, todo |-> {}, observed |-> 0]

Stopped == [NoTick EXCEPT !.stage = "stopped"]

Ticks == [stage : {"idle", "fetching", "applying", "stopped"}, at : Nat,
          todo : SUBSET Event, observed : Nat]

MirrorTypeOK ==
  /\ now \in Nat \ {0}
  /\ story \in [Event -> Kind]
  /\ postedAt \in [Event -> Nat]
  /\ phase \in Phase \cup {NullPhase}
  /\ linked \in BOOLEAN
  /\ seen \subseteq Event
  /\ effects \in [Event -> Nat]
  /\ cursor \in Nat
  /\ throttled \in BOOLEAN
  /\ tick \in Ticks
  /\ trouble \in Nat

MirrorInit ==
  /\ now = 1 /\ cursor = 0 /\ trouble = 0
  /\ story \in Stories
  /\ phase \in FirstPhase
  /\ postedAt = [e \in Event |-> 0]
  /\ effects = [e \in Event |-> 0]
  /\ linked = FALSE /\ throttled = FALSE
  /\ seen = {}
  /\ tick = NoTick

-----------------------------------------------------------------------------
(* What happens elsewhere. *)

Post(e) ==
  /\ postedAt[e] = 0
  /\ \A f \in Event : f < e => postedAt[f] # 0
  /\ postedAt' = [postedAt EXCEPT ![e] = now]
  /\ UNCHANGED <<now, story, phase, linked, seen, effects, cursor, throttled,
                 tick, trouble>>

SecondPasses ==
  /\ now < MaxNow
  /\ now' = now + 1
  /\ UNCHANGED <<story, postedAt, phase, linked, seen, effects, cursor,
                 throttled, tick, trouble>>

\* A Hand goes on with the assignment through transition.rs.
HandMoves ==
  /\ \E role \in {"hand", "reviewer_hand", "merge_hand"}, target \in Phase :
       /\ ValidTransition(phase, target, phase, role, FALSE)
       /\ phase' = target
  /\ UNCHANGED <<now, story, postedAt, linked, seen, effects, cursor, throttled,
                 tick, trouble>>

-----------------------------------------------------------------------------
(* A tick: the gate, the fetch, the events one by one, the cursor. *)

\* The instant is read before the request goes out.
BeginTick ==
  /\ tick.stage = "idle" /\ ~throttled
  /\ tick' = [NoTick EXCEPT !.stage = "fetching", !.at = now]
  /\ UNCHANGED <<now, story, postedAt, phase, linked, seen, effects, cursor,
                 throttled, trouble>>

Since(c) == {e \in Event : postedAt[e] # 0 /\ postedAt[e] >= c}

\* observed_cursor is the time of the last event, or None.  The headers of any
\* answer may say that the quota is used up.
FetchAnswered ==
  /\ tick.stage = "fetching"
  /\ \E observed \in {0} \cup {postedAt[e] : e \in Since(cursor)} :
       /\ \A e \in Since(cursor) : observed # 0 => postedAt[e] <= observed
       /\ tick' = [tick EXCEPT !.stage = "applying", !.todo = Since(cursor),
                               !.observed = observed]
  /\ throttled' \in BOOLEAN
  /\ UNCHANGED <<now, story, postedAt, phase, linked, seen, effects, cursor, trouble>>

\* classify: 403, 429 and 5xx throttle the poller; a transport error or any other
\* status stops it.
FetchFailed ==
  /\ tick.stage = "fetching" /\ trouble < MaxTrouble
  /\ trouble' = trouble + 1
  /\ \/ throttled' = TRUE /\ tick' = NoTick
     \/ throttled' \in BOOLEAN /\ tick' = Stopped
  /\ UNCHANGED <<now, story, postedAt, phase, linked, seen, effects, cursor>>

\* Every wait is finite; its end shows between two ticks.
ThrottleEnds ==
  /\ throttled /\ tick.stage = "idle"
  /\ throttled' = FALSE
  /\ UNCHANGED <<now, story, postedAt, phase, linked, seen, effects, cursor,
                 tick, trouble>>

\* dispatch: where each kind takes the assignment, and in whose name.
Target(k) ==
  CASE k = "approved" -> "approved"
    [] k = "changes" \/ k = "ci_failed" -> "rejected"
    [] OTHER -> "merged"
Role(k) == IF k = "merged" THEN "merge_hand" ELSE "reviewer_hand"

Moves == {"approved", "changes", "ci_failed", "merged"}

Legal(k) == ValidTransition(phase, Target(k), phase, Role(k), FALSE)

\* apply_transition returns an error: the transition is not legal.  Its other
\* check, that the reviewer is not the author, compares a GitHub login with the
\* actor id of a session and never fails.
IsRefused(k) == k \in Moves /\ linked /\ ~Legal(k)

\* Rows that e leaves in event_outbox: the artifact, the transition, or a
\* warning.  A phase that is NULL is refused without one.
Rows(k) ==
  CASE k = "opened" -> IF linked THEN 0 ELSE 1
    [] k \in Moves -> IF linked /\ phase = NullPhase THEN 0 ELSE 1
    [] OTHER -> 0

\* Mutant: the id of an event that is refused is not kept.
Marked_UnlessRefused(k) == ~IsRefused(k)

\* apply marks what it has decided on, refusals included.
Marked(k) == TRUE

\* The transaction of one event, and the end of the loop when it is refused.
ApplyNext(e) ==
  /\ tick.stage = "applying" /\ e \in tick.todo
  /\ \A f \in tick.todo : e <= f
  /\ LET k == story[e]
     IN /\ tick' = IF k = "malformed" \/ (e \notin seen /\ IsRefused(k))
                   THEN Stopped ELSE [tick EXCEPT !.todo = tick.todo \ {e}]
        /\ IF e \in seen \/ k \in {"malformed", "unsupported"}
           THEN UNCHANGED <<phase, linked, seen, effects>>
           ELSE /\ seen' = IF Marked(k) THEN seen \cup {e} ELSE seen
                /\ effects' = [effects EXCEPT ![e] = effects[e] + Rows(k)]
                /\ linked' = (linked \/ k = "opened")
                /\ phase' = IF k \in Moves /\ linked /\ Legal(k)
                            THEN Target(k) ELSE phase
  /\ UNCHANGED <<now, story, postedAt, cursor, throttled, trouble>>

\* A statement finds the database busy, say because a Hand has written since
\* the transaction began: nothing is written, nothing marked, the loop returns.
ApplyBusy ==
  /\ tick.stage = "applying" /\ tick.todo # {} /\ trouble < MaxTrouble
  /\ trouble' = trouble + 1
  /\ tick' = Stopped
  /\ UNCHANGED <<now, story, postedAt, phase, linked, seen, effects, cursor,
                 throttled>>

Later(a, b) == IF a > b THEN a ELSE b

\* Mutant: without an observed cursor the poller takes the end of the tick.
FinishTick_Now ==
  /\ tick.stage = "applying" /\ tick.todo = {}
  /\ cursor' = Later(cursor, IF tick.observed = 0 THEN now ELSE tick.observed)
  /\ tick' = NoTick
  /\ UNCHANGED <<now, story, postedAt, phase, linked, seen, effects, throttled,
                 trouble>>

FinishTick ==
  /\ tick.stage = "applying" /\ tick.todo = {}
  /\ cursor' = Later(cursor, IF tick.observed = 0 THEN tick.at ELSE tick.observed)
  /\ tick' = NoTick
  /\ UNCHANGED <<now, story, postedAt, phase, linked, seen, effects, throttled,
                 trouble>>

\* The process of the poller ends.
Dies ==
  /\ tick.stage # "stopped" /\ trouble < MaxTrouble
  /\ trouble' = trouble + 1
  /\ tick' = Stopped
  /\ UNCHANGED <<now, story, postedAt, phase, linked, seen, effects, cursor,
                 throttled>>

\* The caller starts it again, with the same Poller, or a new one and a cursor it
\* kept or an older one.
Restart ==
  /\ tick.stage = "stopped"
  /\ tick' = NoTick
  /\ cursor' \in 0..cursor
  /\ throttled' \in {throttled, FALSE}
  /\ UNCHANGED <<now, story, postedAt, phase, linked, seen, effects, trouble>>

PollStep ==
  \/ BeginTick \/ FetchAnswered \/ FinishTick
  \/ \E e \in Event : ApplyNext(e)

MirrorNext ==
  \/ PollStep \/ FetchFailed \/ ApplyBusy \/ ThrottleEnds \/ Dies \/ Restart
  \/ SecondPasses \/ HandMoves
  \/ \E e \in Event : Post(e)

MirrorSpec == MirrorInit /\ [][MirrorNext]_mirrorVars

\* run_forever goes on ticking until an error stops it, and every wait ends.
MirrorFairness == WF_mirrorVars(PollStep) /\ WF_mirrorVars(ThrottleEnds)

-----------------------------------------------------------------------------
(* Properties. *)

\* "idempotent on github_event_id" (applier.rs): fetched again after an error,
\* a restart with an older cursor or within one second, an event has its
\* effect once; a refusal is reported once.
EachEventOnce == \A e \in Event : effects[e] <= 1

\* The cursor never passes an event that was not dealt with, whatever a tick
\* broke off at and whenever the event happened between the start of the tick,
\* the request and the end.
CursorBehindUnseen ==
  \A e \in Event :
    postedAt[e] # 0 /\ postedAt[e] < cursor =>
      e \in seen \/ story[e] = "unsupported"

\* A poller deals with every event, as often as it is stopped before that and
\* started again, or is stopped for good; each refused event stops it.  Only what
\* comes after an event that does not parse may wait for ever.
EventsSettle ==
  \A e \in Event :
    (/\ postedAt[e] # 0 /\ story[e] # "unsupported"
     /\ \A f \in Event : f <= e => story[f] # "malformed")
      ~> (e \in seen \/ [](tick.stage = "stopped"))
=============================================================================
