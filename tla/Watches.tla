------------------------------ MODULE Watches ------------------------------
(***************************************************************************)
(* Durable watches: data/src/sparks/watch_repo.rs and watch_runner.rs, the *)
(* scheduler task of src/watch_runner.rs and `ryve watch`.  A tick reads   *)
(* the due watches once and then fires one after the other, each in a      *)
(* transaction that claims the slot and writes the WatchFired row; several *)
(* apps may tick one database while the CLI creates, cancels and replaces  *)
(* watches and the watched sparks move.                                    *)
(*                                                                         *)
(* Names begin with "watch" where another component has the same one.      *)
(***************************************************************************)
EXTENDS Naturals, Sequences

CONSTANTS
  Watch,      \* watch ids
  Intent,     \* (target_spark_id, intent_label) pairs
  IntentOf, CadenceOf, Until,  \* what the maker of each watch asks for; no
              \* statement changes these columns.  Until: the watches whose
              \* stop condition is UntilSparkStatus, the one kind that can hold
  Runner,     \* scheduler tasks on one database
  CronRetry,  \* seconds until a cron watch is looked at again
  MaxTime,    \* bound on the clock
  MaxFaults   \* bound on failing ticks

ASSUME WatchConstants ==
  /\ IntentOf \in [Watch -> Intent]
  /\ CadenceOf \in [Watch -> [cron : BOOLEAN, secs : Nat]]
  /\ Until \subseteq Watch
  /\ CronRetry \in Nat \ {0}
  /\ MaxTime \in Nat /\ MaxFaults \in Nat

VARIABLES
  clock,    \* wall-clock time in seconds
  row,      \* row[w]: the watches row
  fired,    \* fired[w]: its WatchFired rows of event_outbox
  reached,  \* the watched spark has the status the stop conditions name
  pass,     \* pass[r]: the tick under way: its `now` and what is left of `due`
  faults    \* ticks that have failed so far

watchVars == <<clock, row, fired, reached, pass, faults>>

WatchStatus == {"absent", "active", "completed", "cancelled"}
WatchRow == [status : WatchStatus, next : Nat]
Firing == [slot : Nat, at : Nat]
Due == [watch : Watch, slot : Nat]
Idle == [at |-> 0, due |-> {}]

WatchTypeOK ==
  /\ clock \in Nat
  /\ row \in [Watch -> WatchRow]
  /\ fired \in [Watch -> Seq(Firing)]
  /\ reached \in BOOLEAN
  /\ pass \in [Runner -> [at : Nat, due : SUBSET Due]]
  /\ faults \in Nat

WatchInit ==
  /\ clock = 0
  /\ row = [w \in Watch |-> [status |-> "absent", next |-> 0]]
  /\ fired = [w \in Watch |-> <<>>]
  /\ reached = FALSE
  /\ pass = [r \in Runner |-> Idle]
  /\ faults = 0

-----------------------------------------------------------------------------
(* The repository and `ryve watch`. *)

\* idx_watches_target_intent_live: one row that is not cancelled per pair.
Taken(i, except) ==
  \E w \in Watch \ except :
    row[w].status \in {"active", "completed"} /\ IntentOf[w] = i

\* initial_next_fire_at: a cron watch is due at once.
FirstSlot(c) == IF c.cron THEN clock ELSE clock + c.secs

NewRow(w) == [status |-> "active", next |-> FirstSlot(CadenceOf[w])]

Create(w) ==
  /\ row[w].status = "absent"
  /\ ~Taken(IntentOf[w], {})
  /\ row' = [row EXCEPT ![w] = NewRow(w)]
  /\ UNCHANGED <<clock, fired, reached, pass, faults>>

\* Whatever the status: a completed watch may be cancelled too.
Cancel(w) ==
  /\ row[w].status # "absent"
  /\ row' = [row EXCEPT ![w].status = "cancelled"]
  /\ UNCHANGED <<clock, fired, reached, pass, faults>>

\* One transaction: the old row is cancelled, whatever its status, and the new
\* one inserted unless another live row has its pair.
Replace(w, v) ==
  /\ row[w].status # "absent" /\ row[v].status = "absent"
  /\ ~Taken(IntentOf[v], {w})
  /\ row' = [row EXCEPT ![w].status = "cancelled", ![v] = NewRow(v)]
  /\ UNCHANGED <<clock, fired, reached, pass, faults>>

-----------------------------------------------------------------------------
(* The scheduler. *)

\* Mutant: the loop stops at `next < now`.
NextSlotAfter_Now(c, scheduled, now) ==
  IF c.cron THEN now + CronRetry
  ELSE LET step == IF c.secs = 0 THEN 1 ELSE c.secs
       IN IF now <= scheduled THEN scheduled + step
          ELSE scheduled + step * ((now - scheduled + step - 1) \div step)

\* The first slot after both; the source adds step until it is past now.
NextSlotAfter(c, scheduled, now) ==
  IF c.cron THEN now + CronRetry
  ELSE LET step == IF c.secs = 0 THEN 1 ELSE c.secs
       IN IF now < scheduled THEN scheduled + step
          ELSE scheduled + step * ((now - scheduled) \div step + 1)

\* due_at
IsDue(w, now) == row[w].status = "active" /\ row[w].next <= now

\* tick: one read of what is due.
StartTick(r) ==
  /\ pass[r].due = {}
  /\ \E w \in Watch : IsDue(w, clock)
  /\ pass' = [pass EXCEPT ![r] =
                [at |-> clock,
                 due |-> {[watch |-> w, slot |-> row[w].next] :
                            w \in {v \in Watch : IsDue(v, clock)}}]]
  /\ UNCHANGED <<clock, row, fired, reached, faults>>

\* Mutant: the claim does not compare the slot.
ClaimsSlot_ByStatus(w, slot) == row[w].status = "active"

\* mark_fired_in_tx, mark_completed_in_tx: the WHERE clause.
ClaimsSlot(w, slot) == row[w].status = "active" /\ row[w].next = slot

Without(p, d) == IF p.due = {d} THEN Idle ELSE [p EXCEPT !.due = p.due \ {d}]

\* Mutant: a slot that is lost to somebody else is tried again.
Fire_RetriesLost(r, d) ==
  /\ d \in pass[r].due
  /\ \A e \in pass[r].due : d.slot <= e.slot
  /\ ClaimsSlot(d.watch, d.slot)
  /\ pass' = [pass EXCEPT ![r] = Without(pass[r], d)]
  /\ fired' = [fired EXCEPT ![d.watch] =
                 Append(fired[d.watch], [slot |-> d.slot, at |-> pass[r].at])]
  /\ row' = IF d.watch \in Until /\ reached
            THEN [row EXCEPT ![d.watch].status = "completed"]
            ELSE [row EXCEPT ![d.watch].next =
                    NextSlotAfter(CadenceOf[d.watch], d.slot, pass[r].at)]
  /\ UNCHANGED <<clock, reached, faults>>

\* fire_one: the stop condition, the claim and the WatchFired row commit
\* together; a slot somebody else has claimed is passed over.
Fire(r, d) ==
  /\ d \in pass[r].due
  /\ \A e \in pass[r].due : d.slot <= e.slot
  /\ pass' = [pass EXCEPT ![r] = Without(pass[r], d)]
  /\ LET w == d.watch
         stop == w \in Until /\ reached
         next == NextSlotAfter(CadenceOf[w], d.slot, pass[r].at)
     IN IF ClaimsSlot(w, d.slot)
        THEN /\ fired' = [fired EXCEPT ![w] =
                            Append(fired[w], [slot |-> d.slot, at |-> pass[r].at])]
             /\ row' = IF stop THEN [row EXCEPT ![w].status = "completed"]
                       ELSE [row EXCEPT ![w].next = next]
        ELSE UNCHANGED <<fired, row>>
  /\ UNCHANGED <<clock, reached, faults>>

\* A statement fails, say because the read of the stop condition has been
\* overtaken by another writer: its transaction rolls back and `?` ends the
\* pass.  A process that dies leaves the same behind.
TickFails(r) ==
  /\ pass[r].due # {} /\ faults < MaxFaults
  /\ faults' = faults + 1
  /\ pass' = [pass EXCEPT ![r] = Idle]
  /\ UNCHANGED <<clock, row, fired, reached>>

-----------------------------------------------------------------------------
(* The world. *)

\* Time, in jumps: nothing need be running meanwhile.
TimePasses ==
  /\ \E t \in (clock + 1)..MaxTime : clock' = t
  /\ UNCHANGED <<row, fired, reached, pass, faults>>

\* The watched spark gets to the status, or leaves it again.
SparkMoves ==
  /\ reached' = ~reached
  /\ UNCHANGED <<clock, row, fired, pass, faults>>

Serve(r) == StartTick(r) \/ \E d \in pass[r].due : Fire(r, d)

WatchNext ==
  \/ TimePasses
  \/ SparkMoves
  \/ \E w \in Watch : Create(w) \/ Cancel(w)
  \/ \E w, v \in Watch : Replace(w, v)
  \/ \E r \in Runner : Serve(r) \/ TickFails(r)

WatchSpec == WatchInit /\ [][WatchNext]_watchVars

\* The app ticks every RYVE_WATCH_TICK_SECS and each tick goes through its list.
WatchFairness == \A r \in Runner : WF_watchVars(Serve(r))

-----------------------------------------------------------------------------
(* Properties. *)

Stage(w) ==
  CASE row[w].status = "absent" -> "none"
    [] row[w].status = "active" -> "open"
    [] OTHER -> "closed"

Schedule == INSTANCE WatchSchedule WITH
  Watchers <- Watch,
  Plan <- CadenceOf,
  stage <- [w \in Watch |-> Stage(w)],
  told <- fired

\* "exactly-once per (watch_id, scheduled_fire_at)" (watch_repo.rs), "fires
\* once and resumes cadence rather than replaying the whole backlog"
\* (watch_runner.rs): delayed passes of two schedulers, failing ticks,
\* downtime, cancelling and replacing included, the WatchFired rows of a watch
\* are those of its schedule.
ImplementsSchedule == Schedule!ScheduleSpec

\* A due watch does not stay due: it fires or is ended, though ticks fail and
\* other watches are cancelled or replaced in the middle of a pass.
DueIsServed ==
  \A w \in Watch : IsDue(w, clock) ~> ~IsDue(w, clock)
=============================================================================
