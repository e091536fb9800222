--------------------------- MODULE WatchSchedule ---------------------------
(***************************************************************************)
(* What the watch scheduler promises of one watch, whoever ticks it and    *)
(* whatever happens to it: it is told of slots of its own schedule only,   *)
(* each once, never before the slot; after downtime of one of the missed   *)
(* slots and then of the first one still to come; and of nothing once it   *)
(* is completed or cancelled.                                              *)
(***************************************************************************)
EXTENDS Naturals, Sequences

CONSTANTS Watchers, Plan, CronRetry

VARIABLES stage,  \* stage[w]: none, open or closed
          told    \* told[w]: the slots it was told of, and when

scheduleVars == <<stage, told>>

\* s is the first slot after t of the schedule that p and slot s0 lie on.
FirstSlotAfter(p, s0, t, s) ==
  IF p.cron THEN s = t + CronRetry
  ELSE LET step == IF p.secs = 0 THEN 1 ELSE p.secs
       IN /\ s > t /\ s > s0
          /\ \E k \in 1..(s - s0) : s = s0 + k * step
          /\ s - step <= t \/ s - step <= s0

ScheduleInit ==
  /\ stage = [w \in Watchers |-> "none"]
  /\ told = [w \in Watchers |-> <<>>]

Open(w) ==
  /\ stage[w] = "none"
  /\ stage' = [stage EXCEPT ![w] = "open"]
  /\ UNCHANGED told

\* f is read off the new history, which grows by it.
Tell(w, last) ==
  LET f == told'[w][Len(told[w]) + 1]
      prev == told[w][Len(told[w])]
  IN /\ stage[w] = "open"
     /\ Len(told'[w]) = Len(told[w]) + 1
     /\ f.slot <= f.at
     /\ told[w] # <<>> => FirstSlotAfter(Plan[w], prev.slot, prev.at, f.slot)
     /\ told' = [told EXCEPT ![w] = Append(told[w], f)]
     /\ stage' = [stage EXCEPT ![w] = IF last THEN "closed" ELSE "open"]

\* A replacement closes one and opens another at once.
CloseThen(w, v) ==
  /\ stage[w] # "none" /\ stage[v] = "none"
  /\ stage' = [stage EXCEPT ![w] = "closed", ![v] = "open"]
  /\ UNCHANGED told

Close(w) ==
  /\ stage[w] # "none"
  /\ stage' = [stage EXCEPT ![w] = "closed"]
  /\ UNCHANGED told

ScheduleNext ==
  \E w \in Watchers :
    \/ Open(w) \/ Close(w)
    \/ \E v \in Watchers : CloseThen(w, v)
    \/ \E last \in BOOLEAN : Tell(w, last)

ScheduleSpec == ScheduleInit /\ [][ScheduleNext]_scheduleVars
=============================================================================
