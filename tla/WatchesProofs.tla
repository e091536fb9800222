--------------------------- MODULE WatchesProofs ---------------------------
(***************************************************************************)
(* For any watches, cadences, number of schedulers and interleaving: the   *)
(* WatchFired rows of every watch are those of its schedule.               *)
(***************************************************************************)
EXTENDS Watches, SequenceTheorems, WellFoundedInduction, TLAPS

\* A slot in a pass was due when the pass began.
DueIsPast == \A r \in Runner : \A d \in pass[r].due : d.slot <= pass[r].at

UnmadeIsUntold == \A w \in Watch : row[w].status = "absent" => fired[w] = <<>>

\* The slot an active watch waits for is the one after its last firing.
OnSchedule ==
  \A w \in Watch :
    (row[w].status = "active" /\ fired[w] # <<>>) =>
      row[w].next = NextSlotAfter(CadenceOf[w], fired[w][Len(fired[w])].slot,
                                  fired[w][Len(fired[w])].at)

WatchInv == WatchTypeOK /\ DueIsPast /\ UnmadeIsUntold /\ OnSchedule

-----------------------------------------------------------------------------
(* Arithmetic of the schedule. *)

LEMMA DivBounds ==
  ASSUME NEW x \in Nat, NEW m \in Nat, m > 0
  PROVE  x \div m \in Nat /\ m * (x \div m) <= x /\ x < m * (x \div m) + m
BY SMT

\* The slot computed by the code is the first one after now, on the schedule.
LEMMA NextIsFirst ==
  ASSUME NEW c \in [cron : BOOLEAN, secs : Nat], NEW s \in Nat, NEW now \in Nat
  PROVE  /\ NextSlotAfter(c, s, now) \in Nat
         /\ Schedule!FirstSlotAfter(c, s, now, NextSlotAfter(c, s, now))
<1> USE WatchConstants
<1>1. CASE c.cron
  BY <1>1 DEF NextSlotAfter, Schedule!FirstSlotAfter
<1>2. CASE ~c.cron
  <2> DEFINE step == IF c.secs = 0 THEN 1 ELSE c.secs
             next == NextSlotAfter(c, s, now)
  <2>1. step \in Nat /\ step > 0
    OBVIOUS
  <2>2. CASE now < s
    <3>1. next = s + step
      BY <1>2, <2>2 DEF NextSlotAfter
    <3>2. 1 \in 1..(next - s) /\ next = s + 1 * step
      BY <2>1, <3>1
    <3> HIDE DEF next, step
    <3>3. next \in Nat /\ next > now /\ next > s /\ next - step <= s
      BY <2>1, <2>2, <3>1
    <3>4. \E k \in 1..(next - s) : next = s + k * step
      BY <3>2
    <3> QED
      BY <1>2, <3>3, <3>4 DEF Schedule!FirstSlotAfter, next, step
  <2>3. CASE ~(now < s)
    <3> DEFINE k == (now - s) \div step + 1
    <3>1. now - s \in Nat
      BY <2>3
    <3>2. /\ (now - s) \div step \in Nat
          /\ step * ((now - s) \div step) <= now - s
          /\ now - s < step * ((now - s) \div step) + step
      BY <2>1, <3>1, DivBounds
    <3>3. next = s + step * k
      BY <1>2, <2>3 DEF NextSlotAfter
    <3>4. step * k = step * ((now - s) \div step) + step /\ step * k = k * step
      BY <2>1, <3>2, SMT
    <3>5. k \in Nat /\ k >= 1 /\ k <= step * k
      BY <2>1, <3>2, SMT
    <3> HIDE DEF k, next, step
    <3>6. next \in Nat /\ next > now /\ next > s /\ next - step <= now
      BY <2>1, <2>3, <3>2, <3>3, <3>4
    <3>7. \E j \in 1..(next - s) : next = s + j * step
      <4>1. k \in 1..(next - s)
        BY <2>1, <3>3, <3>4, <3>5, <3>6
      <4>2. next = s + k * step
        BY <3>3, <3>4
      <4> QED
        BY <4>1, <4>2
    <3> QED
      BY <1>2, <3>6, <3>7 DEF Schedule!FirstSlotAfter, next, step
  <2> QED
    BY <2>2, <2>3
<1> QED
  BY <1>1, <1>2

-----------------------------------------------------------------------------
(* The invariant. *)

LEMMA InitWatchInv == WatchInit => WatchInv
<1> SUFFICES ASSUME WatchInit PROVE WatchInv
  OBVIOUS
<1>1. Idle \in [at : Nat, due : SUBSET Due] /\ Idle.due = {}
  BY DEF Idle
<1>2. [status |-> "absent", next |-> 0] \in WatchRow
  BY DEF WatchRow, WatchStatus
<1>3. /\ pass \in [Runner -> [at : Nat, due : SUBSET Due]]
      /\ row \in [Watch -> WatchRow] /\ fired \in [Watch -> Seq(Firing)]
  BY <1>1, <1>2 DEF WatchInit
<1>4. DueIsPast
  BY <1>1 DEF WatchInit, DueIsPast
<1> QED
  BY <1>3, <1>4 DEF WatchInit, WatchInv, WatchTypeOK, UnmadeIsUntold, OnSchedule

LEMMA NewRowType ==
  ASSUME WatchTypeOK, NEW w \in Watch
  PROVE  NewRow(w) \in WatchRow /\ NewRow(w).status = "active"
BY WatchConstants DEF WatchTypeOK, NewRow, FirstSlot, WatchRow, WatchStatus

\* What Create, Cancel and Replace may do to a row.
RowMoves(w) ==
  \/ row'[w] = row[w]
  \/ row[w].status # "absent" /\ row'[w] = [row[w] EXCEPT !.status = "cancelled"]
  \/ row[w].status = "absent" /\ row'[w].status = "active"

LEMMA RepoEffect ==
  ASSUME WatchTypeOK,
         \/ \E w \in Watch : Create(w) \/ Cancel(w)
         \/ \E w, v \in Watch : Replace(w, v)
  PROVE  /\ row' \in [Watch -> WatchRow]
         /\ \A w \in Watch : RowMoves(w)
         /\ UNCHANGED <<clock, fired, reached, pass, faults>>
<1>0. row \in [Watch -> WatchRow]
  BY DEF WatchTypeOK
<1>1. ASSUME NEW w \in Watch, Create(w)
      PROVE  row' \in [Watch -> WatchRow] /\ \A u \in Watch : RowMoves(u)
  <2>1. NewRow(w) \in WatchRow /\ NewRow(w).status = "active"
    BY NewRowType
  <2> QED
    BY <1>0, <1>1, <2>1 DEF Create, RowMoves
<1>2. ASSUME NEW w \in Watch, Cancel(w)
      PROVE  row' \in [Watch -> WatchRow] /\ \A u \in Watch : RowMoves(u)
  BY <1>0, <1>2 DEF Cancel, RowMoves, WatchRow, WatchStatus
<1>3. ASSUME NEW w \in Watch, NEW v \in Watch, Replace(w, v)
      PROVE  row' \in [Watch -> WatchRow] /\ \A u \in Watch : RowMoves(u)
  <2>1. NewRow(v) \in WatchRow /\ NewRow(v).status = "active"
    BY NewRowType
  <2>2. w # v
    BY <1>3 DEF Replace
  <2> DEFINE gone == [row[w] EXCEPT !.status = "cancelled"]
  <2>3. gone \in WatchRow
    BY <1>0 DEF WatchRow, WatchStatus
  <2>4. row' = [row EXCEPT ![w] = gone, ![v] = NewRow(v)]
    BY <1>3, <1>0 DEF Replace
  <2> HIDE DEF gone
  <2>5. /\ row'[w] = gone /\ row'[v] = NewRow(v)
        /\ \A u \in Watch \ {w, v} : row'[u] = row[u]
    BY <1>0, <2>2, <2>4
  <2>6. row' \in [Watch -> WatchRow]
    BY <1>0, <2>1, <2>3, <2>4
  <2>7. row[w].status # "absent" /\ row[v].status = "absent"
    BY <1>3 DEF Replace
  <2> QED
    BY <2>1, <2>5, <2>6, <2>7 DEF RowMoves, gone
<1> QED
  BY <1>1, <1>2, <1>3 DEF Create, Cancel, Replace

\* What a firing does to its watch.
LEMMA FireEffect ==
  ASSUME WatchInv, NEW r \in Runner, NEW d \in pass[r].due, Fire(r, d)
  PROVE  /\ d.watch \in Watch /\ d.slot \in Nat /\ pass[r].at \in Nat
         /\ d.slot <= pass[r].at
         /\ pass' \in [Runner -> [at : Nat, due : SUBSET Due]] /\ DueIsPast'
         /\ \/ UNCHANGED <<fired, row>>
            \/ /\ ClaimsSlot(d.watch, d.slot)
               /\ fired' = [fired EXCEPT ![d.watch] =
                     Append(fired[d.watch], [slot |-> d.slot, at |-> pass[r].at])]
               /\ \/ row' = [row EXCEPT ![d.watch].status = "completed"]
                  \/ row' = [row EXCEPT ![d.watch].next =
                               NextSlotAfter(CadenceOf[d.watch], d.slot, pass[r].at)]
         /\ UNCHANGED <<clock, reached, faults>>
<1>1. pass \in [Runner -> [at : Nat, due : SUBSET Due]] /\ DueIsPast
  BY DEF WatchInv, WatchTypeOK
<1>2. /\ d.watch \in Watch /\ d.slot \in Nat /\ pass[r].at \in Nat
      /\ d.slot <= pass[r].at
  BY <1>1 DEF DueIsPast, Due
<1> DEFINE left == Without(pass[r], d)
<1>3. /\ left \in [at : Nat, due : SUBSET Due]
      /\ \A e \in left.due : e.slot <= left.at
  BY <1>1 DEF Without, Idle, DueIsPast
<1>4. pass' = [pass EXCEPT ![r] = left]
  BY DEF Fire
<1> HIDE DEF left
<1>5. pass' \in [Runner -> [at : Nat, due : SUBSET Due]] /\ DueIsPast'
  BY <1>1, <1>3, <1>4 DEF DueIsPast
<1> QED
  BY <1>2, <1>5 DEF Fire

LEMMA StepWatchInv == WatchInv /\ [WatchNext]_watchVars => WatchInv'
<1> SUFFICES ASSUME WatchInv, [WatchNext]_watchVars PROVE WatchInv'
  OBVIOUS
<1> USE WatchConstants
<1>0. /\ clock \in Nat /\ row \in [Watch -> WatchRow] /\ faults \in Nat
      /\ fired \in [Watch -> Seq(Firing)] /\ reached \in BOOLEAN
      /\ pass \in [Runner -> [at : Nat, due : SUBSET Due]]
  BY DEF WatchInv, WatchTypeOK
<1>1. CASE TimePasses \/ SparkMoves
  <2>a. clock' \in Nat
    BY <1>0, <1>1 DEF TimePasses, SparkMoves
  <2>b. reached' \in BOOLEAN
    BY <1>0, <1>1, Zenon DEF TimePasses, SparkMoves
  <2>1. clock' \in Nat /\ reached' \in BOOLEAN
    BY <2>a, <2>b
  <2>2. UNCHANGED <<row, fired, pass, faults>>
    BY <1>1 DEF TimePasses, SparkMoves
  <2> QED
    BY <1>0, <2>1, <2>2 DEF WatchInv, WatchTypeOK, DueIsPast, UnmadeIsUntold,
                            OnSchedule
<1>2. CASE \/ \E w \in Watch : Create(w) \/ Cancel(w)
           \/ \E w, v \in Watch : Replace(w, v)
  <2>1. /\ row' \in [Watch -> WatchRow]
        /\ \A w \in Watch : RowMoves(w)
        /\ UNCHANGED <<clock, fired, reached, pass, faults>>
    BY <1>2, RepoEffect DEF WatchInv
  <2>2. WatchTypeOK' /\ DueIsPast'
    BY <1>0, <2>1 DEF WatchInv, WatchTypeOK, DueIsPast
  <2>3. UnmadeIsUntold'
    BY <1>0, <2>1 DEF WatchInv, UnmadeIsUntold, RowMoves, WatchRow
  <2>4. OnSchedule'
    BY <1>0, <2>1 DEF WatchInv, UnmadeIsUntold, OnSchedule, RowMoves, WatchRow
  <2> QED
    BY <2>2, <2>3, <2>4 DEF WatchInv
<1>3. ASSUME NEW r \in Runner, StartTick(r)
      PROVE  WatchInv'
  <2> DEFINE begun == [at |-> clock,
                       due |-> {[watch |-> w, slot |-> row[w].next] :
                                  w \in {v \in Watch : IsDue(v, clock)}}]
  <2>1. /\ begun \in [at : Nat, due : SUBSET Due]
        /\ \A d \in begun.due : d.slot <= begun.at
    BY <1>0 DEF Due, IsDue, WatchRow
  <2>2. pass' = [pass EXCEPT ![r] = begun]
    BY <1>3 DEF StartTick
  <2> HIDE DEF begun
  <2> QED
    BY <1>0, <1>3, <2>1, <2>2 DEF StartTick, WatchInv, WatchTypeOK, DueIsPast,
                                  UnmadeIsUntold, OnSchedule
<1>4. ASSUME NEW r \in Runner, TickFails(r)
      PROVE  WatchInv'
  BY <1>0, <1>4 DEF TickFails, Idle, WatchInv, WatchTypeOK, DueIsPast,
                    UnmadeIsUntold, OnSchedule
<1>5. ASSUME NEW r \in Runner, NEW d \in pass[r].due, Fire(r, d)
      PROVE  WatchInv'
  <2> DEFINE w == d.watch
             shot == [slot |-> d.slot, at |-> pass[r].at]
  <2>1. /\ w \in Watch /\ d.slot \in Nat /\ pass[r].at \in Nat
        /\ pass' \in [Runner -> [at : Nat, due : SUBSET Due]] /\ DueIsPast'
        /\ UNCHANGED <<clock, reached, faults>>
    BY <1>5, FireEffect
  <2>2. CASE UNCHANGED <<fired, row>>
    BY <1>0, <2>1, <2>2 DEF WatchInv, WatchTypeOK, UnmadeIsUntold, OnSchedule
  <2>3. CASE /\ ClaimsSlot(w, d.slot)
             /\ fired' = [fired EXCEPT ![w] = Append(fired[w], shot)]
             /\ \/ row' = [row EXCEPT ![w].status = "completed"]
                \/ row' = [row EXCEPT ![w].next =
                             NextSlotAfter(CadenceOf[w], d.slot, pass[r].at)]
    <3>1. shot \in Firing /\ NextSlotAfter(CadenceOf[w], d.slot, pass[r].at) \in Nat
      BY <2>1, NextIsFirst DEF Firing
    <3> DEFINE done == [row[w] EXCEPT !.status = "completed"]
               on == [row[w] EXCEPT !.next =
                        NextSlotAfter(CadenceOf[w], d.slot, pass[r].at)]
    <3>a. row[w] \in WatchRow /\ row[w].status = "active"
      BY <1>0, <2>1, <2>3 DEF ClaimsSlot
    <3>b. /\ done \in WatchRow /\ done.status = "completed"
          /\ on \in WatchRow /\ on.status = "active"
          /\ on.next = NextSlotAfter(CadenceOf[w], d.slot, pass[r].at)
      BY <3>1, <3>a DEF WatchRow, WatchStatus
    <3>c. row' = [row EXCEPT ![w] = done] \/ row' = [row EXCEPT ![w] = on]
      BY <2>3
    <3> HIDE DEF done, on
    <3>2. row' \in [Watch -> WatchRow]
      BY <1>0, <2>1, <3>b, <3>c
    <3>d. row'[w] = done \/ row'[w] = on
      BY <1>0, <2>1, <3>c
    <3>3. fired[w] \in Seq(Firing) /\ Append(fired[w], shot) \in Seq(Firing)
      BY <1>0, <2>1, <3>1
    <3>4. /\ fired' \in [Watch -> Seq(Firing)]
          /\ fired'[w] = Append(fired[w], shot)
          /\ \A u \in Watch \ {w} : fired'[u] = fired[u] /\ row'[u] = row[u]
      BY <1>0, <2>1, <2>3, <3>3
    <3>5. fired'[w][Len(fired'[w])] = shot
      BY <3>3, <3>4, <3>1, AppendProperties
    <3>6. row[w].status = "active" /\ row'[w].status # "absent"
      BY <3>a, <3>b, <3>d
    <3>7. row'[w].status = "active" =>
             row'[w].next = NextSlotAfter(CadenceOf[w], shot.slot, shot.at)
      BY <3>b, <3>d
    <3> HIDE DEF w, shot
    <3>8. UnmadeIsUntold'
      BY <3>4, <3>6 DEF WatchInv, UnmadeIsUntold
    <3>9. OnSchedule'
      BY <3>4, <3>5, <3>7 DEF WatchInv, OnSchedule
    <3> QED
      BY <1>0, <2>1, <3>2, <3>4, <3>8, <3>9 DEF WatchInv, WatchTypeOK
  <2> QED
    BY <1>5, <2>2, <2>3, FireEffect
<1>6. CASE UNCHANGED watchVars
  BY <1>6 DEF watchVars, WatchInv, WatchTypeOK, DueIsPast, UnmadeIsUntold, OnSchedule
<1> QED
  BY <1>1, <1>2, <1>3, <1>4, <1>5, <1>6 DEF WatchNext, Serve

LEMMA WatchInvHolds == WatchSpec => []WatchInv
BY InitWatchInv, StepWatchInv, PTL DEF WatchSpec

\* Every variable of the watch scheduler keeps its type.
THEOREM WatchTypeCorrectness == WatchSpec => []WatchTypeOK
<1>1. WatchInv => WatchTypeOK
  BY DEF WatchInv
<1> QED
  BY <1>1, WatchInvHolds, PTL

-----------------------------------------------------------------------------
(* The refinement. *)

LEMMA StageValues ==
  ASSUME NEW w \in Watch
  PROVE  /\ row[w].status = "absent" => Stage(w) = "none"
         /\ row[w].status = "active" => Stage(w) = "open"
         /\ (row[w].status # "absent" /\ row[w].status # "active") =>
              Stage(w) = "closed"
BY DEF Stage

\* Every step of the scheduler and the repository is one of the schedule's.
LEMMA StepSchedule ==
  WatchInv /\ [WatchNext]_watchVars => [Schedule!ScheduleNext]_(Schedule!scheduleVars)
<1> SUFFICES ASSUME WatchInv, [WatchNext]_watchVars
             PROVE  Schedule!ScheduleNext \/ UNCHANGED Schedule!scheduleVars
  OBVIOUS
<1> USE WatchConstants
<1> DEFINE stage == [w \in Watch |-> Stage(w)]
<1>0. /\ row \in [Watch -> WatchRow] /\ fired \in [Watch -> Seq(Firing)]
  BY DEF WatchInv, WatchTypeOK
<1>s. /\ stage = [w \in Watch |-> Stage(w)]
      /\ stage' = [w \in Watch |-> Stage(w)']
  OBVIOUS
<1>1. CASE row' = row /\ fired' = fired
  BY <1>1 DEF Schedule!scheduleVars, Stage
<1>2. ASSUME NEW w \in Watch, Create(w)
      PROVE  Schedule!Open(w)
  <2>1. /\ row[w].status = "absent" /\ fired' = fired
        /\ row' = [row EXCEPT ![w] = NewRow(w)] /\ NewRow(w).status = "active"
    BY <1>2, NewRowType DEF Create, WatchInv
  <2>2. /\ Stage(w) = "none" /\ Stage(w)' = "open"
        /\ \A u \in Watch \ {w} : Stage(u)' = Stage(u)
    BY <1>0, <2>1 DEF Stage
  <2> QED
    BY <2>1, <2>2 DEF Schedule!Open
<1>3. ASSUME NEW w \in Watch, Cancel(w)
      PROVE  Schedule!Close(w)
  <2>1. /\ row[w].status # "absent" /\ fired' = fired
        /\ row' = [row EXCEPT ![w].status = "cancelled"]
    BY <1>3 DEF Cancel
  <2>2. /\ Stage(w) # "none" /\ Stage(w)' = "closed"
        /\ \A u \in Watch \ {w} : Stage(u)' = Stage(u)
    BY <1>0, <2>1 DEF Stage, WatchRow
  <2> QED
    BY <2>1, <2>2 DEF Schedule!Close
<1>4. ASSUME NEW w \in Watch, NEW v \in Watch, Replace(w, v)
      PROVE  Schedule!CloseThen(w, v)
  <2> DEFINE gone == [row[w] EXCEPT !.status = "cancelled"]
  <2>1. /\ row[w].status # "absent" /\ row[v].status = "absent" /\ fired' = fired
        /\ row' = [row EXCEPT ![w] = gone, ![v] = NewRow(v)]
        /\ NewRow(v).status = "active" /\ w # v
    BY <1>0, <1>4, NewRowType DEF Replace, WatchInv
  <2>2. gone.status = "cancelled"
    BY <1>0 DEF WatchRow
  <2> HIDE DEF gone
  <2>3. /\ row'[w] = gone /\ row'[v] = NewRow(v)
        /\ \A u \in Watch \ {w, v} : row'[u] = row[u]
    BY <1>0, <2>1
  <2>4. /\ Stage(w) # "none" /\ Stage(v) = "none"
        /\ Stage(w)' = "closed" /\ Stage(v)' = "open"
        /\ \A u \in Watch \ {w, v} : Stage(u)' = Stage(u)
    BY <2>1, <2>2, <2>3 DEF Stage
  <2> QED
    BY <2>1, <2>4 DEF Schedule!CloseThen
<1>5. ASSUME NEW r \in Runner, NEW d \in pass[r].due, Fire(r, d),
             ~UNCHANGED <<fired, row>>
      PROVE  \E last \in BOOLEAN : Schedule!Tell(d.watch, last)
  <2> DEFINE w == d.watch
             shot == [slot |-> d.slot, at |-> pass[r].at]
             done == [row[w] EXCEPT !.status = "completed"]
             on == [row[w] EXCEPT !.next =
                      NextSlotAfter(CadenceOf[w], d.slot, pass[r].at)]
  <2>1. /\ w \in Watch /\ d.slot \in Nat /\ pass[r].at \in Nat
        /\ d.slot <= pass[r].at
        /\ ClaimsSlot(w, d.slot)
        /\ fired' = [fired EXCEPT ![w] = Append(fired[w], shot)]
        /\ (row' = [row EXCEPT ![w] = done] \/ row' = [row EXCEPT ![w] = on])
    BY <1>5, FireEffect
  <2>2. row[w].status = "active" /\ row[w].next = d.slot /\ row[w] \in WatchRow
    BY <1>0, <2>1 DEF ClaimsSlot
  <2>3. done.status = "completed" /\ on.status = "active"
    BY <2>2 DEF WatchRow
  <2>4. /\ fired[w] \in Seq(Firing) /\ shot \in Firing
        /\ Len(fired[w]) \in Nat
        /\ fired'[w] = Append(fired[w], shot)
        /\ Len(fired'[w]) = Len(fired[w]) + 1
        /\ fired'[w][Len(fired[w]) + 1] = shot
    <3>1. fired[w] \in Seq(Firing) /\ shot \in Firing
      BY <1>0, <2>1 DEF Firing
    <3>2. fired'[w] = Append(fired[w], shot)
      BY <1>0, <2>1
    <3> QED
      BY <3>1, <3>2, AppendProperties, LenProperties
  <2>5. shot.slot = d.slot /\ shot.at = pass[r].at
    OBVIOUS
  <2>6. fired[w] # <<>> =>
          Schedule!FirstSlotAfter(CadenceOf[w], fired[w][Len(fired[w])].slot,
                                  fired[w][Len(fired[w])].at, shot.slot)
    <3> SUFFICES ASSUME fired[w] # <<>>
                 PROVE  Schedule!FirstSlotAfter(CadenceOf[w],
                          fired[w][Len(fired[w])].slot,
                          fired[w][Len(fired[w])].at, shot.slot)
      OBVIOUS
    <3> DEFINE prev == fired[w][Len(fired[w])]
    <3>1. prev \in Firing
      BY <2>4, LenProperties, ElementOfSeq
    <3>2. shot.slot = NextSlotAfter(CadenceOf[w], prev.slot, prev.at)
      BY <2>1, <2>2, <2>5 DEF WatchInv, OnSchedule
    <3>3. prev.slot \in Nat /\ prev.at \in Nat
      BY <3>1 DEF Firing
    <3> HIDE DEF prev
    <3>4. Schedule!FirstSlotAfter(CadenceOf[w], prev.slot, prev.at,
                                  NextSlotAfter(CadenceOf[w], prev.slot, prev.at))
      BY <2>1, <3>3, NextIsFirst
    <3> QED
      BY <3>2, <3>4 DEF prev
  <2>7. ASSUME NEW now \in WatchRow, row' = [row EXCEPT ![w] = now]
        PROVE  /\ Stage(w) = "open"
               /\ now.status = "completed" => Stage(w)' = "closed"
               /\ now.status = "active" => Stage(w)' = "open"
               /\ \A u \in Watch \ {w} : Stage(u)' = Stage(u)
    BY <1>0, <2>1, <2>2, <2>7 DEF Stage
  <2>8. done \in WatchRow /\ on \in WatchRow
    <3>1. NextSlotAfter(CadenceOf[w], d.slot, pass[r].at) \in Nat
      BY <2>1, NextIsFirst
    <3> QED
      BY <2>2, <3>1 DEF WatchRow, WatchStatus
  <2> HIDE DEF w, shot, done, on
  <2>9. CASE row' = [row EXCEPT ![w] = done]
    <3>1. stage' = [stage EXCEPT ![w] = "closed"] /\ stage[w] = "open"
      BY <2>1, <2>3, <2>7, <2>8, <2>9, <1>s
    <3> HIDE DEF stage
    <3>2. Schedule!Tell(w, TRUE)
      BY <2>1, <2>4, <2>5, <2>6, <3>1 DEF Schedule!Tell, stage
    <3> QED
      BY <3>2 DEF w
  <2>10. CASE row' = [row EXCEPT ![w] = on]
    <3>1. stage' = [stage EXCEPT ![w] = "open"] /\ stage[w] = "open"
      BY <2>1, <2>3, <2>7, <2>8, <2>10, <1>s
    <3> HIDE DEF stage
    <3>2. Schedule!Tell(w, FALSE)
      BY <2>1, <2>4, <2>5, <2>6, <3>1 DEF Schedule!Tell, stage
    <3> QED
      BY <3>2 DEF w
  <2> QED
    BY <2>1, <2>9, <2>10
<1>6. ASSUME NEW r \in Runner, NEW d \in pass[r].due, Fire(r, d)
      PROVE  d.watch \in Watch
  BY <1>6, FireEffect
<1> QED
  BY <1>1, <1>2, <1>3, <1>4, <1>5, <1>6
     DEF WatchNext, Serve, TimePasses, SparkMoves, StartTick, TickFails,
         watchVars, Schedule!ScheduleNext

LEMMA InitSchedule == WatchInit => Schedule!ScheduleInit
BY DEF WatchInit, Schedule!ScheduleInit, Stage

\* The code keeps to the schedule: once per slot, never early, one firing after
\* downtime and then the first slot to come, nothing after the end.
THEOREM ScheduleIsKept == WatchSpec => ImplementsSchedule
BY InitSchedule, StepSchedule, WatchInvHolds, PTL
   DEF WatchSpec, ImplementsSchedule, Schedule!ScheduleSpec

-----------------------------------------------------------------------------
(* What the schedule means for a watcher: consequences of ScheduleIsKept.    *)

\* The history of a watch goes forward: no slot is told before its time, and
\* each one lies behind the moment at which the one before it was told.
FiredInOrder ==
  \A w \in Watch : \A i, j \in 1..Len(fired[w]) :
    /\ fired[w][i].slot <= fired[w][i].at
    /\ i < j => fired[w][i].at < fired[w][j].slot

\* A watch that is completed or cancelled stays so and is not heard of again,
\* though passes of any scheduler may still hold a slot of it.
EndedIsSilent ==
  [][\A w \in Watch :
       row[w].status \notin {"absent", "active"} =>
         row'[w].status \notin {"absent", "active"} /\ fired'[w] = fired[w]]_watchVars

\* One more telling keeps a history in order.
LEMMA TellKeepsOrder ==
  ASSUME NEW w \in Watch, NEW last \in BOOLEAN,
         fired \in [Watch -> Seq(Firing)], fired' \in [Watch -> Seq(Firing)],
         FiredInOrder, Schedule!Tell(w, last)
  PROVE  FiredInOrder'
<1> USE WatchConstants
<1> DEFINE old == fired[w]
           n == Len(fired[w])
           f == fired'[w][n + 1]
           all == fired'[w]
<1>1. /\ old \in Seq(Firing) /\ all \in Seq(Firing) /\ n \in Nat
      /\ n = Len(old) /\ Len(all) = n + 1
  BY LenProperties DEF Schedule!Tell
<1>2. /\ fired' = [fired EXCEPT ![w] = Append(old, f)]
      /\ f.slot <= f.at
      /\ old # <<>> =>
           Schedule!FirstSlotAfter(CadenceOf[w], old[n].slot, old[n].at, f.slot)
  BY DEF Schedule!Tell
<1>3. f \in Firing
  BY <1>1, ElementOfSeq
<1> HIDE DEF f
<1>4. all = Append(old, f) /\ \A u \in Watch \ {w} : fired'[u] = fired[u]
  BY <1>2
<1>5. /\ all[n + 1] = f
      /\ \A i \in 1..n : all[i] = old[i] /\ old[i] \in Firing
  BY <1>1, <1>3, <1>4, AppendProperties, ElementOfSeq
<1>6. \A i, j \in 1..n : /\ old[i].slot <= old[i].at
                         /\ i < j => old[i].at < old[j].slot
  BY <1>1 DEF FiredInOrder
<1>7. ASSUME n > 0 PROVE old[n].at < f.slot
  <2>1. old # <<>> /\ old[n] \in Firing
    BY <1>1, <1>5, <1>7
  <2>2. Schedule!FirstSlotAfter(CadenceOf[w], old[n].slot, old[n].at, f.slot)
    BY <1>2, <2>1
  <2>3. CadenceOf[w] \in [cron : BOOLEAN, secs : Nat]
    OBVIOUS
  <2>4. old[n].at \in Nat /\ f.slot \in Nat
    BY <1>3, <2>1 DEF Firing
  <2>5. CASE CadenceOf[w].cron
    <3>1. f.slot = old[n].at + CronRetry
      BY <2>2, <2>5 DEF Schedule!FirstSlotAfter
    <3> QED
      BY <2>4, <3>1
  <2>6. CASE ~CadenceOf[w].cron
    <3>1. f.slot > old[n].at
      BY <2>2, <2>6 DEF Schedule!FirstSlotAfter
    <3> QED
      BY <2>4, <3>1
  <2> QED
    BY <2>5, <2>6
<1>8. ASSUME NEW i \in 1..n PROVE old[i].at < f.slot
  <2>1. n > 0 /\ n \in 1..n
    BY <1>1, <1>8
  <2>2. /\ old[i].at \in Nat /\ old[n].at \in Nat /\ f.slot \in Nat
        /\ old[n].slot \in Nat
    BY <1>3, <1>5, <2>1 DEF Firing
  <2>3. i = n \/ old[i].at < old[n].slot
    BY <1>1, <1>6, <2>1
  <2>4. old[n].slot <= old[n].at
    BY <1>6, <2>1
  <2> QED
    BY <1>7, <2>1, <2>2, <2>3, <2>4
<1>9. \A i, j \in 1..Len(all) : /\ all[i].slot <= all[i].at
                                /\ i < j => all[i].at < all[j].slot
  <2> SUFFICES ASSUME NEW i \in 1..(n + 1), NEW j \in 1..(n + 1)
               PROVE  /\ all[i].slot <= all[i].at
                      /\ i < j => all[i].at < all[j].slot
    BY <1>1
  <2>1. i = n + 1 \/ i \in 1..n
    BY <1>1
  <2>2. j = n + 1 \/ j \in 1..n
    BY <1>1
  <2>3. all[i].slot <= all[i].at
    BY <1>2, <1>5, <1>6, <2>1
  <2>4. ASSUME i < j PROVE all[i].at < all[j].slot
    <3>1. i \in 1..n
      BY <1>1, <2>1, <2>2, <2>4
    <3> QED
      BY <1>5, <1>6, <1>8, <2>2, <2>4, <3>1
  <2> QED
    BY <2>3, <2>4
<1> QED
  BY <1>4, <1>9 DEF FiredInOrder

\* No slot is told twice and no two tellings are of one time, for any watches,
\* schedulers and downtime: mark_fired_in_tx claims the slot that
\* next_slot_after has put behind the last telling.
THEOREM HistoryGoesForward == WatchSpec => []FiredInOrder
<1>1. WatchInit => FiredInOrder
  BY DEF WatchInit, FiredInOrder
<1>2. /\ WatchTypeOK /\ WatchTypeOK' /\ FiredInOrder
      /\ [Schedule!ScheduleNext]_(Schedule!scheduleVars)
      => FiredInOrder'
  <2> SUFFICES ASSUME WatchTypeOK, WatchTypeOK', FiredInOrder,
                      [Schedule!ScheduleNext]_(Schedule!scheduleVars)
               PROVE  FiredInOrder'
    OBVIOUS
  <2>1. ASSUME fired' = fired PROVE FiredInOrder'
    BY <2>1 DEF FiredInOrder
  <2>2. ASSUME NEW w \in Watch, NEW last \in BOOLEAN, Schedule!Tell(w, last)
        PROVE  FiredInOrder'
    BY <2>2, TellKeepsOrder DEF WatchTypeOK
  <2> QED
    BY <2>1, <2>2 DEF Schedule!ScheduleNext, Schedule!scheduleVars, Schedule!Open,
                      Schedule!Close, Schedule!CloseThen
<1> QED
  BY <1>1, <1>2, WatchTypeCorrectness, ScheduleIsKept, PTL
     DEF WatchSpec, ImplementsSchedule, Schedule!ScheduleSpec

\* Cancelled, replaced and completed watches are out of every scheduler's
\* reach for good.
THEOREM EndIsFinal == WatchSpec => EndedIsSilent
<1>1. WatchInv /\ [WatchNext]_watchVars =>
        [\A w \in Watch :
           row[w].status \notin {"absent", "active"} =>
             row'[w].status \notin {"absent", "active"} /\ fired'[w] = fired[w]]_watchVars
  <2> SUFFICES ASSUME WatchInv, [WatchNext]_watchVars, NEW w \in Watch,
                      row[w].status \notin {"absent", "active"}
               PROVE  row'[w].status \notin {"absent", "active"} /\ fired'[w] = fired[w]
    OBVIOUS
  <2>0. row \in [Watch -> WatchRow] /\ fired \in [Watch -> Seq(Firing)]
    BY DEF WatchInv, WatchTypeOK
  <2>1. CASE row' = row /\ fired' = fired
    BY <2>1
  <2>2. CASE \E v \in Watch : Create(v) \/ Cancel(v)
    BY <2>0, <2>2 DEF Create, Cancel, WatchRow
  <2>3. CASE \E v, u \in Watch : Replace(v, u)
    BY <2>0, <2>3 DEF Replace, WatchRow
  <2>4. ASSUME NEW r \in Runner, NEW d \in pass[r].due, Fire(r, d)
        PROVE  row'[w] = row[w] /\ fired'[w] = fired[w]
    BY <2>0, <2>4, FireEffect DEF ClaimsSlot
  <2> QED
    BY <2>1, <2>2, <2>3, <2>4
       DEF WatchNext, Serve, TimePasses, SparkMoves, StartTick, TickFails, watchVars
<1> QED
  BY <1>1, WatchInvHolds, PTL DEF WatchSpec, EndedIsSilent

-----------------------------------------------------------------------------
(* The provable half of DueIsServed: what the fairness of a scheduler's      *)
(* steps is worth.                                                           *)

\* A pass that has slots left has one to fire: the earliest of them.
PassGoesOn ==
  \A r \in Runner : pass[r].due # {} =>
    \E d \in pass[r].due : \A e \in pass[r].due : d.slot <= e.slot

\* A pass only loses slots, one in each step of its scheduler.
PassShrinks ==
  [][\A r \in Runner : pass[r].due # {} =>
       /\ pass'[r].due \subseteq pass[r].due
       /\ Serve(r) => pass'[r].due # pass[r].due]_watchVars

\* A slot that a pass is done with is not waited for any longer, unless the
\* pass has failed: it was fired or somebody else had it.
SlotsAreUsedUp ==
  [][\A r \in Runner : \A d \in pass[r].due \ pass'[r].due :
       faults' = faults =>
         ~(row'[d.watch].status = "active" /\ row'[d.watch].next = d.slot)]_watchVars

\* A set of naturals has a least element.
LEMMA LeastOf ==
  ASSUME NEW T \in SUBSET Nat, T # {}
  PROVE  \E x \in T : \A y \in T : x <= y
<1> DEFINE Less == OpToRel(<, Nat)
<1>1. IsWellFoundedOn(Less, Nat)
  BY NatLessThanWellFounded
<1>2. ASSUME NEW x \in Nat, NEW y \in Nat, <<y, x>> \notin Less PROVE x <= y
  <2>1. ~(y < x)
    BY <1>2 DEF OpToRel
  <2> QED
    BY <2>1
<1> HIDE DEF Less
<1>3. PICK x \in T : \A y \in T : <<y, x>> \notin Less
  BY <1>1, WFMin
<1>4. \A y \in T : x <= y
  BY <1>2, <1>3
<1> QED
  BY <1>4

\* Wherever a pass is, its scheduler can take the next step: no other app, user
\* or failed tick leaves it with nothing to do.
THEOREM PassesGoOn == WatchSpec => []PassGoesOn
<1>1. WatchTypeOK => PassGoesOn
  <2> SUFFICES ASSUME WatchTypeOK, NEW r \in Runner, pass[r].due # {}
               PROVE  \E d \in pass[r].due : \A e \in pass[r].due : d.slot <= e.slot
    BY DEF PassGoesOn
  <2> DEFINE T == {d.slot : d \in pass[r].due}
  <2>1. T \in SUBSET Nat /\ T # {}
    BY DEF WatchTypeOK, Due
  <2> HIDE DEF T
  <2>2. PICK x \in T : \A y \in T : x <= y
    BY <2>1, LeastOf
  <2> QED
    BY <2>2 DEF T
<1> QED
  BY <1>1, WatchTypeCorrectness, PTL

\* A pass over n due watches is over after n steps of its scheduler, whatever
\* users and other schedulers do to the watches meanwhile.
THEOREM PassesEnd == WatchSpec => PassShrinks
<1>1. WatchInv /\ [WatchNext]_watchVars =>
        [\A r \in Runner : pass[r].due # {} =>
           /\ pass'[r].due \subseteq pass[r].due
           /\ Serve(r) => pass'[r].due # pass[r].due]_watchVars
  <2> SUFFICES ASSUME WatchInv, WatchNext, NEW r \in Runner, pass[r].due # {}
               PROVE  /\ pass'[r].due \subseteq pass[r].due
                      /\ Serve(r) => pass'[r].due # pass[r].due
    OBVIOUS
  <2>0. pass \in [Runner -> [at : Nat, due : SUBSET Due]]
    BY DEF WatchInv, WatchTypeOK
  <2>1. ASSUME NEW q \in Runner, NEW d \in pass[q].due, Fire(q, d)
        PROVE  /\ pass'[q].due = pass[q].due \ {d}
               /\ \A u \in Runner \ {q} : pass'[u] = pass[u]
    <3> DEFINE left == Without(pass[q], d)
    <3>1. pass' = [pass EXCEPT ![q] = left]
      BY <2>1 DEF Fire
    <3>2. left.due = pass[q].due \ {d}
      BY <2>0 DEF Without, Idle
    <3> QED
      BY <2>0, <3>1, <3>2
  <2>2. Serve(r) => /\ pass'[r].due \subseteq pass[r].due
                    /\ pass'[r].due # pass[r].due
    BY <2>1 DEF Serve, StartTick
  <2>3. CASE \E q \in Runner \ {r} : Serve(q)
    <3>1. PICK q \in Runner \ {r} : Serve(q)
      BY <2>3
    <3>2. pass'[r] = pass[r]
      BY <2>0, <2>1, <3>1 DEF Serve, StartTick
    <3> QED
      BY <2>2, <3>2
  <2>4. CASE \E q \in Runner : TickFails(q)
    <3>1. pass'[r] = pass[r] \/ pass'[r].due = {}
      BY <2>0, <2>4 DEF TickFails, Idle
    <3> QED
      BY <2>2, <3>1
  <2>5. CASE UNCHANGED pass
    BY <2>2, <2>5
  <2> QED
    BY <2>2, <2>3, <2>4, <2>5 DEF WatchNext, TimePasses, SparkMoves, Create, Cancel, Replace
<1> QED
  BY <1>1, WatchInvHolds, PTL DEF WatchSpec, PassShrinks

\* What a pass has fired or passed over is not due any more, so that a row that
\* stays due has met a failing tick.
THEOREM PassesServe == WatchSpec => SlotsAreUsedUp
<1>1. WatchInv /\ [WatchNext]_watchVars =>
        [\A r \in Runner : \A d \in pass[r].due \ pass'[r].due :
           faults' = faults =>
             ~(row'[d.watch].status = "active" /\ row'[d.watch].next = d.slot)]_watchVars
  <2> SUFFICES ASSUME WatchInv, WatchNext, NEW r \in Runner,
                      NEW d \in pass[r].due, d \notin pass'[r].due, faults' = faults
               PROVE  ~(row'[d.watch].status = "active" /\ row'[d.watch].next = d.slot)
    OBVIOUS
  <2> USE WatchConstants
  <2>0. /\ pass \in [Runner -> [at : Nat, due : SUBSET Due]]
        /\ row \in [Watch -> WatchRow] /\ faults \in Nat
    BY DEF WatchInv, WatchTypeOK
  <2>1. ASSUME NEW q \in Runner, NEW e \in pass[q].due, Fire(q, e)
        PROVE  q = r /\ e = d
    <3> DEFINE left == Without(pass[q], e)
    <3>1. pass' = [pass EXCEPT ![q] = left]
      BY <2>1 DEF Fire
    <3>2. left.due = pass[q].due \ {e}
      BY <2>0 DEF Without, Idle
    <3> QED
      BY <2>0, <3>1, <3>2
  <2>2. CASE Fire(r, d)
    <3>1. d.slot \in Nat /\ pass[r].at \in Nat /\ d.slot <= pass[r].at
      BY <2>2, FireEffect
    <3>2. d.watch \in Watch
      BY <2>2, FireEffect
    <3> DEFINE n == NextSlotAfter(CadenceOf[d.watch], d.slot, pass[r].at)
    <3>3. n \in Nat /\ n # d.slot
      <4>1. CadenceOf[d.watch] \in [cron : BOOLEAN, secs : Nat]
        BY <3>2
      <4>2. /\ n \in Nat
            /\ Schedule!FirstSlotAfter(CadenceOf[d.watch], d.slot, pass[r].at, n)
        BY <3>1, <4>1, NextIsFirst
      <4> HIDE DEF n
      <4>3. CASE CadenceOf[d.watch].cron
        BY <3>1, <4>2, <4>3 DEF Schedule!FirstSlotAfter
      <4>4. CASE ~CadenceOf[d.watch].cron
        BY <3>1, <4>2, <4>4 DEF Schedule!FirstSlotAfter
      <4> QED
        BY <4>2, <4>3, <4>4
    <3> HIDE DEF n
    <3>4. row[d.watch] \in WatchRow
      BY <2>0, <3>2
    <3>5. CASE ~ClaimsSlot(d.watch, d.slot)
      BY <2>2, <3>5 DEF Fire, ClaimsSlot
    <3>6. CASE ClaimsSlot(d.watch, d.slot)
      <4> DEFINE done == [row[d.watch] EXCEPT !.status = "completed"]
                 on == [row[d.watch] EXCEPT !.next = n]
      <4>1. row' = [row EXCEPT ![d.watch] = done] \/ row' = [row EXCEPT ![d.watch] = on]
        BY <2>2, <3>6 DEF Fire, n
      <4>2. done.status = "completed" /\ on.next = n
        BY <3>4 DEF WatchRow
      <4> HIDE DEF done, on
      <4> QED
        BY <2>0, <3>2, <3>3, <4>1, <4>2
    <3> QED
      BY <3>5, <3>6
  <2>3. ASSUME NEW q \in Runner, StartTick(q) PROVE FALSE
    BY <2>0, <2>3 DEF StartTick
  <2>4. pass' # pass /\ ~\E q \in Runner : TickFails(q)
    BY <2>0 DEF TickFails
  <2>5. PICK q \in Runner : \E e \in pass[q].due : Fire(q, e)
    BY <2>3, <2>4 DEF WatchNext, Serve, TimePasses, SparkMoves, Create, Cancel, Replace
  <2> QED
    BY <2>1, <2>2, <2>5
<1> QED
  BY <1>1, WatchInvHolds, PTL DEF WatchSpec, SlotsAreUsedUp
=============================================================================
