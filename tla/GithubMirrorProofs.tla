------------------------- MODULE GithubMirrorProofs -------------------------
(***************************************************************************)
(* For any number of events of any kind and any trouble: each event of the *)
(* pull request has its effect once, and the cursor of the poller leaves   *)
(* nothing undealt with behind it.  The second rests on what a tick knows  *)
(* of the events it has not fetched: they happened after it began.         *)
(***************************************************************************)
EXTENDS GithubMirror, WellFoundedInduction, TLAPS

Dealt(e) == e \in seen \/ story[e] = "unsupported"

\* The cursor this tick will leave, if it is not ahead of that already.
Reach == IF tick.observed = 0 THEN tick.at ELSE tick.observed

EffectsAreSeen ==
  \A e \in Event : effects[e] <= 1 /\ (effects[e] > 0 => e \in seen)

TimesArePast ==
  /\ cursor <= now /\ tick.at <= now /\ tick.observed <= now
  /\ \A e \in Event : postedAt[e] <= now

RestIsAhead ==
  tick.stage = "applying" =>
    \A e \in Event :
      postedAt[e] # 0 /\ ~Dealt(e) => e \in tick.todo \/ postedAt[e] >= Reach

MirrorInv ==
  MirrorTypeOK /\ EffectsAreSeen /\ TimesArePast /\ RestIsAhead
    /\ CursorBehindUnseen

LEMMA MirrorInitInv == MirrorInit => MirrorInv
<1> SUFFICES ASSUME MirrorInit PROVE MirrorInv
  OBVIOUS
<1>1. MirrorTypeOK
  <2>1. NoTick \in Ticks
    BY DEF NoTick, Ticks
  <2>2. story \in [Event -> Kind] /\ phase \in Phase \cup {NullPhase}
    BY MirrorConstants DEF MirrorInit
  <2>3. linked \in BOOLEAN /\ throttled \in BOOLEAN
    BY DEF MirrorInit
  <2> QED
    BY <2>1, <2>2, <2>3 DEF MirrorInit, MirrorTypeOK
<1> QED
  BY <1>1 DEF MirrorInit, MirrorInv, EffectsAreSeen, TimesArePast, RestIsAhead,
              CursorBehindUnseen, NoTick

\* What dealing with an event leaves of it.
LEMMA RowsBound ==
  ASSUME NEW k PROVE Rows(k) \in {0, 1}
  BY DEF Rows

NoTicks == {NoTick, Stopped}

LEMMA IdleTick ==
  /\ NoTick \in Ticks /\ NoTick.stage = "idle" /\ NoTick.at = 0 /\ NoTick.observed = 0
  /\ Stopped \in Ticks /\ Stopped.stage = "stopped"
  /\ Stopped.at = 0 /\ Stopped.observed = 0
  BY DEF NoTick, Stopped, Ticks

\* A step that ends the tick or starts the poller, with no other event and no other effect.
LEMMA TickEnds ==
  ASSUME MirrorInv, tick' \in NoTicks, cursor' \in Nat, cursor' <= cursor,
         throttled' \in BOOLEAN, trouble' \in Nat,
         UNCHANGED <<now, story, postedAt, phase, linked, seen, effects>>
  PROVE  MirrorInv'
<1> USE DEF NoTicks
<1>1. MirrorTypeOK'
  BY IdleTick DEF MirrorInv, MirrorTypeOK
<1>2. TimesArePast'
  BY IdleTick DEF MirrorInv, MirrorTypeOK, TimesArePast
<1>3. CursorBehindUnseen'
  BY DEF MirrorInv, MirrorTypeOK, CursorBehindUnseen
<1> QED
  BY <1>1, <1>2, <1>3, IdleTick DEF MirrorInv, EffectsAreSeen, RestIsAhead

LEMMA ApplyStep ==
  ASSUME MirrorInv, NEW e \in Event, ApplyNext(e) PROVE MirrorInv'
<1> DEFINE k == story[e]
           rest == [tick EXCEPT !.todo = tick.todo \ {e}]
<1> USE DEF MirrorInv
<1>1. /\ tick.stage = "applying" /\ e \in tick.todo /\ tick \in Ticks
      /\ UNCHANGED <<now, story, postedAt, cursor, throttled, trouble>>
  BY DEF ApplyNext, MirrorTypeOK
<1>2. /\ rest \in Ticks /\ rest.stage = "applying" /\ rest.at = tick.at
      /\ rest.observed = tick.observed /\ rest.todo = tick.todo \ {e}
  BY <1>1 DEF Ticks
<1>3. tick' = IF k = "malformed" \/ (e \notin seen /\ IsRefused(k))
              THEN Stopped ELSE rest
  BY DEF ApplyNext
<1> HIDE DEF rest
<1>4. tick' \in Ticks /\ (tick'.stage = "applying" => tick' = rest)
  BY <1>2, <1>3, IdleTick
<1>5. tick'.at <= now /\ tick'.observed <= now
  BY <1>2, <1>3, IdleTick DEF TimesArePast, MirrorTypeOK
<1>6. CASE e \in seen \/ k \in {"malformed", "unsupported"}
  <2>1. UNCHANGED <<phase, linked, seen, effects>>
    BY <1>6 DEF ApplyNext
  <2>2. MirrorTypeOK'
    BY <1>1, <1>4, <2>1 DEF MirrorTypeOK
  <2>3. tick' = rest => Dealt(e)
    BY <1>2, <1>3, <1>6, IdleTick DEF Dealt
  <2>4. RestIsAhead'
    BY <1>1, <1>2, <1>4, <2>1, <2>3 DEF RestIsAhead, Reach, Dealt
  <2> QED
    BY <1>1, <1>5, <2>1, <2>2, <2>4
    DEF EffectsAreSeen, TimesArePast, CursorBehindUnseen
<1>7. CASE ~(e \in seen \/ k \in {"malformed", "unsupported"})
  <2>1. /\ seen' = seen \cup {e}
        /\ effects' = [effects EXCEPT ![e] = effects[e] + Rows(k)]
        /\ linked' = (linked \/ k = "opened")
        /\ phase' = IF k \in Moves /\ linked /\ Legal(k) THEN Target(k) ELSE phase
    BY <1>7 DEF ApplyNext, Marked
  <2>2. effects[e] = 0
    BY <1>7 DEF EffectsAreSeen, MirrorTypeOK
  <2>3. effects'[e] \in {0, 1} /\ \A f \in Event : f # e => effects'[f] = effects[f]
    BY <2>1, <2>2, RowsBound DEF MirrorTypeOK
  <2>4. effects' \in [Event -> Nat]
    BY <2>1, <2>2, RowsBound DEF MirrorTypeOK
  <2>5. phase' \in Phase \cup {NullPhase}
    BY <2>1 DEF MirrorTypeOK, Target, Phase
  <2>6. linked' \in BOOLEAN
    BY <2>1
  <2>7. MirrorTypeOK'
    BY <1>1, <1>4, <2>1, <2>4, <2>5, <2>6 DEF MirrorTypeOK
  <2>8. EffectsAreSeen'
    BY <2>1, <2>3 DEF EffectsAreSeen
  <2>9. RestIsAhead'
    BY <1>1, <1>2, <1>4, <2>1 DEF RestIsAhead, Reach, Dealt
  <2>10. CursorBehindUnseen'
    BY <1>1, <2>1 DEF CursorBehindUnseen
  <2> QED
    BY <1>1, <1>5, <2>7, <2>8, <2>9, <2>10 DEF TimesArePast
<1> QED
  BY <1>6, <1>7

LEMMA FinishStep ==
  ASSUME MirrorInv, FinishTick PROVE MirrorInv'
<1> USE DEF MirrorInv
<1>1. /\ tick.stage = "applying" /\ tick.todo = {} /\ tick' = NoTick
      /\ cursor' = Later(cursor, Reach)
      /\ UNCHANGED <<now, story, postedAt, phase, linked, seen, effects,
                     throttled, trouble>>
  BY DEF FinishTick, Reach
<1>2. Reach \in Nat /\ Reach <= now /\ cursor \in Nat /\ now \in Nat
  BY DEF MirrorTypeOK, Ticks, Reach, TimesArePast
<1>3. cursor' \in Nat /\ cursor' <= now /\ (cursor' = cursor \/ cursor' = Reach)
  BY <1>1, <1>2 DEF Later, TimesArePast
<1>4. MirrorTypeOK'
  BY <1>1, <1>3, IdleTick DEF MirrorTypeOK
<1>5. TimesArePast'
  BY <1>1, <1>3, IdleTick DEF TimesArePast, MirrorTypeOK
<1>6. ASSUME NEW e \in Event, postedAt[e] # 0, ~Dealt(e)
      PROVE  ~(postedAt[e] < cursor')
  <2>1. postedAt[e] >= Reach
    BY <1>1, <1>6 DEF RestIsAhead
  <2>2. ~(postedAt[e] < cursor)
    BY <1>6 DEF CursorBehindUnseen, Dealt
  <2>3. postedAt[e] \in Nat
    BY DEF MirrorTypeOK
  <2> QED
    BY <1>2, <1>3, <2>1, <2>2, <2>3
<1>7. CursorBehindUnseen'
  BY <1>1, <1>6 DEF CursorBehindUnseen, Dealt
<1> QED
  BY <1>1, <1>4, <1>5, <1>7, IdleTick DEF EffectsAreSeen, RestIsAhead

LEMMA FetchStep ==
  ASSUME MirrorInv, FetchAnswered PROVE MirrorInv'
<1> USE DEF MirrorInv
<1>1. PICK observed \in {0} \cup {postedAt[e] : e \in Since(cursor)} :
        tick' = [tick EXCEPT !.stage = "applying", !.todo = Since(cursor),
                             !.observed = observed]
  BY DEF FetchAnswered
<1>2. /\ UNCHANGED <<now, story, postedAt, phase, linked, seen, effects, cursor, trouble>>
      /\ throttled' \in BOOLEAN
  BY DEF FetchAnswered
<1>3. observed \in Nat /\ observed <= now
  BY DEF Since, TimesArePast, MirrorTypeOK
<1>4. Since(cursor) \in SUBSET Event
  BY DEF Since
<1>5. /\ tick' \in Ticks /\ tick'.at = tick.at /\ tick'.observed = observed
      /\ tick'.todo = Since(cursor)
  BY <1>1, <1>3, <1>4 DEF MirrorTypeOK, Ticks
<1>6. MirrorTypeOK'
  BY <1>2, <1>5 DEF MirrorTypeOK
<1>7. ASSUME NEW e \in Event, postedAt[e] # 0, ~Dealt(e)
      PROVE  e \in Since(cursor)
  BY <1>7 DEF CursorBehindUnseen, Dealt, Since, MirrorTypeOK
<1>8. RestIsAhead'
  BY <1>2, <1>5, <1>7 DEF RestIsAhead, Dealt
<1> QED
  BY <1>2, <1>3, <1>5, <1>6, <1>8
  DEF EffectsAreSeen, TimesArePast, CursorBehindUnseen

LEMMA MirrorStepInv == MirrorInv /\ [MirrorNext]_mirrorVars => MirrorInv'
<1> SUFFICES ASSUME MirrorInv, [MirrorNext]_mirrorVars PROVE MirrorInv'
  OBVIOUS
<1>1. CASE BeginTick
  <2>1. /\ tick' = [NoTick EXCEPT !.stage = "fetching", !.at = now]
        /\ UNCHANGED <<now, story, postedAt, phase, linked, seen, effects,
                       cursor, throttled, trouble>>
    BY <1>1 DEF BeginTick
  <2>2. /\ tick' \in Ticks /\ tick'.stage = "fetching" /\ tick'.at = now
        /\ tick'.observed = 0
    BY <2>1 DEF NoTick, Ticks, MirrorInv, MirrorTypeOK
  <2> QED
    BY <2>1, <2>2 DEF MirrorInv, MirrorTypeOK, EffectsAreSeen, TimesArePast,
                      RestIsAhead, CursorBehindUnseen
<1>2. CASE FetchAnswered
  BY <1>2, FetchStep
<1>3. CASE FinishTick
  BY <1>3, FinishStep
<1>4. ASSUME NEW e \in Event, ApplyNext(e) PROVE MirrorInv'
  BY <1>4, ApplyStep
<1>5. CASE FetchFailed \/ ApplyBusy \/ Dies
  <2>1. /\ tick' \in NoTicks /\ trouble' = trouble + 1 /\ cursor' = cursor
        /\ UNCHANGED <<now, story, postedAt, phase, linked, seen, effects>>
    BY <1>5 DEF FetchFailed, ApplyBusy, Dies, NoTicks
  <2>2. throttled' \in BOOLEAN
    BY <1>5 DEF FetchFailed, ApplyBusy, Dies, MirrorInv, MirrorTypeOK
  <2>3. trouble' \in Nat /\ cursor' \in Nat /\ cursor' <= cursor
    BY <2>1 DEF MirrorInv, MirrorTypeOK
  <2> QED
    BY <2>1, <2>2, <2>3, TickEnds
<1>6. CASE Restart
  <2>1. /\ tick' \in NoTicks /\ cursor' \in 0..cursor
        /\ UNCHANGED <<now, story, postedAt, phase, linked, seen, effects, trouble>>
    BY <1>6 DEF Restart, NoTicks
  <2>2. throttled' \in BOOLEAN
    BY <1>6 DEF Restart, MirrorInv, MirrorTypeOK
  <2>3. trouble' \in Nat /\ cursor' \in Nat /\ cursor' <= cursor
    BY <2>1 DEF MirrorInv, MirrorTypeOK
  <2> QED
    BY <2>1, <2>2, <2>3, TickEnds
<1>7. CASE ThrottleEnds
  <2>1. throttled' \in BOOLEAN
    BY <1>7 DEF ThrottleEnds
  <2> QED
    BY <1>7, <2>1 DEF ThrottleEnds, MirrorInv, MirrorTypeOK, EffectsAreSeen,
         TimesArePast, RestIsAhead, Reach, Dealt, CursorBehindUnseen
<1>8. CASE SecondPasses
  <2>1. now \in Nat \ {0} /\ now' = now + 1 /\ now' \in Nat \ {0}
    BY <1>8 DEF SecondPasses, MirrorInv, MirrorTypeOK
  <2>2. TimesArePast'
    BY <1>8, <2>1 DEF SecondPasses, MirrorInv, MirrorTypeOK, TimesArePast, Ticks
  <2> QED
    BY <1>8, <2>1, <2>2 DEF SecondPasses, MirrorInv, MirrorTypeOK,
         EffectsAreSeen, RestIsAhead, Reach, Dealt, CursorBehindUnseen
<1>9. CASE HandMoves
  BY <1>9 DEF HandMoves, MirrorInv, MirrorTypeOK, EffectsAreSeen, TimesArePast,
       RestIsAhead, Reach, Dealt, CursorBehindUnseen
<1>10. ASSUME NEW e \in Event, Post(e) PROVE MirrorInv'
  <2>1. /\ postedAt' = [postedAt EXCEPT ![e] = now]
        /\ UNCHANGED <<now, story, phase, linked, seen, effects, cursor,
                       throttled, tick, trouble>>
    BY <1>10 DEF Post
  <2>2. /\ postedAt'[e] = now
        /\ \A f \in Event : f # e => postedAt'[f] = postedAt[f]
        /\ now \in Nat
    BY <2>1 DEF MirrorInv, MirrorTypeOK
  <2>3. MirrorTypeOK'
    BY <2>1, <2>2 DEF MirrorInv, MirrorTypeOK
  <2>4. TimesArePast'
    BY <2>1, <2>2 DEF MirrorInv, TimesArePast
  <2>5. now >= Reach
    BY <2>2 DEF MirrorInv, MirrorTypeOK, TimesArePast, Reach, Ticks
  <2>6. RestIsAhead'
    BY <2>1, <2>2, <2>5 DEF MirrorInv, RestIsAhead, Reach, Dealt
  <2>7. ~(now < cursor)
    BY <2>2 DEF MirrorInv, MirrorTypeOK, TimesArePast
  <2>8. CursorBehindUnseen'
    BY <2>1, <2>2, <2>7 DEF MirrorInv, CursorBehindUnseen
  <2> QED
    BY <2>1, <2>3, <2>4, <2>6, <2>8 DEF MirrorInv, EffectsAreSeen
<1>11. CASE UNCHANGED mirrorVars
  BY <1>11 DEF mirrorVars, MirrorInv, MirrorTypeOK, EffectsAreSeen,
       TimesArePast, RestIsAhead, Reach, Dealt, CursorBehindUnseen
<1> QED
  BY <1>1, <1>2, <1>3, <1>4, <1>5, <1>6, <1>7, <1>8, <1>9, <1>10, <1>11
  DEF MirrorNext, PollStep

\* apply of applier.rs is idempotent: an event that is fetched again after an
\* error, a restart or a cursor that stood still has no second effect.
THEOREM EffectsHappenOnce == MirrorSpec => []EachEventOnce
<1>1. MirrorInv => EachEventOnce
  BY DEF MirrorInv, EffectsAreSeen, EachEventOnce
<1> QED
  BY <1>1, MirrorInitInv, MirrorStepInv, PTL DEF MirrorSpec

\* tick of poller.rs moves the cursor past an event only when it was applied,
\* refused, or of a kind that is not mirrored.
THEOREM NothingIsSkipped == MirrorSpec => []CursorBehindUnseen
<1>1. MirrorInv => CursorBehindUnseen
  BY DEF MirrorInv
<1> QED
  BY <1>1, MirrorInitInv, MirrorStepInv, PTL DEF MirrorSpec

-----------------------------------------------------------------------------
(* What a tick does with the events it has. *)

\* What a fetch brings back includes every event that has happened and was not
\* dealt with, so that what a broken tick has left is not lost.
FetchesTheRest ==
  [][tick.stage = "fetching" /\ tick'.stage = "applying" =>
       \A e \in Event : postedAt[e] # 0 /\ ~Dealt(e) => e \in tick'.todo]_mirrorVars

\* A tick that goes on, or ends on an event the phase machine refuses, has dealt
\* with the oldest event it had left, unless that one does not parse.
OldestIsDealtWith ==
  [][\A e \in tick.todo :
       (/\ tick.stage = "applying" /\ tick' # tick /\ trouble' = trouble
        /\ \A f \in tick.todo : e <= f) =>
         Dealt(e)' \/ story[e] = "malformed"]_mirrorVars

\* A tick only loses events, the poller takes one off in each step, and where
\* there are some left one of them is the oldest.
TickShrinks ==
  [][tick.stage = "applying" =>
       \/ tick' \in NoTicks
       \/ /\ tick'.stage = "applying" /\ tick'.todo \subseteq tick.todo
          /\ PollStep => tick'.todo # tick.todo]_mirrorVars

TickGoesOn ==
  tick.stage = "applying" /\ tick.todo # {} =>
    \E e \in tick.todo : \A f \in tick.todo : e <= f

\* What the poller itself does with the events of a tick.
LEMMA PollEffect ==
  ASSUME MirrorInv, PollStep, tick.stage = "applying"
  PROVE  /\ trouble' = trouble
         /\ \/ tick.todo = {} /\ tick' \in NoTicks
            \/ \E e \in tick.todo :
                 /\ ApplyNext(e)
                 /\ \/ tick' \in NoTicks
                    \/ /\ tick'.stage = "applying"
                       /\ tick'.todo = tick.todo \ {e}
<1>1. tick \in Ticks
  BY DEF MirrorInv, MirrorTypeOK
<1>2. CASE FinishTick
  BY <1>2 DEF FinishTick, NoTicks
<1>3. ASSUME NEW e \in Event, ApplyNext(e)
      PROVE  /\ trouble' = trouble /\ e \in tick.todo
             /\ \/ tick' \in NoTicks
                \/ /\ tick'.stage = "applying" /\ tick'.todo = tick.todo \ {e}
  <2>1. \/ tick' \in NoTicks
        \/ tick' = [tick EXCEPT !.todo = tick.todo \ {e}]
    BY <1>3 DEF ApplyNext, NoTicks
  <2>2. tick.stage = "applying" /\ e \in tick.todo /\ trouble' = trouble
    BY <1>3 DEF ApplyNext
  <2> QED
    BY <1>1, <2>1, <2>2 DEF Ticks
<1>4. ~BeginTick /\ ~FetchAnswered
  BY DEF BeginTick, FetchAnswered
<1> QED
  BY <1>2, <1>3, <1>4 DEF PollStep

\* Every other step leaves the events of a tick alone, ends it with trouble, or
\* starts a stopped poller.
LEMMA OtherEffect ==
  ASSUME MirrorInv, [MirrorNext]_mirrorVars, ~PollStep
  PROVE  \/ tick' = tick
         \/ tick' \in NoTicks /\ (trouble' # trouble \/ tick.stage = "stopped")
<1>1. trouble \in Nat
  BY DEF MirrorInv, MirrorTypeOK
<1>2. CASE FetchFailed \/ ApplyBusy \/ Dies
  <2>1. trouble' = trouble + 1 /\ tick' \in NoTicks
    BY <1>2 DEF FetchFailed, ApplyBusy, Dies, NoTicks
  <2> QED
    BY <1>1, <2>1
<1>5. CASE Restart
  BY <1>5 DEF Restart, NoTicks
<1>3. CASE ThrottleEnds \/ SecondPasses \/ HandMoves \/ UNCHANGED mirrorVars
  BY <1>3 DEF ThrottleEnds, SecondPasses, HandMoves, mirrorVars
<1>4. ASSUME NEW e \in Event, Post(e) PROVE tick' = tick
  BY <1>4 DEF Post
<1> QED
  BY <1>2, <1>3, <1>4, <1>5 DEF MirrorNext

LEMMA MirrorInvHolds == MirrorSpec => []MirrorInv
  BY MirrorInitInv, MirrorStepInv, PTL DEF MirrorSpec

\* tick of poller.rs asks from the cursor on, and the cursor is behind
\* everything that still has to be applied, so the tick after a broken one has
\* all that the broken one left.
THEOREM TicksFetchTheRest == MirrorSpec => FetchesTheRest
<1>1. ASSUME MirrorInv, [MirrorNext]_mirrorVars,
             tick.stage = "fetching", tick'.stage = "applying",
             NEW e \in Event, postedAt[e] # 0, ~Dealt(e)
      PROVE  e \in tick'.todo
  <2>1. e \in Since(cursor)
    BY <1>1 DEF MirrorInv, CursorBehindUnseen, Dealt, Since, MirrorTypeOK
  <2>2. tick' # tick /\ tick' \notin NoTicks
    BY <1>1, IdleTick DEF NoTicks
  <2>3. PollStep
    BY <1>1, <2>2, OtherEffect
  <2>4. FetchAnswered
    BY <1>1, <2>3 DEF PollStep, BeginTick, FinishTick, ApplyNext
  <2>5. tick'.todo = Since(cursor)
    BY <1>1, <2>4 DEF FetchAnswered, MirrorInv, MirrorTypeOK, Ticks
  <2> QED
    BY <2>1, <2>5
<1>2. MirrorInv /\ [MirrorNext]_mirrorVars =>
        [tick.stage = "fetching" /\ tick'.stage = "applying" =>
           \A e \in Event : postedAt[e] # 0 /\ ~Dealt(e) => e \in tick'.todo
        ]_mirrorVars
  BY <1>1
<1> QED
  BY <1>2, MirrorInvHolds, PTL DEF MirrorSpec, FetchesTheRest

\* The loop over the events in tick of poller.rs: the first one is applied,
\* refused or, when it does not parse, ends the tick; none is passed over.
THEOREM TicksDealWithTheOldest == MirrorSpec => OldestIsDealtWith
<1>1. ASSUME MirrorInv, [MirrorNext]_mirrorVars, NEW e \in tick.todo,
             tick.stage = "applying", tick' # tick, trouble' = trouble,
             \A f \in tick.todo : e <= f, story[e] # "malformed"
      PROVE  Dealt(e)'
  <2>1. PollStep
    BY <1>1, OtherEffect
  <2>2. PICK f \in tick.todo : ApplyNext(f)
    BY <1>1, <2>1, PollEffect
  <2>3. e \in Nat /\ f \in Nat /\ e \in Event
    BY <1>1, MirrorConstants DEF MirrorInv, MirrorTypeOK, Ticks
  <2>4. e <= f /\ f <= e
    BY <1>1, <2>2 DEF ApplyNext
  <2>5. ApplyNext(e)
    BY <2>2, <2>3, <2>4
  <2> QED
    BY <1>1, <2>5 DEF ApplyNext, Dealt, Marked
<1>2. MirrorInv /\ [MirrorNext]_mirrorVars =>
        [\A e \in tick.todo :
           (/\ tick.stage = "applying" /\ tick' # tick /\ trouble' = trouble
            /\ \A f \in tick.todo : e <= f) =>
             Dealt(e)' \/ story[e] = "malformed"]_mirrorVars
  BY <1>1
<1> QED
  BY <1>2, MirrorInvHolds, PTL DEF MirrorSpec, OldestIsDealtWith

\* A tick takes in nothing while it applies, and each step of the poller takes
\* an event off or ends it: no tick goes on for ever.
THEOREM TicksEnd == MirrorSpec => TickShrinks
<1>1. ASSUME MirrorInv, [MirrorNext]_mirrorVars, tick.stage = "applying"
      PROVE  \/ tick' \in NoTicks
             \/ /\ tick'.stage = "applying" /\ tick'.todo \subseteq tick.todo
                /\ PollStep => tick'.todo # tick.todo
  <2>1. CASE PollStep
    BY <1>1, <2>1, PollEffect
  <2>2. CASE ~PollStep
    BY <1>1, <2>2, OtherEffect
  <2> QED
    BY <2>1, <2>2
<1>2. MirrorInv /\ [MirrorNext]_mirrorVars =>
        [tick.stage = "applying" =>
           \/ tick' \in NoTicks
           \/ /\ tick'.stage = "applying" /\ tick'.todo \subseteq tick.todo
              /\ PollStep => tick'.todo # tick.todo]_mirrorVars
  BY <1>1
<1> QED
  BY <1>2, MirrorInvHolds, PTL DEF MirrorSpec, TickShrinks

\* A set of naturals has a least element.
LEMMA LeastOf ==
  ASSUME NEW T \in SUBSET Nat, T # {}
  PROVE  \E x \in T : \A y \in T : x <= y
<1> DEFINE Less == OpToRel(<, Nat)
<1>1. IsWellFoundedOn(Less, Nat)
  BY NatLessThanWellFounded
<1>2. ASSUME NEW x \in Nat, NEW y \in Nat, <<y, x>> \notin Less PROVE x <= y
  <2>1. ~(y < x)
    BY <1>2 DEF OpToRel
  <2> QED
    BY <2>1
<1> HIDE DEF Less
<1>3. PICK x \in T : \A y \in T : <<y, x>> \notin Less
  BY <1>1, WFMin
<1>4. \A y \in T : x <= y
  BY <1>2, <1>3
<1> QED
  BY <1>4


\* A tick with events left has one to go on with: the oldest is unique, and the
\* guard of ApplyNext asks no more.
THEOREM TicksGoOn == MirrorSpec => []TickGoesOn
<1>1. ASSUME MirrorInv, tick.todo # {}
      PROVE  \E e \in tick.todo : \A f \in tick.todo : e <= f
  <2>1. tick.todo \in SUBSET Nat
    BY <1>1, MirrorConstants DEF MirrorInv, MirrorTypeOK, Ticks
  <2> QED
    BY <1>1, <2>1, LeastOf
<1>2. MirrorInv => TickGoesOn
  BY <1>1 DEF TickGoesOn
<1> QED
  BY <1>2, MirrorInvHolds, PTL
=============================================================================
