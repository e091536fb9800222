--------------------------- MODULE ServicesProofs ---------------------------
(***************************************************************************)
(* Short arguments, for any number of events and subscribers, sparks       *)
(* and creators, trees and pieces of work, releases and closes, tasks and  *)
(* seconds: what the relay calls delivered was accepted by all; a graph of *)
(* bonds that no two creates raced over always leaves something to do; a   *)
(* prune destroys late work only; epics and tags belong to one release;    *)
(* retention spares the newest snapshot; a restore restores what it was    *)
(* given and keeps what it found.                                          *)
(***************************************************************************)
EXTENDS EventRelay, Bonds, Worktrees, Releases, Snapshots, Restores,
        FiniteSetTheorems, WellFoundedInduction, TLAPS

-----------------------------------------------------------------------------
(* The relay.  Who has accepted the event being tried is what got says of  *)
(* the oldest event of the batch.                                          *)

DeliveredMeansAccepted == \A e \in delivered : accepted[e] = Subscribers

GotIsAccepted ==
  /\ batch = {} => got = {}
  /\ \A e \in batch : IsOldest(e) => got \subseteq accepted[e]

RelayInv == RelayTypeOK /\ GotIsAccepted /\ DeliveredMeansAccepted

LEMMA RelayInitInv == RelayInit => RelayInv
  BY DEF RelayInit, RelayInv, RelayTypeOK, GotIsAccepted, DeliveredMeansAccepted

\* Numbers order the events: there is one oldest event.
LEMMA OneOldest ==
  ASSUME RelayTypeOK, NEW e \in batch, NEW f \in batch, IsOldest(e), IsOldest(f)
  PROVE  e = f
<1>1. e \in Nat /\ f \in Nat
  BY RelayConstants DEF RelayTypeOK
<1>2. e <= f /\ f <= e
  BY DEF IsOldest
<1> QED
  BY <1>1, <1>2

LEMMA RelayStepInv == RelayInv /\ [RelayNext]_relayVars => RelayInv'
<1> SUFFICES ASSUME RelayInv, [RelayNext]_relayVars PROVE RelayInv'
  OBVIOUS
<1> USE DEF RelayInv
<1>1. ASSUME NEW e \in Events, Write(e) PROVE RelayInv'
  BY <1>1 DEF Write, RelayTypeOK, GotIsAccepted, DeliveredMeansAccepted, IsOldest
<1>2. CASE Drain
  BY <1>2 DEF Drain, Fetched, Undelivered, RelayTypeOK, GotIsAccepted,
              DeliveredMeansAccepted, IsOldest
<1>3. ASSUME NEW e \in batch, NEW s \in Subscribers, Accept(e, s)
      PROVE  RelayInv'
  <2>1. e \in Events
    BY DEF RelayTypeOK
  <2>2. RelayTypeOK'
    BY <1>3, <2>1 DEF Accept, RelayTypeOK
  <2>3. accepted'[e] = accepted[e] \cup {s}
    BY <1>3, <2>1 DEF Accept, RelayTypeOK
  <2>4. \A f \in Events : accepted[f] \subseteq accepted'[f]
    BY <1>3, <2>1 DEF Accept, RelayTypeOK
  <2>5. IsOldest(e)
    BY <1>3 DEF Accept
  <2>6. \A f \in batch' : IsOldest(f)' => f = e
    BY <1>3, <2>5, OneOldest DEF Accept, IsOldest
  <2>7. GotIsAccepted'
    BY <1>3, <2>3, <2>5, <2>6 DEF Accept, GotIsAccepted
  <2>8. DeliveredMeansAccepted'
    BY <1>3, <2>2, <2>4 DEF Accept, RelayTypeOK, DeliveredMeansAccepted
  <2> QED
    BY <2>2, <2>7, <2>8
<1>4. ASSUME NEW e \in batch, NEW s \in Subscribers, Refuse(e, s)
      PROVE  RelayInv'
  BY <1>4 DEF Refuse, RelayTypeOK, GotIsAccepted, DeliveredMeansAccepted
<1>5. ASSUME NEW e \in batch, MarkDelivered(e)
      PROVE  RelayInv'
  <2>1. e \in written \ delivered /\ e \in Events
    BY DEF RelayTypeOK
  <2>2. accepted[e] = Subscribers
    BY <1>5, <2>1 DEF MarkDelivered, RelayTypeOK, GotIsAccepted
  <2>3. RelayTypeOK'
    BY <1>5, <2>1 DEF MarkDelivered, RelayTypeOK
  <2>4. DeliveredMeansAccepted'
    BY <1>5, <2>2 DEF MarkDelivered, DeliveredMeansAccepted
  <2> QED
    BY <1>5, <2>3, <2>4 DEF MarkDelivered, GotIsAccepted
<1>6. ASSUME NEW e \in Events, BackoffEnds(e) PROVE RelayInv'
  <2>1. RelayTypeOK'
    BY <1>6 DEF BackoffEnds, RelayTypeOK
  <2> QED
    BY <1>6, <2>1 DEF BackoffEnds, GotIsAccepted, DeliveredMeansAccepted, IsOldest
<1>7. CASE RelayStops
  <2>1. stops' \in Nat /\ refusals' \in Nat
    BY <1>7 DEF RelayStops, RelayTypeOK
  <2>2. running' \in BOOLEAN
    BY <1>7 DEF RelayStops
  <2>3. RelayTypeOK'
    BY <1>7, <2>1, <2>2 DEF RelayStops, RelayTypeOK
  <2> QED
    BY <1>7, <2>3 DEF RelayStops, GotIsAccepted, DeliveredMeansAccepted
<1>8. CASE RelayStarts
  BY <1>8 DEF RelayStarts, RelayTypeOK, GotIsAccepted, DeliveredMeansAccepted,
              IsOldest
<1>9. CASE UNCHANGED relayVars
  BY <1>9 DEF relayVars, RelayTypeOK, GotIsAccepted, DeliveredMeansAccepted,
              IsOldest
<1> QED
  BY <1>1, <1>2, <1>3, <1>4, <1>5, <1>6, <1>7, <1>8, <1>9
  DEF RelayNext, Deliver

\* delivered_at is set only on events that every subscriber has accepted:
\* drain_once of relay.rs, whatever is refused and however often it is ended.
THEOREM DeliveredOnlyAccepted == RelaySpec => []DeliveredMeansAccepted
<1>1. RelayInv => DeliveredMeansAccepted
  BY DEF RelayInv
<1> QED
  BY <1>1, RelayInitInv, RelayStepInv, PTL DEF RelaySpec

-----------------------------------------------------------------------------
(* The relay again: who hears of an event when, and the provable half of     *)
(* RefusedHoldsUpNobody.                                                     *)

\* Subscribers hear of an event in the order of their registration: whoever has
\* accepted it comes after others that have, through refusals, retries from the
\* first subscriber on and restarts.
HeardInTurn ==
  \A e \in Events : \A s \in accepted[e] :
    \A t \in Subscribers : t < s => t \in accepted[e]

\* The rows that are refused for ever do not crowd out the others: the oldest
\* of these is among the rows of the next pass.
NobodyIsCrowdedOut ==
  Cardinality(Poisoned) < BatchSize =>
    \A e \in Undelivered \ Poisoned :
      (\A f \in Undelivered \ Poisoned : e <= f) => e \in Fetched

\* Where a pass is, it has somebody to ask or a row to stamp.
RelayGoesOn ==
  running /\ batch # {} =>
    \E e \in batch : IsOldest(e) /\ (got = Subscribers \/ \E s \in Subscribers : IsNext(s))

\* Each step of a pass has dealt with a row, or with one more subscriber of it,
\* and nothing is added to what a pass has left.
RelayAdvances ==
  [][batch # {} =>
       /\ batch' \subseteq batch
       /\ Deliver => batch' # batch \/ (got \subseteq got' /\ got # got')]_relayVars

\* A row leaves a pass delivered, or refused: by one that will never accept it,
\* by a refusal that is counted, or because the task has ended.
RelayServes ==
  [][\A e \in batch \ batch' :
       \/ e \in delivered'
       \/ ~running'
       \/ e \in backoff' /\ (e \in Poisoned \/ refusals' = refusals + 1)]_relayVars

\* A set of naturals has a least element.
LEMMA LeastOf ==
  ASSUME NEW T \in SUBSET Nat, T # {}
  PROVE  \E x \in T : \A y \in T : x <= y
<1> DEFINE Less == OpToRel(<, Nat)
<1>1. IsWellFoundedOn(Less, Nat)
  BY NatLessThanWellFounded
<1>2. ASSUME NEW x \in Nat, NEW y \in Nat, <<y, x>> \notin Less PROVE x <= y
  <2>1. ~(y < x)
    BY <1>2 DEF OpToRel
  <2> QED
    BY <2>1
<1> HIDE DEF Less
<1>3. PICK x \in T : \A y \in T : <<y, x>> \notin Less
  BY <1>1, WFMin
<1>4. \A y \in T : x <= y
  BY <1>2, <1>3
<1> QED
  BY <1>4

LEMMA RelayInvHolds == RelaySpec => []RelayInv
BY RelayInitInv, RelayStepInv, PTL DEF RelaySpec

\* Each step of the relay hands an event to its next subscriber, settles an event
\* that all have accepted, commits one, or changes nothing that Delivery sees.
LEMMA RelayStepRefines ==
  ASSUME RelayInv, [RelayNext]_relayVars
  PROVE  [Promise!DeliveryNext]_(Promise!deliveryVars)
<1> USE DEF Promise!DeliveryNext, Promise!deliveryVars
<1>1. ASSUME NEW e \in Events, Write(e) PROVE Promise!DeliveryNext
  <2>1. Promise!Commit(e)
    BY <1>1 DEF Write, Promise!Commit
  <2> QED
    BY <2>1
<1>2. ASSUME NEW e \in batch, NEW s \in Subscribers, Accept(e, s)
      PROVE  Promise!DeliveryNext
  <2>1. e \in Events /\ e \in written \ delivered
    BY DEF RelayInv, RelayTypeOK
  <2>2. got \subseteq accepted[e]
    BY <1>2 DEF RelayInv, GotIsAccepted, Accept
  <2>3. \A t \in Subscribers : t < s => t \in accepted[e]
    BY <1>2, <2>2 DEF Accept, IsNext
  <2>4. Promise!Hear(e, s)
    BY <1>2, <2>1, <2>3 DEF Accept, Promise!Hear
  <2> QED
    BY <2>1, <2>4
<1>3. ASSUME NEW e \in batch, MarkDelivered(e) PROVE Promise!DeliveryNext
  <2>1. e \in Events /\ e \in written \ delivered
    BY DEF RelayInv, RelayTypeOK
  <2>2. accepted[e] = Subscribers
    BY <1>3, <2>1 DEF MarkDelivered, RelayInv, RelayTypeOK, GotIsAccepted
  <2>3. Promise!Settle(e)
    BY <1>3, <2>1, <2>2 DEF MarkDelivered, Promise!Settle
  <2> QED
    BY <2>1, <2>3
<1>4. ASSUME UNCHANGED <<written, accepted, delivered>>
      PROVE  UNCHANGED Promise!deliveryVars
  BY <1>4
<1> QED
  BY <1>1, <1>2, <1>3, <1>4
     DEF RelayNext, Deliver, Drain, Refuse, RelayStops, RelayStarts, BackoffEnds,
         relayVars

\* The relay implements Delivery: deliver_to_all and mark_delivered keep the
\* order and the condition whatever is refused, retried, ended and started again.
THEOREM RelayImplementsDelivery == RelaySpec => ImplementsDelivery
<1>1. RelayInit => Promise!DeliveryInit
  BY DEF RelayInit, Promise!DeliveryInit
<1>2. RelayInv /\ [RelayNext]_relayVars
        => [Promise!DeliveryNext]_(Promise!deliveryVars)
  BY RelayStepRefines
<1> QED
  BY <1>1, <1>2, RelayInvHolds, PTL
     DEF RelaySpec, ImplementsDelivery, Promise!DeliverySpec

\* deliver_to_all, for any subscribers: none hears of an event that one before
\* it has not accepted, however often it is tried.
THEOREM SubscribersHearInTurn == RelaySpec => []HeardInTurn
<1>1. RelayInit => HeardInTurn
  BY DEF RelayInit, HeardInTurn
<1>2. ASSUME RelayInv, HeardInTurn, [RelayNext]_relayVars PROVE HeardInTurn'
  <2>1. ASSUME NEW e \in batch, NEW s \in Subscribers, Accept(e, s)
        PROVE  HeardInTurn'
    <3>1. e \in Events /\ accepted \in [Events -> SUBSET Subscribers]
      BY <1>2 DEF RelayInv, RelayTypeOK
    <3>2. got \subseteq accepted[e]
      BY <1>2, <2>1 DEF RelayInv, GotIsAccepted, Accept
    <3>3. \A t \in Subscribers : t < s => t \in accepted[e]
      BY <2>1, <3>2 DEF Accept, IsNext
    <3>4. /\ accepted'[e] = accepted[e] \cup {s}
          /\ \A f \in Events : f # e => accepted'[f] = accepted[f]
      BY <2>1, <3>1 DEF Accept
    <3> QED
      BY <1>2, <3>3, <3>4 DEF HeardInTurn
  <2>2. ASSUME UNCHANGED accepted PROVE HeardInTurn'
    BY <1>2, <2>2 DEF HeardInTurn
  <2> QED
    BY <1>2, <2>1, <2>2
       DEF RelayNext, Deliver, Drain, MarkDelivered, Refuse, RelayStops, RelayStarts,
           Write, BackoffEnds, relayVars
<1> QED
  BY <1>1, <1>2, RelayInvHolds, PTL DEF RelaySpec

\* fetch_undelivered: as long as a batch is larger than the number of events
\* that are refused for ever, the oldest of the others is in it.
THEOREM NobodyIsLeftBehind == RelaySpec => []NobodyIsCrowdedOut
<1>1. ASSUME RelayTypeOK PROVE NobodyIsCrowdedOut
  <2> SUFFICES ASSUME Cardinality(Poisoned) < BatchSize,
                      NEW e \in Undelivered \ Poisoned,
                      \A f \in Undelivered \ Poisoned : e <= f
               PROVE  e \in Fetched
    BY DEF NobodyIsCrowdedOut
  <2> DEFINE before == {f \in Undelivered : f < e}
  <2>1. Undelivered \subseteq Events /\ Events \subseteq Nat /\ IsFiniteSet(Events)
    BY <1>1, RelayConstants DEF RelayTypeOK, Undelivered
  <2>2. IsFiniteSet(Poisoned)
    BY <2>1, FS_Subset DEF Poisoned
  <2>3. before \subseteq Poisoned
    <3>1. ASSUME NEW f \in Undelivered, f < e, f \notin Poisoned PROVE FALSE
      <4>1. e <= f /\ e \in Nat /\ f \in Nat
        BY <2>1, <3>1
      <4> QED
        BY <3>1, <4>1
    <3> QED
      BY <3>1
  <2>4. /\ Cardinality(before) <= Cardinality(Poisoned)
        /\ Cardinality(before) \in Nat /\ Cardinality(Poisoned) \in Nat
    BY <2>2, <2>3, FS_Subset, FS_CardinalityType
  <2> HIDE DEF before
  <2>5. Cardinality(before) < BatchSize
    BY <2>4, RelayConstants
  <2> QED
    BY <2>5 DEF Fetched, before
<1>2. RelayInv => RelayTypeOK
  BY DEF RelayInv
<1> QED
  BY <1>1, <1>2, RelayInvHolds, PTL

\* drain_once always has a next subscriber to call or a row to stamp: neither
\* refusals nor a restart leave it where it cannot go on.
THEOREM RelayIsNeverStuck == RelaySpec => []RelayGoesOn
<1>1. ASSUME RelayTypeOK PROVE RelayGoesOn
  <2> SUFFICES ASSUME batch # {}
               PROVE  \E e \in batch : IsOldest(e)
                        /\ (got = Subscribers \/ \E s \in Subscribers : IsNext(s))
    BY DEF RelayGoesOn
  <2>1. batch \in SUBSET Nat /\ got \subseteq Subscribers /\ Subscribers \subseteq Nat
    BY <1>1, RelayConstants DEF RelayTypeOK
  <2>2. PICK e \in batch : IsOldest(e)
    BY <2>1, LeastOf DEF IsOldest
  <2>3. ASSUME got # Subscribers PROVE \E s \in Subscribers : IsNext(s)
    <3>1. Subscribers \ got \in SUBSET Nat /\ Subscribers \ got # {}
      BY <2>1, <2>3
    <3>2. PICK s \in Subscribers \ got : \A t \in Subscribers \ got : s <= t
      BY <3>1, LeastOf
    <3>3. ASSUME NEW t \in Subscribers, t < s PROVE t \in got
      <4>1. t \in Nat /\ s \in Nat
        BY <2>1
      <4> QED
        BY <3>2, <3>3, <4>1
    <3> QED
      BY <3>2, <3>3 DEF IsNext
  <2> QED
    BY <2>2, <2>3
<1>2. RelayInv => RelayTypeOK
  BY DEF RelayInv
<1> QED
  BY <1>1, <1>2, RelayInvHolds, PTL

\* A pass over n rows asks each subscriber once a row at most and then ends,
\* whatever producers commit meanwhile.
THEOREM RelayPassesEnd == RelaySpec => RelayAdvances
<1>1. RelayInv /\ [RelayNext]_relayVars =>
        [batch # {} =>
           /\ batch' \subseteq batch
           /\ Deliver => batch' # batch \/ (got \subseteq got' /\ got # got')]_relayVars
  <2> SUFFICES ASSUME RelayNext, batch # {}
               PROVE  /\ batch' \subseteq batch
                      /\ Deliver => batch' # batch \/ (got \subseteq got' /\ got # got')
    OBVIOUS
  <2>1. Deliver => /\ batch' \subseteq batch
                   /\ batch' # batch \/ (got \subseteq got' /\ got # got')
    BY DEF Deliver, MarkDelivered, Accept, Refuse, IsNext
  <2>2. Deliver \/ batch' = batch \/ batch' = {}
    BY DEF RelayNext, Drain, RelayStops, RelayStarts, Write, BackoffEnds
  <2> QED
    BY <2>1, <2>2
<1> QED
  BY <1>1, RelayInvHolds, PTL DEF RelaySpec, RelayAdvances

\* drain_once drops no row of its batch: each one is stamped or backs off after
\* a refusal.
THEOREM RelayDropsNothing == RelaySpec => RelayServes
<1>1. RelayInv /\ [RelayNext]_relayVars =>
        [\A e \in batch \ batch' :
           \/ e \in delivered'
           \/ ~running'
           \/ e \in backoff' /\ (e \in Poisoned \/ refusals' = refusals + 1)]_relayVars
  <2> SUFFICES ASSUME RelayInv, RelayNext, NEW e \in batch, e \notin batch'
               PROVE  \/ e \in delivered'
                      \/ ~running'
                      \/ e \in backoff' /\ (e \in Poisoned \/ refusals' = refusals + 1)
    OBVIOUS
  <2>1. e \in Events
    BY DEF RelayInv, RelayTypeOK
  <2>2. ASSUME NEW f \in batch, MarkDelivered(f) PROVE e \in delivered'
    BY <2>2 DEF MarkDelivered
  <2>3. ASSUME NEW f \in batch, NEW s \in Subscribers, Refuse(f, s)
        PROVE  e \in backoff' /\ (e \in Poisoned \/ refusals' = refusals + 1)
    BY <2>1, <2>3 DEF Refuse, Poisoned
  <2> QED
    BY <2>2, <2>3
       DEF RelayNext, Deliver, Accept, Drain, RelayStops, RelayStarts, Write, BackoffEnds
<1> QED
  BY <1>1, RelayInvHolds, PTL DEF RelaySpec, RelayServes

-----------------------------------------------------------------------------
(* Bonds.  A check holds for the insert that follows it as long as nobody  *)
(* else inserts in between: bonds that go cannot close a cycle.            *)

ChecksHold ==
  /\ ~raced => ~Cyclic(bonds)
  /\ \A c \in Creator :
       ~raced /\ creating[c] # NoBond /\ c \notin overtaken =>
         ~Cyclic(bonds \cup {creating[c]})

BondInv == BondTypeOK /\ ChecksHold

LEMMA FewerBonds ==
  ASSUME NEW g, NEW h, g \subseteq h, ~Cyclic(h)
  PROVE  ~Cyclic(g)
  BY DEF Cyclic

LEMMA BondInitInv == BondInit => BondInv
<1> SUFFICES ASSUME BondInit PROVE BondInv
  OBVIOUS
<1>1. BondTypeOK
  BY DEF BondInit, BondTypeOK, SparkStatus
<1>2. ~Cyclic({})
  BY DEF Cyclic
<1> QED
  BY <1>1, <1>2 DEF BondInit, BondInv, ChecksHold

LEMMA BondStepInv == BondInv /\ [BondNext]_bondVars => BondInv'
<1> SUFFICES ASSUME BondInv, [BondNext]_bondVars PROVE BondInv'
  OBVIOUS
<1> USE DEF BondInv, sparkVars
<1>1. ASSUME NEW c \in Creator, NEW x \in Spark, NEW y \in Spark, Check(c, x, y)
      PROVE  BondInv'
  <2>1. BondTypeOK'
    BY <1>1 DEF Check, BondTypeOK
  <2>2. ~Cyclic(bonds \cup {creating'[c]})
    BY <1>1 DEF Check, BondTypeOK, WouldCreateCycle
  <2>3. ASSUME NEW d \in Creator, d # c
        PROVE  creating'[d] = creating[d] /\ (d \notin overtaken' => d \notin overtaken)
    BY <1>1, <2>3 DEF Check, BondTypeOK
  <2> QED
    BY <1>1, <2>1, <2>2, <2>3 DEF Check, ChecksHold
<1>2. ASSUME NEW c \in Creator, Insert(c) PROVE BondInv'
  <2>1. /\ creating[c] # NoBond
        /\ creating' = [creating EXCEPT ![c] = NoBond]
        /\ UNCHANGED sparkVars
    BY <1>2 DEF Insert
  <2>2. CASE creating[c] \in bonds
    BY <1>2, <2>1, <2>2 DEF Insert, BondTypeOK, ChecksHold
  <2>3. CASE creating[c] \notin bonds
    <3>1. /\ bonds' = bonds \cup {creating[c]}
          /\ raced' = (raced \/ c \in overtaken)
          /\ overtaken' = overtaken \cup (Creator \ {c})
      BY <1>2, <2>3 DEF Insert
    <3>2. raced' \in BOOLEAN
      BY <3>1
    <3>3. BondTypeOK'
      BY <2>1, <3>1, <3>2 DEF BondTypeOK
    <3>4. ~raced' => ~Cyclic(bonds')
      BY <2>1, <3>1 DEF ChecksHold
    <3>5. \A d \in Creator : creating'[d] # NoBond => d \in overtaken'
      BY <2>1, <3>1 DEF BondTypeOK
    <3> QED
      BY <3>3, <3>4, <3>5 DEF ChecksHold
  <2> QED
    BY <2>2, <2>3
<1>3. ASSUME NEW c \in Creator, GiveUp(c) PROVE BondInv'
  BY <1>3 DEF GiveUp, BondTypeOK, ChecksHold
<1>4. ASSUME NEW b \in bonds, Unbond(b) PROVE BondInv'
  <2>1. BondTypeOK'
    BY <1>4 DEF Unbond, BondTypeOK
  <2>2. ~Cyclic(bonds) => ~Cyclic(bonds')
    BY <1>4, FewerBonds DEF Unbond
  <2>3. \A c \in Creator : ~Cyclic(bonds \cup {creating[c]})
                             => ~Cyclic(bonds' \cup {creating[c]})
    <3> TAKE c \in Creator
    <3>1. bonds' \cup {creating[c]} \subseteq bonds \cup {creating[c]}
      BY <1>4 DEF Unbond
    <3> QED
      BY <3>1, FewerBonds
  <2> QED
    BY <1>4, <2>1, <2>2, <2>3 DEF Unbond, ChecksHold
<1>5. ASSUME NEW s \in Spark, NEW st \in SparkStatus, SetStatus(s, st)
      PROVE  BondInv'
  BY <1>5 DEF SetStatus, BondTypeOK, ChecksHold
<1>6. CASE UNCHANGED bondVars
  BY <1>6 DEF bondVars, BondTypeOK, ChecksHold
<1>7. ASSUME NEW p \in Hierarchies, Reparent(p) PROVE BondInv'
  BY <1>7 DEF Reparent, BondTypeOK, ChecksHold
<1>8. ASSUME NEW s \in Spark, Defer(s) \/ DeferEnds(s) PROVE BondInv'
  BY <1>8 DEF Defer, DeferEnds, BondTypeOK, ChecksHold
<1> QED
  BY <1>1, <1>2, <1>3, <1>4, <1>5, <1>6, <1>7, <1>8 DEF BondNext

\* If every unfinished spark had an unfinished blocker, these would be a cycle.
LEMMA AcyclicIsHot == BondInv => SomethingIsHot
<1> SUFFICES ASSUME BondInv, ~raced, \E s \in Spark : status[s] # "closed"
             PROVE  \/ HotSparks # {}
                    \/ \E s \in Spark \ BlockedIds :
                         status[s] = "aside" \/ (status[s] = "open" /\ s \in PutOff)
  BY DEF SomethingIsHot
<1> DEFINE left == {s \in Spark : status[s] # "closed"}
<1>1. left \in (SUBSET Spark) \ {{}}
  OBVIOUS
<1>2. ~Cyclic(bonds)
  BY DEF BondInv, ChecksHold
<1>3. PICK y \in left : \A x \in left : <<x, y>> \notin bonds
  BY <1>1, <1>2 DEF Cyclic
<1>4. y \in Spark \ BlockedIds
  BY <1>3 DEF BlockedIds
<1>5. status[y] = "open" \/ status[y] = "aside"
  BY <1>3 DEF BondInv, BondTypeOK, SparkStatus
<1> QED
  BY <1>4, <1>5 DEF HotSparks

\* Whatever is created, deleted, edited and put off, and whoever gives up half way:
\* as long as no create of bond_repo.rs raced with another, hot_sparks lists
\* something, or a spark that no other blocks waits for a person or a date.
THEOREM SomethingStaysHot == BondSpec => []SomethingIsHot
  BY BondInitInv, BondStepInv, AcyclicIsHot, PTL DEF BondSpec

-----------------------------------------------------------------------------
(* Worktrees.  Each piece of work is in one place, and what the command    *)
(* has judged removable holds nothing it knew.                             *)

Held(t) == edits[t] \cup commits[t]

OnePlace ==
  /\ \A t \in Tree : edits[t] \cap commits[t] = {} /\ Held(t) \cap lost = {}
  /\ \A t, u \in Tree : t # u => Held(t) \cap Held(u) = {}

Judged ==
  \A t \in Tree :
    /\ judged[t] = "half" => edits[t] \cap known = {}
    /\ judged[t] \in {"removable", "unlinked"} =>
         Held(t) \cap known = {} /\ t \notin prune.active

WorktreeInv == WorktreeTypeOK /\ OnePlace /\ Judged

LEMMA WorktreeInitInv == WorktreeInit => WorktreeInv
  BY DEF WorktreeInit, WorktreeInv, WorktreeTypeOK, OnePlace, Judged, Held,
         SessionStatus, Judgement, NoPrune

\* What a tree holds only changes by new work and by work that goes.
LEMMA WorktreeStep ==
  WorktreeInv /\ [WorktreeNext]_worktreeVars =>
    /\ WorktreeInv'
    /\ \A u \in Tree : \A i \in Held(u) \cap lost' :
         i \notin known /\ u \notin prune.active
<1> SUFFICES ASSUME WorktreeInv, [WorktreeNext]_worktreeVars
             PROVE  /\ WorktreeInv'
                    /\ \A u \in Tree : \A i \in Held(u) \cap lost' :
                         i \notin known /\ u \notin prune.active
  OBVIOUS
<1> DEFINE Late == \A u \in Tree : \A i \in Held(u) \cap lost' :
                     i \notin known /\ u \notin prune.active
<1> USE DEF WorktreeInv
<1>1. ASSUME lost' = lost PROVE Late
  BY <1>1 DEF OnePlace
<1>2. CASE StartPrune
  <2>1. prune'.active \in SUBSET Tree /\ prune'.runs = TRUE
    BY <1>2 DEF StartPrune, WorktreeTypeOK
  <2>2. WorktreeTypeOK'
    BY <1>2 DEF StartPrune, WorktreeTypeOK, Judgement
  <2>3. Judged'
    BY <1>2 DEF StartPrune, Judged
  <2> QED
    BY <1>1, <1>2, <2>2, <2>3 DEF StartPrune, OnePlace, Held
<1>3. CASE EndPrune
  BY <1>1, <1>3 DEF EndPrune, NoPrune, WorktreeTypeOK, Judgement, OnePlace,
                    Judged, Held
<1>4. ASSUME NEW t \in Tree, MakeTree(t) PROVE WorktreeInv' /\ Late
  BY <1>1, <1>4 DEF MakeTree, WorktreeTypeOK, OnePlace, Judged, Held
<1>5. ASSUME NEW t \in Tree, StartAgent(t) \/ AgentExits(t)
      PROVE  WorktreeInv' /\ Late
  BY <1>1, <1>5 DEF StartAgent, AgentExits, WorktreeTypeOK, OnePlace, Judged, Held
<1>6. ASSUME NEW t \in Tree, NEW st \in SessionStatus, SetSession(t, st)
      PROVE  WorktreeInv' /\ Late
  BY <1>1, <1>6 DEF SetSession, WorktreeTypeOK, OnePlace, Judged, Held
<1>7. ASSUME NEW t \in Tree, NEW i \in Work, Edit(t, i)
      PROVE  WorktreeInv' /\ Late
  <2>1. /\ i \notin known /\ i \notin lost
        /\ \A u \in Tree : i \notin Held(u)
    BY <1>7 DEF Edit, IsNew, Held
  <2>2. /\ edits'[t] = edits[t] \cup {i}
        /\ \A u \in Tree : u # t => edits'[u] = edits[u]
        /\ edits' \in [Tree -> SUBSET Work]
    BY <1>7 DEF Edit, WorktreeTypeOK
  <2>3. WorktreeTypeOK'
    BY <1>7, <2>2 DEF Edit, WorktreeTypeOK
  <2>4. OnePlace'
    BY <1>7, <2>1, <2>2 DEF Edit, OnePlace, Held
  <2>5. Judged'
    BY <1>7, <2>1, <2>2 DEF Edit, Judged, Held
  <2> QED
    BY <1>1, <1>7, <2>3, <2>4, <2>5 DEF Edit
<1>8. ASSUME NEW t \in Tree, Commit(t) PROVE WorktreeInv' /\ Late
  <2>1. /\ edits'[t] = {} /\ commits'[t] = commits[t] \cup edits[t]
        /\ \A u \in Tree : u # t => edits'[u] = edits[u] /\ commits'[u] = commits[u]
        /\ WorktreeTypeOK'
    BY <1>8 DEF Commit, WorktreeTypeOK
  <2>2. OnePlace'
    BY <1>8, <2>1 DEF Commit, OnePlace, Held
  <2>3. /\ edits'[t] \subseteq edits[t] /\ Held(t)' = Held(t)
        /\ judged' = judged /\ known' = known /\ prune' = prune
    BY <1>8, <2>1 DEF Commit, Held
  <2>4. Judged'
    BY <2>1, <2>3 DEF Judged, Held
  <2> QED
    BY <1>1, <1>8, <2>1, <2>2, <2>4 DEF Commit
<1>9. ASSUME NEW t \in Tree, Integrate(t) PROVE WorktreeInv' /\ Late
  <2>1. /\ edits' = edits /\ commits'[t] = {}
        /\ \A u \in Tree : u # t => commits'[u] = commits[u]
        /\ WorktreeTypeOK'
    BY <1>9 DEF Integrate, WorktreeTypeOK
  <2> QED
    BY <1>1, <1>9, <2>1 DEF Integrate, OnePlace, Judged, Held
<1>10. ASSUME NEW t \in Tree, Look(t) PROVE WorktreeInv' /\ Late
  <2>1. WorktreeTypeOK'
    BY <1>10 DEF Look, WorktreeTypeOK, Judgement
  <2>2. OnePlace'
    BY <1>10 DEF Look, OnePlace, Held
  <2>3. \A u \in Tree : u # t => judged'[u] = judged[u]
    BY <1>10 DEF Look, WorktreeTypeOK
  <2>4. judged'[t] = (IF edits[t] = {} THEN "half" ELSE "kept")
    BY <1>10 DEF Look, WorktreeTypeOK, Safe
  <2>5. \A u \in Tree : u # t => Held(u) \cap known' = Held(u) \cap known
    BY <1>10 DEF Look, OnePlace, Held
  <2>6. Judged'
    <3> SUFFICES ASSUME NEW u \in Tree
                 PROVE  /\ judged'[u] = "half" => edits'[u] \cap known' = {}
                        /\ judged'[u] \in {"removable", "unlinked"} =>
                             Held(u)' \cap known' = {} /\ u \notin prune'.active
      BY DEF Judged
    <3>1. edits' = edits /\ commits' = commits /\ prune' = prune
      BY <1>10 DEF Look
    <3>2. CASE u = t
      BY <2>4, <3>1, <3>2
    <3>3. CASE u # t
      <4>1. edits[u] \cap known' = edits[u] \cap known
            /\ commits[u] \cap known' = commits[u] \cap known
        BY <2>5, <3>3 DEF Held
      <4>2. judged'[u] = judged[u] /\ Held(u)' = Held(u)
        BY <2>3, <3>1, <3>3 DEF Held
      <4> QED
        BY <2>5, <3>1, <3>3, <4>1, <4>2 DEF Judged
    <3> QED
      BY <3>2, <3>3
  <2> QED
    BY <1>1, <1>10, <2>1, <2>2, <2>6 DEF Look
<1>11. ASSUME NEW t \in Tree, Judge(t) PROVE WorktreeInv' /\ Late
  <2>1. WorktreeTypeOK'
    BY <1>11 DEF Judge, WorktreeTypeOK, Judgement
  <2>2. \A u \in Tree : u # t => judged'[u] = judged[u]
    BY <1>11 DEF Judge, WorktreeTypeOK
  <2>3. \/ judged'[t] = "kept"
        \/ judged'[t] = "removable" /\ commits[t] = {} /\ t \notin prune.active
    BY <1>11 DEF Judge, WorktreeTypeOK, Safe
  <2>4. edits[t] \cap known = {}
    BY <1>11 DEF Judge, Judged
  <2>5. Judged'
    BY <1>11, <2>2, <2>3, <2>4 DEF Judge, Judged, Held
  <2> QED
    BY <1>1, <1>11, <2>1, <2>5 DEF Judge, OnePlace, Held
<1>12. ASSUME NEW t \in Tree, RemoveTree(t) PROVE WorktreeInv' /\ Late
  <2>1. /\ lost' = lost \cup edits[t] /\ edits'[t] = {} /\ judged'[t] = "unlinked"
        /\ \A u \in Tree : u # t => edits'[u] = edits[u] /\ judged'[u] = judged[u]
        /\ WorktreeTypeOK'
    BY <1>12 DEF RemoveTree, WorktreeTypeOK, Judgement
  <2>2. Held(t) \cap known = {} /\ t \notin prune.active
    BY <1>12 DEF RemoveTree, Judged
  <2>3. OnePlace'
    BY <1>12, <2>1 DEF RemoveTree, OnePlace, Held
  <2>4. Judged'
    BY <1>12, <2>1, <2>2 DEF RemoveTree, Judged, Held
  <2>5. Late
    BY <2>1, <2>2 DEF OnePlace, Held
  <2> QED
    BY <2>1, <2>3, <2>4, <2>5
<1>13. ASSUME NEW t \in Tree, DeleteBranch(t) PROVE WorktreeInv' /\ Late
  <2>1. /\ lost' = lost \cup commits[t] /\ commits'[t] = {} /\ judged'[t] = "kept"
        /\ \A u \in Tree : u # t => commits'[u] = commits[u] /\ judged'[u] = judged[u]
        /\ WorktreeTypeOK'
    BY <1>13 DEF DeleteBranch, WorktreeTypeOK, Judgement
  <2>2. Held(t) \cap known = {} /\ t \notin prune.active
    BY <1>13 DEF DeleteBranch, Judged
  <2>3. OnePlace'
    BY <1>13, <2>1 DEF DeleteBranch, OnePlace, Held
  <2>4. Judged'
    BY <1>13, <2>1 DEF DeleteBranch, Judged, Held
  <2>5. Late
    BY <2>1, <2>2 DEF OnePlace, Held
  <2> QED
    BY <2>1, <2>3, <2>4, <2>5
<1>14. ASSUME NEW t \in Tree, GitFails(t) PROVE WorktreeInv' /\ Late
  <2>1. /\ judged'[t] = "kept" /\ WorktreeTypeOK'
        /\ \A u \in Tree : u # t => judged'[u] = judged[u]
    BY <1>14 DEF GitFails, WorktreeTypeOK, Judgement
  <2> QED
    BY <1>1, <1>14, <2>1 DEF GitFails, OnePlace, Judged, Held
<1>15. CASE UNCHANGED worktreeVars
  BY <1>1, <1>15 DEF worktreeVars, WorktreeTypeOK, OnePlace, Judged, Held
<1> QED
  BY <1>2, <1>3, <1>4, <1>5, <1>6, <1>7, <1>8, <1>9, <1>10, <1>11, <1>12, <1>13,
     <1>14, <1>15
  DEF WorktreeNext

\* handle_worktree_prune of cli.rs: whatever it had seen at a tree, it does not
\* destroy, nor anything of a Hand it had found active.
THEOREM PruneLosesLateWorkOnly == WorktreeSpec => LostWorkWasLate
<1>1. WorktreeInv /\ [WorktreeNext]_worktreeVars =>
        [\A t \in Tree : \A i \in (edits[t] \cup commits[t]) \cap lost' :
           i \notin known /\ t \notin prune.active]_worktreeVars
  BY WorktreeStep DEF Held
<1>2. WorktreeInv /\ [WorktreeNext]_worktreeVars => WorktreeInv'
  BY WorktreeStep
<1> QED
  BY <1>1, <1>2, WorktreeInitInv, PTL DEF WorktreeSpec, LostWorkWasLate

-----------------------------------------------------------------------------
(* Releases.  A tag belongs to the one close that made it until that close *)
(* ends; only the row it closes records the tag meanwhile.                 *)

Owning == {"build", "record", "close", "clear", "untag", "untagOnly"}

TagsAreOwned ==
  \A c \in Closer : closing[c].stage \in Owning =>
    /\ closing[c].version \in tags
    /\ \A d \in Closer : d # c /\ closing[d].stage \in Owning =>
         closing[d].version # closing[c].version

RecordsAreOwned ==
  \A c \in Closer, r \in Release \ unclean :
    closing[c].stage \in Owning /\ release[r].tag = closing[c].version =>
      closing[c].stage \in {"close", "clear"} /\ r = closing[c].rel

AtWork ==
  \A c \in Closer : closing[c].stage # "idle" =>
    closing[c].rel \in Release /\ closing[c].version \in Versions

RowsAreWhole ==
  \A r \in Release :
    /\ release[r].status # "absent" => release[r].version \in Versions
    /\ \A e \in Epic : <<r, e>> \in members => release[r].status # "absent"

ClosesARow ==
  \A c \in Closer : closing[c].stage # "idle" =>
    release[closing[c].rel].status # "absent"

ClaimsOfCloses == TagsAreOwned /\ RecordsAreOwned /\ RecordedTagStands

ReleaseInv ==
  ReleaseTypeOK /\ AtWork /\ RowsAreWhole /\ ClosesARow /\ OneOpenRelease
    /\ ClaimsOfCloses

LEMMA ReleaseInitInv == ReleaseInit => ReleaseInv
  BY DEF ReleaseInit, ReleaseInv, ReleaseTypeOK, AtWork, RowsAreWhole, ClosesARow,
         OneOpenRelease,
         ClaimsOfCloses, TagsAreOwned, RecordsAreOwned, RecordedTagStands,
         ReleaseRow, ReleaseStatus, Closings, Stages, NoClose, Owning

\* What a step leaves to the tags: nobody acquires one, nobody records one.
Relinquishing ==
  /\ tags' = tags /\ unclean' = unclean
  /\ \A r \in Release : release'[r].tag \in {release[r].tag, 0}
  /\ \A c \in Closer : closing'[c].stage \in Owning =>
       /\ closing[c].stage \in Owning
       /\ closing'[c].rel = closing[c].rel
       /\ closing'[c].version = closing[c].version
       /\ closing[c].stage \in {"close", "clear"} =>
            closing'[c].stage \in {"close", "clear"}

LEMMA NothingAcquired ==
  ASSUME ReleaseTypeOK, ClaimsOfCloses, Relinquishing
  PROVE  ClaimsOfCloses'
<1>1. 0 \notin tags
  BY ReleaseConstants DEF ReleaseTypeOK
<1>2. TagsAreOwned'
  BY DEF ClaimsOfCloses, TagsAreOwned, Relinquishing
<1>3. RecordsAreOwned'
  <2> SUFFICES ASSUME NEW c \in Closer, NEW r \in Release \ unclean,
                      closing'[c].stage \in Owning,
                      release'[r].tag = closing'[c].version
               PROVE  closing'[c].stage \in {"close", "clear"} /\ r = closing'[c].rel
    BY DEF RecordsAreOwned, Relinquishing
  <2>1. closing[c].stage \in Owning /\ closing[c].version \in tags
    BY DEF Relinquishing, ClaimsOfCloses, TagsAreOwned
  <2>2. release[r].tag = closing[c].version
    BY <1>1, <2>1 DEF Relinquishing
  <2> QED
    BY <2>1, <2>2 DEF ClaimsOfCloses, RecordsAreOwned, Relinquishing
<1>4. RecordedTagStands'
  BY DEF ClaimsOfCloses, RecordedTagStands, Relinquishing
<1> QED
  BY <1>2, <1>3, <1>4 DEF ClaimsOfCloses

\* Where a close goes.
LEMMA GoToEffect ==
  ASSUME ReleaseTypeOK, AtWork, NEW c \in Closer, NEW s \in Stages,
         closing[c].stage # "idle", GoTo(c, s)
  PROVE  /\ closing' \in [Closer -> Closings]
         /\ closing'[c].stage = s
         /\ s # "idle" => /\ closing'[c].rel = closing[c].rel
                          /\ closing'[c].version = closing[c].version
         /\ \A d \in Closer : d # c => closing'[d] = closing[d]
         /\ AtWork'
<1>1. closing[c] \in Closings
  BY DEF ReleaseTypeOK
<1>2. CASE s = "idle"
  <2>1. NoClose \in Closings /\ NoClose.stage = "idle"
    BY DEF NoClose, Closings, Stages
  <2>2. closing' = [closing EXCEPT ![c] = NoClose]
    BY <1>2 DEF GoTo
  <2> QED
    BY <1>2, <2>1, <2>2 DEF ReleaseTypeOK, AtWork
<1>3. CASE s # "idle"
  <2>1. closing' = [closing EXCEPT ![c] = [closing[c] EXCEPT !.stage = s]]
    BY <1>3 DEF GoTo
  <2>2. [closing[c] EXCEPT !.stage = s] \in Closings
    BY <1>1 DEF Closings
  <2> QED
    BY <1>3, <2>1, <2>2 DEF ReleaseTypeOK, AtWork, Closings
<1> QED
  BY <1>2, <1>3

\* The database: rows and members.
LEMMA RepositoryStep ==
  ASSUME ReleaseInv, NEW r \in Release,
         \/ \E v \in Versions : CreateRelease(r, v) \/ EditRelease(r, v)
         \/ \E e \in Epic : AddEpic(r, e) \/ RemoveEpic(r, e)
         \/ \E st \in ReleaseStatus : SetReleaseStatus(r, st)
  PROVE  ReleaseInv'
<1> USE DEF ReleaseInv
<1>1. release[r] \in ReleaseRow /\ \A s \in Release : release[s] \in ReleaseRow
  BY DEF ReleaseTypeOK
<1>2. ASSUME NEW v \in Versions, CreateRelease(r, v) PROVE ReleaseInv'
  <2>1. /\ release'[r] = [status |-> "open", version |-> v, tag |-> 0]
        /\ \A s \in Release : s # r => release'[s] = release[s]
        /\ release' \in [Release -> ReleaseRow]
    BY <1>2 DEF CreateRelease, ReleaseTypeOK, ReleaseRow, ReleaseStatus
  <2>2. Relinquishing
    BY <1>2, <2>1 DEF CreateRelease, Relinquishing
  <2>3. ReleaseTypeOK' /\ AtWork' /\ RowsAreWhole' /\ ClosesARow'
    BY <1>2, <2>1 DEF CreateRelease, ReleaseTypeOK, AtWork, RowsAreWhole, ClosesARow
  <2>4. OneOpenRelease'
    BY <1>2, <2>1 DEF CreateRelease, OneOpenRelease, RowsAreWhole
  <2> QED
    BY <2>2, <2>3, <2>4, NothingAcquired
<1>3. ASSUME NEW v \in Versions, EditRelease(r, v) PROVE ReleaseInv'
  <2>1. /\ release'[r] = [release[r] EXCEPT !.version = v]
        /\ \A s \in Release : s # r => release'[s] = release[s]
        /\ release' \in [Release -> ReleaseRow]
    BY <1>1, <1>3 DEF EditRelease, ReleaseTypeOK, ReleaseRow
  <2>2. \A s \in Release : release'[s].tag = release[s].tag
                           /\ release'[s].status = release[s].status
    BY <1>1, <2>1 DEF ReleaseRow
  <2>3. release'[r].version = v
    BY <1>1, <2>1 DEF ReleaseRow
  <2>4. Relinquishing
    BY <1>3, <2>2 DEF EditRelease, Relinquishing
  <2>5. ReleaseTypeOK' /\ AtWork' /\ RowsAreWhole' /\ ClosesARow' /\ OneOpenRelease'
    BY <1>3, <2>1, <2>2, <2>3
    DEF EditRelease, ReleaseTypeOK, AtWork, RowsAreWhole, ClosesARow, OneOpenRelease
  <2> QED
    BY <2>4, <2>5, NothingAcquired
<1>4. ASSUME NEW e \in Epic, AddEpic(r, e) PROVE ReleaseInv'
  <2>1. Relinquishing
    BY <1>4 DEF AddEpic, Relinquishing
  <2>2. ReleaseTypeOK' /\ AtWork' /\ RowsAreWhole' /\ ClosesARow'
    BY <1>4 DEF AddEpic, ReleaseTypeOK, AtWork, RowsAreWhole, ClosesARow
  <2>3. OneOpenRelease'
    BY <1>4 DEF AddEpic, OneOpenRelease, HeldElsewhere
  <2> QED
    BY <2>1, <2>2, <2>3, NothingAcquired
<1>5. ASSUME NEW e \in Epic, RemoveEpic(r, e) PROVE ReleaseInv'
  <2>1. Relinquishing
    BY <1>5 DEF RemoveEpic, Relinquishing
  <2>2. ReleaseTypeOK' /\ AtWork' /\ RowsAreWhole' /\ ClosesARow' /\ OneOpenRelease'
    BY <1>5 DEF RemoveEpic, ReleaseTypeOK, AtWork, RowsAreWhole, ClosesARow, OneOpenRelease
  <2> QED
    BY <2>1, <2>2, NothingAcquired
<1>6. ASSUME NEW st \in ReleaseStatus, SetReleaseStatus(r, st) PROVE ReleaseInv'
  <2>1. /\ release'[r] = [release[r] EXCEPT !.status = st]
        /\ \A s \in Release : s # r => release'[s] = release[s]
        /\ release' \in [Release -> ReleaseRow]
    BY <1>1, <1>6 DEF SetReleaseStatus, ReleaseTypeOK, ReleaseRow
  <2>2. \A s \in Release : release'[s].tag = release[s].tag
                           /\ release'[s].version = release[s].version
    BY <1>1, <2>1 DEF ReleaseRow
  <2>3. release'[r].status = st
    BY <1>1, <2>1 DEF ReleaseRow
  <2>4. Relinquishing
    BY <1>6, <2>2 DEF SetReleaseStatus, Relinquishing
  <2>5. ReleaseTypeOK' /\ AtWork' /\ RowsAreWhole' /\ ClosesARow'
    BY <1>6, <2>1, <2>2, <2>3
    DEF SetReleaseStatus, ReleaseTypeOK, AtWork, RowsAreWhole, ClosesARow
  <2>6. OneOpenRelease'
    <3> SUFFICES ASSUME NEW x \in Release, NEW y \in Release, NEW e \in Epic,
                        <<x, e>> \in members, <<y, e>> \in members,
                        release'[x].status = "open", release'[y].status = "open",
                        x # y
                 PROVE  FALSE
      BY <1>6 DEF SetReleaseStatus, OneOpenRelease
    <3>1. ~(release[x].status = "open" /\ release[y].status = "open")
      BY DEF OneOpenRelease
    <3>2. CASE x = r
      BY <1>6, <2>1, <2>3, <3>1, <3>2 DEF SetReleaseStatus, MayTurn, HeldElsewhere
    <3>3. CASE y = r
      BY <1>6, <2>1, <2>3, <3>1, <3>3 DEF SetReleaseStatus, MayTurn, HeldElsewhere
    <3> QED
      BY <2>1, <3>1, <3>2, <3>3
  <2> QED
    BY <2>4, <2>5, <2>6, NothingAcquired
<1> QED
  BY <1>2, <1>3, <1>4, <1>5, <1>6

\* A step of a close.
LEMMA CloseStepInv ==
  ASSUME ReleaseInv, NEW c \in Closer, CloseStep(c)
  PROVE  ReleaseInv'
<1> USE DEF ReleaseInv
<1> DEFINE v == closing[c].version
           q == closing[c].rel
<1>1. /\ closing[c] \in Closings
      /\ \A r \in Release : release[r] \in ReleaseRow
      /\ 0 \notin tags
  BY ReleaseConstants DEF ReleaseTypeOK
<1>2. closing[c].stage # "idle" => q \in Release /\ v \in Versions
  BY DEF AtWork
\* Steps that touch neither rows nor tags.
<1>3. ASSUME UNCHANGED <<release, members, cutting, branches, tags, unclean>>,
             artifacts' \subseteq Versions, failures' \in Nat,
             closing[c].stage # "idle",
             NEW s \in Stages, GoTo(c, s),
             s \in Owning =>
               /\ closing[c].stage \in Owning
               /\ closing[c].stage \in {"close", "clear"} => s \in {"close", "clear"}
      PROVE  ReleaseInv'
  <2>1. Relinquishing
    BY <1>3, GoToEffect DEF Relinquishing, Owning
  <2>2. ReleaseTypeOK' /\ AtWork' /\ RowsAreWhole' /\ ClosesARow' /\ OneOpenRelease'
    BY <1>3, GoToEffect DEF ReleaseTypeOK, RowsAreWhole, ClosesARow, OneOpenRelease
  <2> QED
    BY <2>1, <2>2, NothingAcquired
<1>4. CASE PassGate(c)
  BY <1>3, <1>4 DEF PassGate, At, Stages, Owning, ReleaseTypeOK
<1>5. CASE BuildArtifact(c)
  <2>1. artifacts' \subseteq Versions
    BY <1>2, <1>5 DEF BuildArtifact, At, ReleaseTypeOK
  <2> QED
    BY <1>3, <1>5, <2>1 DEF BuildArtifact, At, Stages, Owning, ReleaseTypeOK
<1>6. CASE CloseFails(c)
  <2>1. /\ closing[c].stage \in {"build", "record", "close"}
        /\ Undo[closing[c].stage] \in Stages \cap Owning
        /\ closing[c].stage = "close" => Undo[closing[c].stage] = "clear"
    BY <1>6 DEF CloseFails, Undo, Stages, Owning
  <2>2. failures' \in Nat
    BY <1>6 DEF CloseFails, ReleaseTypeOK
  <2> QED
    BY <1>3, <1>6, <2>1, <2>2 DEF CloseFails, Owning, ReleaseTypeOK
<1>7. CASE CloseEnds(c)
  BY <1>3, <1>7 DEF CloseEnds, At, Stages, Owning, ReleaseTypeOK
<1>8. CASE Unstage(c)
  <2>1. artifacts' \subseteq Versions
    BY <1>8 DEF Unstage, ReleaseTypeOK
  <2> QED
    BY <1>3, <1>8, <2>1 DEF Unstage, At, Stages, Owning, ReleaseTypeOK
<1>9. CASE SetClosed(c)
  <2>1. PICK s \in {"idle", "clear"} : GoTo(c, s)
    BY <1>9 DEF SetClosed
  <2>2. closing[c].stage = "close" /\ q \in Release /\ s \in Stages
    BY <1>2, <1>9 DEF SetClosed, At, Stages
  <2>3. /\ release'[q] = [release[q] EXCEPT !.status = "closed"]
        /\ \A r \in Release : r # q => release'[r] = release[r]
        /\ release' \in [Release -> ReleaseRow]
    BY <1>1, <1>9, <2>2 DEF SetClosed, ReleaseTypeOK, ReleaseRow, ReleaseStatus
  <2>4. \A r \in Release : /\ release'[r].tag = release[r].tag
                           /\ release'[r].version = release[r].version
                           /\ release'[r].status \in {release[r].status, "closed"}
    BY <1>1, <2>3 DEF ReleaseRow
  <2>5. Relinquishing
    BY <1>9, <2>1, <2>2, <2>4, GoToEffect DEF SetClosed, Relinquishing, Owning
  <2>6. failures' \in Nat
    BY <1>9 DEF SetClosed, ReleaseTypeOK
  <2>7. ReleaseTypeOK' /\ AtWork'
    BY <1>9, <2>1, <2>2, <2>3, <2>6, GoToEffect DEF SetClosed, ReleaseTypeOK
  <2>8. release[q].status # "absent" /\ release'[q].status = "closed"
    BY <1>1, <2>2, <2>3 DEF ClosesARow, ReleaseRow
  <2>9. RowsAreWhole'
    BY <1>9, <2>4, <2>8 DEF SetClosed, RowsAreWhole
  <2>10. ClosesARow'
    BY <2>1, <2>2, <2>4, <2>8, GoToEffect DEF ClosesARow, AtWork
  <2>11. OneOpenRelease'
    BY <1>9, <2>4 DEF SetClosed, OneOpenRelease
  <2> QED
    BY <2>5, <2>7, <2>9, <2>10, <2>11, NothingAcquired
<1>10. ASSUME UNCHANGED <<members, cutting, branches, artifacts, failures>>,
              closing[c].stage # "idle", NEW s \in Stages, GoTo(c, s),
              \A r \in Release : \E t \in Versions \cup {0} :
                release'[r] = [release[r] EXCEPT !.tag = t],
              release' \in [Release -> ReleaseRow], tags' \subseteq Versions,
              unclean' \subseteq Release
       PROVE  ReleaseTypeOK' /\ AtWork' /\ RowsAreWhole' /\ ClosesARow'
                /\ OneOpenRelease'
  <2>1. \A r \in Release : release'[r].status = release[r].status
                           /\ release'[r].version = release[r].version
    BY <1>1, <1>10 DEF ReleaseRow
  <2>2. ReleaseTypeOK' /\ AtWork'
    BY <1>10, GoToEffect DEF ReleaseTypeOK
  <2>3. RowsAreWhole' /\ OneOpenRelease'
    BY <1>10, <2>1 DEF RowsAreWhole, OneOpenRelease
  <2>4. ClosesARow'
    BY <1>10, <2>1, GoToEffect DEF ClosesARow, AtWork
  <2> QED
    BY <2>2, <2>3, <2>4
<1>11. \A r \in Release : release[r] = [release[r] EXCEPT !.tag = release[r].tag]
                          /\ release[r].tag \in Versions \cup {0}
  BY <1>1 DEF ReleaseRow
<1>12. CASE TagRelease(c)
  <2>1. closing[c].stage = "tag" /\ v \in Versions /\ v \notin tags /\ GoTo(c, "build")
    BY <1>2, <1>12 DEF TagRelease, At
  <2>2. /\ closing'[c].stage = "build" /\ closing'[c].version = v
        /\ \A d \in Closer : d # c => closing'[d] = closing[d]
    BY <2>1, GoToEffect DEF Stages
  <2>3. \A r \in Release \ unclean : release[r].tag # v
    <3>1. v # 0
      BY <2>1, ReleaseConstants
    <3> QED
      BY <2>1, <3>1 DEF ClaimsOfCloses, RecordedTagStands
  <2>4. TagsAreOwned'
    BY <1>12, <2>1, <2>2 DEF TagRelease, ClaimsOfCloses, TagsAreOwned
  <2>5. RecordsAreOwned' /\ RecordedTagStands'
    BY <1>12, <2>2, <2>3
    DEF TagRelease, ClaimsOfCloses, RecordsAreOwned, RecordedTagStands, Owning
  <2>6. tags' \subseteq Versions
    BY <1>12, <2>1 DEF TagRelease, ReleaseTypeOK
  <2> QED
    BY <1>10, <1>11, <1>12, <2>1, <2>4, <2>5, <2>6
    DEF TagRelease, ClaimsOfCloses, Stages, ReleaseTypeOK
<1>13. CASE RecordClose(c)
  <2>1. /\ closing[c].stage = "record" /\ q \in Release /\ v \in Versions
        /\ v \in tags /\ GoTo(c, "close")
    BY <1>2, <1>13 DEF RecordClose, At, ClaimsOfCloses, TagsAreOwned, Owning
  <2>2. /\ closing'[c].stage = "close" /\ closing'[c].version = v
        /\ closing'[c].rel = q
        /\ \A d \in Closer : d # c => closing'[d] = closing[d]
    BY <2>1, GoToEffect DEF Stages
  <2>3. /\ release'[q] = [release[q] EXCEPT !.tag = v]
        /\ \A r \in Release : r # q => release'[r] = release[r]
        /\ release' \in [Release -> ReleaseRow]
    BY <1>1, <1>13, <2>1 DEF RecordClose, ReleaseTypeOK, ReleaseRow
  <2>4. release'[q].tag = v
    BY <1>1, <2>1, <2>3 DEF ReleaseRow
  <2>5. \A r \in Release \ unclean : release[r].tag # v
    BY <2>1 DEF ClaimsOfCloses, RecordsAreOwned, Owning
  <2>6. tags' = tags /\ unclean' = unclean \ {q}
    BY <1>13 DEF RecordClose
  <2>7. TagsAreOwned'
    BY <2>1, <2>2, <2>6 DEF ClaimsOfCloses, TagsAreOwned, Owning
  <2>8. RecordsAreOwned'
    <3> SUFFICES ASSUME NEW d \in Closer, NEW r \in Release \ unclean',
                        closing'[d].stage \in Owning,
                        release'[r].tag = closing'[d].version
                 PROVE  closing'[d].stage \in {"close", "clear"} /\ r = closing'[d].rel
      BY DEF RecordsAreOwned
    <3>1. CASE d = c
      BY <2>2, <2>3, <2>5, <2>6, <3>1
    <3>2. CASE d # c
      <4>1. closing[d] = closing'[d] /\ closing[d].version # v
        BY <2>1, <2>2, <3>2 DEF ClaimsOfCloses, TagsAreOwned, Owning
      <4>2. r # q
        BY <2>4, <4>1
      <4> QED
        BY <2>3, <2>6, <4>1, <4>2 DEF ClaimsOfCloses, RecordsAreOwned
    <3> QED
      BY <3>1, <3>2
  <2>9. RecordedTagStands'
    <3> SUFFICES ASSUME NEW r \in Release \ unclean', release'[r].tag # 0
                 PROVE  /\ release'[r].tag \in tags
                        /\ \A x \in Release \ (unclean' \cup {r}) :
                             release'[x].tag # release'[r].tag
      BY <2>6 DEF RecordedTagStands
    <3>1. CASE r = q
      BY <2>1, <2>3, <2>4, <2>5, <2>6, <3>1
    <3>2. CASE r # q
      <4>1. r \notin unclean /\ release'[r] = release[r] /\ release[r].tag # v
        BY <2>3, <2>5, <2>6, <3>2
      <4>2. \A x \in Release \ (unclean' \cup {r}) :
              x = q \/ (x \notin unclean \cup {r} /\ release'[x] = release[x])
        BY <2>3, <2>6
      <4> QED
        BY <2>4, <4>1, <4>2 DEF ClaimsOfCloses, RecordedTagStands
    <3> QED
      BY <3>1, <3>2
  <2>10. \A r \in Release : \E t \in Versions \cup {0} :
           release'[r] = [release[r] EXCEPT !.tag = t]
    BY <1>11, <2>1, <2>3
  <2>11. tags' \subseteq Versions /\ unclean' \subseteq Release
    BY <2>6 DEF ReleaseTypeOK
  <2> QED
    BY <1>10, <1>13, <2>1, <2>3, <2>7, <2>8, <2>9, <2>10, <2>11
    DEF RecordClose, ClaimsOfCloses, Stages
<1>14. CASE ClearMetadata(c)
  <2>1. /\ closing[c].stage = "clear" /\ q \in Release /\ v \in Versions
        /\ GoTo(c, "untag")
    BY <1>2, <1>14 DEF ClearMetadata, At
  <2>2. /\ closing'[c].stage = "untag" /\ closing'[c].version = v
        /\ closing'[c].rel = q
        /\ \A d \in Closer : d # c => closing'[d] = closing[d]
    BY <2>1, GoToEffect DEF Stages
  <2>3. \A r \in Release \ unclean : release[r].tag = v => r = q
    BY <2>1 DEF ClaimsOfCloses, RecordsAreOwned, Owning
  <2>4. tags' = tags
    BY <1>14 DEF ClearMetadata
  <2>5. TagsAreOwned'
    BY <2>1, <2>2, <2>4 DEF ClaimsOfCloses, TagsAreOwned, Owning
  <2>6. CASE release' = [release EXCEPT ![q].tag = 0] /\ unclean' = unclean \ {q}
    <3>1. /\ release'[q] = [release[q] EXCEPT !.tag = 0]
          /\ \A r \in Release : r # q => release'[r] = release[r]
          /\ release' \in [Release -> ReleaseRow]
      BY <1>1, <2>1, <2>6 DEF ReleaseTypeOK, ReleaseRow
    <3>2. release'[q].tag = 0
      BY <1>1, <3>1 DEF ReleaseRow
    <3>3. RecordsAreOwned'
      <4> SUFFICES ASSUME NEW d \in Closer, NEW r \in Release \ unclean',
                          closing'[d].stage \in Owning,
                          release'[r].tag = closing'[d].version
                   PROVE  closing'[d].stage \in {"close", "clear"} /\ r = closing'[d].rel
        BY DEF RecordsAreOwned
      <4>1. closing'[d].version \in tags
        BY <2>4, <2>5 DEF TagsAreOwned
      <4>2. r # q /\ release[r].tag = closing'[d].version /\ r \notin unclean
        BY <1>1, <2>6, <3>1, <3>2, <4>1
      <4>3. d # c
        BY <2>2, <2>3, <4>2
      <4> QED
        BY <2>2, <4>2, <4>3 DEF ClaimsOfCloses, RecordsAreOwned
    <3>4. RecordedTagStands'
      BY <2>4, <2>6, <3>1, <3>2 DEF ClaimsOfCloses, RecordedTagStands
    <3> QED
      BY <1>10, <1>11, <1>14, <2>1, <2>4, <2>5, <2>6, <3>1, <3>3, <3>4
      DEF ClearMetadata, ClaimsOfCloses, Stages, ReleaseTypeOK
  <2>7. CASE UNCHANGED release /\ unclean' = unclean \cup {q}
    <3>1. RecordsAreOwned' /\ RecordedTagStands'
      BY <2>1, <2>2, <2>3, <2>4, <2>7
      DEF ClaimsOfCloses, RecordsAreOwned, RecordedTagStands, Owning
    <3> QED
      BY <1>10, <1>11, <1>14, <2>1, <2>4, <2>5, <2>7, <3>1
      DEF ClearMetadata, ClaimsOfCloses, Stages, ReleaseTypeOK
  <2> QED
    BY <1>14, <2>6, <2>7 DEF ClearMetadata
<1>15. CASE Untag(c)
  <2> DEFINE s == IF At(c, "untag") THEN "unstage" ELSE "idle"
  <2>1. /\ closing[c].stage \in {"untag", "untagOnly"} /\ s \in Stages \ Owning
        /\ GoTo(c, s)
        /\ tags \ {v} \subseteq tags' /\ tags' \subseteq tags
    BY <1>15 DEF Untag, At, Stages, Owning
  <2> HIDE DEF s
  <2>2. /\ closing'[c].stage = s
        /\ \A d \in Closer : d # c => closing'[d] = closing[d]
    BY <2>1, GoToEffect
  <2>3. \A r \in Release \ unclean : release[r].tag # v
    BY <2>1 DEF ClaimsOfCloses, RecordsAreOwned, Owning
  <2>4. release' = release /\ unclean' = unclean
    BY <1>15 DEF Untag
  <2>5. TagsAreOwned'
    BY <2>1, <2>2 DEF ClaimsOfCloses, TagsAreOwned, Owning
  <2>6. RecordsAreOwned' /\ RecordedTagStands'
    BY <2>1, <2>2, <2>3, <2>4
    DEF ClaimsOfCloses, RecordsAreOwned, RecordedTagStands
  <2>7. closing[c].stage # "idle" /\ s \in Stages /\ tags' \subseteq Versions
    BY <2>1 DEF ReleaseTypeOK
  <2>8. UNCHANGED <<members, cutting, branches, artifacts, failures>>
    BY <1>15 DEF Untag
  <2> QED
    BY <1>10, <1>11, <2>1, <2>4, <2>5, <2>6, <2>7, <2>8
    DEF ClaimsOfCloses, ReleaseTypeOK
<1> QED
  BY <1>4, <1>5, <1>6, <1>7, <1>8, <1>9, <1>12, <1>13, <1>14, <1>15 DEF CloseStep

LEMMA ReleaseStepInv == ReleaseInv /\ [ReleaseNext]_releaseVars => ReleaseInv'
<1> SUFFICES ASSUME ReleaseInv, [ReleaseNext]_releaseVars PROVE ReleaseInv'
  OBVIOUS
<1> USE DEF ReleaseInv
<1>1. ASSUME NEW v \in Versions, CutBranch(v) PROVE ReleaseInv'
  <2>1. Relinquishing
    BY <1>1 DEF CutBranch, Relinquishing
  <2>2. ReleaseTypeOK' /\ AtWork' /\ RowsAreWhole' /\ ClosesARow' /\ OneOpenRelease'
    BY <1>1 DEF CutBranch, ReleaseTypeOK, AtWork, RowsAreWhole, ClosesARow, OneOpenRelease
  <2> QED
    BY <2>1, <2>2, NothingAcquired
<1>2. ASSUME NEW c \in Closer, NEW r \in Release, StartClose(c, r) PROVE ReleaseInv'
  <2>1. release[r].status # "absent" /\ release[r].version \in Versions
    BY <1>2 DEF StartClose, RowsAreWhole
  <2> DEFINE new == [stage |-> "gate", rel |-> r, version |-> release[r].version]
  <2>2. new \in Closings
    BY <2>1 DEF Closings, Stages
  <2>3. /\ closing' \in [Closer -> Closings] /\ closing'[c] = new
        /\ \A d \in Closer : d # c => closing'[d] = closing[d]
    BY <1>2, <2>2 DEF StartClose, ReleaseTypeOK
  <2>4. Relinquishing
    BY <1>2, <2>3 DEF StartClose, Relinquishing, Owning
  <2>5. ReleaseTypeOK' /\ AtWork' /\ RowsAreWhole' /\ ClosesARow' /\ OneOpenRelease'
    BY <1>2, <2>1, <2>3
    DEF StartClose, ReleaseTypeOK, AtWork, RowsAreWhole, ClosesARow, OneOpenRelease
  <2> QED
    BY <2>4, <2>5, NothingAcquired
<1>3. CASE UNCHANGED releaseVars
  BY <1>3 DEF releaseVars, ReleaseTypeOK, AtWork, RowsAreWhole, ClosesARow,
              OneOpenRelease, ClaimsOfCloses, TagsAreOwned, RecordsAreOwned,
              RecordedTagStands
<1> QED
  BY <1>1, <1>2, <1>3, RepositoryStep, CloseStepInv DEF ReleaseNext

\* add_epic and set_status under the triggers of 011_releases.sql: whatever is
\* added, removed, closed and reopened, an epic is in one open release at most.
THEOREM EpicsAreInOneRelease == ReleaseSpec => []OneOpenRelease
<1>1. ReleaseInv => OneOpenRelease
  BY DEF ReleaseInv
<1> QED
  BY <1>1, ReleaseInitInv, ReleaseStepInv, PTL DEF ReleaseSpec

\* release_close of cli.rs: through overlapping closes, failures at every step
\* and roll-backs, the tag a release records exists and no other release has it.
THEOREM TagsAreOfOneRelease == ReleaseSpec => []RecordedTagStands
<1>1. ReleaseInv => RecordedTagStands
  BY DEF ReleaseInv, ClaimsOfCloses
<1> QED
  BY <1>1, ReleaseInitInv, ReleaseStepInv, PTL DEF ReleaseSpec
-----------------------------------------------------------------------------
(* Snapshots.  Whatever a prune, however old its list, is about to remove  *)
(* has a whole snapshot before it in the list, or KeepRecent interrupted   *)
(* ones.  What another prune removes of these was about to be removed,     *)
(* too, and so leaves others behind.                                       *)

Before(n, state) == {m \in Name : snap[m] = state /\ ListedLater(m, n)}

Covered(n) ==
  \/ \E m \in Name : snap[m] = "whole" /\ ListedLater(m, n)
  \/ KeepRecent <= Cardinality(Before(n, "partial"))

Spared ==
  \A t \in Task : task[t].stage = "pruning" => \A n \in task[t].doomed : Covered(n)

SnapshotInv == SnapshotTypeOK /\ Spared

\* The list is in a strict order.
LEMMA ListIsOrdered ==
  ASSUME NEW l \in Name, NEW m \in Name, NEW n \in Name
  PROVE  /\ ~ListedLater(n, n)
         /\ ListedLater(l, m) /\ ListedLater(m, n) => ListedLater(l, n)
<1>1. /\ l[1] \in Nat /\ l[2] \in Nat /\ m[1] \in Nat /\ m[2] \in Nat
      /\ n[1] \in Nat /\ n[2] \in Nat
  BY SnapshotConstants DEF Name
<1> QED
  BY <1>1 DEF ListedLater

\* Fewer names in a set of names, a smaller number.
LEMMA FewerNames ==
  ASSUME NEW S \in SUBSET Name, NEW T \in SUBSET S
  PROVE  Cardinality(T) \in Nat /\ Cardinality(S) \in Nat /\ Cardinality(T) <= Cardinality(S)
<1>1. IsFiniteSet(0..MaxInstant) /\ IsFiniteSet(0..MaxSuffix)
  BY SnapshotConstants, FS_Interval
<1>2. IsFiniteSet(Name)
  BY <1>1, FS_Product DEF Name
<1>3. IsFiniteSet(S)
  BY <1>2, FS_Subset
<1>4. IsFiniteSet(T)
  BY <1>3, FS_Subset
<1> QED
  BY <1>3, <1>4, FS_Subset, FS_CardinalityType

\* As long as no snapshot goes, what is covered stays so.
LEMMA CoverStays ==
  ASSUME NEW n \in Name, Covered(n),
         \A m \in Name : snap[m] = "whole" => snap'[m] = "whole",
         \A m \in Name : snap[m] = "partial" => snap'[m] \in {"partial", "whole"}
  PROVE  Covered(n)'
<1>1. CASE \E m \in Name : snap[m] = "whole" /\ ListedLater(m, n)
  BY <1>1 DEF Covered, ListedLater
<1>2. CASE \E m \in Before(n, "partial") : snap'[m] = "whole"
  BY <1>2 DEF Covered, ListedLater, Before
<1>3. CASE /\ KeepRecent <= Cardinality(Before(n, "partial"))
           /\ \A m \in Before(n, "partial") : snap'[m] # "whole"
  <2>1. Before(n, "partial") \subseteq Before(n, "partial")'
    BY <1>3 DEF Before, ListedLater
  <2>2. Before(n, "partial")' \subseteq Name
    BY DEF Before
  <2>3. /\ Cardinality(Before(n, "partial")) \in Nat
        /\ Cardinality(Before(n, "partial")') \in Nat
        /\ Cardinality(Before(n, "partial")) <= Cardinality(Before(n, "partial")')
    BY <2>1, <2>2, FewerNames
  <2> QED
    BY <1>3, <2>3, SnapshotConstants DEF Covered
<1> QED
  BY <1>1, <1>2, <1>3 DEF Covered

\* A prune leaves what covers the one it removes, and that covers all which this
\* one did.
LEMMA CoverShrinks ==
  ASSUME NEW n \in Name, NEW gone \in Name, Covered(n), Covered(gone),
         snap' = [snap EXCEPT ![gone] = "none"], SnapshotTypeOK
  PROVE  Covered(n)'
<1>1. \A m \in Name : m # gone => snap'[m] = snap[m]
  BY DEF SnapshotTypeOK
<1>2. CASE ~ListedLater(gone, n)
  <2>1. CASE \E m \in Name : snap[m] = "whole" /\ ListedLater(m, n)
    BY <1>1, <1>2, <2>1 DEF Covered, ListedLater
  <2>2. CASE KeepRecent <= Cardinality(Before(n, "partial"))
    <3>1. Before(n, "partial") \subseteq Before(n, "partial")'
      BY <1>1, <1>2 DEF Before, ListedLater
    <3>2. Before(n, "partial")' \subseteq Name
      BY DEF Before
    <3>3. /\ Cardinality(Before(n, "partial")) \in Nat
          /\ Cardinality(Before(n, "partial")') \in Nat
          /\ Cardinality(Before(n, "partial")) <= Cardinality(Before(n, "partial")')
      BY <3>1, <3>2, FewerNames
    <3> QED
      BY <2>2, <3>3, SnapshotConstants DEF Covered
  <2> QED
    BY <2>1, <2>2 DEF Covered
<1>3. CASE ListedLater(gone, n)
  <2>1. ~ListedLater(gone, gone)
    BY ListIsOrdered
  <2>2. \A m \in Name : ListedLater(m, gone) => ListedLater(m, n) /\ snap'[m] = snap[m]
    BY <1>1, <1>3, <2>1, ListIsOrdered
  <2>3. CASE \E m \in Name : snap[m] = "whole" /\ ListedLater(m, gone)
    BY <2>2, <2>3 DEF Covered, ListedLater
  <2>4. CASE KeepRecent <= Cardinality(Before(gone, "partial"))
    <3>1. Before(gone, "partial") \subseteq Before(n, "partial")'
      BY <2>2 DEF Before, ListedLater
    <3>2. Before(n, "partial")' \subseteq Name
      BY DEF Before
    <3>3. /\ Cardinality(Before(gone, "partial")) \in Nat
          /\ Cardinality(Before(n, "partial")') \in Nat
          /\ Cardinality(Before(gone, "partial")) <= Cardinality(Before(n, "partial")')
      BY <3>1, <3>2, FewerNames
    <3> QED
      BY <2>4, <3>3, SnapshotConstants DEF Covered
  <2> QED
    BY <2>3, <2>4 DEF Covered
<1> QED
  BY <1>2, <1>3

\* What retention gives up is covered: KeepRecent stand before it.
LEMMA GivenUpIsCovered ==
  ASSUME SnapshotTypeOK, NEW listed, listed = {n \in Name : snap[n] # "none"},
         NEW n \in listed \ Retained(listed)
  PROVE  Covered(n)
<1>1. ~(Cardinality({m \in listed : ListedLater(m, n)}) < KeepRecent)
  BY DEF Retained
<1>2. CASE \E m \in listed : snap[m] = "whole" /\ ListedLater(m, n)
  BY <1>2 DEF Covered
<1>3. CASE \A m \in listed : snap[m] = "whole" => ~ListedLater(m, n)
  <2>1. {m \in listed : ListedLater(m, n)} \subseteq Before(n, "partial")
    BY <1>3 DEF Before, SnapshotTypeOK
  <2>2. Before(n, "partial") \subseteq Name
    BY DEF Before
  <2>3. /\ Cardinality({m \in listed : ListedLater(m, n)}) \in Nat
        /\ Cardinality(Before(n, "partial")) \in Nat
        /\ Cardinality({m \in listed : ListedLater(m, n)}) <= Cardinality(Before(n, "partial"))
    BY <2>1, <2>2, FewerNames
  <2> QED
    BY <1>1, <2>3, SnapshotConstants DEF Covered
<1> QED
  BY <1>2, <1>3

LEMMA SnapshotInitInv == SnapshotInit => SnapshotInv
<1> SUFFICES ASSUME SnapshotInit PROVE SnapshotInv
  OBVIOUS
<1>1. 0 \in 0..MaxInstant /\ <<0, 0>> \in Name
  BY SnapshotConstants DEF Name
<1> QED
  BY <1>1 DEF SnapshotInit, SnapshotInv, SnapshotTypeOK, Spared, NoTask

\* Where no prune starts or goes on and no snapshot goes, all is as before.
LEMMA SparedStays ==
  ASSUME SnapshotInv, NEW t \in Task,
         \A u \in Task : u # t => task'[u] = task[u],
         task'[t].stage # "pruning",
         \A m \in Name : snap[m] = "whole" => snap'[m] = "whole",
         \A m \in Name : snap[m] = "partial" => snap'[m] \in {"partial", "whole"}
  PROVE  Spared'
<1> SUFFICES ASSUME NEW u \in Task, task'[u].stage = "pruning", NEW n \in task'[u].doomed
             PROVE  Covered(n)'
  BY DEF Spared
<1>1. task'[u] = task[u] /\ n \in Name /\ Covered(n)
  BY DEF SnapshotInv, SnapshotTypeOK, Spared
<1> QED
  BY <1>1, CoverStays

LEMMA SnapshotStepInv == SnapshotInv /\ [SnapshotNext]_snapshotVars => SnapshotInv'
<1> SUFFICES ASSUME SnapshotInv, [SnapshotNext]_snapshotVars PROVE SnapshotInv'
  OBVIOUS
<1>a. SnapshotTypeOK /\ Spared
  BY DEF SnapshotInv
<1>b. <<0, 0>> \in Name /\ 0..MaxInstant \subseteq Int
  BY SnapshotConstants DEF Name
<1> DEFINE Tasks == [stage : {"idle", "named", "writing", "written", "pruning"},
                     name : Name, doomed : SUBSET Name]
<1>c. NoTask \in Tasks
  BY <1>b DEF NoTask
<1>1. CASE NextInstant
  <2>1. SnapshotTypeOK'
    BY <1>1, <1>a, SnapshotConstants DEF NextInstant, SnapshotTypeOK
  <2>2. snap' = snap /\ task' = task
    BY <1>1 DEF NextInstant
  <2> QED
    BY <1>a, <2>1, <2>2 DEF SnapshotInv, Spared, Covered, Before, ListedLater
<1>2. ASSUME NEW t \in Task, NEW k \in 0..MaxSuffix, NameSnapshot(t, k)
      PROVE  SnapshotInv'
  <2>1. <<instant, k>> \in Name
    BY <1>a DEF Name, SnapshotTypeOK
  <2>2. task' = [task EXCEPT ![t].stage = "named", ![t].name = <<instant, k>>]
        /\ snap' = snap
    BY <1>2 DEF NameSnapshot
  <2>3. SnapshotTypeOK'
    BY <1>2, <1>a, <2>1, <2>2 DEF NameSnapshot, SnapshotTypeOK
  <2>4. task'[t].stage = "named" /\ \A u \in Task : u # t => task'[u] = task[u]
    BY <1>a, <2>2 DEF SnapshotTypeOK
  <2> QED
    BY <2>2, <2>3, <2>4, SparedStays DEF SnapshotInv
<1>3. ASSUME NEW t \in Task, StartVacuum(t) PROVE SnapshotInv'
  <2>1. /\ snap' \in [Name -> {"none", "partial", "whole"}]
        /\ \A m \in Name : snap[m] = "whole" => snap'[m] = "whole"
        /\ \A m \in Name : snap[m] = "partial" => snap'[m] \in {"partial", "whole"}
    BY <1>3, <1>a DEF StartVacuum, SnapshotTypeOK
  <2>2. /\ task' \in [Task -> Tasks] /\ task'[t].stage # "pruning"
        /\ \A u \in Task : u # t => task'[u] = task[u]
    BY <1>3, <1>a, <1>c DEF StartVacuum, SnapshotTypeOK, NoTask
  <2>3. SnapshotTypeOK'
    BY <1>3, <1>a, <2>1, <2>2 DEF StartVacuum, SnapshotTypeOK
  <2> QED
    BY <2>1, <2>2, <2>3, SparedStays DEF SnapshotInv
<1>4. ASSUME NEW t \in Task, FinishVacuum(t) PROVE SnapshotInv'
  <2>1. /\ snap' \in [Name -> {"none", "partial", "whole"}]
        /\ \A m \in Name : snap[m] = "whole" => snap'[m] = "whole"
        /\ \A m \in Name : snap[m] = "partial" => snap'[m] \in {"partial", "whole"}
    BY <1>4, <1>a DEF FinishVacuum, SnapshotTypeOK
  <2>2. /\ task' \in [Task -> Tasks] /\ task'[t].stage # "pruning"
        /\ \A u \in Task : u # t => task'[u] = task[u]
    BY <1>4, <1>a DEF FinishVacuum, SnapshotTypeOK
  <2>3. SnapshotTypeOK'
    BY <1>4, <1>a, <2>1, <2>2 DEF FinishVacuum, SnapshotTypeOK
  <2> QED
    BY <2>1, <2>2, <2>3, SparedStays DEF SnapshotInv
<1>5. ASSUME NEW t \in Task, TaskEnds(t) \/ EndPruning(t) PROVE SnapshotInv'
  <2>1. task' = [task EXCEPT ![t] = NoTask] /\ snap' = snap /\ instant' = instant
    BY <1>5 DEF TaskEnds, EndPruning
  <2>2. aborts' \in Nat
    BY <1>5, <1>a DEF TaskEnds, EndPruning, Abort, SnapshotTypeOK
  <2>3. /\ task' \in [Task -> Tasks] /\ task'[t].stage # "pruning"
        /\ \A u \in Task : u # t => task'[u] = task[u]
    BY <1>a, <1>c, <2>1 DEF SnapshotTypeOK, NoTask
  <2>4. SnapshotTypeOK'
    BY <1>a, <2>1, <2>2, <2>3 DEF SnapshotTypeOK
  <2> QED
    BY <2>1, <2>3, <2>4, SparedStays DEF SnapshotInv
<1>6. ASSUME NEW t \in Task, ListSnapshots(t) PROVE SnapshotInv'
  <2> DEFINE listed == {n \in Name : snap[n] # "none"}
             new == [stage |-> "pruning", name |-> <<0, 0>>,
                     doomed |-> listed \ Retained(listed)]
  <2>1. task' = [task EXCEPT ![t] = new] /\ UNCHANGED <<instant, snap, aborts>>
    BY <1>6 DEF ListSnapshots
  <2>2. new \in Tasks
    BY <1>b
  <2>3. /\ task' \in [Task -> Tasks] /\ task'[t] = new
        /\ \A u \in Task : u # t => task'[u] = task[u]
    BY <1>a, <2>1, <2>2 DEF SnapshotTypeOK
  <2>4. SnapshotTypeOK'
    BY <1>a, <2>1, <2>3 DEF SnapshotTypeOK
  <2>5. ASSUME NEW u \in Task, task'[u].stage = "pruning", NEW n \in task'[u].doomed
        PROVE  Covered(n)'
    <3>1. Covered(n)
      <4>1. CASE u = t
        <5>1. n \in listed \ Retained(listed)
          BY <2>3, <2>5, <4>1
        <5> HIDE DEF listed
        <5>2. listed = {m \in Name : snap[m] # "none"}
          BY DEF listed
        <5> QED
          BY <1>a, <5>1, <5>2, GivenUpIsCovered
      <4>2. CASE u # t
        BY <1>a, <2>3, <2>5, <4>2 DEF Spared
      <4> QED
        BY <4>1, <4>2
    <3> QED
      BY <2>1, <3>1 DEF Covered, Before, ListedLater
  <2> QED
    BY <2>4, <2>5 DEF SnapshotInv, Spared
<1>7. ASSUME NEW t \in Task, NEW gone \in Name, PruneOne(t, gone) PROVE SnapshotInv'
  <2>1. /\ task' = [task EXCEPT ![t].doomed = task[t].doomed \ {gone}]
        /\ instant' = instant /\ task[t].stage = "pruning" /\ gone \in task[t].doomed
    BY <1>7 DEF PruneOne
  <2>2. /\ task' \in [Task -> Tasks]
        /\ \A u \in Task : task'[u].stage = task[u].stage
                           /\ task'[u].doomed \subseteq task[u].doomed
    BY <1>a, <2>1 DEF SnapshotTypeOK
  <2>3. snap' = [snap EXCEPT ![gone] = "none"] \/ snap' = snap
    BY <1>7 DEF PruneOne
  <2>4. aborts' \in Nat
    BY <1>7, <1>a DEF PruneOne, Abort, SnapshotTypeOK
  <2>5. SnapshotTypeOK'
    BY <1>a, <2>1, <2>2, <2>3, <2>4 DEF SnapshotTypeOK
  <2>6. Covered(gone)
    BY <1>a, <2>1 DEF Spared
  <2>7. ASSUME NEW u \in Task, task'[u].stage = "pruning", NEW n \in task'[u].doomed
        PROVE  Covered(n)'
    <3>1. Covered(n) /\ n \in Name
      BY <1>a, <2>2, <2>7 DEF Spared, SnapshotTypeOK
    <3>2. CASE snap' = snap
      BY <3>1, <3>2 DEF Covered, Before, ListedLater
    <3>3. CASE snap' = [snap EXCEPT ![gone] = "none"]
      BY <1>a, <2>6, <3>1, <3>3, CoverShrinks
    <3> QED
      BY <2>3, <3>2, <3>3
  <2> QED
    BY <2>5, <2>7 DEF SnapshotInv, Spared
<1>8. CASE UNCHANGED snapshotVars
  BY <1>8, <1>a DEF snapshotVars, SnapshotInv, SnapshotTypeOK, Spared, Covered,
                    Before, ListedLater
<1> QED
  BY <1>1, <1>2, <1>3, <1>4, <1>5, <1>6, <1>7, <1>8 DEF SnapshotNext

\* apply_retention of backup.rs: overlapping prunes, each with a list of its own
\* age, snapshots that come while they run and deaths of either.  Only keep_recent
\* newer files that are not whole, or not yet, can cost the newest whole snapshot.
THEOREM NewestIsKept == SnapshotSpec => NewestSnapshotRemains
<1> DEFINE Newer(n) == {m \in Name : snap[m] = "partial" /\ m[1] >= n[1]}
           step == \A n \in Name : snap[n] = "whole" /\ snap'[n] # "whole" =>
                     \/ \E m \in Name \ {n} : snap[m] = "whole" /\ m[1] >= n[1]
                     \/ Cardinality(Newer(n)) >= KeepRecent
<1>1. SnapshotInv /\ [SnapshotNext]_snapshotVars => [step]_snapshotVars
  <2> SUFFICES ASSUME SnapshotInv, SnapshotNext, NEW n \in Name,
                      snap[n] = "whole", snap'[n] # "whole"
               PROVE  \/ \E m \in Name \ {n} : snap[m] = "whole" /\ m[1] >= n[1]
                      \/ Cardinality(Newer(n)) >= KeepRecent
    OBVIOUS
  <2>a. SnapshotTypeOK /\ Spared
    BY DEF SnapshotInv
  <2>1. PICK t \in Task : PruneOne(t, n)
    <3>1. \A t \in Task, gone \in Name : PruneOne(t, gone) => gone = n
      BY <2>a DEF PruneOne, SnapshotTypeOK
    <3>2. ~NextInstant
      BY DEF NextInstant
    <3>3. \A t \in Task, k \in 0..MaxSuffix : ~NameSnapshot(t, k)
      BY DEF NameSnapshot
    <3>4. \A t \in Task : ~StartVacuum(t) /\ ~FinishVacuum(t)
      BY <2>a DEF StartVacuum, FinishVacuum, SnapshotTypeOK
    <3>5. \A t \in Task : ~TaskEnds(t) /\ ~ListSnapshots(t) /\ ~EndPruning(t)
      BY DEF TaskEnds, ListSnapshots, EndPruning
    <3> QED
      BY <3>1, <3>2, <3>3, <3>4, <3>5 DEF SnapshotNext
  <2>2. Covered(n)
    BY <2>a, <2>1 DEF PruneOne, Spared
  <2>3. CASE KeepRecent <= Cardinality(Before(n, "partial"))
    <3>1. Before(n, "partial") \subseteq Newer(n) /\ Newer(n) \subseteq Name
      BY SnapshotConstants DEF Before, ListedLater, Name
    <3>2. /\ Cardinality(Before(n, "partial")) \in Nat /\ Cardinality(Newer(n)) \in Nat
          /\ Cardinality(Before(n, "partial")) <= Cardinality(Newer(n))
      BY <3>1, FewerNames
    <3> HIDE DEF Newer
    <3> QED
      BY <2>3, <3>2, SnapshotConstants
  <2>4. CASE \E m \in Name : snap[m] = "whole" /\ ListedLater(m, n)
    <3>1. PICK m \in Name : snap[m] = "whole" /\ ListedLater(m, n)
      BY <2>4
    <3>2. m # n
      BY <3>1, ListIsOrdered
    <3>3. m[1] >= n[1]
      BY <3>1, SnapshotConstants DEF ListedLater, Name
    <3> QED
      BY <3>1, <3>2, <3>3
  <2> QED
    BY <2>2, <2>3, <2>4 DEF Covered
<1> QED
  BY <1>1, SnapshotInitInv, SnapshotStepInv, PTL DEF SnapshotSpec, NewestSnapshotRemains

-----------------------------------------------------------------------------
(* Restores.  What a restore finds is its log until that is moved, and     *)
(* else aside; and a log that a restore has found is not open to anybody.  *)

Bounded ==
  /\ owed \subseteq 0..wrote
  /\ \A v \in {db, wal, restoring.source} : v \in Nat => v <= wrote

\* Nobody opens the database under a restore, and one that reaches its copy has
\* moved the log or given up on it.
UnderRestore ==
  /\ restoring.stage # "no" => ~open
  /\ restoring.stage = "copy" /\ ~restoring.stuck => wal = Absent

Faithful ==
  restored # Absent =>
    /\ restoring.stage = "no"
    /\ ~restoring.stuck => wal = Absent /\ db = restored /\ ~foreign

Aside(v) == \E s \in Second : v \in {aside[s].db, aside[s].wal}

\* The log that a restore is about to move is not moved over the last copy.
Traces ==
  /\ \A v \in owed : v = wal \/ Aside(v)
  /\ wal \in owed => ~open /\ (db = Absent \/ foreign)
  /\ restoring.stage = "sides" /\ aside[restoring.at].wal \in owed =>
       aside[restoring.at].wal \in {aside[restoring.at].db, wal}

RestoreInv == RestoreTypeOK /\ Bounded /\ UnderRestore /\ Faithful /\ Traces

LEMMA RestoreInitInv == RestoreInit => RestoreInv
<1> SUFFICES ASSUME RestoreInit PROVE RestoreInv
  OBVIOUS
<1>1. RestoreTypeOK
  <2>1. 0 \in Second /\ 0 \in Content /\ Absent \in Content /\ Absent \in Log
    BY RestoreConstants DEF Content, Log, Second
  <2>2. /\ restoring \in [stage : {"no", "sides", "copy"}, at : Second,
                         source : Content, stuck : BOOLEAN]
        /\ aside \in [Second -> [db : Content, wal : Log]]
    BY <2>1 DEF RestoreInit
  <2> QED
    BY <2>1, <2>2 DEF RestoreInit, RestoreTypeOK
<1>2. Bounded
  BY RestoreConstants DEF RestoreInit, Bounded
<1>3. UnderRestore /\ Faithful /\ Traces
  BY DEF RestoreInit, UnderRestore, Faithful, Traces
<1> QED
  BY <1>1, <1>2, <1>3 DEF RestoreInv

LEMMA RestoreTypeStep ==
  RestoreInv /\ [RestoreNext]_restoreVars => RestoreTypeOK' /\ Bounded'
<1> SUFFICES ASSUME RestoreInv, [RestoreNext]_restoreVars
             PROVE  RestoreTypeOK' /\ Bounded'
  OBVIOUS
<1> USE RestoreConstants DEF RestoreInv, RestoreTypeOK, Bounded, Content, Log, Second
<1>1. CASE OpenDb
  <2>1. db' \in {0, Garbage, db} /\ wal' \in {wal, Absent} /\ owed' \subseteq owed
    BY <1>1 DEF OpenDb
  <2>2. open' \in BOOLEAN /\ foreign' \in BOOLEAN
    BY <1>1 DEF OpenDb
  <2> QED
    BY <1>1, <2>1, <2>2 DEF OpenDb
<1>2. CASE WriteDb
  BY <1>2 DEF WriteDb
<1>3. CASE CloseDb
  BY <1>3 DEF CloseDb, Live
<1>4. CASE Damage
  <2>1. db' \in {Garbage, Absent} /\ mishaps' \in Nat
    BY <1>4 DEF Damage, Mishap
  <2> QED
    BY <1>4, <2>1 DEF Damage
<1>8. CASE ProgramsDie
  BY <1>8 DEF ProgramsDie
<1>9. CASE NextSecond
  <2>1. second' \in Second
    BY <1>9 DEF NextSecond
  <2> QED
    BY <1>9, <2>1 DEF NextSecond
<1>10. CASE UNCHANGED restoreVars
  BY <1>10 DEF restoreVars
<1>5. ASSUME NEW source \in 0..wrote \cup {Garbage}, BeginRestore(source)
      PROVE  RestoreTypeOK' /\ Bounded'
  <2>1. restoring' = [stage |-> "sides", at |-> second, source |-> source, stuck |-> FALSE]
    BY <1>5 DEF BeginRestore
  <2>2. aside' \in [Second -> [db : Content, wal : Log]]
    BY <1>5 DEF BeginRestore, AsideName
  <2> QED
    BY <1>5, <2>1, <2>2 DEF BeginRestore
<1>6. CASE MoveSidecars
  <2>1. aside' \in [Second -> [db : Content, wal : Log]]
    BY <1>6 DEF MoveSidecars, AsideName
  <2>2. restoring' \in [stage : {"no", "sides", "copy"}, at : Second,
                         source : Content, stuck : BOOLEAN]
        /\ restoring'.source = restoring.source
    BY <1>6 DEF MoveSidecars
  <2> QED
    BY <1>6, <2>1, <2>2 DEF MoveSidecars
<1>7. CASE SidecarStuck \/ NoSidecars \/ PutInPlace \/ RestoreDies
  <2>1. restoring' \in [stage : {"no", "sides", "copy"}, at : Second,
                        source : Content, stuck : BOOLEAN]
        /\ restoring'.source = restoring.source
    BY <1>7 DEF SidecarStuck, NoSidecars, PutInPlace, RestoreDies
  <2>2. db' \in {db, restoring.source} /\ restored' \in {restored, restoring.source}
    BY <1>7 DEF SidecarStuck, NoSidecars, PutInPlace, RestoreDies
  <2>3. foreign' \in BOOLEAN
    <3>1. foreign' = foreign \/ foreign' = (wal # Absent)
      BY <1>7 DEF SidecarStuck, NoSidecars, PutInPlace, RestoreDies
    <3> QED
      BY <3>1, Zenon
  <2>5. mishaps' \in Nat
    BY <1>7 DEF SidecarStuck, NoSidecars, PutInPlace, RestoreDies, Mishap
  <2>4. UNCHANGED <<second, open, wal, wrote, aside, owed>>
    BY <1>7 DEF SidecarStuck, NoSidecars, PutInPlace, RestoreDies
  <2> QED
    BY <2>1, <2>2, <2>3, <2>4, <2>5
<1> QED
  BY <1>1, <1>2, <1>3, <1>4, <1>5, <1>6, <1>7, <1>8, <1>9, <1>10 DEF RestoreNext

LEMMA RestoreStepInv == RestoreInv /\ [RestoreNext]_restoreVars => RestoreInv'
<1> SUFFICES ASSUME RestoreInv, [RestoreNext]_restoreVars PROVE RestoreInv'
  OBVIOUS
<1>0. RestoreTypeOK' /\ Bounded'
  BY RestoreTypeStep
<1>a. RestoreTypeOK /\ Bounded
  BY DEF RestoreInv
<1> SUFFICES UnderRestore' /\ Faithful' /\ Traces'
  BY <1>0 DEF RestoreInv
<1> USE DEF RestoreInv, UnderRestore, Faithful, Traces, Aside
<1>1. CASE OpenDb
  <2>1. Absent \notin owed /\ restoring.stage = "no" /\ restoring' = restoring
    BY <1>1, <1>a, RestoreConstants DEF OpenDb, RestoreTypeOK
  <2>2. wal' \in {wal, Absent} /\ wal \notin owed' /\ owed' \subseteq owed
    BY <1>1, <2>1 DEF OpenDb
  <2>3. Faithful'
    BY <1>1, <2>1 DEF OpenDb
  <2>4. aside' = aside
    BY <1>1 DEF OpenDb
  <2> QED
    BY <2>1, <2>2, <2>3, <2>4
<1>2. CASE WriteDb
  <2>1. wrote + 1 \notin owed /\ wrote + 1 # Absent
    BY <1>a, RestoreConstants DEF RestoreTypeOK, Bounded
  <2> QED
    BY <1>2, <2>1 DEF WriteDb
<1>3. CASE CloseDb
  BY <1>3, <1>a, RestoreConstants DEF CloseDb, Live, RestoreTypeOK
<1>4. CASE ProgramsDie \/ Damage \/ NextSecond \/ UNCHANGED restoreVars
  BY <1>4 DEF ProgramsDie, Damage, NextSecond, restoreVars
<1>5. ASSUME NEW source \in 0..wrote \cup {Garbage}, BeginRestore(source)
      PROVE  UnderRestore' /\ Faithful' /\ Traces'
  <2>1. /\ restoring' = [stage |-> "sides", at |-> second, source |-> source, stuck |-> FALSE]
        /\ wal' = wal /\ open' = open /\ ~open /\ db' = Absent /\ restored' = Absent
        /\ owed' = (owed \ {aside[second].db, aside[second].wal}) \cup ({db, wal} \cap Nat)
    BY <1>5 DEF BeginRestore
  <2>2. /\ \A s \in Second : aside'[s].wal = aside[s].wal
        /\ \A s \in Second : s # second => aside'[s] = aside[s]
        /\ db # Absent => aside'[second].db = db
    BY <1>5, <1>a DEF BeginRestore, AsideName, RestoreTypeOK
  <2>3. second \in Second /\ Absent \notin Nat
    BY <1>a, RestoreConstants DEF RestoreTypeOK
  <2>4. \A v \in owed' : v = wal' \/ Aside(v)'
    <3> TAKE v \in owed'
    <3>1. CASE v = wal
      BY <3>1, <2>1
    <3>2. CASE v # wal /\ v = db
      BY <3>2, <2>1, <2>2, <2>3
    <3>3. CASE v # wal /\ v # db
      <4>1. v \in owed /\ v \notin {aside[second].db, aside[second].wal}
        BY <3>3, <2>1
      <4>2. PICK s \in Second : v \in {aside[s].db, aside[s].wal}
        BY <4>1, <3>3
      <4> QED
        BY <4>1, <4>2, <2>2
    <3> QED
      BY <3>1, <3>2, <3>3
  <2>5. aside'[second].wal \in owed' => aside'[second].wal \in {aside'[second].db, wal}
    BY <2>1, <2>2, <2>3
  <2> QED
    BY <2>1, <2>4, <2>5
<1>6. CASE MoveSidecars
  <2> DEFINE at == restoring.at
  <2>1. /\ restoring.stage = "sides" /\ restoring'.stage = "copy"
        /\ wal' = Absent /\ open' = open /\ owed' = owed /\ restored' = restored
    BY <1>6, <1>a DEF MoveSidecars, RestoreTypeOK
  <2>2. at \in Second /\ Absent \notin owed
    BY <1>a, RestoreConstants DEF RestoreTypeOK
  <2>3. /\ aside'[at].wal = wal /\ aside'[at].db = aside[at].db
        /\ \A s \in Second : s # at => aside'[s] = aside[s]
    BY <1>6, <1>a, <2>2 DEF MoveSidecars, AsideName, RestoreTypeOK
  <2>4. ASSUME NEW v \in owed PROVE Aside(v)'
    <3>1. CASE v = wal
      BY <3>1, <2>2, <2>3
    <3>2. CASE v # wal
      <4>1. PICK s \in Second : v \in {aside[s].db, aside[s].wal}
        BY <3>2
      <4>2. v = aside[at].wal => v = aside[at].db
        BY <2>1, <3>2
      <4> QED
        BY <4>1, <4>2, <2>2, <2>3
    <3> QED
      BY <3>1, <3>2
  <2> QED
    BY <2>1, <2>2, <2>4
<1>7. CASE SidecarStuck \/ NoSidecars \/ RestoreDies
  <2>1. /\ restoring.stage # "no" /\ restoring'.stage \in {"copy", "no"}
        /\ restoring'.stage = "copy" => restoring'.stuck \/ wal = Absent
    BY <1>7, <1>a DEF SidecarStuck, NoSidecars, HasSidecars, RestoreDies, RestoreTypeOK
  <2>2. UNCHANGED <<open, db, wal, foreign, aside, owed, restored>>
    BY <1>7 DEF SidecarStuck, NoSidecars, RestoreDies
  <2>3. \A v : Aside(v)' = Aside(v)
    BY <2>2
  <2> QED
    BY <2>1, <2>2, <2>3
<1>8. CASE PutInPlace
  <2>1. /\ restoring.stage = "copy" /\ restoring'.stage = "no"
        /\ restoring'.stuck = restoring.stuck /\ foreign' = (wal # Absent)
        /\ wal' = wal /\ open' = open /\ owed' = owed /\ aside' = aside
        /\ db' = restored'
    BY <1>8, <1>a DEF PutInPlace, RestoreTypeOK
  <2>2. Absent \notin owed
    BY <1>a, RestoreConstants DEF RestoreTypeOK
  <2> QED
    BY <2>1, <2>2
<1> QED
  BY <1>1, <1>2, <1>3, <1>4, <1>5, <1>6, <1>7, <1>8 DEF RestoreNext

\* restore_snapshot of backup.rs: through deaths at every step, further restores
\* and programs that open what is left, a restore that could move what it found
\* leaves a database that reads as the snapshot.
THEOREM RestoresAreFaithful == RestoreSpec => []RestoredAsTaken
<1>1. RestoreInv => RestoredAsTaken
  BY DEF RestoreInv, Faithful, RestoredAsTaken, Live
<1> QED
  BY <1>1, RestoreInitInv, RestoreStepInv, PTL DEF RestoreSpec

\* restore_snapshot of backup.rs: what it finds in place it moves aside, and no
\* later step of any restore takes the last copy away.
THEOREM NothingFoundIsLost == RestoreSpec => []PriorWorkIsKept
<1>1. RestoreInv => PriorWorkIsKept
  BY DEF RestoreInv, Traces, Aside, PriorWorkIsKept, Kept
<1> QED
  BY <1>1, RestoreInitInv, RestoreStepInv, PTL DEF RestoreSpec
=============================================================================
