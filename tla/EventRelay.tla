----------------------------- MODULE EventRelay -----------------------------
(***************************************************************************)
(* The spark event relay of data/src/sparks/relay.rs: one task that reads  *)
(* a batch of undelivered event_outbox rows, hands each to every           *)
(* subscriber in turn and stamps delivered_at once all have accepted it.   *)
(* A row that a subscriber refuses backs off; the back-off is kept in      *)
(* memory only.                                                            *)
(*                                                                         *)
(* Events are numbered in the order of their timestamps, which is not the  *)
(* order they are committed in.                                            *)
(***************************************************************************)
EXTENDS Naturals, FiniteSets

CONSTANTS
  Events,       \* the events, numbered by timestamp
  Subscribers,  \* the subscribers, numbered in the order of registration
  BatchSize,    \* RelayConfig.batch_size
  Refused,      \* pairs <<e, s>>: s will never accept e
  MaxRefusals,  \* bound on the other refusals
  MaxStops      \* bound on the ends of the relay task

ASSUME RelayConstants ==
  /\ Events \subseteq Nat /\ IsFiniteSet(Events)
  /\ Subscribers \subseteq Nat /\ IsFiniteSet(Subscribers)
  /\ BatchSize \in Nat \ {0}
  /\ Refused \subseteq Events \X Subscribers
  /\ MaxRefusals \in Nat /\ MaxStops \in Nat

VARIABLES
  written,    \* events in event_outbox
  delivered,  \* those with delivered_at set
  accepted,   \* accepted[e]: the subscribers that have ever accepted e
  backoff,    \* events whose next_attempt_at lies ahead
  batch,      \* what drain_once has left to try
  got,        \* the subscribers that accepted the event being tried
  running,    \* the relay task runs
  refusals,   \* refusals that were not for ever
  stops       \* ends of the task

relayVars ==
  <<written, delivered, accepted, backoff, batch, got, running, refusals, stops>>

RelayTypeOK ==
  /\ written \subseteq Events
  /\ delivered \subseteq written
  /\ accepted \in [Events -> SUBSET Subscribers]
  /\ backoff \subseteq written
  /\ batch \subseteq written \ delivered
  /\ got \subseteq Subscribers
  /\ running \in BOOLEAN
  /\ refusals \in Nat /\ stops \in Nat

RelayInit ==
  /\ written = {} /\ delivered = {} /\ backoff = {} /\ batch = {} /\ got = {}
  /\ accepted = [e \in Events |-> {}]
  /\ running = TRUE
  /\ refusals = 0 /\ stops = 0

-----------------------------------------------------------------------------
(* A pass. *)

\* A producer's transaction commits its row.
Write(e) ==
  /\ e \notin written
  /\ written' = written \cup {e}
  /\ UNCHANGED <<delivered, accepted, backoff, batch, got, running, refusals,
                 stops>>

Undelivered == written \ delivered

\* fetch_undelivered: the oldest BatchSize rows, those backing off included.
Fetched ==
  {e \in Undelivered : Cardinality({f \in Undelivered : f < e}) < BatchSize}

\* The back-off of all of them is compared with the instant the pass began.
Drain ==
  /\ running /\ batch = {}
  /\ Fetched \ backoff # {}
  /\ batch' = Fetched \ backoff
  /\ UNCHANGED <<written, delivered, accepted, backoff, got, running, refusals,
                 stops>>

IsOldest(e) == e \in batch /\ \A f \in batch : e <= f

\* deliver_to_all goes through the subscribers in order.
IsNext(s) == s \notin got /\ \A t \in Subscribers : t < s => t \in got

Accept(e, s) ==
  /\ running /\ IsOldest(e) /\ IsNext(s)
  /\ <<e, s>> \notin Refused
  /\ accepted' = [accepted EXCEPT ![e] = accepted[e] \cup {s}]
  /\ got' = got \cup {s}
  /\ UNCHANGED <<written, delivered, backoff, batch, running, refusals, stops>>

\* Mutant: a refusal does not keep the event from the subscribers after it,
\* and counts as an answer.
Refuse_GoesOn(e, s) ==
  /\ running /\ IsOldest(e) /\ IsNext(s)
  /\ \/ <<e, s>> \in Refused /\ UNCHANGED refusals
     \/ refusals < MaxRefusals /\ refusals' = refusals + 1
  /\ got' = got \cup {s}
  /\ UNCHANGED <<written, delivered, accepted, backoff, batch, running, stops>>

\* Mutant: a refusal ends the pass, and what was left comes first in the next.
Refuse_EndsPass(e, s) ==
  /\ running /\ IsOldest(e) /\ IsNext(s)
  /\ \/ <<e, s>> \in Refused /\ UNCHANGED refusals
     \/ refusals < MaxRefusals /\ refusals' = refusals + 1
  /\ batch' = {} /\ got' = {}
  /\ UNCHANGED <<written, delivered, accepted, backoff, running, stops>>

\* The event is left to a later pass, with a longer back-off: record_failure.
Refuse(e, s) ==
  /\ running /\ IsOldest(e) /\ IsNext(s)
  /\ \/ <<e, s>> \in Refused /\ UNCHANGED refusals
     \/ refusals < MaxRefusals /\ refusals' = refusals + 1
  /\ backoff' = backoff \cup {e}
  /\ batch' = batch \ {e} /\ got' = {}
  /\ UNCHANGED <<written, delivered, accepted, running, stops>>

\* mark_delivered; the retry entry goes with it.
MarkDelivered(e) ==
  /\ running /\ IsOldest(e) /\ got = Subscribers
  /\ delivered' = delivered \cup {e}
  /\ backoff' = backoff \ {e}
  /\ batch' = batch \ {e} /\ got' = {}
  /\ UNCHANGED <<written, accepted, running, refusals, stops>>

\* compute_backoff is capped: every back-off ends.
BackoffEnds(e) ==
  /\ e \in backoff
  /\ backoff' = backoff \ {e}
  /\ UNCHANGED <<written, delivered, accepted, batch, got, running, refusals,
                 stops>>

-----------------------------------------------------------------------------
(* The task. *)

\* A query fails, and `?` ends run; or the process dies.  What subscribers
\* accepted of the event being tried, and all back-offs, are forgotten.
RelayStops ==
  /\ running /\ stops < MaxStops
  /\ running' = FALSE /\ stops' = stops + 1
  /\ batch' = {} /\ got' = {} /\ backoff' = {}
  /\ UNCHANGED <<written, delivered, accepted, refusals>>

RelayStarts ==
  /\ ~running
  /\ running' = TRUE
  /\ UNCHANGED <<written, delivered, accepted, backoff, batch, got, refusals,
                 stops>>

Deliver ==
  \E e \in batch :
    \/ MarkDelivered(e)
    \/ \E s \in Subscribers : Accept(e, s) \/ Refuse(e, s)

RelayNext ==
  \/ Drain \/ Deliver \/ RelayStops \/ RelayStarts
  \/ \E e \in Events : Write(e) \/ BackoffEnds(e)

RelaySpec == RelayInit /\ [][RelayNext]_relayVars

\* The loop polls for ever, and a back-off ends.
RelayFairness ==
  /\ WF_relayVars(Drain \/ Deliver)
  /\ \A e \in Events : WF_relayVars(BackoffEnds(e))

-----------------------------------------------------------------------------
(* Properties. *)

\* "delivered_at only after every subscriber accepts it" (relay.rs), refusals
\* half way through the subscribers, restarts and lost back-offs included: the
\* relay implements Delivery, and no subscriber hears of an event that one
\* before it has not accepted.
Promise == INSTANCE Delivery
  WITH known <- written, heard <- accepted, settled <- delivered

ImplementsDelivery == Promise!DeliverySpec

\* An event somebody refuses for ever holds up no other one, as long as there
\* are fewer of these than fit into a batch and the task runs.
Poisoned == {e \in Events : \E s \in Subscribers : <<e, s>> \in Refused}

RefusedHoldsUpNobody ==
  Cardinality(Poisoned) < BatchSize =>
    \A e \in Events \ Poisoned :
      e \in written ~> (e \in delivered \/ ~running)
=============================================================================
