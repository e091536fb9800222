------------------------------ MODULE IrcRelay ------------------------------
(***************************************************************************)
(* The outbox relay of one app: pass after pass it takes the oldest        *)
(* unsettled rows of event_outbox, hands the ones worth telling to the IRC *)
(* client, logs them in irc_messages and settles them in irc_outbox_state. *)
(* Each of these is a write of its own, and the app may die between any    *)
(* two of them.                                                            *)
(*                                                                         *)
(* All events belong to one epic and its channel.  A row is a natural      *)
(* number, in the order of its timestamp.                                  *)
(***************************************************************************)
EXTENDS IrcClient, FiniteSets

CONSTANTS
  Events,       \* event ids
  Kinds,        \* what sorts of event producers insert
  MaxAttempts,  \* max_attempts
  BatchSize,    \* batch_size
  MaxFaults     \* bound: crashes and failing queries

\* denied: not on the allow-list; malformed: no parsable payload; orphan: its
\* payload names an epic that is no spark.
Kind == {"denied", "malformed", "orphan", "fine"}
Told == {"orphan", "fine"}

ASSUME RelayConstants ==
  /\ Events \subseteq Nat /\ IsFiniteSet(Events)
  /\ Kinds \subseteq Kind
  /\ MaxAttempts \in Nat \ {0} /\ BatchSize \in Nat \ {0}
  /\ MaxFaults \in Nat

VARIABLES
  kind,      \* kind[e]: what sort of event it is, none until it is inserted
  row,       \* row[e]: its irc_outbox_state
  logged,    \* events with a row in irc_messages
  flared,    \* events a flare ember names
  joined,    \* is the epic's channel in the client's joined set?
  pc,        \* where the relay task is
  stopping,  \* no, told to stop, or in its final pass
  todo,      \* rows fetched and not yet visited
  handed,    \* handed[l]: the event of line l
  faults

relayVars == <<kind, row, logged, flared, joined, pc, stopping, todo, handed,
               faults>>
vars == <<clientVars, relayVars>>

State == [status : {"pending", "sent", "failed"}, attempts : Nat]

TypeOK ==
  /\ ClientTypeOK
  /\ kind \in [Events -> Kind \cup {"none"}]
  /\ row \in [Events -> State]
  /\ logged \subseteq Events /\ flared \subseteq Events
  /\ joined \in BOOLEAN
  /\ pc \in {"off", "idle", "row", "accepted", "logged", "flare"}
  /\ stopping \in {"no", "told", "final"}
  /\ todo \subseteq Events
  /\ handed \in Seq(Events)
  /\ faults \in 0..MaxFaults

Init ==
  /\ ClientInit
  /\ kind = [e \in Events |-> "none"]
  /\ row = [e \in Events |-> [status |-> "pending", attempts |-> 0]]
  /\ logged = {} /\ flared = {} /\ joined = FALSE
  /\ pc = "off" /\ stopping = "no" /\ todo = {}
  /\ handed = <<>> /\ faults = 0

Current(e) == e \in todo /\ \A d \in todo : e <= d

-----------------------------------------------------------------------------
(* The app. *)

\* A producer inserts a row.  Most event types are not on the allow-list.
Insert(e) ==
  /\ kind[e] = "none"
  /\ \E k \in Kinds : kind' = [kind EXCEPT ![e] = k]
  /\ UNCHANGED <<clientVars, row, logged, flared, joined, pc, stopping, todo,
                 handed, faults>>

\* IrcRuntime::start joins the channels of the epics it finds open.
Start ==
  /\ pc = "off" /\ Connect
  /\ pc' = "idle" /\ joined' \in BOOLEAN
  /\ UNCHANGED <<kind, row, logged, flared, stopping, todo, handed, faults>>

\* The app's poll finds an epic it has not seen before.
EnsureChannel ==
  /\ pc # "off" /\ ~joined /\ joined' = TRUE
  /\ UNCHANGED <<clientVars, kind, row, logged, flared, pc, stopping, todo,
                 handed, faults>>

\* Mutant: the client is told to quit before the final pass.
Stop_QuitsFirst ==
  /\ pc # "off" /\ stopping = "no"
  /\ stopping' = "told" /\ Enqueue(Quit)
  /\ UNCHANGED <<kind, row, logged, flared, joined, pc, todo, handed, faults>>

\* IrcRuntime::shutdown
Stop ==
  /\ pc # "off" /\ stopping = "no"
  /\ stopping' = "told"
  /\ UNCHANGED <<clientVars, kind, row, logged, flared, joined, pc, todo,
                 handed, faults>>

Crash ==
  /\ session # "none" /\ faults < MaxFaults
  /\ ClientDies
  /\ pc' = "off" /\ stopping' = "no" /\ joined' = FALSE /\ todo' = {}
  /\ faults' = faults + 1
  /\ UNCHANGED <<kind, row, logged, flared, handed>>

-----------------------------------------------------------------------------
(* One pass. *)

\* Mutant: failed rows are within the retry budget.
Pending_Failed ==
  {e \in Events : kind[e] # "none" /\ row[e].status \in {"pending", "failed"}}

Pending == {e \in Events : kind[e] # "none" /\ row[e].status = "pending"}

\* fetch_pending: ORDER BY timestamp, event_id LIMIT batch_size
Batch == {e \in Pending : Cardinality({d \in Pending : d < e}) < BatchSize}

Fetch ==
  /\ pc = "idle"
  /\ todo' = Batch /\ pc' = "row"
  /\ stopping' = IF stopping = "told" THEN "final" ELSE stopping
  /\ UNCHANGED <<clientVars, kind, row, logged, flared, joined, handed, faults>>

Visited(e) == pc' = "row" /\ todo' = todo \ {e}

\* mark_sent
Mark(e) ==
  /\ row' = [row EXCEPT ![e].status = "sent"]
  /\ Visited(e)

\* Mutant: a failed attempt is not counted.
RecordFailure_Uncounted(e) == row' = row /\ Visited(e)

\* Mutant: the row fails in silence.
RecordFailure_NoFlare(e) ==
  /\ row' = [row EXCEPT ![e] =
               [status |-> IF row[e].attempts + 1 >= MaxAttempts
                             THEN "failed" ELSE "pending",
                attempts |-> row[e].attempts + 1]]
  /\ Visited(e)

\* record_failure
RecordFailure(e) ==
  LET n == row[e].attempts + 1
      exhausted == n >= MaxAttempts
  IN /\ row' = [row EXCEPT ![e] =
                  [status |-> IF exhausted THEN "failed" ELSE "pending",
                   attempts |-> n]]
     /\ IF exhausted THEN pc' = "flare" /\ UNCHANGED todo ELSE Visited(e)

\* Mutant: a filtered row is passed over, not settled.
Skip_Unmarked(e) ==
  /\ pc = "row" /\ Current(e) /\ kind[e] = "denied"
  /\ Visited(e)
  /\ UNCHANGED <<clientVars, kind, row, logged, flared, joined, stopping,
                 handed, faults>>

\* process_one of a row that is not on the allow-list
Skip(e) ==
  /\ pc = "row" /\ Current(e) /\ kind[e] = "denied"
  /\ Mark(e)
  /\ UNCHANGED <<clientVars, kind, logged, flared, joined, stopping, handed,
                 faults>>

\* parse_event fails, or send_privmsg finds the channel not joined.
Refuse(e) ==
  /\ pc = "row" /\ Current(e)
  /\ \/ kind[e] = "malformed"
     \/ kind[e] \in Told /\ ~joined
  /\ RecordFailure(e)
  /\ UNCHANGED <<clientVars, kind, logged, flared, joined, stopping, handed,
                 faults>>

\* send_privmsg
Accept(e) ==
  /\ pc = "row" /\ Current(e) /\ kind[e] \in Told /\ joined
  /\ Enqueue(Len(handed) + 1)
  /\ handed' = Append(handed, e)
  /\ pc' = "accepted"
  /\ UNCHANGED <<kind, row, logged, flared, joined, stopping, todo, faults>>

\* Mutant: a failing insert is ignored.
Persist_Ignored(e) ==
  /\ pc = "accepted" /\ Current(e)
  /\ logged' \in {logged, logged \cup {e}} /\ pc' = "logged"
  /\ UNCHANGED <<clientVars, kind, row, flared, joined, stopping, todo, handed,
                 faults>>

\* irc_repo::insert_message, whose foreign key wants the epic.
Persist(e) ==
  /\ pc = "accepted" /\ Current(e) /\ kind[e] = "fine"
  /\ logged' = logged \cup {e} /\ pc' = "logged"
  /\ UNCHANGED <<clientVars, kind, row, flared, joined, stopping, todo, handed,
                 faults>>

PersistFails(e) ==
  /\ pc = "accepted" /\ Current(e)
  /\ \/ kind[e] = "orphan" /\ UNCHANGED faults
     \/ kind[e] = "fine" /\ faults < MaxFaults /\ faults' = faults + 1
  /\ RecordFailure(e)
  /\ UNCHANGED <<clientVars, kind, logged, flared, joined, stopping, handed>>

Settle(e) ==
  /\ pc = "logged" /\ Current(e)
  /\ Mark(e)
  /\ UNCHANGED <<clientVars, kind, logged, flared, joined, stopping, handed,
                 faults>>

\* emit_flare
Flare(e) ==
  /\ pc = "flare" /\ Current(e)
  /\ flared' = flared \cup {e} /\ Visited(e)
  /\ UNCHANGED <<clientVars, kind, row, logged, joined, stopping, handed,
                 faults>>

\* After the final pass shutdown disconnects the client.
Disconnect ==
  pc' = "off" /\ stopping' = "no" /\ joined' = FALSE /\ Enqueue(Quit)
PassOver == pc' = "idle" /\ UNCHANGED <<clientVars, stopping, joined>>

PassEnds ==
  /\ pc = "row" /\ todo = {}
  /\ IF stopping = "final" THEN Disconnect ELSE PassOver
  /\ UNCHANGED <<kind, row, logged, flared, todo, handed, faults>>

\* A query of fetch_pending, mark_sent, record_failure or emit_flare fails.
QueryFails ==
  /\ pc = "idle" => stopping = "told"
  /\ pc = "row" => \E e \in todo : Current(e) /\ ~(kind[e] \in Told /\ joined)
  /\ pc # "off" /\ faults < MaxFaults
  /\ faults' = faults + 1 /\ todo' = {}
  /\ IF stopping = "final" \/ pc = "idle" THEN Disconnect ELSE PassOver
  /\ UNCHANGED <<kind, row, logged, flared, handed>>

Row(e) == Skip(e) \/ Refuse(e) \/ Accept(e) \/ Persist(e) \/ PersistFails(e)
            \/ Settle(e) \/ Flare(e)
Relay == Fetch \/ PassEnds \/ \E e \in Events : Row(e)

Next ==
  \/ \E e \in Events : Insert(e)
  \/ Start \/ EnsureChannel \/ Stop \/ Crash
  \/ Relay \/ QueryFails
  \/ (Session \/ Network) /\ UNCHANGED relayVars

Spec == Init /\ [][Next]_vars

\* The relay task wakes up every 500 ms.
FairSpec == Spec /\ WF_vars(Relay)

-----------------------------------------------------------------------------
(* Properties. *)

\* Lines of e that were handed to the client.
Tries(e) == {l \in DOMAIN handed : handed[l] = e}

\* A row is only marked sent once its line is in the chat of record: what
\* the UI reads and a replay joins back to the event.
LoggedBeforeSent ==
  \A e \in Events :
    row[e].status = "sent" /\ kind[e] \in Told => e \in logged

\* An event is not told again and again: retries that are not counted are
\* those of a pass that was cut short between the send and its mark.
SendsAreBounded ==
  \A e \in Events : Cardinality(Tries(e)) <= MaxAttempts + faults

\* No line falls between queue, pending and unconfirmed: one that no server
\* has seen, nor a newer one, is held, or in transit, or went down with a
\* connection or with the app.
NoLineIsMislaid ==
  {l \in DOMAIN handed : l > last} \subseteq Held \cup Lines(wire) \cup dropped

\* Shutdown waits for the final pass: nothing is queued behind the QUIT.
QuitIsLast == \A i \in DOMAIN queue : queue[i] = Quit => i = Len(queue)

\* A row that ran out of attempts is reported, unless the report itself
\* failed or the app died before it.
FailuresAreFlared ==
  Cardinality({e \in Events :
     /\ row[e].status = "failed" /\ e \notin flared
     /\ ~(pc = "flare" /\ Current(e))}) <= faults

\* sent and failed are terminal (with one relay on the database).
SettledForGood ==
  [][\A e \in Events :
       row[e].status # "pending" => row'[e].status = row[e].status]_row

\* The relay implements Outbox: an event is handed to the client before it is
\* logged, logged before it is sent, each failed attempt is counted, the last
\* of max_attempts fails the row, only failures are flared, and what is sent
\* or failed stays so, whatever dies between two of these writes
\* (outbox_relay.rs, drain_once).
Contract == INSTANCE Outbox WITH
  Items <- Events, Budget <- MaxAttempts,
  stage <- [e \in Events |-> IF kind[e] = "none" THEN "none" ELSE row[e].status],
  minor <- {e \in Events : kind[e] = "denied"},
  tries <- [e \in Events |-> row[e].attempts],
  said <- {handed[l] : l \in DOMAIN handed},
  record <- logged,
  reported <- flared

ImplementsOutbox == Contract!OutboxSpec

\* Through reconnects and replays, the server never sees an older line after
\* a newer one.
InOrder == [][last' >= last]_last

\* As long as the app runs the outbox is worked off: a row that cannot be
\* sent does not hold back those behind it for ever.
Settles == Pending # {} ~> Pending = {} \/ pc = "off"

\* "Dropping the IRC server does not lose events": a line of what is marked
\* sent is held, in transit, or no newer than what the server has seen.
EventsSurviveServer ==
  \A e \in Events :
    row[e].status = "sent" /\ kind[e] = "fine" =>
      \E l \in Tries(e) : l <= last \/ l \in Held \cup Lines(wire)
=============================================================================
