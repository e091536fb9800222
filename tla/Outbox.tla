------------------------------- MODULE Outbox -------------------------------
(***************************************************************************)
(* What the IRC relay promises of each row of the outbox, without passes,  *)
(* batches, channels, a client or crashes: an item is said before it is    *)
(* on record and on record before it is sent, each try that comes to       *)
(* nothing is counted, the last one of the budget fails the item, nothing  *)
(* is reported but a failure, and a sent or failed item stays so.          *)
(***************************************************************************)
EXTENDS Naturals

CONSTANTS Items, Budget

VARIABLES stage,   \* stage[i]: none, pending, sent or failed
          minor,   \* items that nobody is to be told of
          tries,   \* tries[i]: tries that came to nothing
          said,    \* items that were handed on at least once
          record,  \* items in the chat of record
          reported \* items reported as failed

outboxVars == <<stage, minor, tries, said, record, reported>>

OutboxInit ==
  /\ stage = [i \in Items |-> "none"]
  /\ tries = [i \in Items |-> 0]
  /\ minor = {} /\ said = {} /\ record = {} /\ reported = {}

Offer(i) ==
  /\ stage[i] = "none"
  /\ stage' = [stage EXCEPT ![i] = "pending"]
  /\ minor' \in {minor, minor \cup {i}}
  /\ UNCHANGED <<tries, said, record, reported>>

Say(i) ==
  /\ stage[i] = "pending" /\ i \notin minor
  /\ said' = said \cup {i}
  /\ UNCHANGED <<stage, minor, tries, record, reported>>

Log(i) ==
  /\ stage[i] = "pending" /\ i \in said
  /\ record' = record \cup {i}
  /\ UNCHANGED <<stage, minor, tries, said, reported>>

Miss(i) ==
  /\ stage[i] = "pending" /\ i \notin minor
  /\ tries[i] < Budget
  /\ tries' = [tries EXCEPT ![i] = tries[i] + 1]
  /\ stage' = IF tries'[i] = Budget THEN [stage EXCEPT ![i] = "failed"] ELSE stage
  /\ UNCHANGED <<minor, said, record, reported>>

Send(i) ==
  /\ stage[i] = "pending" /\ i \in minor \cup record
  /\ stage' = [stage EXCEPT ![i] = "sent"]
  /\ UNCHANGED <<minor, tries, said, record, reported>>

Report(i) ==
  /\ stage[i] = "failed"
  /\ reported' = reported \cup {i}
  /\ UNCHANGED <<stage, minor, tries, said, record>>

OutboxNext ==
  \E i \in Items :
    Offer(i) \/ Say(i) \/ Log(i) \/ Miss(i) \/ Send(i) \/ Report(i)

OutboxSpec == OutboxInit /\ [][OutboxNext]_outboxVars
=============================================================================
