--------------------------- MODULE IrcRelayProofs ---------------------------
(***************************************************************************)
(* For any outbox, retry budget and batch size, and any number of crashes  *)
(* and failing queries: what the relay promises about rows, retries and    *)
(* reports, and what the client promises about lines.  The first rests on  *)
(* where the relay is in its pass and never on the client; the second on   *)
(* where each line is and in what order, and of the relay only on when it  *)
(* stops using its client.  From the first follow the refinement of Outbox *)
(* and the steps that a pass can take.                                     *)
(***************************************************************************)
EXTENDS IrcRelay, SequenceTheorems, FiniteSetTheorems, WellFoundedInduction,
        TLAPS

-----------------------------------------------------------------------------
(* Types. *)

LEMMA LinesType ==
  ASSUME NEW s \in Seq(Nat)
  PROVE  Lines(s) \subseteq Line
<1>1. \A i \in DOMAIN s : s[i] \in Nat
  BY ElementOfSeq
<1> QED
  BY <1>1 DEF Lines, Line, Quit

LEMMA LineSeq == ASSUME NEW s \in Seq(Line) PROVE s \in Seq(Nat)
  BY SeqMonotonic DEF Line

LEMMA HeldType == ClientTypeOK => Held \subseteq Line
  BY LinesType, LineSeq DEF Held, ClientTypeOK, Line, Nothing

LEMMA RequeueType ==
  ASSUME ClientTypeOK, NEW inHand \in Seq(Line), Requeue(inHand)
  PROVE  pend' \in Seq(Line) /\ unconf' \in Nat /\ session' = "lost"
<1>1. Front(unconf) \in Seq(Line)
  <2>1. CASE unconf = Nothing
    BY <2>1, EmptySeq DEF Front
  <2>2. CASE unconf # Nothing
    <3>1. unconf \in Line
      BY <2>2 DEF ClientTypeOK, Line, Nothing
    <3>2. <<unconf>> \in Seq(Line)
      BY <3>1
    <3> QED
      BY <2>2, <3>2 DEF Front
  <2> QED
    BY <2>1, <2>2
<1>2. Front(unconf) \o pend \in Seq(Line)
  BY <1>1, ConcatProperties DEF ClientTypeOK
<1>3. (Front(unconf) \o pend) \o inHand \in Seq(Line)
  BY <1>2, ConcatProperties
<1> QED
  BY <1>3 DEF Requeue, Nothing

LEMMA WriteType ==
  ASSUME ClientTypeOK, NEW l \in Line, Write(l)
  PROVE  wire' \in Seq(Line) /\ dropped' \subseteq Line
<1>1. CASE broken
  BY <1>1 DEF Write, ClientTypeOK
<1>2. CASE ~broken
  <2>1. wire' = Append(wire, l) /\ dropped' = dropped
    BY <1>2 DEF Write
  <2>2. Append(wire, l) \in Seq(Line)
    BY AppendProperties DEF ClientTypeOK
  <2> QED
    BY <2>1, <2>2 DEF ClientTypeOK
<1> QED
  BY <1>1, <1>2

LEMMA EnqueueType ==
  ASSUME ClientTypeOK, NEW c \in Nat, Enqueue(c)
  PROVE  ClientTypeOK'
<1>1. Append(queue, c) \in Seq(Nat)
  BY AppendProperties DEF ClientTypeOK
<1> QED
  BY <1>1 DEF Enqueue, ClientTypeOK

LEMMA ClientStepType ==
  ASSUME ClientTypeOK, Session \/ Network
  PROVE  ClientTypeOK'
<1>1. CASE Take
  <2>1. Head(queue) \in Line /\ Tail(queue) \in Seq(Nat)
    BY <1>1, HeadTailProperties DEF Take, ClientTypeOK, Line, Quit
  <2>2. CASE Write(Head(queue)) /\ unconf' = Head(queue) /\ UNCHANGED <<pend, session>>
    BY <1>1, <2>1, <2>2, WriteType DEF Take, ClientTypeOK, Line
  <2>3. CASE Requeue(<<Head(queue)>>) /\ UNCHANGED <<wire, dropped>>
    <3>1. <<Head(queue)>> \in Seq(Line)
      BY <2>1
    <3> QED
      BY <1>1, <2>1, <2>3, <3>1, RequeueType DEF Take, ClientTypeOK
  <2> QED
    BY <1>1, <2>2, <2>3 DEF Take
<1>2. CASE TakeQuit
  <2>1. <<>> \in Seq(Nat)
    OBVIOUS
  <2> QED
    BY <1>2, <2>1 DEF TakeQuit, ClientTypeOK, Nothing
<1>3. CASE Flush
  <2>1. Head(pend) \in Line /\ Tail(pend) \in Seq(Line)
    BY <1>3, HeadTailProperties DEF Flush, ClientTypeOK
  <2> QED
    BY <1>3, <2>1, WriteType DEF Flush, ClientTypeOK
<1>4. CASE Flushed
  BY <1>4 DEF Flushed, ClientTypeOK
<1>5. CASE Inbound
  BY <1>5 DEF Inbound, ClientTypeOK, Nothing
<1>6. CASE NoticeLoss
  <2>1. <<>> \in Seq(Line)
    OBVIOUS
  <2> QED
    BY <1>6, <2>1, RequeueType DEF NoticeLoss, ClientTypeOK
<1>7. CASE Reconnect
  BY <1>7 DEF Reconnect, ClientTypeOK
<1>8. CASE ServerReads
  <2>1. Head(wire) \in Line /\ Tail(wire) \in Seq(Line)
    BY <1>8, HeadTailProperties DEF ServerReads, ClientTypeOK
  <2> QED
    BY <1>8, <2>1 DEF ServerReads, ClientTypeOK, Line
<1>9. CASE Break
  BY <1>9, LinesType, LineSeq DEF Break, ClientTypeOK
<1> QED
  BY <1>1, <1>2, <1>3, <1>4, <1>5, <1>6, <1>7, <1>8, <1>9
     DEF Session, Network

-----------------------------------------------------------------------------
(* The invariant. *)

\* What the current pass has still to visit is inserted and unsettled, but
\* for the row whose flare is due.
TodoIsOpen ==
  \A e \in todo : /\ kind[e] # "none"
                  /\ \/ row[e].status = "pending"
                     \/ pc = "flare" /\ Current(e)

SettledWasInserted ==
  \A e \in Events : row[e].status # "pending" => kind[e] # "none"

BudgetHolds ==
  \A e \in Events :
    /\ row[e].attempts <= MaxAttempts
    /\ row[e].status # "failed" => row[e].attempts < MaxAttempts

CurrentIsLogged == pc = "logged" => \A e \in Events : Current(e) => e \in logged

\* The try that is under way, and the one that settled the row, are the two
\* that no failed attempt accounts for.
UnderWay(e) == pc \in {"accepted", "logged"} /\ Current(e)
Uncounted(e) == IF UnderWay(e) \/ row[e].status = "sent" THEN 1 ELSE 0

TriesAreCounted ==
  \A e \in Events :
    Cardinality(Tries(e)) <= row[e].attempts + faults + Uncounted(e)

RowInv ==
  /\ TodoIsOpen
  /\ SettledWasInserted
  /\ BudgetHolds
  /\ CurrentIsLogged
  /\ LoggedBeforeSent
  /\ TriesAreCounted

IInv == TypeOK /\ RowInv

LEMMA CurrentIsOne ==
  ASSUME TypeOK, NEW d, NEW e, Current(d), Current(e)
  PROVE  d = e
  BY RelayConstants DEF Current, TypeOK

LEMMA TriesFinite ==
  ASSUME handed \in Seq(Events), NEW e
  PROVE  IsFiniteSet(Tries(e)) /\ Cardinality(Tries(e)) \in Nat
<1>1. DOMAIN handed = 1..Len(handed) /\ Len(handed) \in Nat
  OBVIOUS
<1>2. IsFiniteSet(1..Len(handed))
  BY <1>1, FS_Interval
<1>3. Tries(e) \in SUBSET (1..Len(handed))
  BY <1>1 DEF Tries
<1> QED
  BY <1>2, <1>3, FS_Subset, FS_CardinalityType

LEMMA InitIInv == Init => IInv
<1> SUFFICES ASSUME Init PROVE IInv
  OBVIOUS
<1>1. ClientTypeOK
  <2>1. <<>> \in Seq(Nat) /\ <<>> \in Seq(Line)
    OBVIOUS
  <2> QED
    BY <2>1 DEF Init, ClientInit, ClientTypeOK, Nothing
<1>2. TypeOK
  <2>1. <<>> \in Seq(Events)
    OBVIOUS
  <2>2. [status |-> "pending", attempts |-> 0] \in State
    BY DEF State
  <2> QED
    <3>1. /\ kind \in [Events -> Kind \cup {"none"}] /\ row \in [Events -> State]
          /\ handed \in Seq(Events) /\ faults \in 0..MaxFaults
      BY <2>1, <2>2, RelayConstants DEF Init
    <3> QED
      BY <1>1, <3>1 DEF Init, TypeOK
<1>3. TriesAreCounted
  <2> SUFFICES ASSUME NEW e \in Events
               PROVE  Cardinality(Tries(e)) <=
                        row[e].attempts + faults + Uncounted(e)
    BY DEF TriesAreCounted
  <2>1. Tries(e) = {}
    BY DEF Tries, Init
  <2>2. Cardinality(Tries(e)) = 0
    BY <2>1, FS_EmptySet
  <2> QED
    BY <2>2 DEF Uncounted, Init
<1>4. BudgetHolds
  BY RelayConstants DEF BudgetHolds, Init
<1> QED
  BY <1>2, <1>3, <1>4 DEF IInv, RowInv, TodoIsOpen, SettledWasInserted,
     CurrentIsLogged, LoggedBeforeSent, Init

-----------------------------------------------------------------------------
(* Steps that leave every row alone. *)

\* The relay stays where it is in its pass, or is only just started.
SamePass ==
  /\ kind' = kind /\ row' = row /\ logged' = logged /\ todo' = todo
  /\ handed' = handed /\ faults' = faults
  /\ pc' = pc \/ (pc = "off" /\ pc' = "idle")

LEMMA PassGoesOn == ASSUME IInv, SamePass PROVE RowInv' /\ row' = row
<1> USE DEF SamePass
<1>1. \A e : Tries(e)' = Tries(e) /\ (Current(e)' <=> Current(e))
  BY DEF Tries, Current
<1>2. \A e \in Events : Uncounted(e)' = Uncounted(e)
  BY <1>1 DEF Uncounted, UnderWay
<1>3. TodoIsOpen'
  BY <1>1 DEF IInv, RowInv, TodoIsOpen
<1>4. TriesAreCounted'
  BY <1>1, <1>2 DEF IInv, RowInv, TriesAreCounted
<1>5. CurrentIsLogged'
  BY <1>1 DEF IInv, RowInv, CurrentIsLogged
<1> QED
  BY <1>3, <1>4, <1>5 DEF IInv, RowInv, SettledWasInserted, BudgetHolds,
     LoggedBeforeSent

\* A pass begins, ends or is cut short; one that is cut short between the
\* send and its mark is a fault.
LEMMA PassChanges ==
  ASSUME IInv, UNCHANGED <<kind, row, logged, handed>>, todo' \subseteq Pending,
         pc' \notin {"accepted", "logged"},
         \/ faults' = faults + 1
         \/ faults' = faults /\ pc \notin {"accepted", "logged"}
  PROVE  RowInv'
<1>1. \A e : Tries(e)' = Tries(e)
  BY DEF Tries
<1>2. TodoIsOpen'
  BY DEF TodoIsOpen, Pending
<1>3. TriesAreCounted'
  <2> SUFFICES ASSUME NEW e \in Events
               PROVE  Cardinality(Tries(e)) <=
                        row[e].attempts + faults' + Uncounted(e)'
    BY <1>1 DEF TriesAreCounted
  <2>1. Cardinality(Tries(e)) <= row[e].attempts + faults + Uncounted(e)
    BY DEF IInv, RowInv, TriesAreCounted
  <2>2. /\ Uncounted(e) \in 0..1 /\ Uncounted(e)' \in 0..1
        /\ faults' = faults => Uncounted(e)' = Uncounted(e)
    BY DEF Uncounted, UnderWay, IInv, TypeOK
  <2>3. row[e].attempts \in Nat /\ faults \in Nat
    BY DEF IInv, TypeOK, State
  <2>4. Cardinality(Tries(e)) \in Nat
    BY TriesFinite DEF IInv, TypeOK
  <2> QED
    BY <2>1, <2>2, <2>3, <2>4
<1>4. CurrentIsLogged'
  BY DEF CurrentIsLogged
<1> QED
  BY <1>2, <1>3, <1>4 DEF IInv, RowInv, SettledWasInserted, BudgetHolds,
     LoggedBeforeSent

-----------------------------------------------------------------------------
(* Steps that visit a row. *)

\* The rows still to visit after e are as they were.
LEMMA VisitedTodo ==
  ASSUME IInv, NEW e \in Events, Current(e), kind' = kind, Visited(e),
         \A d \in Events \ {e} : row'[d] = row[d]
  PROVE  TodoIsOpen'
<1> SUFFICES ASSUME NEW d \in todo'
             PROVE  kind[d] # "none" /\ row'[d].status = "pending"
  BY DEF TodoIsOpen
<1>1. d \in todo /\ d # e /\ d \in Events
  BY DEF Visited, IInv, TypeOK
<1>2. ~Current(d)
  BY <1>1, CurrentIsOne DEF IInv
<1> QED
  BY <1>1, <1>2 DEF IInv, RowInv, TodoIsOpen

\* Marked as sent: the try under way is the one that settled the row.
LEMMA MarkKeeps ==
  ASSUME IInv, NEW e \in Events, Current(e), Mark(e), pc # "flare",
         UNCHANGED <<kind, logged, handed, faults>>,
         kind[e] \in Told => pc = "logged"
  PROVE  RowInv' /\ row[e].status = "pending"
<1>1. row[e].status = "pending" /\ kind[e] # "none"
  BY DEF IInv, RowInv, TodoIsOpen, Current
<1>2. /\ row[e] \in State /\ row' = [row EXCEPT ![e].status = "sent"]
      /\ row'[e].status = "sent" /\ row'[e].attempts = row[e].attempts
      /\ \A d \in Events \ {e} : row'[d] = row[d]
      /\ pc' = "row"
  BY DEF Mark, Visited, IInv, TypeOK, State
<1>3. TodoIsOpen'
  BY <1>2, VisitedTodo DEF Mark
<1>4. SettledWasInserted'
  BY <1>1, <1>2 DEF IInv, RowInv, SettledWasInserted
<1>5. BudgetHolds'
  BY <1>1, <1>2 DEF IInv, RowInv, BudgetHolds
<1>6. CurrentIsLogged'
  BY <1>2 DEF CurrentIsLogged
<1>7. LoggedBeforeSent'
  <2>1. kind[e] \in Told => e \in logged
    BY DEF IInv, RowInv, CurrentIsLogged
  <2> QED
    BY <1>2, <2>1 DEF IInv, RowInv, LoggedBeforeSent
<1>8. TriesAreCounted'
  <2> SUFFICES ASSUME NEW d \in Events
               PROVE  Cardinality(Tries(d)) <=
                        row'[d].attempts + faults + Uncounted(d)'
    BY DEF TriesAreCounted, Tries
  <2>1. Cardinality(Tries(d)) <= row[d].attempts + faults + Uncounted(d)
    BY DEF IInv, RowInv, TriesAreCounted
  <2>2. row[d].attempts \in Nat /\ faults \in Nat /\ row'[d].attempts = row[d].attempts
    BY <1>2 DEF IInv, TypeOK, State
  <2>3. Uncounted(d) \in 0..1 /\ Uncounted(d)' \in 0..1 /\ Uncounted(d) <= Uncounted(d)'
    <3>1. CASE d = e
      BY <1>2, <3>1 DEF Uncounted, UnderWay
    <3>2. CASE d # e
      <4>1. ~Current(d)
        BY <3>2, CurrentIsOne DEF IInv
      <4> QED
        BY <1>2, <3>2, <4>1 DEF Uncounted, UnderWay
    <3> QED
      BY <3>1, <3>2
  <2>4. Cardinality(Tries(d)) \in Nat
    BY TriesFinite DEF IInv, TypeOK
  <2> QED
    BY <2>1, <2>2, <2>3, <2>4
<1> QED
  BY <1>1, <1>3, <1>4, <1>5, <1>6, <1>7, <1>8 DEF RowInv

\* A failed attempt is counted, and takes over what was under way.
LEMMA RecordFailureKeeps ==
  ASSUME IInv, NEW e \in Events, Current(e), RecordFailure(e), pc # "flare",
         UNCHANGED <<kind, logged, handed>>,
         faults' = faults \/ faults' = faults + 1
  PROVE  RowInv' /\ row[e].status = "pending"
<1>1. row[e].status = "pending" /\ kind[e] # "none"
  BY DEF IInv, RowInv, TodoIsOpen, Current
<1>2. row[e] \in State /\ row[e].attempts \in Nat /\ row[e].attempts < MaxAttempts
  BY <1>1 DEF IInv, TypeOK, State, RowInv, BudgetHolds
<1>3. /\ row'[e].attempts = row[e].attempts + 1
      /\ row'[e].status =
           IF row[e].attempts + 1 >= MaxAttempts THEN "failed" ELSE "pending"
      /\ \A d \in Events \ {e} : row'[d] = row[d]
      /\ pc' \in {"row", "flare"}
  BY DEF RecordFailure, Visited, IInv, TypeOK
<1>4. TodoIsOpen'
  <2>1. CASE Visited(e)
    BY <1>3, <2>1, VisitedTodo
  <2>2. CASE pc' = "flare" /\ UNCHANGED todo
    <3> SUFFICES ASSUME NEW d \in todo
                 PROVE  /\ kind[d] # "none"
                        /\ row'[d].status = "pending" \/ Current(d)
      BY <2>2 DEF TodoIsOpen, Current
    <3>1. d \in Events
      BY DEF IInv, TypeOK
    <3> QED
      BY <1>3, <3>1 DEF IInv, RowInv, TodoIsOpen
  <2> QED
    BY <2>1, <2>2 DEF RecordFailure
<1>5. SettledWasInserted'
  BY <1>1, <1>3 DEF IInv, RowInv, SettledWasInserted
<1>6. BudgetHolds'
  BY <1>1, <1>2, <1>3, RelayConstants DEF IInv, RowInv, BudgetHolds
<1>7. CurrentIsLogged'
  BY <1>3 DEF CurrentIsLogged
<1>8. LoggedBeforeSent'
  BY <1>3 DEF IInv, RowInv, LoggedBeforeSent
<1>9. TriesAreCounted'
  <2> SUFFICES ASSUME NEW d \in Events
               PROVE  Cardinality(Tries(d)) <=
                        row'[d].attempts + faults' + Uncounted(d)'
    BY DEF TriesAreCounted, Tries
  <2>1. Cardinality(Tries(d)) <= row[d].attempts + faults + Uncounted(d)
    BY DEF IInv, RowInv, TriesAreCounted
  <2>2. row[d].attempts \in Nat /\ faults \in Nat /\ Cardinality(Tries(d)) \in Nat
    BY TriesFinite DEF IInv, TypeOK, State
  <2>3. Uncounted(d) \in 0..1 /\ Uncounted(d)' \in 0..1
    BY DEF Uncounted
  <2>4. CASE d = e
    BY <1>3, <2>1, <2>2, <2>3, <2>4
  <2>5. CASE d # e
    <3>1. ~Current(d)
      BY <2>5, CurrentIsOne DEF IInv
    <3>2. row'[d] = row[d] /\ Uncounted(d) <= Uncounted(d)'
      BY <1>3, <2>5, <3>1 DEF Uncounted, UnderWay
    <3> QED
      BY <2>1, <2>2, <2>3, <3>2
  <2> QED
    BY <2>4, <2>5
<1> QED
  BY <1>1, <1>4, <1>5, <1>6, <1>7, <1>8, <1>9 DEF RowInv

\* A line of e more, and e under way.
LEMMA AcceptKeeps ==
  ASSUME IInv, NEW e \in Events, Accept(e)
  PROVE  RowInv'
<1>1. /\ pc = "row" /\ pc' = "accepted" /\ Current(e) /\ Current(e)'
      /\ UNCHANGED <<kind, row, logged, todo, faults>>
      /\ handed' = Append(handed, e)
  BY DEF Accept, Current
<1>2. row[e].status = "pending"
  BY <1>1 DEF IInv, RowInv, TodoIsOpen, Current
<1>3. /\ handed \in Seq(Events) /\ Len(handed) \in Nat
      /\ DOMAIN handed = 1..Len(handed)
  BY DEF IInv, TypeOK
<1>4. /\ DOMAIN handed' = 1..(Len(handed) + 1)
      /\ handed'[Len(handed) + 1] = e
      /\ \A l \in 1..Len(handed) : handed'[l] = handed[l]
      /\ handed' \in Seq(Events)
  BY <1>1, <1>3, AppendProperties
<1>5. Tries(e)' = Tries(e) \cup {Len(handed) + 1} /\ Len(handed) + 1 \notin Tries(e)
  BY <1>3, <1>4 DEF Tries
<1>6. ASSUME NEW d \in Events, d # e PROVE Tries(d)' = Tries(d)
  BY <1>3, <1>4, <1>6 DEF Tries
<1>7. TriesAreCounted'
  <2> SUFFICES ASSUME NEW d \in Events
               PROVE  Cardinality(Tries(d)') <=
                        row[d].attempts + faults + Uncounted(d)'
    BY <1>1 DEF TriesAreCounted
  <2>1. Cardinality(Tries(d)) <= row[d].attempts + faults + Uncounted(d)
    BY DEF IInv, RowInv, TriesAreCounted
  <2>2. row[d].attempts \in Nat /\ faults \in Nat /\ Cardinality(Tries(d)) \in Nat
    BY TriesFinite DEF IInv, TypeOK, State
  <2>3. CASE d = e
    <3>1. Uncounted(d) = 0 /\ Uncounted(d)' = 1
      BY <1>1, <1>2, <2>3 DEF Uncounted, UnderWay
    <3>2. Cardinality(Tries(d)') = Cardinality(Tries(d)) + 1
      BY <1>3, <1>5, <2>3, TriesFinite, FS_AddElement
    <3> QED
      BY <2>1, <2>2, <3>1, <3>2
  <2>4. CASE d # e
    <3>1. Uncounted(d) \in 0..1 /\ Uncounted(d)' \in 0..1
          /\ Uncounted(d) <= Uncounted(d)'
      BY <1>1 DEF Uncounted, UnderWay
    <3> QED
      BY <1>6, <2>1, <2>2, <2>4, <3>1
  <2> QED
    BY <2>3, <2>4
<1>8. TodoIsOpen' /\ CurrentIsLogged'
  BY <1>1 DEF IInv, RowInv, TodoIsOpen, CurrentIsLogged
<1> QED
  BY <1>1, <1>7, <1>8 DEF IInv, RowInv, SettledWasInserted, BudgetHolds,
     LoggedBeforeSent

\* The line is in irc_messages; e stays under way.
LEMMA PersistKeeps ==
  ASSUME IInv, NEW e \in Events, Persist(e)
  PROVE  RowInv'
<1>1. /\ pc = "accepted" /\ pc' = "logged" /\ Current(e)
      /\ UNCHANGED <<kind, row, todo, handed, faults>>
      /\ logged' = logged \cup {e}
  BY DEF Persist
<1>2. \A d : Tries(d)' = Tries(d) /\ (Current(d)' <=> Current(d))
  BY <1>1 DEF Tries, Current
<1>3. \A d \in Events : Uncounted(d)' = Uncounted(d)
  BY <1>1, <1>2 DEF Uncounted, UnderWay
<1>4. TriesAreCounted'
  BY <1>1, <1>2, <1>3 DEF IInv, RowInv, TriesAreCounted
<1>5. CurrentIsLogged'
  BY <1>1, <1>2, CurrentIsOne DEF CurrentIsLogged, IInv
<1>6. TodoIsOpen'
  BY <1>1 DEF IInv, RowInv, TodoIsOpen
<1> QED
  BY <1>1, <1>4, <1>5, <1>6 DEF IInv, RowInv, SettledWasInserted, BudgetHolds,
     LoggedBeforeSent

LEMMA FlareKeeps ==
  ASSUME IInv, NEW e \in Events, Flare(e)
  PROVE  RowInv'
<1>1. /\ pc = "flare" /\ pc' = "row" /\ Current(e) /\ Visited(e)
      /\ UNCHANGED <<kind, row, logged, handed, faults>>
  BY DEF Flare, Visited
<1>2. TodoIsOpen'
  BY <1>1, VisitedTodo
<1>3. \A d : Tries(d)' = Tries(d)
  BY <1>1 DEF Tries
<1>4. \A d \in Events : Uncounted(d)' = Uncounted(d)
  BY <1>1 DEF Uncounted, UnderWay
<1>5. TriesAreCounted'
  BY <1>1, <1>3, <1>4 DEF IInv, RowInv, TriesAreCounted
<1> QED
  BY <1>1, <1>2, <1>5 DEF IInv, RowInv, SettledWasInserted, BudgetHolds,
     LoggedBeforeSent, CurrentIsLogged

LEMMA InsertKeeps ==
  ASSUME IInv, NEW e \in Events, Insert(e)
  PROVE  RowInv'
<1>1. /\ kind[e] = "none" /\ kind'[e] # "none"
      /\ \A d \in Events \ {e} : kind'[d] = kind[d]
      /\ UNCHANGED <<row, logged, pc, todo, handed, faults>>
  BY RelayConstants DEF Insert, IInv, TypeOK, Kind
<1>2. \A d : Tries(d)' = Tries(d) /\ (Current(d)' <=> Current(d))
  BY <1>1 DEF Tries, Current
<1>3. \A d \in Events : Uncounted(d)' = Uncounted(d)
  BY <1>1, <1>2 DEF Uncounted, UnderWay
<1>4. TriesAreCounted'
  BY <1>1, <1>2, <1>3 DEF IInv, RowInv, TriesAreCounted
<1>5. row[e].status = "pending"
  BY <1>1 DEF IInv, RowInv, SettledWasInserted
<1>6. TodoIsOpen'
  BY <1>1, <1>2 DEF IInv, RowInv, TodoIsOpen, TypeOK
<1>7. LoggedBeforeSent' /\ SettledWasInserted'
  BY <1>1, <1>5 DEF IInv, RowInv, LoggedBeforeSent, SettledWasInserted
<1>8. CurrentIsLogged'
  BY <1>1, <1>2 DEF IInv, RowInv, CurrentIsLogged
<1> QED
  BY <1>1, <1>4, <1>6, <1>7, <1>8 DEF IInv, RowInv, BudgetHolds

-----------------------------------------------------------------------------
(* Every step. *)

\* A step of row e, whatever it is, keeps the types.
LEMMA RowType ==
  ASSUME TypeOK, NEW e \in Events, Row(e)
  PROVE  TypeOK'
<1>1. row[e] \in State /\ row[e].attempts \in Nat
  BY DEF TypeOK, State
<1>2. ASSUME Mark(e) PROVE row' \in [Events -> State] /\ pc' = "row" /\ todo' \subseteq Events
  <2>1. [row[e] EXCEPT !.status = "sent"] \in State
    BY <1>1 DEF State
  <2>2. row' = [row EXCEPT ![e] = [row[e] EXCEPT !.status = "sent"]]
    BY <1>2 DEF Mark
  <2> QED
    BY <1>2, <2>1, <2>2 DEF Mark, Visited, TypeOK
<1>3. ASSUME RecordFailure(e)
      PROVE  row' \in [Events -> State] /\ pc' \in {"row", "flare"} /\ todo' \subseteq Events
  <2>1. [status |-> IF row[e].attempts + 1 >= MaxAttempts THEN "failed" ELSE "pending",
         attempts |-> row[e].attempts + 1] \in State
    BY <1>1 DEF State
  <2>2. row' \in [Events -> State]
    BY <1>3, <2>1 DEF RecordFailure, TypeOK
  <2> QED
    BY <1>3, <2>2 DEF RecordFailure, Visited, TypeOK
<1>4. CASE Skip(e)
  BY <1>2, <1>4 DEF Skip, TypeOK, clientVars, ClientTypeOK
<1>5. CASE Refuse(e)
  BY <1>3, <1>5 DEF Refuse, TypeOK, clientVars, ClientTypeOK
<1>6. CASE Accept(e)
  <2>1. Len(handed) + 1 \in Nat /\ Append(handed, e) \in Seq(Events)
    BY AppendProperties, LenProperties DEF TypeOK
  <2>2. ClientTypeOK'
    BY <1>6, <2>1, EnqueueType DEF Accept, TypeOK
  <2> QED
    BY <1>6, <2>1, <2>2 DEF Accept, TypeOK
<1>7. CASE Persist(e)
  BY <1>7 DEF Persist, TypeOK, clientVars, ClientTypeOK
<1>8. CASE PersistFails(e)
  <2>1. faults' \in 0..MaxFaults
    BY <1>8, RelayConstants DEF PersistFails, TypeOK
  <2> QED
    BY <1>3, <1>8, <2>1 DEF PersistFails, TypeOK, clientVars, ClientTypeOK
<1>9. CASE Settle(e)
  BY <1>2, <1>9 DEF Settle, TypeOK, clientVars, ClientTypeOK
<1>10. CASE Flare(e)
  BY <1>10 DEF Flare, Visited, TypeOK, clientVars, ClientTypeOK
<1> QED
  BY <1>4, <1>5, <1>6, <1>7, <1>8, <1>9, <1>10 DEF Row

LEMMA DisconnectType ==
  ASSUME TypeOK, Disconnect
  PROVE  ClientTypeOK' /\ pc' = "off" /\ stopping' = "no" /\ joined' = FALSE
BY EnqueueType DEF Disconnect, TypeOK, Quit

LEMMA PassOverType ==
  ASSUME TypeOK, PassOver
  PROVE  ClientTypeOK' /\ pc' = "idle" /\ stopping' = stopping /\ joined' = joined
BY DEF PassOver, TypeOK, clientVars, ClientTypeOK

LEMMA TypeStep == TypeOK /\ [Next]_vars => TypeOK'
<1> SUFFICES ASSUME TypeOK, [Next]_vars PROVE TypeOK'
  OBVIOUS
<1>1. ASSUME NEW e \in Events, Insert(e) PROVE TypeOK'
  BY <1>1, RelayConstants DEF Insert, TypeOK, clientVars, ClientTypeOK
<1>2. CASE Start
  <2>1. <<>> \in Seq(Nat) /\ <<>> \in Seq(Line)
    OBVIOUS
  <2>2. ClientTypeOK'
    BY <1>2, <2>1 DEF Start, Connect, TypeOK, ClientTypeOK, Nothing
  <2> QED
    BY <1>2, <2>2 DEF Start, TypeOK
<1>3. CASE EnsureChannel
  BY <1>3 DEF EnsureChannel, TypeOK, clientVars, ClientTypeOK
<1>4. CASE Stop
  BY <1>4 DEF Stop, TypeOK, clientVars, ClientTypeOK
<1>5. CASE Crash
  <2>1. <<>> \in Seq(Nat) /\ <<>> \in Seq(Line)
    OBVIOUS
  <2>2. ClientTypeOK'
    BY <1>5, <2>1, HeldType DEF Crash, ClientDies, TypeOK, ClientTypeOK, Nothing
  <2>3. faults' \in 0..MaxFaults
    BY <1>5, RelayConstants DEF Crash, TypeOK
  <2> QED
    BY <1>5, <2>2, <2>3 DEF Crash, TypeOK
<1>6. CASE Fetch
  BY <1>6 DEF Fetch, Batch, Pending, TypeOK, clientVars, ClientTypeOK
<1>7. CASE PassEnds
  BY <1>7, DisconnectType, PassOverType DEF PassEnds, TypeOK
<1>8. CASE QueryFails
  <2>1. faults' \in 0..MaxFaults
    BY <1>8, RelayConstants DEF QueryFails, TypeOK
  <2> QED
    BY <1>8, <2>1, DisconnectType, PassOverType DEF QueryFails, TypeOK
<1>9. CASE (Session \/ Network) /\ UNCHANGED relayVars
  BY <1>9, ClientStepType DEF TypeOK, relayVars
<1>10. CASE UNCHANGED vars
  BY <1>10 DEF vars, relayVars, clientVars, TypeOK, ClientTypeOK
<1> QED
  BY <1>1, <1>2, <1>3, <1>4, <1>5, <1>6, <1>7, <1>8, <1>9, <1>10, RowType
     DEF Next, Relay

Terminal == \A e \in Events : row[e].status # "pending" => row'[e].status = row[e].status

LEMMA RowKeeps ==
  ASSUME IInv, NEW e \in Events, Row(e)
  PROVE  RowInv' /\ Terminal
<1>1. CASE Skip(e)
  <2>1. RowInv' /\ row[e].status = "pending"
    BY <1>1, MarkKeeps DEF Skip, Told
  <2>2. \A d \in Events \ {e} : row'[d] = row[d]
    BY <1>1 DEF Skip, Mark, IInv, TypeOK
  <2> QED
    BY <2>1, <2>2 DEF Terminal
<1>2. CASE Settle(e)
  <2>1. RowInv' /\ row[e].status = "pending"
    BY <1>2, MarkKeeps DEF Settle
  <2>2. \A d \in Events \ {e} : row'[d] = row[d]
    BY <1>2 DEF Settle, Mark, IInv, TypeOK
  <2> QED
    BY <2>1, <2>2 DEF Terminal
<1>3. CASE Refuse(e)
  <2>1. RowInv' /\ row[e].status = "pending"
    BY <1>3, RecordFailureKeeps DEF Refuse
  <2>2. \A d \in Events \ {e} : row'[d] = row[d]
    BY <1>3 DEF Refuse, RecordFailure, IInv, TypeOK
  <2> QED
    BY <2>1, <2>2 DEF Terminal
<1>4. CASE PersistFails(e)
  <2>1. RowInv' /\ row[e].status = "pending"
    BY <1>4, RecordFailureKeeps DEF PersistFails
  <2>2. \A d \in Events \ {e} : row'[d] = row[d]
    BY <1>4 DEF PersistFails, RecordFailure, IInv, TypeOK
  <2> QED
    BY <2>1, <2>2 DEF Terminal
<1>5. CASE Accept(e)
  BY <1>5, AcceptKeeps DEF Accept, Terminal
<1>6. CASE Persist(e)
  BY <1>6, PersistKeeps DEF Persist, Terminal
<1>7. CASE Flare(e)
  BY <1>7, FlareKeeps DEF Flare, Terminal
<1> QED
  BY <1>1, <1>2, <1>3, <1>4, <1>5, <1>6, <1>7 DEF Row

LEMMA StepIInv == IInv /\ [Next]_vars => IInv' /\ [Terminal]_row
<1> SUFFICES ASSUME IInv, [Next]_vars PROVE RowInv' /\ [Terminal]_row
  BY TypeStep DEF IInv
<1>1. ASSUME NEW e \in Events, Insert(e) PROVE RowInv' /\ row' = row
  BY <1>1, InsertKeeps DEF Insert
<1>2. CASE Start
  <2>1. SamePass
    BY <1>2 DEF Start, SamePass
  <2> QED
    BY <2>1, PassGoesOn
<1>3. CASE EnsureChannel
  <2>1. SamePass
    BY <1>3 DEF EnsureChannel, SamePass
  <2> QED
    BY <2>1, PassGoesOn
<1>4. CASE Stop
  <2>1. SamePass
    BY <1>4 DEF Stop, SamePass
  <2> QED
    BY <2>1, PassGoesOn
<1>5. CASE Crash
  <2>1. todo' \subseteq Pending /\ pc' = "off"
    BY <1>5 DEF Crash
  <2> QED
    BY <1>5, <2>1, PassChanges DEF Crash
<1>6. CASE Fetch
  <2>1. todo' \subseteq Pending /\ pc = "idle" /\ pc' = "row"
    BY <1>6 DEF Fetch, Batch
  <2> QED
    BY <1>6, <2>1, PassChanges DEF Fetch
<1>7. CASE PassEnds
  <2>1. todo' \subseteq Pending /\ pc = "row" /\ pc' \in {"off", "idle"}
    BY <1>7 DEF PassEnds, Disconnect, PassOver
  <2> QED
    BY <1>7, <2>1, PassChanges DEF PassEnds
<1>8. CASE QueryFails
  <2>1. todo' \subseteq Pending /\ pc' \in {"off", "idle"}
    BY <1>8 DEF QueryFails, Disconnect, PassOver
  <2> QED
    BY <1>8, <2>1, PassChanges DEF QueryFails
<1>9. CASE UNCHANGED relayVars
  <2>1. SamePass
    BY <1>9 DEF relayVars, SamePass
  <2> QED
    BY <2>1, PassGoesOn
<1>10. CASE UNCHANGED vars
  BY <1>9, <1>10 DEF vars
<1> QED
  BY <1>1, <1>2, <1>3, <1>4, <1>5, <1>6, <1>7, <1>8, <1>9, <1>10, RowKeeps
     DEF Next, Relay

LEMMA Invariance == Spec => []IInv
BY InitIInv, StepIInv, PTL DEF Spec

-----------------------------------------------------------------------------
(* What the relay promises. *)

\* The state of the relay and of its client is always of its type, after any
\* number of restarts.
THEOREM TypeCorrectness == Spec => []TypeOK
<1>1. Init => TypeOK
  BY InitIInv DEF IInv
<1> QED
  BY <1>1, TypeStep, PTL DEF Spec

\* process_one marks a row sent only behind its insert into irc_messages,
\* whatever fails or dies in between.
THEOREM LogComesFirst == Spec => []LoggedBeforeSent
<1>1. IInv => LoggedBeforeSent
  BY DEF IInv, RowInv
<1> QED
  BY <1>1, Invariance, PTL

\* An event is handed to the client at most max_attempts times, and once
\* more for each crash or failing query that undid the count.
THEOREM RetriesAreBounded == Spec => []SendsAreBounded
<1>1. IInv => SendsAreBounded
  <2> SUFFICES ASSUME IInv, NEW e \in Events
               PROVE  Cardinality(Tries(e)) <= MaxAttempts + faults
    BY DEF SendsAreBounded
  <2>1. Cardinality(Tries(e)) <= row[e].attempts + faults + Uncounted(e)
    BY DEF IInv, RowInv, TriesAreCounted
  <2>2. /\ row[e].attempts \in Nat /\ faults \in Nat
        /\ row[e].status \in {"pending", "sent", "failed"}
    BY DEF IInv, TypeOK, State
  <2>3. Cardinality(Tries(e)) \in Nat
    BY TriesFinite DEF IInv, TypeOK
  <2>4. MaxAttempts \in Nat /\ Uncounted(e) \in 0..1
    BY RelayConstants DEF Uncounted
  <2>5. row[e].attempts <= MaxAttempts
    BY DEF IInv, RowInv, BudgetHolds
  <2>6. CASE row[e].status # "failed"
    <3>1. row[e].attempts < MaxAttempts
      BY <2>6 DEF IInv, RowInv, BudgetHolds
    <3> QED
      BY <2>1, <2>2, <2>3, <2>4, <3>1
  <2>7. CASE row[e].status = "failed"
    <3>1. Uncounted(e) = 0
      BY <2>7 DEF Uncounted, UnderWay, Current, IInv, RowInv, TodoIsOpen
    <3> QED
      BY <2>1, <2>2, <2>3, <2>4, <2>5, <3>1
  <2> QED
    BY <2>6, <2>7
<1> QED
  BY <1>1, Invariance, PTL

\* With one relay on the database a row that was marked sent or failed
\* keeps that status, across passes, reconnects and restarts.
THEOREM SettledRowsStaySettled == Spec => SettledForGood
<1>1. IInv /\ [Next]_vars =>
        [\A e \in Events :
           row[e].status # "pending" => row'[e].status = row[e].status]_row
  BY StepIInv DEF Terminal
<1> QED
  BY <1>1, Invariance, PTL DEF Spec, SettledForGood

-----------------------------------------------------------------------------
(* Sequences of lines. *)

\* What was handed over earlier comes first; a Quit has no place among lines.
Sorted(s) == \A i, j \in DOMAIN s : i < j /\ s[j] # Quit => s[i] <= s[j]

LEMMA AppendedLine ==
  ASSUME NEW s \in Seq(Nat), NEW l \in Nat
  PROVE  Lines(Append(s, l)) = Lines(s) \cup ({l} \ {Quit})
<1>1. /\ DOMAIN s = 1..Len(s) /\ Len(s) \in Nat
      /\ DOMAIN Append(s, l) = 1..(Len(s) + 1)
      /\ Append(s, l)[Len(s) + 1] = l
      /\ \A i \in 1..Len(s) : Append(s, l)[i] = s[i]
  BY AppendProperties, LenProperties
<1> QED
  BY <1>1 DEF Lines

LEMMA AppendSorted ==
  ASSUME NEW s \in Seq(Nat), Sorted(s), NEW l \in Nat,
         l = Quit \/ \A k \in Lines(s) : k <= l
  PROVE  Sorted(Append(s, l))
<1>1. /\ DOMAIN s = 1..Len(s) /\ Len(s) \in Nat
      /\ DOMAIN Append(s, l) = 1..(Len(s) + 1)
      /\ Append(s, l)[Len(s) + 1] = l
      /\ \A i \in 1..Len(s) : Append(s, l)[i] = s[i] /\ s[i] \in Nat
  BY AppendProperties, LenProperties, ElementOfSeq
<1>2. l # Quit => \A i \in 1..Len(s) : s[i] <= l
  BY <1>1 DEF Lines, Quit
<1> QED
  BY <1>1, <1>2 DEF Sorted

LEMMA FirstLine ==
  ASSUME NEW s \in Seq(Nat), s # <<>>, Sorted(s)
  PROVE  /\ Head(s) \in Nat /\ Tail(s) \in Seq(Nat)
         /\ Lines(s) = ({Head(s)} \ {Quit}) \cup Lines(Tail(s))
         /\ Sorted(Tail(s))
         /\ \A k \in Lines(Tail(s)) : Head(s) <= k
<1>1. /\ DOMAIN s = 1..Len(s) /\ Len(s) \in Nat /\ Len(s) >= 1
      /\ Head(s) = s[1] /\ Head(s) \in Nat
      /\ Tail(s) \in Seq(Nat) /\ Len(Tail(s)) = Len(s) - 1
      /\ DOMAIN Tail(s) = 1..(Len(s) - 1)
      /\ \A i \in 1..(Len(s) - 1) : Tail(s)[i] = s[i + 1]
  BY HeadTailProperties, LenProperties, EmptySeq
<1>2. \A i \in 2..Len(s) : i - 1 \in DOMAIN Tail(s) /\ s[i] = Tail(s)[i - 1]
  BY <1>1
<1>3. \A i \in DOMAIN Tail(s) : i + 1 \in 2..Len(s) /\ Tail(s)[i] = s[i + 1]
  BY <1>1
<1>4. Lines(s) = ({Head(s)} \ {Quit}) \cup Lines(Tail(s))
  <2>1. ASSUME NEW k \in Lines(s)
        PROVE  k \in ({Head(s)} \ {Quit}) \cup Lines(Tail(s))
    <3>1. PICK i \in 1..Len(s) : k = s[i] /\ k # Quit
      BY <1>1, <2>1 DEF Lines
    <3>2. CASE i = 1
      BY <1>1, <3>1, <3>2
    <3>3. CASE i \in 2..Len(s)
      BY <1>2, <3>1, <3>3 DEF Lines
    <3> QED
      BY <1>1, <3>2, <3>3
  <2>2. ASSUME NEW k \in Lines(Tail(s)) PROVE k \in Lines(s)
    <3>1. PICK i \in DOMAIN Tail(s) : k = Tail(s)[i] /\ k # Quit
      BY <2>2 DEF Lines
    <3> QED
      BY <1>1, <1>3, <3>1 DEF Lines
  <2>3. Head(s) # Quit => Head(s) \in Lines(s)
    BY <1>1 DEF Lines
  <2> QED
    BY <2>1, <2>2, <2>3
<1>5. \A k \in Lines(Tail(s)) : Head(s) <= k
  BY <1>1, <1>3 DEF Sorted, Lines
<1>6. Sorted(Tail(s))
  <2> SUFFICES ASSUME NEW i \in DOMAIN Tail(s), NEW j \in DOMAIN Tail(s),
                      i < j, Tail(s)[j] # Quit
               PROVE  Tail(s)[i] <= Tail(s)[j]
    BY DEF Sorted
  <2>1. i + 1 \in DOMAIN s /\ j + 1 \in DOMAIN s /\ i + 1 < j + 1
    BY <1>1
  <2> QED
    BY <1>3, <2>1 DEF Sorted
<1> QED
  BY <1>1, <1>4, <1>5, <1>6

LEMMA ShortSorted ==
  /\ Lines(<<>>) = {} /\ Sorted(<<>>)
  /\ \A k \in Line : Lines(<<k>>) = {k} /\ Sorted(<<k>>)
  /\ \A k, l \in Line : Lines(<<k, l>>) = {k, l} /\ (k <= l => Sorted(<<k, l>>))
BY DEF Lines, Sorted, Line, Quit

-----------------------------------------------------------------------------
(* Where the lines are. *)

\* Quit is the last command of a client: the relay that would send more has
\* ended.
QuitEndsQueue ==
  \A i \in DOMAIN queue : queue[i] = Quit => pc = "off" /\ i = Len(queue)

\* Pending lines are written before a session goes live, and only a live one
\* has written a command.
SessionHolds ==
  /\ session = "none" => pc = "off" /\ queue = <<>>
  /\ session \in {"none", "live"} => pend = <<>>
  /\ session # "live" => unconf = Nothing

\* From the server over the wire and what the client holds to what was handed
\* over, lines only get newer.
Older(K, L) == \A k \in K, l \in L : k <= l

LineOrder ==
  /\ Sorted(wire) /\ Sorted(pend) /\ Sorted(queue)
  /\ Older({last}, Lines(wire)) /\ Older({last} \cup Lines(wire), Held)
  /\ Older({unconf} \cup Lines(pend), Lines(queue))
  /\ Older({last} \cup Lines(wire) \cup Held, {Len(handed)})

\* No unread line hangs on unconf alone: it was written, too.
LinesAreSomewhere ==
  {l \in DOMAIN handed : l > last}
    \subseteq Lines(queue) \cup Lines(pend) \cup Lines(wire) \cup dropped

LineInv == QuitEndsQueue /\ SessionHolds /\ LineOrder /\ LinesAreSomewhere

LEMMA LineTypes ==
  ASSUME TypeOK
  PROVE  /\ queue \in Seq(Nat) /\ pend \in Seq(Nat) /\ wire \in Seq(Nat)
         /\ Lines(queue) \subseteq Line /\ Lines(pend) \subseteq Line
         /\ Lines(wire) \subseteq Line
         /\ last \in Nat /\ unconf \in Nat
         /\ Len(handed) \in Nat /\ DOMAIN handed = 1..Len(handed)
BY LinesType, LineSeq, LenProperties DEF TypeOK, ClientTypeOK

LEMMA InitLineInv == Init => LineInv
<1> SUFFICES ASSUME Init PROVE LineInv
  OBVIOUS
<1>1. /\ queue = <<>> /\ pend = <<>> /\ wire = <<>> /\ handed = <<>>
      /\ unconf = 0 /\ last = 0 /\ session = "none" /\ pc = "off"
  BY DEF Init, ClientInit, Nothing
<1>2. Held = {}
  BY <1>1, ShortSorted DEF Held, Nothing
<1>3. LineOrder
  BY <1>1, <1>2, ShortSorted DEF LineOrder, Older
<1> QED
  BY <1>1, <1>3 DEF LineInv, QuitEndsQueue, SessionHolds, LinesAreSomewhere, Nothing

\* A written line is on the wire, or in the buffer of a dead connection.
LEMMA WriteKeeps ==
  ASSUME TypeOK, Sorted(wire), NEW l \in Line, Write(l), Older(Lines(wire), {l})
  PROVE  /\ Sorted(wire') /\ Lines(wire') \subseteq Lines(wire) \cup {l}
         /\ Lines(wire) \cup dropped \cup {l} \subseteq Lines(wire') \cup dropped'
<1>1. CASE broken
  BY <1>1 DEF Write
<1>2. CASE ~broken
  <2>1. wire' = Append(wire, l) /\ dropped' = dropped
    BY <1>2 DEF Write
  <2>2. Lines(wire') = Lines(wire) \cup {l}
    BY <2>1, LineTypes, AppendedLine DEF Line, Quit
  <2>3. Sorted(wire')
    BY <2>1, LineTypes, AppendSorted DEF Line, Older
  <2> QED
    BY <2>1, <2>2, <2>3
<1> QED
  BY <1>1, <1>2

LEMMA PairSeq ==
  ASSUME NEW k \in Nat, NEW l \in Nat
  PROVE  <<k>> \o <<l>> = <<k, l>>
<1>1. <<k>> \in Seq(Nat) /\ <<l>> \in Seq(Nat) /\ <<k, l>> \in Seq(Nat)
  OBVIOUS
<1>2. /\ Len(<<k>>) = 1 /\ Len(<<l>>) = 1 /\ Len(<<k, l>>) = 2
      /\ <<k>>[1] = k /\ <<l>>[1] = l /\ <<k, l>>[1] = k /\ <<k, l>>[2] = l
  OBVIOUS
<1>3. /\ <<k>> \o <<l>> \in Seq(Nat) /\ Len(<<k>> \o <<l>>) = 2
      /\ \A i \in 1..2 : (<<k>> \o <<l>>)[i] = IF i <= 1 THEN <<k>>[i] ELSE <<l>>[i - 1]
  BY <1>1, <1>2, ConcatProperties
<1>4. \A i \in 1..2 : (<<k>> \o <<l>>)[i] = <<k, l>>[i]
  BY <1>2, <1>3
<1> QED
  BY <1>1, <1>2, <1>3, <1>4, SeqEqual

\* A live session is lost: what it put in doubt goes before the command.
LEMMA RequeueKeeps ==
  ASSUME TypeOK, pend = <<>>, NEW c \in Line, NEW inHand \in {<<>>, <<c>>},
         Requeue(inHand), Older({unconf}, Lines(inHand))
  PROVE  /\ Sorted(pend') /\ unconf' = Nothing /\ session' = "lost"
         /\ Lines(pend') = ({unconf} \ {Nothing}) \cup Lines(inHand)
<1>1. pend' = Front(unconf) \o inHand /\ unconf' = Nothing /\ session' = "lost"
  <2>1. Front(unconf) \in Seq(Nat)
    BY LineTypes DEF Front
  <2> QED
    BY <2>1, ConcatEmptySeq DEF Requeue
<1>2. CASE unconf = Nothing
  <2>1. pend' = inHand
    BY <1>1, <1>2 DEF Front
  <2> QED
    BY <1>1, <1>2, <2>1, ShortSorted
<1>3. CASE unconf # Nothing
  <2>1. unconf \in Line
    BY <1>3, LineTypes DEF Line, Nothing
  <2>2. pend' = <<unconf>> \o inHand
    BY <1>1, <1>3 DEF Front
  <2>3. CASE inHand = <<>>
    <3>1. pend' = <<unconf>>
      BY <2>2, <2>3
    <3> QED
      BY <1>1, <1>3, <2>1, <2>3, <3>1, ShortSorted
  <2>4. CASE inHand = <<c>>
    <3>1. pend' = <<unconf, c>>
      BY <2>1, <2>2, <2>4, PairSeq DEF Line
    <3>2. unconf <= c /\ Lines(inHand) = {c}
      BY <2>4, ShortSorted DEF Older
    <3>3. Lines(pend') = {unconf, c} /\ Sorted(pend')
      BY <2>1, <3>1, <3>2, ShortSorted
    <3> QED
      BY <1>1, <1>3, <3>2, <3>3
  <2> QED
    BY <2>3, <2>4
<1> QED
  BY <1>2, <1>3

-----------------------------------------------------------------------------
(* Steps of the session, the network and the server. *)

LEMMA TakeKeeps ==
  ASSUME TypeOK, LineInv, Take, UNCHANGED relayVars
  PROVE  LineInv'
<1> DEFINE c == Head(queue)
<1>1. /\ session = "live" /\ queue # <<>> /\ c # Quit /\ queue' = Tail(queue)
      /\ last' = last /\ handed' = handed /\ pc' = pc
  BY DEF Take, relayVars
<1>2. /\ c \in Line /\ pend = <<>> /\ Lines(pend) = {}
      /\ Lines(queue) = {c} \cup Lines(queue') /\ Sorted(queue')
      /\ Older({c}, Lines(queue'))
  BY <1>1, LineTypes, FirstLine, ShortSorted
     DEF LineInv, LineOrder, SessionHolds, Older, Line, Quit
<1>3. /\ Older({last} \cup Lines(wire), Lines(queue))
      /\ Older({last} \cup Lines(wire), {unconf} \ {Nothing})
      /\ Older({unconf}, Lines(queue))
      /\ Older({last} \cup Lines(wire) \cup Lines(queue), {Len(handed)})
      /\ Older({unconf} \ {Nothing}, {Len(handed)})
      /\ Older({last}, Lines(wire)) /\ Sorted(wire)
  BY DEF LineInv, LineOrder, Older, Held
<1>4. QuitEndsQueue'
  <2> SUFFICES ASSUME NEW i \in DOMAIN queue', queue'[i] = Quit
               PROVE  pc = "off" /\ i = Len(queue')
    BY <1>1 DEF QuitEndsQueue
  <2>1. /\ Len(queue') = Len(queue) - 1 /\ Len(queue) \in Nat
        /\ DOMAIN queue = 1..Len(queue) /\ DOMAIN queue' = 1..(Len(queue) - 1)
        /\ \A j \in 1..(Len(queue) - 1) : queue'[j] = queue[j + 1]
    BY <1>1, LineTypes, HeadTailProperties, LenProperties
  <2>2. i + 1 \in DOMAIN queue /\ queue[i + 1] = Quit
    BY <2>1
  <2> QED
    BY <2>1, <2>2 DEF LineInv, QuitEndsQueue
<1>5. CASE Write(c) /\ unconf' = c /\ UNCHANGED <<pend, session>>
  <2>1. /\ Sorted(wire') /\ Lines(wire') \subseteq Lines(wire) \cup {c}
        /\ Lines(wire) \cup dropped \cup {c} \subseteq Lines(wire') \cup dropped'
    <3>1. Older(Lines(wire), {c})
      BY <1>2, <1>3 DEF Older
    <3> QED
      BY <1>2, <1>3, <1>5, <3>1, WriteKeeps
  <2>2. Held' = Lines(queue') \cup {c}
    BY <1>2, <1>5 DEF Held, Line, Nothing
  <2>3. LineOrder'
    <3>1. /\ Sorted(queue') /\ Sorted(pend') /\ Lines(pend') = {} /\ last' = last
          /\ Lines(wire') \subseteq Lines(wire) \cup {c} /\ Held' = Lines(queue)
      BY <1>1, <1>2, <1>5, <2>1, <2>2, ShortSorted
    <3>2. Older({c}, Lines(queue))
      BY <1>2 DEF Older, Line
    <3>3. Older({last'} \cup Lines(wire'), Held') /\ Older({last'}, Lines(wire'))
      BY <1>2, <1>3, <3>1, <3>2 DEF Older
    <3>4. Older({unconf'} \cup Lines(pend'), Lines(queue'))
      BY <1>2, <1>5, <3>1 DEF Older
    <3>5. Older({last'} \cup Lines(wire') \cup Held', {Len(handed')})
      BY <1>1, <1>2, <1>3, <3>1 DEF Older
    <3> QED
      BY <2>1, <3>1, <3>3, <3>4, <3>5 DEF LineOrder
  <2>4. SessionHolds'
    BY <1>1, <1>2, <1>5 DEF SessionHolds
  <2>5. LinesAreSomewhere'
    BY <1>1, <1>2, <1>5, <2>1 DEF LineInv, LinesAreSomewhere
  <2> QED
    BY <1>4, <2>3, <2>4, <2>5 DEF LineInv
<1>6. CASE Requeue(<<c>>) /\ UNCHANGED <<wire, dropped>>
  <2>1. /\ Sorted(pend') /\ unconf' = Nothing /\ session' = "lost"
        /\ Lines(pend') = ({unconf} \ {Nothing}) \cup {c}
    <3>1. Lines(<<c>>) = {c} /\ Older({unconf}, {c})
      BY <1>2, <1>3, ShortSorted DEF Older
    <3> QED
      BY <1>2, <1>6, <3>1, RequeueKeeps
  <2>2. Held' = Lines(queue') \cup Lines(pend')
    BY <2>1 DEF Held
  <2>3. LineOrder'
    <3>1. /\ wire' = wire /\ Sorted(wire') /\ Sorted(queue') /\ Sorted(pend')
          /\ Lines(pend') \cup Held' \subseteq ({unconf} \ {Nothing}) \cup Lines(queue)
      BY <1>2, <1>3, <1>6, <2>1, <2>2
    <3>2. Older({last'} \cup Lines(wire'), Held') /\ Older({last'}, Lines(wire'))
      BY <1>1, <1>3, <3>1 DEF Older
    <3>3. Older({unconf'} \cup Lines(pend'), Lines(queue'))
      BY <1>2, <1>3, <2>1, LineTypes DEF Older, Line, Nothing
    <3>4. Older({last'} \cup Lines(wire') \cup Held', {Len(handed')})
      BY <1>1, <1>3, <3>1 DEF Older
    <3> QED
      BY <3>1, <3>2, <3>3, <3>4 DEF LineOrder
  <2>4. SessionHolds'
    BY <2>1 DEF SessionHolds
  <2>5. LinesAreSomewhere'
    BY <1>1, <1>2, <1>6, <2>1 DEF LineInv, LinesAreSomewhere
  <2> QED
    BY <1>4, <2>3, <2>4, <2>5 DEF LineInv
<1> QED
  BY <1>5, <1>6 DEF Take

\* Nothing is queued behind the Quit, so nothing goes down with the queue.
LEMMA TakeQuitKeeps ==
  ASSUME TypeOK, LineInv, TakeQuit, UNCHANGED relayVars
  PROVE  LineInv'
<1>1. /\ session = "live" /\ queue # <<>> /\ Head(queue) = Quit /\ queue' = <<>>
      /\ session' = "none" /\ unconf' = Nothing
      /\ UNCHANGED <<pend, wire, last, dropped, handed, pc>>
  BY DEF TakeQuit, relayVars
<1>2. pc = "off" /\ Len(queue) = 1 /\ DOMAIN queue = 1..1 /\ queue[1] = Quit
  <2>1. Len(queue) \in Nat \ {0} /\ DOMAIN queue = 1..Len(queue) /\ Head(queue) = queue[1]
    BY <1>1, LineTypes, LenProperties, EmptySeq, HeadTailProperties
  <2>2. 1 \in DOMAIN queue
    BY <2>1
  <2> QED
    BY <1>1, <2>1, <2>2 DEF LineInv, QuitEndsQueue
<1>3. Lines(queue) = {} /\ Lines(queue') = {} /\ Lines(pend) = {} /\ Held' = {}
  BY <1>1, <1>2, ShortSorted DEF Lines, Held, LineInv, SessionHolds
<1>4. LineOrder'
  BY <1>1, <1>3, ShortSorted DEF LineInv, LineOrder, Older
<1>5. LinesAreSomewhere'
  BY <1>1, <1>3 DEF LineInv, LinesAreSomewhere
<1> QED
  BY <1>1, <1>2, <1>4, <1>5 DEF LineInv, QuitEndsQueue, SessionHolds

LEMMA FlushKeeps ==
  ASSUME TypeOK, LineInv, Flush, UNCHANGED relayVars
  PROVE  LineInv'
<1> DEFINE l == Head(pend)
<1>1. /\ session = "flush" /\ pend # <<>> /\ unconf = Nothing
      /\ UNCHANGED <<queue, unconf, last, handed, pc>>
  BY DEF Flush, relayVars, LineInv, SessionHolds
<1>2. CASE Write(l) /\ pend' = Tail(pend) /\ UNCHANGED session
  <2>1. /\ l \in Line /\ Lines(pend) = {l} \cup Lines(pend')
        /\ Sorted(pend') /\ Older({l}, Lines(pend'))
    <3>1. Sorted(pend)
      BY DEF LineInv, LineOrder
    <3>2. l \in Line
      BY <1>1, HeadTailProperties DEF TypeOK, ClientTypeOK
    <3> QED
      BY <1>1, <1>2, <3>1, <3>2, LineTypes, FirstLine DEF Older, Line, Quit
  <2>2. /\ Held = Lines(queue) \cup Lines(pend)
        /\ Held' = Lines(queue) \cup Lines(pend')
    BY <1>1 DEF Held
  <2>3. /\ Older({last} \cup Lines(wire), Lines(queue) \cup Lines(pend))
        /\ Older(Lines(pend), Lines(queue)) /\ Older({last}, Lines(wire))
        /\ Older({last} \cup Lines(wire) \cup Lines(queue) \cup Lines(pend), {Len(handed)})
        /\ Sorted(wire) /\ Sorted(queue)
    BY <2>2 DEF LineInv, LineOrder, Older
  <2>4. /\ Sorted(wire') /\ Lines(wire') \subseteq Lines(wire) \cup {l}
        /\ Lines(wire) \cup dropped \cup {l} \subseteq Lines(wire') \cup dropped'
    <3>1. Older(Lines(wire), {l})
      BY <2>1, <2>3 DEF Older
    <3> QED
      BY <1>2, <2>1, <2>3, <3>1, WriteKeeps
  <2>5. LineOrder'
    <3>1. Older({last'} \cup Lines(wire'), Held') /\ Older({last'}, Lines(wire'))
      BY <1>1, <2>1, <2>2, <2>3, <2>4 DEF Older
    <3>2. Older({unconf'} \cup Lines(pend'), Lines(queue'))
      BY <1>1, <2>1, <2>3, LineTypes DEF Older, Line, Nothing
    <3>3. Older({last'} \cup Lines(wire') \cup Held', {Len(handed')})
      BY <1>1, <2>1, <2>2, <2>3, <2>4 DEF Older
    <3> QED
      BY <1>1, <2>1, <2>3, <2>4, <3>1, <3>2, <3>3 DEF LineOrder
  <2>6. LinesAreSomewhere'
    BY <1>1, <2>1, <2>4 DEF LineInv, LinesAreSomewhere
  <2> QED
    BY <1>1, <1>2, <2>5, <2>6 DEF LineInv, QuitEndsQueue, SessionHolds
<1>3. CASE session' = "lost" /\ UNCHANGED <<pend, wire, dropped>>
  BY <1>1, <1>3 DEF LineInv, QuitEndsQueue, SessionHolds, LineOrder, Held,
     LinesAreSomewhere
<1> QED
  BY <1>2, <1>3 DEF Flush

\* What is in doubt was written or is requeued; either way it is somewhere.
LEMMA NoticeLossKeeps ==
  ASSUME TypeOK, LineInv, NoticeLoss, UNCHANGED relayVars
  PROVE  LineInv'
<1>1. /\ session = "live" /\ pend = <<>> /\ Requeue(<<>>)
      /\ UNCHANGED <<queue, wire, last, dropped, handed, pc>>
  BY DEF NoticeLoss, relayVars, LineInv, SessionHolds
<1>2. /\ Sorted(pend') /\ unconf' = Nothing /\ session' = "lost"
      /\ Lines(pend') = {unconf} \ {Nothing} /\ Lines(pend) = {}
  <2>1. Older({unconf}, Lines(<<>>)) /\ 1 \in Line
    BY ShortSorted DEF Older, Line
  <2> QED
    BY <1>1, <2>1, RequeueKeeps, ShortSorted
<1>3. Held' = Held
  BY <1>1, <1>2 DEF Held
<1>4. LineOrder'
  <2>1. Older({unconf'} \cup Lines(pend'), Lines(queue'))
    BY <1>1, <1>2, LineTypes DEF LineInv, LineOrder, Older, Line, Nothing
  <2> QED
    BY <1>1, <1>2, <1>3, <2>1 DEF LineInv, LineOrder
<1>5. LinesAreSomewhere'
  BY <1>1, <1>2 DEF LineInv, LinesAreSomewhere
<1> QED
  BY <1>1, <1>2, <1>4, <1>5 DEF LineInv, QuitEndsQueue, SessionHolds

LEMMA InboundKeeps ==
  ASSUME TypeOK, LineInv, Inbound, UNCHANGED relayVars
  PROVE  LineInv'
<1>1. /\ session = "live" /\ unconf' = Nothing
      /\ UNCHANGED <<queue, pend, session, wire, last, dropped, handed, pc>>
  BY DEF Inbound, relayVars
<1>2. Held' \subseteq Held
  BY <1>1 DEF Held
<1>3. LineOrder'
  <2>1. Older({unconf'} \cup Lines(pend'), Lines(queue'))
    BY <1>1, LineTypes DEF LineInv, LineOrder, Older, Line, Nothing
  <2>2. /\ Older({last'} \cup Lines(wire'), Held')
        /\ Older({last'} \cup Lines(wire') \cup Held', {Len(handed')})
    BY <1>1, <1>2 DEF LineInv, LineOrder, Older
  <2> QED
    BY <1>1, <2>1, <2>2 DEF LineInv, LineOrder
<1> QED
  BY <1>1, <1>3 DEF LineInv, QuitEndsQueue, SessionHolds, LinesAreSomewhere

LEMMA ServerReadsKeeps ==
  ASSUME TypeOK, LineInv, ServerReads, UNCHANGED relayVars
  PROVE  LineInv' /\ last' >= last
<1> DEFINE l == Head(wire)
<1>1. /\ wire # <<>> /\ last' = l /\ wire' = Tail(wire)
      /\ dropped' = {k \in dropped : k > l}
      /\ UNCHANGED <<queue, pend, unconf, session, handed, pc>>
  BY DEF ServerReads, relayVars
<1>2. /\ l \in Line /\ Lines(wire) = {l} \cup Lines(wire')
      /\ Sorted(wire') /\ Older({l}, Lines(wire'))
  <2>1. Sorted(wire)
    BY DEF LineInv, LineOrder
  <2>2. l \in Line
    BY <1>1, HeadTailProperties DEF TypeOK, ClientTypeOK
  <2> QED
    BY <1>1, <2>1, <2>2, LineTypes, FirstLine DEF Older, Line, Quit
<1>3. l >= last
  BY <1>2, LineTypes DEF LineInv, LineOrder, Older, Line
<1>4. Held' = Held
  BY <1>1 DEF Held
<1>5. LineOrder'
  <2>1. /\ Older({last'} \cup Lines(wire'), Held')
        /\ Older({last'} \cup Lines(wire') \cup Held', {Len(handed')})
    BY <1>1, <1>2, <1>4 DEF LineInv, LineOrder, Older
  <2> QED
    BY <1>1, <1>2, <2>1 DEF LineInv, LineOrder
<1>6. LinesAreSomewhere'
  <2> SUFFICES ASSUME NEW k \in DOMAIN handed, k > l
               PROVE  k \in Lines(queue') \cup Lines(pend') \cup Lines(wire') \cup dropped'
    BY <1>1 DEF LinesAreSomewhere
  <2>1. k > last /\ k # l
    BY <1>2, <1>3, LineTypes DEF Line
  <2> QED
    BY <1>1, <1>2, <2>1 DEF LineInv, LinesAreSomewhere
<1> QED
  BY <1>1, <1>3, <1>5, <1>6 DEF LineInv, QuitEndsQueue, SessionHolds

LEMMA ClientKeeps ==
  ASSUME TypeOK, LineInv, Session \/ Network, UNCHANGED relayVars
  PROVE  LineInv' /\ last' >= last
<1> USE DEF LineInv, QuitEndsQueue, SessionHolds, LineOrder, LinesAreSomewhere, Held,
            relayVars
<1>1. last' = last => last' >= last
  BY LineTypes
<1>2. CASE Flushed
  BY <1>1, <1>2 DEF Flushed
<1>3. CASE Reconnect
  BY <1>1, <1>3 DEF Reconnect
<1>4. CASE Break
  <2>1. Lines(wire') = {} /\ Sorted(wire')
    BY <1>4, ShortSorted DEF Break
  <2> QED
    BY <1>1, <1>4, <2>1 DEF Break, Older
<1>5. CASE Take
  BY <1>1, <1>5, TakeKeeps DEF Take
<1>6. CASE TakeQuit
  BY <1>1, <1>6, TakeQuitKeeps DEF TakeQuit
<1>7. CASE Flush
  BY <1>1, <1>7, FlushKeeps DEF Flush
<1>8. CASE Inbound
  BY <1>1, <1>8, InboundKeeps DEF Inbound
<1>9. CASE NoticeLoss
  BY <1>1, <1>9, NoticeLossKeeps DEF NoticeLoss
<1>10. CASE ServerReads
  BY <1>10, ServerReadsKeeps
<1> QED
  BY <1>2, <1>3, <1>4, <1>5, <1>6, <1>7, <1>8, <1>9, <1>10 DEF Session, Network

-----------------------------------------------------------------------------
(* Steps of the relay and of the app, as the client sees them. *)

\* A relay that has ended stays so until its client has.
LEMMA AloneKeeps ==
  ASSUME LineInv, UNCHANGED <<clientVars, handed>>, pc = "off" => pc' = "off"
  PROVE  LineInv'
BY DEF LineInv, QuitEndsQueue, SessionHolds, LineOrder, LinesAreSomewhere, Held,
       clientVars

\* While the relay runs, its client has a session and no Quit is queued.
LEMMA QueueOpen ==
  ASSUME LineInv, pc # "off"
  PROVE  session # "none" /\ \A i \in DOMAIN queue : queue[i] # Quit
BY DEF LineInv, SessionHolds, QuitEndsQueue

LEMMA EnqueueKeeps ==
  ASSUME TypeOK, LineInv, pc # "off", NEW c \in Nat, Enqueue(c),
         \/ c = Quit /\ pc' = "off" /\ handed' = handed
         \/ c = Len(handed) + 1 /\ pc' # "off" /\ handed' \in Seq(Events) /\ Len(handed') = c
  PROVE  LineInv'
<1>1. /\ queue' = Append(queue, c)
      /\ UNCHANGED <<pend, unconf, session, wire, last, dropped>>
  BY DEF Enqueue
<1>2. /\ DOMAIN queue = 1..Len(queue) /\ Len(queue) \in Nat
      /\ DOMAIN queue' = 1..(Len(queue) + 1) /\ Len(queue') = Len(queue) + 1
      /\ queue'[Len(queue) + 1] = c
      /\ \A i \in 1..Len(queue) : queue'[i] = queue[i]
  BY <1>1, LineTypes, LenProperties, AppendProperties
<1>3. QuitEndsQueue'
  <2>1. c # Quit \/ pc' = "off"
    BY LineTypes DEF Quit
  <2> QED
    BY <1>2, <2>1, QueueOpen DEF QuitEndsQueue
<1>4. /\ Lines(queue') = Lines(queue) \cup ({c} \ {Quit})
      /\ Held' = Held \cup ({c} \ {Quit})
  BY <1>1, LineTypes, AppendedLine DEF Held
<1>5. /\ Len(handed') \in Nat /\ Len(handed) <= Len(handed') /\ c <= Len(handed')
      /\ DOMAIN handed' \subseteq DOMAIN handed \cup ({c} \ {Quit})
  BY LineTypes, LenProperties DEF Quit
<1>6. c = Quit \/ Older({last, unconf} \cup Lines(wire) \cup Held, {c})
  <2>1. Older({last} \cup Lines(wire) \cup Held, {Len(handed)})
    BY DEF LineInv, LineOrder
  <2>2. unconf \in {Nothing} \cup Held
    BY DEF Held
  <2>3. /\ {last} \cup Lines(wire) \cup Held \subseteq Nat
        /\ Len(handed) \in Nat
    BY LineTypes DEF Held, Line
  <2> QED
    BY <2>1, <2>2, <2>3 DEF Older, Nothing
<1>7. LineOrder'
  <2>1. Sorted(queue')
    <3>1. c = Quit \/ \A k \in Lines(queue) : k <= c
      BY <1>6 DEF Older, Held
    <3> QED
      BY <1>1, <3>1, LineTypes, AppendSorted DEF LineInv, LineOrder
  <2>2. Older({last'} \cup Lines(wire'), Held')
    BY <1>1, <1>4, <1>6 DEF LineInv, LineOrder, Older
  <2>3. Older({unconf'} \cup Lines(pend'), Lines(queue'))
    BY <1>1, <1>4, <1>6 DEF LineInv, LineOrder, Older, Held
  <2>4. Older({last'} \cup Lines(wire') \cup Held', {Len(handed')})
    <3>1. {last} \cup Lines(wire) \cup Held \subseteq Nat /\ Len(handed) \in Nat
      BY LineTypes DEF Held, Line
    <3> QED
      BY <1>1, <1>4, <1>5, <3>1 DEF LineInv, LineOrder, Older
  <2> QED
    BY <1>1, <2>1, <2>2, <2>3, <2>4 DEF LineInv, LineOrder
<1>8. LinesAreSomewhere'
  BY <1>1, <1>4, <1>5 DEF LineInv, LinesAreSomewhere
<1>9. SessionHolds'
  BY <1>1, QueueOpen DEF LineInv, SessionHolds
<1> QED
  BY <1>3, <1>7, <1>8, <1>9 DEF LineInv

\* A client that is gone holds nothing; what it held is known to be lost.
LEMMA EmptyKeeps ==
  ASSUME LineInv, queue' = <<>>, pend' = <<>>, unconf' = Nothing,
         UNCHANGED <<wire, last, handed>>,
         Lines(queue) \cup Lines(pend) \cup dropped \subseteq dropped',
         session' = "none" => pc' = "off"
  PROVE  LineInv'
<1>1. Lines(queue') = {} /\ Lines(pend') = {} /\ Held' = {}
  BY ShortSorted DEF Held
<1>2. LineOrder'
  BY <1>1, ShortSorted DEF LineInv, LineOrder, Older
<1>3. LinesAreSomewhere'
  BY <1>1 DEF LineInv, LinesAreSomewhere
<1> QED
  BY <1>2, <1>3 DEF LineInv, QuitEndsQueue, SessionHolds

LEMMA AcceptEnqueues ==
  ASSUME TypeOK, LineInv, NEW e \in Events, Accept(e)
  PROVE  LineInv'
<1>1. /\ pc = "row" /\ pc' = "accepted" /\ Enqueue(Len(handed) + 1)
      /\ handed' = Append(handed, e)
  BY DEF Accept
<1>2. /\ Len(handed) + 1 \in Nat
      /\ handed' \in Seq(Events) /\ Len(handed') = Len(handed) + 1
  BY <1>1, AppendProperties, LenProperties DEF TypeOK
<1> QED
  BY <1>1, <1>2, EnqueueKeeps

LEMMA LineStep == TypeOK /\ LineInv /\ [Next]_vars => LineInv' /\ [last' >= last]_last
<1> SUFFICES ASSUME TypeOK, LineInv, [Next]_vars
             PROVE  LineInv' /\ (last' = last \/ last' >= last)
  OBVIOUS
<1>1. ASSUME NEW e \in Events, Insert(e) PROVE LineInv' /\ last' = last
  BY <1>1, AloneKeeps DEF Insert, clientVars
<1>2. CASE Start
  <2>1. /\ session = "none" /\ session' = "live"
        /\ queue' = <<>> /\ pend' = <<>> /\ unconf' = Nothing
        /\ UNCHANGED <<wire, last, dropped, handed>>
    BY <1>2 DEF Start, Connect
  <2>2. Lines(queue) = {} /\ Lines(pend) = {}
    BY <2>1, ShortSorted DEF LineInv, SessionHolds
  <2> QED
    BY <2>1, <2>2, EmptyKeeps
<1>3. CASE EnsureChannel \/ Stop
  BY <1>3, AloneKeeps DEF EnsureChannel, Stop, clientVars
<1>4. CASE Crash
  <2>1. /\ pc' = "off" /\ queue' = <<>> /\ pend' = <<>> /\ unconf' = Nothing
        /\ dropped' = dropped \cup Held /\ UNCHANGED <<wire, last, handed>>
    BY <1>4 DEF Crash, ClientDies
  <2> QED
    BY <2>1, EmptyKeeps DEF Held
<1>5. CASE Fetch
  BY <1>5, AloneKeeps DEF Fetch, clientVars
<1>6. ASSUME pc # "off", handed' = handed, Disconnect \/ PassOver
      PROVE  LineInv' /\ last' = last
  <2>1. CASE Disconnect
    <3>1. Quit \in Nat
      BY DEF Quit
    <3> QED
      BY <1>6, <2>1, <3>1, EnqueueKeeps DEF Disconnect, Enqueue
  <2>2. CASE PassOver
    BY <1>6, <2>2, AloneKeeps DEF PassOver, clientVars
  <2> QED
    BY <1>6, <2>1, <2>2
<1>7. CASE PassEnds
  BY <1>6, <1>7 DEF PassEnds
<1>8. CASE QueryFails
  BY <1>6, <1>8 DEF QueryFails
<1>9. ASSUME NEW e \in Events, Row(e) PROVE LineInv' /\ last' = last
  <2>1. CASE Accept(e)
    BY <2>1, AcceptEnqueues DEF Accept, Enqueue
  <2>2. CASE Skip(e) \/ Refuse(e) \/ Persist(e) \/ PersistFails(e) \/ Settle(e) \/ Flare(e)
    <3>1. UNCHANGED <<clientVars, handed>> /\ pc # "off"
      BY <2>2 DEF Skip, Refuse, Persist, PersistFails, Settle, Flare
    <3> QED
      BY <3>1, AloneKeeps DEF clientVars
  <2> QED
    BY <1>9, <2>1, <2>2 DEF Row
<1>10. CASE (Session \/ Network) /\ UNCHANGED relayVars
  BY <1>10, ClientKeeps
<1>11. CASE UNCHANGED vars
  BY <1>11, AloneKeeps DEF vars, relayVars, clientVars
<1> QED
  BY <1>1, <1>2, <1>3, <1>4, <1>5, <1>7, <1>8, <1>9, <1>10, <1>11 DEF Next, Relay

LEMMA LineInvariance == Spec => [](TypeOK /\ LineInv)
<1>1. Init => TypeOK /\ LineInv
  BY InitIInv, InitLineInv DEF IInv
<1>2. TypeOK /\ LineInv /\ [Next]_vars => (TypeOK /\ LineInv)'
  BY TypeStep, LineStep
<1> QED
  BY <1>1, <1>2, PTL DEF Spec

-----------------------------------------------------------------------------
(* What the client promises. *)

\* IrcRuntime::shutdown waits for the final pass before disconnect, and a
\* relay that has ended does not use the client it had.
THEOREM QuitComesLast == Spec => []QuitIsLast
<1>1. TypeOK /\ LineInv => QuitIsLast
  BY DEF LineInv, QuitEndsQueue, QuitIsLast
<1> QED
  BY <1>1, LineInvariance, PTL

\* run_session and its requeueing lose no line between their buffers: what no
\* server has read is held, in transit, or went down with something.
THEOREM LinesAreAccountedFor == Spec => []NoLineIsMislaid
<1>1. TypeOK /\ LineInv => NoLineIsMislaid
  BY DEF LineInv, LinesAreSomewhere, NoLineIsMislaid, Held
<1> QED
  BY <1>1, LineInvariance, PTL

\* However often connections break and lines are written again, the server
\* reads them in the order they were handed over.
THEOREM ServerReadsInOrder == Spec => InOrder
BY LineInvariance, LineStep, PTL DEF Spec, InOrder

-----------------------------------------------------------------------------
(* Reports of failed rows. *)

\* Failed rows that nobody has been told of or is about to be.
Silent ==
  {e \in Events : /\ row[e].status = "failed" /\ e \notin flared
                  /\ ~(pc = "flare" /\ Current(e))}

LEMMA SilentFinite ==
  ASSUME NEW s \in SUBSET Events
  PROVE  IsFiniteSet(s) /\ Cardinality(s) \in Nat
BY RelayConstants, FS_Subset, FS_CardinalityType

LEMMA NoMoreSilent ==
  ASSUME TypeOK, TypeOK', FailuresAreFlared, Silent' \subseteq Silent, faults' >= faults
  PROVE  FailuresAreFlared'
<1>1. Silent \in SUBSET Events /\ Silent' \in SUBSET Events
  BY DEF Silent
<1>2. /\ Cardinality(Silent) \in Nat /\ Cardinality(Silent') \in Nat
      /\ Cardinality(Silent') <= Cardinality(Silent)
  BY <1>1, SilentFinite, FS_Subset
<1>3. faults \in Nat /\ faults' \in Nat /\ Cardinality(Silent) <= faults
  BY DEF TypeOK, FailuresAreFlared, Silent
<1>4. Cardinality(Silent') <= faults'
  BY <1>2, <1>3
<1> QED
  BY <1>4 DEF FailuresAreFlared, Silent

\* A pass cut short leaves at most the flare that was due.
LEMMA OneMoreSilent ==
  ASSUME TypeOK, TypeOK', FailuresAreFlared, UNCHANGED <<row, flared>>,
         pc' # "flare", faults' = faults + 1
  PROVE  FailuresAreFlared'
<1>1. Silent \in SUBSET Events /\ Silent' \in SUBSET Events
  BY DEF Silent
<1>2. faults \in Nat /\ Cardinality(Silent) <= faults
  BY DEF TypeOK, FailuresAreFlared, Silent
<1>3. Cardinality(Silent) \in Nat /\ Cardinality(Silent') \in Nat
  BY <1>1, SilentFinite
<1>4. CASE \E e \in Events : Current(e)
  <2>1. PICK e \in Events : Current(e)
    BY <1>4
  <2>2. Silent' \subseteq Silent \cup {e}
    BY <2>1, CurrentIsOne DEF Silent
  <2>3. /\ IsFiniteSet(Silent \cup {e})
        /\ Cardinality(Silent \cup {e}) <= Cardinality(Silent) + 1
        /\ Cardinality(Silent \cup {e}) \in Nat
    <3>1. IsFiniteSet(Silent) /\ Silent \cup {e} \in SUBSET Events
      BY <1>1, SilentFinite
    <3>2. Cardinality(Silent \cup {e}) = IF e \in Silent THEN Cardinality(Silent)
                                          ELSE Cardinality(Silent) + 1
      BY <3>1, FS_AddElement
    <3> QED
      BY <1>3, <3>1, <3>2, SilentFinite
  <2>4. Cardinality(Silent') <= Cardinality(Silent \cup {e})
    BY <2>2, <2>3, FS_Subset
  <2>5. Cardinality(Silent') <= faults'
    BY <1>2, <1>3, <2>3, <2>4
  <2> QED
    BY <2>5 DEF FailuresAreFlared, Silent
<1>5. CASE ~\E e \in Events : Current(e)
  <2>1. Silent' \subseteq Silent
    BY <1>5 DEF Silent
  <2> QED
    BY <1>2, <2>1, NoMoreSilent
<1> QED
  BY <1>4, <1>5

LEMMA FlareStep == IInv /\ FailuresAreFlared /\ [Next]_vars => FailuresAreFlared'
<1> SUFFICES ASSUME IInv, FailuresAreFlared, [Next]_vars PROVE FailuresAreFlared'
  OBVIOUS
<1>1. TypeOK /\ TypeOK' /\ faults \in Nat
  BY TypeStep DEF IInv, TypeOK
<1>2. CASE Crash
  BY <1>1, <1>2, OneMoreSilent DEF Crash
<1>3. CASE QueryFails
  BY <1>1, <1>3, OneMoreSilent DEF QueryFails, Disconnect, PassOver
<1>4. ASSUME UNCHANGED <<row, flared, todo, faults>>,
             pc' = pc \/ (pc' # "flare" /\ pc # "flare")
      PROVE  FailuresAreFlared'
  <2>1. Silent' \subseteq Silent
    BY <1>4 DEF Silent, Current
  <2> QED
    BY <1>1, <1>4, <2>1, NoMoreSilent
<1>5. ASSUME NEW e \in Events, Insert(e) PROVE FailuresAreFlared'
  BY <1>4, <1>5 DEF Insert
<1>6. CASE Start \/ EnsureChannel \/ Stop \/ PassEnds
  BY <1>4, <1>6 DEF Start, EnsureChannel, Stop, PassEnds, Disconnect, PassOver
<1>7. CASE Fetch
  <2>1. Silent' \subseteq Silent
    BY <1>7 DEF Fetch, Silent
  <2> QED
    BY <1>1, <1>7, <2>1, NoMoreSilent DEF Fetch
<1>8. ASSUME NEW e \in Events, Row(e) PROVE FailuresAreFlared'
  <2>1. CASE Accept(e) \/ Persist(e)
    BY <1>4, <2>1 DEF Accept, Persist
  <2>2. CASE Skip(e) \/ Settle(e)
    <3>1. Mark(e) /\ pc # "flare" /\ flared' = flared
      BY <2>2 DEF Skip, Settle
    <3>2. row'[e].status = "sent" /\ \A d \in Events \ {e} : row'[d] = row[d]
      <4>1. row[e] \in State
        BY <1>1 DEF TypeOK
      <4> QED
        BY <1>1, <3>1, <4>1 DEF Mark, TypeOK, State
    <3>3. Silent' \subseteq Silent
      BY <3>1, <3>2 DEF Silent
    <3> QED
      BY <1>1, <2>2, <3>3, NoMoreSilent DEF Skip, Settle
  <2>3. CASE Refuse(e) \/ PersistFails(e)
    <3>1. RecordFailure(e) /\ Current(e) /\ pc # "flare" /\ flared' = flared
      BY <2>3 DEF Refuse, PersistFails
    <3>2. /\ \A d \in Events \ {e} : row'[d] = row[d]
          /\ row'[e].status = "failed" => pc' = "flare" /\ todo' = todo
      BY <1>1, <3>1 DEF RecordFailure, Visited, TypeOK
    <3>3. ASSUME NEW d \in Silent' PROVE d \in Silent
      <4>1. d \in Events /\ row'[d].status = "failed" /\ d \notin flared'
            /\ ~(pc' = "flare" /\ Current(d)')
        BY <3>3 DEF Silent
      <4>2. d # e
        BY <3>1, <3>2, <4>1 DEF Current
      <4> QED
        BY <3>1, <3>2, <4>1, <4>2 DEF Silent
    <3>4. faults' >= faults
      BY <1>1, <2>3 DEF Refuse, PersistFails
    <3> QED
      BY <1>1, <3>3, <3>4, NoMoreSilent
  <2>4. CASE Flare(e)
    <3>1. Silent' \subseteq Silent
      BY <1>1, <2>4, CurrentIsOne DEF Flare, Visited, Silent
    <3> QED
      BY <1>1, <2>4, <3>1, NoMoreSilent DEF Flare
  <2> QED
    BY <1>8, <2>1, <2>2, <2>3, <2>4 DEF Row
<1>9. CASE UNCHANGED relayVars
  BY <1>4, <1>9 DEF relayVars
<1> QED
  BY <1>2, <1>3, <1>5, <1>6, <1>7, <1>8, <1>9 DEF Next, Relay, vars

\* emit_flare follows the write that uses up the last attempt: for each row
\* that failed in silence there was a crash or a failing query.
THEOREM FailuresAreTold == Spec => []FailuresAreFlared
<1>1. Init => FailuresAreFlared
  <2> SUFFICES ASSUME Init PROVE FailuresAreFlared
    OBVIOUS
  <2>1. Silent = {} /\ faults = 0
    BY DEF Init, Silent
  <2>2. Cardinality(Silent) <= faults
    BY <2>1, FS_EmptySet
  <2> QED
    BY <2>2 DEF FailuresAreFlared, Silent
<1> QED
  BY <1>1, FlareStep, Invariance, PTL DEF Spec

-----------------------------------------------------------------------------
(* Refinement of Outbox. *)

Said == {handed[l] : l \in DOMAIN handed}
Minor == {e \in Events : kind[e] = "denied"}
StageOf(e) == IF kind[e] = "none" THEN "none" ELSE row[e].status

\* What process_one has found out about the row at hand: behind the send it is
\* one worth telling and its line was handed over, and a flare is for a row
\* that has failed.
AtHand ==
  \A e \in Events : Current(e) =>
    /\ pc \in {"accepted", "logged"} => kind[e] \in Told /\ e \in Said
    /\ pc = "flare" => row[e].status = "failed"

LEMMA SaidGrows ==
  ASSUME TypeOK, NEW e \in Events, handed' = Append(handed, e)
  PROVE  Said' = Said \cup {e}
<1>1. /\ Len(handed') = Len(handed) + 1 /\ Len(handed) \in Nat
      /\ handed'[Len(handed) + 1] = e
      /\ \A l \in 1..Len(handed) : handed'[l] = handed[l]
  BY AppendProperties, LenProperties DEF TypeOK
<1>2. DOMAIN handed = 1..Len(handed) /\ DOMAIN handed' = 1..(Len(handed) + 1)
  <2>1. handed' \in Seq(Events)
    BY AppendProperties DEF TypeOK
  <2> QED
    BY <1>1, <2>1, LenProperties DEF TypeOK
<1>3. Len(handed) + 1 \in DOMAIN handed'
  BY <1>1, <1>2
<1>4. \A l \in DOMAIN handed' : l \in DOMAIN handed \/ l = Len(handed) + 1
  BY <1>1, <1>2
<1>5. \A l \in DOMAIN handed : l \in DOMAIN handed'
  BY <1>1, <1>2
<1> QED
  BY <1>1, <1>2, <1>3, <1>4, <1>5 DEF Said

\* A write to row e moves e and nothing else.
LEMMA RowMoves ==
  ASSUME TypeOK, NEW e \in Events, kind[e] # "none", kind' = kind,
         NEW x \in State, row' = [row EXCEPT ![e] = x]
  PROVE  /\ [d \in Events |-> StageOf(d)'] =
              [[d \in Events |-> StageOf(d)] EXCEPT ![e] = x.status]
         /\ [d \in Events |-> row'[d].attempts] =
              [[d \in Events |-> row[d].attempts] EXCEPT ![e] = x.attempts]
<1>1. row'[e] = x /\ \A d \in Events \ {e} : row'[d] = row[d]
  BY DEF TypeOK
<1>2. \A d \in Events :
        StageOf(d)' = [[q \in Events |-> StageOf(q)] EXCEPT ![e] = x.status][d]
  BY <1>1 DEF StageOf
<1>3. \A d \in Events :
        row'[d].attempts = [[q \in Events |-> row[q].attempts] EXCEPT ![e] = x.attempts][d]
  BY <1>1
<1> QED
  BY <1>2, <1>3

LEMMA AtHandKeeps == TypeOK /\ AtHand /\ [Next]_vars => AtHand'
<1> SUFFICES ASSUME TypeOK, AtHand, [Next]_vars PROVE AtHand'
  OBVIOUS
<1>1. ASSUME NEW e \in Events, Insert(e) PROVE AtHand'
  <2>1. \A d \in Events : kind[d] \in Told => kind'[d] = kind[d]
    BY <1>1 DEF Insert, Told, TypeOK
  <2>2. UNCHANGED <<pc, todo, row, handed>>
    BY <1>1 DEF Insert
  <2> QED
    BY <2>1, <2>2 DEF AtHand, Current, Said
<1>2. ASSUME pc' \in {"off", "idle"} PROVE AtHand'
  BY <1>2 DEF AtHand
<1>3. ASSUME UNCHANGED <<kind, row, handed, pc, todo>> PROVE AtHand'
  BY <1>3 DEF AtHand, Current, Said
<1>4. ASSUME pc' = "row" PROVE AtHand'
  BY <1>4 DEF AtHand
<1>5. ASSUME NEW e \in Events, Row(e) PROVE AtHand'
  <2>1. CASE Skip(e) \/ Settle(e) \/ Flare(e)
    BY <1>4, <2>1 DEF Skip, Settle, Flare, Mark, Visited
  <2>2. CASE Accept(e)
    <3>1. Said' = Said \cup {e}
      BY <2>2, SaidGrows DEF Accept
    <3>2. kind[e] \in Told /\ Current(e) /\ pc' = "accepted"
          /\ UNCHANGED <<kind, todo>>
      BY <2>2 DEF Accept
    <3>3. \A d : Current(d)' => d = e
      BY <3>2, CurrentIsOne DEF Current
    <3> QED
      BY <3>1, <3>2, <3>3 DEF AtHand
  <2>3. CASE Persist(e)
    BY <2>3 DEF Persist, AtHand, Current, Said
  <2>4. CASE Refuse(e) \/ PersistFails(e)
    <3>1. RecordFailure(e) /\ Current(e)
      BY <2>4 DEF Refuse, PersistFails
    <3>2. CASE row[e].attempts + 1 >= MaxAttempts
      <4>1. /\ row' = [row EXCEPT ![e] = [status |-> "failed",
                                        attempts |-> row[e].attempts + 1]]
            /\ pc' = "flare" /\ todo' = todo
        BY <3>1, <3>2 DEF RecordFailure
      <4>2. row'[e].status = "failed"
        BY <4>1 DEF TypeOK
      <4>3. \A d : Current(d)' => d = e
        BY <3>1, <4>1, CurrentIsOne DEF Current
      <4> QED
        BY <4>1, <4>2, <4>3 DEF AtHand
    <3>3. CASE ~(row[e].attempts + 1 >= MaxAttempts)
      BY <1>4, <3>1, <3>3 DEF RecordFailure, Visited
    <3> QED
      BY <3>2, <3>3
  <2> QED
    BY <1>5, <2>1, <2>2, <2>3, <2>4 DEF Row
<1>6. CASE Start
  BY <1>2, <1>6 DEF Start
<1>7. CASE EnsureChannel \/ Stop
  BY <1>3, <1>7 DEF EnsureChannel, Stop
<1>8. CASE Crash
  BY <1>2, <1>8 DEF Crash
<1>9. CASE Fetch
  BY <1>4, <1>9 DEF Fetch
<1>10. CASE PassEnds
  BY <1>2, <1>10 DEF PassEnds, Disconnect, PassOver
<1>11. CASE QueryFails
  BY <1>2, <1>11 DEF QueryFails, Disconnect, PassOver
<1>12. CASE UNCHANGED relayVars
  BY <1>3, <1>12 DEF relayVars
<1>13. CASE UNCHANGED vars
  BY <1>12, <1>13 DEF vars
<1> QED
  BY <1>1, <1>5, <1>6, <1>7, <1>8, <1>9, <1>10, <1>11, <1>12, <1>13
     DEF Next, Relay

LEMMA InitIsContract == Init => Contract!OutboxInit
<1> SUFFICES ASSUME Init PROVE Contract!OutboxInit
  OBVIOUS
<1>1. {e \in Events : kind[e] = "denied"} = {} /\ {handed[l] : l \in DOMAIN handed} = {}
  BY DEF Init
<1>2. [e \in Events |-> IF kind[e] = "none" THEN "none" ELSE row[e].status]
        = [e \in Events |-> "none"]
  BY DEF Init
<1>3. [e \in Events |-> row[e].attempts] = [e \in Events |-> 0]
  BY DEF Init
<1> QED
  BY <1>1, <1>2, <1>3 DEF Init, Contract!OutboxInit

\* A step of the relay on row e is one step of the outbox on item e.
LEMMA RowIsContract ==
  ASSUME IInv, AtHand, NEW e \in Events, Row(e)
  PROVE  Contract!OutboxNext
<1> DEFINE stages == [d \in Events |-> StageOf(d)]
           tries == [d \in Events |-> row[d].attempts]
<1>1. /\ Current(e) /\ kind' = kind /\ kind[e] # "none" /\ row[e] \in State
      /\ TypeOK
  BY DEF Row, Skip, Refuse, Accept, Persist, PersistFails, Settle, Flare, IInv,
         RowInv, TodoIsOpen, Current, TypeOK
<1>2. /\ stages[e] = row[e].status /\ tries[e] = row[e].attempts
      /\ row[e].attempts \in Nat
  BY <1>1 DEF StageOf, State
<1>3. Minor' = Minor
  BY <1>1 DEF Minor
<1>4. pc # "flare" => row[e].status = "pending"
  BY <1>1 DEF IInv, RowInv, TodoIsOpen, Current
<1>5. ASSUME Mark(e), pc # "flare", e \in Minor \cup logged,
             UNCHANGED <<logged, handed, flared>>
      PROVE  Contract!Send(e)
  <2>1. [row[e] EXCEPT !.status = "sent"] =
          [status |-> "sent", attempts |-> row[e].attempts]
    BY <1>1 DEF State
  <2>2. row' = [row EXCEPT ![e] = [status |-> "sent", attempts |-> row[e].attempts]]
    BY <1>5, <2>1 DEF Mark
  <2>3. [status |-> "sent", attempts |-> row[e].attempts] \in State
    BY <1>2 DEF State
  <2>4. /\ [d \in Events |-> StageOf(d)'] = [stages EXCEPT ![e] = "sent"]
        /\ [d \in Events |-> row'[d].attempts] = [tries EXCEPT ![e] = row[e].attempts]
    BY <1>1, <2>2, <2>3, RowMoves
  <2>5. [tries EXCEPT ![e] = row[e].attempts] = tries
    OBVIOUS
  <2> QED
    BY <1>2, <1>3, <1>4, <1>5, <2>4, <2>5 DEF Contract!Send, StageOf, Minor
<1>6. ASSUME RecordFailure(e), pc # "flare", kind[e] # "denied",
             UNCHANGED <<logged, handed, flared>>
      PROVE  Contract!Miss(e)
  <2> DEFINE n == row[e].attempts + 1
             after == [status |-> IF n >= MaxAttempts THEN "failed" ELSE "pending",
                       attempts |-> n]
  <2>1. row' = [row EXCEPT ![e] = after]
    BY <1>6 DEF RecordFailure
  <2>2. after \in State /\ after.attempts = n
    BY <1>2 DEF State
  <2>3. row[e].attempts < MaxAttempts
    BY <1>4, <1>6 DEF IInv, RowInv, BudgetHolds
  <2>4. after.status = IF n = MaxAttempts THEN "failed" ELSE "pending"
    BY <1>2, <2>3, RelayConstants
  <2> HIDE DEF after
  <2>5. /\ [d \in Events |-> StageOf(d)'] = [stages EXCEPT ![e] = after.status]
        /\ [d \in Events |-> row'[d].attempts] = [tries EXCEPT ![e] = n]
    BY <1>1, <2>1, <2>2, RowMoves
  <2>6. [d \in Events |-> row'[d].attempts][e] = n
    BY <2>5
  <2>7. [d \in Events |-> StageOf(d)'] =
          IF n = MaxAttempts THEN [stages EXCEPT ![e] = "failed"] ELSE stages
    <3>1. n # MaxAttempts => [stages EXCEPT ![e] = after.status] = stages
      BY <1>2, <1>4, <1>6, <2>4
    <3> QED
      BY <2>4, <2>5, <3>1
  <2>8. e \notin Minor
    BY <1>6 DEF Minor
  <2> QED
    BY <1>2, <1>3, <1>4, <1>6, <2>3, <2>5, <2>6, <2>7, <2>8
       DEF Contract!Miss, StageOf, Minor
<1>7. ASSUME row' = row
      PROVE  [d \in Events |-> StageOf(d)'] = stages
             /\ [d \in Events |-> row'[d].attempts] = tries
  BY <1>1, <1>7 DEF StageOf
<1>8. CASE Skip(e)
  <2>1. e \in Minor
    BY <1>8 DEF Skip, Minor
  <2> QED
    BY <1>5, <1>8, <2>1 DEF Skip, Contract!OutboxNext
<1>9. CASE Refuse(e)
  BY <1>6, <1>9 DEF Refuse, Told, Contract!OutboxNext
<1>10. CASE Accept(e)
  <2>1. e \notin Minor /\ Said' = Said \cup {e} /\ row' = row
    BY <1>1, <1>10, SaidGrows DEF Accept, Minor, Told
  <2>2. Contract!Say(e)
    BY <1>2, <1>3, <1>4, <1>7, <1>10, <2>1
       DEF Accept, Contract!Say, StageOf, Minor, Said
  <2> QED
    BY <2>2 DEF Contract!OutboxNext
<1>11. CASE Persist(e)
  <2>1. e \in Said /\ row' = row
    BY <1>1, <1>11 DEF Persist, AtHand
  <2>2. Contract!Log(e)
    BY <1>2, <1>3, <1>4, <1>7, <1>11, <2>1
       DEF Persist, Contract!Log, StageOf, Minor, Said
  <2> QED
    BY <2>2 DEF Contract!OutboxNext
<1>12. CASE PersistFails(e)
  BY <1>6, <1>12 DEF PersistFails, Contract!OutboxNext
<1>13. CASE Settle(e)
  <2>1. e \in logged
    BY <1>1, <1>13 DEF Settle, IInv, RowInv, CurrentIsLogged
  <2> QED
    BY <1>5, <1>13, <2>1 DEF Settle, Contract!OutboxNext
<1>14. CASE Flare(e)
  <2>1. row[e].status = "failed" /\ row' = row
    BY <1>1, <1>14 DEF Flare, AtHand
  <2>2. Contract!Report(e)
    BY <1>2, <1>3, <1>7, <1>14, <2>1 DEF Flare, Contract!Report, StageOf, Minor
  <2> QED
    BY <2>2 DEF Contract!OutboxNext
<1> QED
  BY <1>8, <1>9, <1>10, <1>11, <1>12, <1>13, <1>14 DEF Row

LEMMA StepIsContract ==
  ASSUME IInv, AtHand, [Next]_vars
  PROVE  Contract!OutboxNext \/ UNCHANGED Contract!outboxVars
<1>1. ASSUME UNCHANGED <<kind, row, logged, flared, handed>>
      PROVE  UNCHANGED Contract!outboxVars
  BY <1>1 DEF Contract!outboxVars
<1>2. ASSUME NEW e \in Events, Insert(e) PROVE Contract!OutboxNext
  <2>1. PICK k \in Kinds : kind' = [kind EXCEPT ![e] = k]
    BY <1>2 DEF Insert
  <2>2. /\ k \in Kind /\ k # "none" /\ kind[e] = "none" /\ kind'[e] = k
        /\ \A d \in Events \ {e} : kind'[d] = kind[d]
        /\ UNCHANGED <<row, logged, flared, handed>>
    BY <1>2, <2>1, RelayConstants DEF Insert, IInv, TypeOK, Kind
  <2>3. row[e].status = "pending"
    BY <2>2 DEF IInv, RowInv, SettledWasInserted
  <2>4. [d \in Events |-> StageOf(d)'] =
          [[d \in Events |-> StageOf(d)] EXCEPT ![e] = "pending"]
    BY <2>2, <2>3 DEF StageOf
  <2>5. Minor' \in {Minor, Minor \cup {e}}
    <3>1. CASE k = "denied"
      BY <2>2, <3>1 DEF Minor
    <3>2. CASE k # "denied"
      BY <2>2, <3>2 DEF Minor
    <3> QED
      BY <3>1, <3>2
  <2>6. Contract!Offer(e)
    BY <2>2, <2>4, <2>5 DEF Contract!Offer, StageOf, Minor
  <2> QED
    BY <2>6 DEF Contract!OutboxNext
<1>3. CASE Start \/ EnsureChannel \/ Stop \/ Crash
  BY <1>1, <1>3 DEF Start, EnsureChannel, Stop, Crash
<1>4. CASE Fetch \/ PassEnds \/ QueryFails
  BY <1>1, <1>4 DEF Fetch, PassEnds, QueryFails
<1>5. CASE UNCHANGED relayVars \/ UNCHANGED vars
  BY <1>1, <1>5 DEF relayVars, vars
<1> QED
  BY <1>2, <1>3, <1>4, <1>5, RowIsContract DEF Next, Relay

LEMMA AtHandHolds == Spec => []AtHand
<1>1. Init => AtHand
  BY DEF Init, AtHand
<1> QED
  BY <1>1, AtHandKeeps, TypeCorrectness, PTL DEF Spec

\* The relay implements Outbox for any events, budget, batch size and faults:
\* its rows go through say, log and send or through counted failures to a
\* flare, wherever drain_once breaks off.
THEOREM Refinement == Spec => ImplementsOutbox
BY InitIsContract, StepIsContract, Invariance, AtHandHolds, PTL
   DEF Spec, ImplementsOutbox, Contract!OutboxSpec
-----------------------------------------------------------------------------
(* The provable half of Settles: what the fairness of the relay's steps is   *)
(* worth.                                                                    *)

\* Where the relay is in a pass, as a number of steps that it can at most
\* take with the row at hand; four of them pay for a row.
StepsLeft == [off |-> 0, idle |-> 0, flare |-> 1, logged |-> 1, accepted |-> 2, row |-> 3]
PassLeft == 4 * Cardinality(todo) + StepsLeft[pc]

\* Every step of a pass brings it nearer to its end, and nothing that happens
\* meanwhile takes it away from there.
PassShrinks ==
  [][pc \notin {"off", "idle"} => /\ PassLeft' <= PassLeft
                                  /\ Relay => PassLeft' < PassLeft]_vars

\* The relay has a step to take wherever it is in a pass.
NeverWedged ==
  pc \notin {"off", "idle"} =>
    \/ pc = "row" /\ todo = {}
    \/ \E e \in Events : /\ Current(e) /\ kind[e] # "none"
                         /\ pc = "accepted" => kind[e] \in Told

\* A row that a pass has done with is settled, or has used up one of its
\* attempts, of which it has fewer than max_attempts while it is pending.
VisitsCount ==
  [][\A e \in todo : e \notin todo' /\ pc' = "row" =>
       \/ row'[e].status \in {"sent", "failed"}
       \/ row'[e].attempts = row[e].attempts + 1 /\ row'[e].attempts < MaxAttempts]_vars

\* A set of naturals has a least element.
LEMMA LeastOf ==
  ASSUME NEW T \in SUBSET Nat, T # {}
  PROVE  \E x \in T : \A y \in T : x <= y
<1> DEFINE Less == OpToRel(<, Nat)
<1>1. IsWellFoundedOn(Less, Nat)
  BY NatLessThanWellFounded
<1>2. ASSUME NEW x \in Nat, NEW y \in Nat, <<y, x>> \notin Less PROVE x <= y
  <2>1. ~(y < x)
    BY <1>2 DEF OpToRel
  <2> QED
    BY <2>1
<1> HIDE DEF Less
<1>3. PICK x \in T : \A y \in T : <<y, x>> \notin Less
  BY <1>1, WFMin
<1>4. \A y \in T : x <= y
  BY <1>2, <1>3
<1> QED
  BY <1>4

\* A pass holds on to the row it is at, and there are no rows without a pass.
InHand ==
  /\ pc \in {"accepted", "logged", "flare"} => todo # {}
  /\ pc \in {"off", "idle"} => todo = {}

LEMMA InHandStep == TypeOK /\ InHand /\ [Next]_vars => InHand'
<1> SUFFICES ASSUME TypeOK, InHand, [Next]_vars PROVE InHand'
  OBVIOUS
<1>1. ASSUME pc' = "row" \/ (pc' \in {"off", "idle"} /\ todo' = {}) PROVE InHand'
  BY <1>1 DEF InHand
<1>2. ASSUME UNCHANGED <<pc, todo>> PROVE InHand'
  BY <1>2 DEF InHand
<1>3. ASSUME NEW e \in Events, Row(e) PROVE InHand'
  <2>1. e \in todo
    BY <1>3 DEF Row, Skip, Refuse, Accept, Persist, PersistFails, Settle, Flare, Current
  <2>2. todo' = todo \/ pc' = "row"
    BY <1>3 DEF Row, Skip, Refuse, Accept, Persist, PersistFails, Settle, Flare,
                Mark, RecordFailure, Visited
  <2>3. pc' \notin {"off", "idle"}
    BY <1>3 DEF Row, Skip, Refuse, Accept, Persist, PersistFails, Settle, Flare,
                Mark, RecordFailure, Visited
  <2> QED
    BY <2>1, <2>2, <2>3 DEF InHand
<1>4. CASE Start
  BY <1>4 DEF Start, InHand
<1> QED
  BY <1>1, <1>2, <1>3, <1>4
     DEF Next, Relay, Insert, EnsureChannel, Stop, Crash, Fetch, PassEnds,
         QueryFails, Disconnect, PassOver, relayVars, vars

LEMMA InHandHolds == Spec => []InHand
<1>1. Init => InHand
  BY DEF Init, InHand
<1> QED
  BY <1>1, InHandStep, TypeCorrectness, PTL DEF Spec

\* Wherever the relay is in a pass there is a step for it to take, so that
\* the fairness of its steps obliges it to go on.
THEOREM RelayIsNeverWedged == Spec => []NeverWedged
<1>1. IInv /\ AtHand /\ InHand => NeverWedged
  <2> SUFFICES ASSUME IInv, AtHand, InHand, pc \notin {"off", "idle"}, todo # {}
               PROVE  \E e \in Events : /\ Current(e) /\ kind[e] # "none"
                                        /\ pc = "accepted" => kind[e] \in Told
    BY DEF NeverWedged, InHand, IInv, TypeOK
  <2>1. todo \in SUBSET Nat
    BY RelayConstants DEF IInv, TypeOK
  <2>2. PICK e \in todo : \A d \in todo : e <= d
    BY <2>1, LeastOf
  <2>3. e \in Events /\ Current(e)
    BY <2>2 DEF IInv, TypeOK, Current
  <2>4. kind[e] # "none"
    BY <2>2 DEF IInv, RowInv, TodoIsOpen
  <2>5. pc = "accepted" => kind[e] \in Told
    BY <2>3 DEF AtHand
  <2> QED
    BY <2>3, <2>4, <2>5
<1> QED
  BY <1>1, Invariance, AtHandHolds, InHandHolds, PTL

LEMMA TodoFinite ==
  ASSUME TypeOK
  PROVE  /\ IsFiniteSet(todo) /\ Cardinality(todo) \in Nat
         /\ \A e \in todo : Cardinality(todo \ {e}) = Cardinality(todo) - 1
<1>1. IsFiniteSet(todo)
  BY RelayConstants, FS_Subset DEF TypeOK
<1> QED
  BY <1>1, FS_CardinalityType, FS_RemoveElement

LEMMA PassLeftStep ==
  ASSUME TypeOK, [Next]_vars, pc \notin {"off", "idle"}
  PROVE  PassLeft' <= PassLeft /\ (Relay => PassLeft' < PassLeft)
<1> DEFINE left == Cardinality(todo)
<1>1. /\ left \in Nat /\ StepsLeft[pc] \in 1..3
      /\ pc = "row" => StepsLeft[pc] = 3
      /\ pc = "accepted" => StepsLeft[pc] = 2
  BY TodoFinite DEF StepsLeft, TypeOK
<1>2. ASSUME UNCHANGED <<todo, pc>>, ~Relay
      PROVE  PassLeft' <= PassLeft /\ (Relay => PassLeft' < PassLeft)
  BY <1>1, <1>2 DEF PassLeft
<1>3. ASSUME todo' = {}, pc' \in {"off", "idle"}
      PROVE  PassLeft' < PassLeft /\ PassLeft' <= PassLeft
  <2>1. PassLeft' = 0
    BY <1>3, FS_EmptySet DEF PassLeft, StepsLeft
  <2> QED
    BY <1>1, <2>1 DEF PassLeft
<1>4. ASSUME NEW e \in Events, Row(e) PROVE PassLeft' < PassLeft /\ PassLeft' <= PassLeft
  <2>1. e \in todo
    BY <1>4 DEF Row, Skip, Refuse, Accept, Persist, PersistFails, Settle, Flare, Current
  <2>2. ASSUME Visited(e) PROVE PassLeft' < PassLeft /\ PassLeft' <= PassLeft
    <3>1. Cardinality(todo') = left - 1 /\ StepsLeft[pc'] = 3
      BY <2>1, <2>2, TodoFinite DEF Visited, StepsLeft
    <3> QED
      BY <1>1, <3>1 DEF PassLeft
  <2>3. ASSUME todo' = todo,
               \/ pc = "row" /\ pc' \in {"accepted", "flare"}
               \/ pc = "accepted" /\ pc' \in {"logged", "flare"}
        PROVE  PassLeft' < PassLeft /\ PassLeft' <= PassLeft
    BY <1>1, <2>3 DEF PassLeft, StepsLeft
  <2>4. \/ Visited(e)
        \/ todo' = todo /\ \/ pc = "row" /\ pc' \in {"accepted", "flare"}
                           \/ pc = "accepted" /\ pc' \in {"logged", "flare"}
    BY <1>4 DEF Row, Skip, Refuse, Accept, Persist, PersistFails, Settle, Flare,
                Mark, RecordFailure
  <2> QED
    BY <2>2, <2>3, <2>4
<1>5. ~Fetch
  BY DEF Fetch
<1>6. CASE PassEnds
  BY <1>3, <1>6 DEF PassEnds, Disconnect, PassOver
<1>7. CASE QueryFails \/ Crash
  BY <1>3, <1>7 DEF QueryFails, Crash, Disconnect, PassOver
<1>8. CASE Relay
  BY <1>4, <1>5, <1>6, <1>8 DEF Relay
<1>9. CASE UNCHANGED <<todo, pc>>
  BY <1>2, <1>8, <1>9
<1>10. Relay \/ QueryFails \/ Crash \/ UNCHANGED <<todo, pc>>
  BY DEF Next, Insert, Start, EnsureChannel, Stop, relayVars, vars
<1> QED
  BY <1>3, <1>7, <1>8, <1>9, <1>10

\* A pass over n rows is over after 4 * n + 3 steps of the relay at most,
\* whatever producers, client, server and app do meanwhile.
THEOREM PassesEnd == Spec => PassShrinks
<1>1. TypeOK /\ [Next]_vars =>
        [pc \notin {"off", "idle"} => /\ PassLeft' <= PassLeft
                                      /\ Relay => PassLeft' < PassLeft]_vars
  BY PassLeftStep
<1> QED
  BY <1>1, TypeCorrectness, PTL DEF Spec, PassShrinks

\* Each visit of a row settles it or is counted, so that a row that cannot be
\* told is visited max_attempts times and holds back those behind it no longer.
THEOREM VisitsAreCounted == Spec => VisitsCount
<1>1. ASSUME IInv, AtHand, InHand, [Next]_vars, NEW e \in todo, e \notin todo', pc' = "row"
      PROVE  \/ row'[e].status \in {"sent", "failed"}
             \/ row'[e].attempts = row[e].attempts + 1 /\ row'[e].attempts < MaxAttempts
  <2>1. PICK d \in Events : Row(d)
    <3>1. ~Fetch
      BY <1>1 DEF Fetch, InHand
    <3> QED
      BY <1>1, <3>1 DEF Next, Relay, Insert, Start, EnsureChannel, Stop, Crash, PassEnds,
         QueryFails, Disconnect, PassOver, relayVars, vars
  <2>2. Visited(d) /\ d = e
    BY <1>1, <2>1 DEF Row, Skip, Refuse, Accept, Persist, PersistFails, Settle,
         Flare, Mark, RecordFailure, Visited
  <2>3. row[e] \in State /\ row[e].attempts \in Nat /\ e \in Events /\ MaxAttempts \in Nat
    BY <1>1, RelayConstants DEF IInv, TypeOK, State
  <2>4. CASE Skip(e) \/ Settle(e)
    BY <1>1, <2>3, <2>4 DEF Skip, Settle, Mark, IInv, TypeOK, State
  <2>5. CASE Refuse(e) \/ PersistFails(e)
    <3>1. row[e].attempts + 1 < MaxAttempts
      BY <2>5, <1>1, <2>3 DEF Refuse, PersistFails, RecordFailure
    <3>2. row'[e].attempts = row[e].attempts + 1
      BY <2>5, <1>1, <2>3 DEF Refuse, PersistFails, RecordFailure, IInv, TypeOK
    <3> QED
      BY <3>1, <3>2
  <2>6. CASE Flare(e)
    <3>1. Current(e) /\ pc = "flare" /\ row' = row
      BY <2>6 DEF Flare
    <3>2. row[e].status = "failed"
      BY <1>1, <2>3, <3>1 DEF AtHand
    <3> QED
      BY <3>1, <3>2
  <2>7. CASE Accept(e) \/ Persist(e)
    BY <1>1, <2>7 DEF Accept, Persist
  <2> QED
    BY <2>1, <2>2, <2>4, <2>5, <2>6, <2>7 DEF Row
<1>2. IInv /\ AtHand /\ InHand /\ [Next]_vars =>
        [\A e \in todo : e \notin todo' /\ pc' = "row" =>
           \/ row'[e].status \in {"sent", "failed"}
           \/ row'[e].attempts = row[e].attempts + 1 /\ row'[e].attempts < MaxAttempts]_vars
  BY <1>1
<1> QED
  BY <1>2, Invariance, AtHandHolds, InHandHolds, PTL DEF Spec, VisitsCount
=============================================================================
