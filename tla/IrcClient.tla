----------------------------- MODULE IrcClient -----------------------------
(***************************************************************************)
(* The IRC client of one app: callers append lines to a channel that a     *)
(* background session task writes to the server.  A line is a positive     *)
(* number, in the order the lines were handed over.  The task keeps what   *)
(* it took but could not write, and the newest line it wrote until the     *)
(* server says anything; a connection may break at any time and take a     *)
(* suffix of what is in transit with it.                                   *)
(*                                                                         *)
(* The network and the server are external.  The server reads a connection *)
(* to its end before it reads the next one.                                *)
(***************************************************************************)
EXTENDS Naturals, Sequences

VARIABLES
  queue,     \* cmd_rx
  pend,      \* pending
  unconf,    \* last_unconfirmed
  session,   \* where session_loop is
  broken,    \* is the peer of the current connection gone?
  wire,      \* lines written to the connection that the server has not read
  last,      \* the line the server read most recently
  dropped    \* newer lines that went down with a connection or an app

clientVars == <<queue, pend, unconf, session, broken, wire, last, dropped>>

Quit == 0  \* Command::Disconnect, in the queue
Nothing == 0
Line == Nat \ {0}

Lines(s) == {s[i] : i \in DOMAIN s} \ {Quit}

Front(l) == IF l = Nothing THEN <<>> ELSE <<l>>

\* What the client still has to get to the server.
Held == Lines(queue) \cup Lines(pend) \cup ({unconf} \ {Nothing})

ClientTypeOK ==
  /\ queue \in Seq(Nat) /\ pend \in Seq(Line) /\ wire \in Seq(Line)
  /\ unconf \in Nat /\ last \in Nat
  /\ session \in {"none", "flush", "live", "lost"}
  /\ broken \in BOOLEAN
  /\ dropped \subseteq Line

ClientInit ==
  /\ queue = <<>> /\ pend = <<>> /\ unconf = Nothing
  /\ session = "none" /\ broken = FALSE
  /\ wire = <<>>
  /\ last = 0 /\ dropped = {}

-----------------------------------------------------------------------------
(* Calls. *)

\* IrcClient::connect; without an answer there is no client.
Connect ==
  /\ session = "none"
  /\ session' = "live" /\ broken' = FALSE
  /\ queue' = <<>> /\ pend' = <<>> /\ unconf' = Nothing
  /\ UNCHANGED <<wire, last, dropped>>

\* send_privmsg once the channel is joined, and disconnect: both say Ok
\* whether or not there is a connection.
Enqueue(command) ==
  /\ queue' = Append(queue, command)
  /\ UNCHANGED <<pend, unconf, session, broken, wire, last, dropped>>

\* The app dies.
ClientDies ==
  /\ dropped' = dropped \cup Held
  /\ session' = "none" /\ broken' = FALSE
  /\ queue' = <<>> /\ pend' = <<>> /\ unconf' = Nothing
  /\ UNCHANGED <<wire, last>>

-----------------------------------------------------------------------------
(* The session task.  Bytes written to a dead peer that has not been        *)
(* noticed go to the kernel's buffer and nowhere else.                      *)

Write(l) ==
  IF broken THEN dropped' = dropped \cup {l} /\ UNCHANGED wire
            ELSE wire' = Append(wire, l) /\ UNCHANGED dropped

\* Mutant: the unconfirmed line is put behind the command in hand.
Requeue_Swapped(inHand) ==
  /\ pend' = pend \o inHand \o Front(unconf)
  /\ unconf' = Nothing /\ session' = "lost"

\* The connection is found dead: the newest written line goes back before
\* the command in hand.
Requeue(inHand) ==
  /\ pend' = Front(unconf) \o pend \o inHand
  /\ unconf' = Nothing /\ session' = "lost"

Take ==
  /\ session = "live" /\ queue # <<>> /\ Head(queue) # Quit
  /\ queue' = Tail(queue)
  /\ \/ /\ Write(Head(queue)) /\ unconf' = Head(queue)
        /\ UNCHANGED <<pend, session>>
     \/ /\ broken /\ Requeue(<<Head(queue)>>)
        /\ UNCHANGED <<wire, dropped>>
  /\ UNCHANGED <<broken, last>>

\* Disconnect is only taken from the queue while connected.
TakeQuit ==
  /\ session = "live" /\ queue # <<>> /\ Head(queue) = Quit
  /\ session' = "none" /\ queue' = <<>> /\ unconf' = Nothing
  /\ broken' = FALSE
  /\ UNCHANGED <<pend, wire, last, dropped>>

\* Mutant: a line whose write fails is not put back.
Flush_LosesOffender ==
  /\ session = "flush" /\ pend # <<>>
  /\ \/ Write(Head(pend)) /\ UNCHANGED session
     \/ broken /\ session' = "lost" /\ UNCHANGED <<wire, dropped>>
  /\ pend' = Tail(pend)
  /\ UNCHANGED <<queue, unconf, broken, last>>

\* run_session first writes what outlived the previous connection; none of
\* it becomes the unconfirmed line.
Flush ==
  /\ session = "flush" /\ pend # <<>>
  /\ \/ /\ Write(Head(pend)) /\ pend' = Tail(pend)
        /\ UNCHANGED session
     \/ /\ broken /\ session' = "lost"
        /\ UNCHANGED <<pend, wire, dropped>>
  /\ UNCHANGED <<queue, unconf, broken, last>>

Flushed ==
  /\ session = "flush" /\ pend = <<>>
  /\ session' = "live"
  /\ UNCHANGED <<queue, pend, unconf, broken, wire, last, dropped>>

\* A line from the server counts as proof for everything written before it.
Inbound ==
  /\ session = "live" /\ unconf # Nothing
  /\ unconf' = Nothing
  /\ UNCHANGED <<queue, pend, session, broken, wire, last, dropped>>

\* EOF, a read error, or a keepalive that cannot be written.
NoticeLoss ==
  /\ session = "live" /\ broken
  /\ Requeue(<<>>)
  /\ UNCHANGED <<queue, broken, wire, last, dropped>>

\* reconnect retries with a backoff until the server answers.
Reconnect ==
  /\ session = "lost"
  /\ session' = "flush" /\ broken' = FALSE
  /\ UNCHANGED <<queue, pend, unconf, wire, last, dropped>>

-----------------------------------------------------------------------------
(* The network and the server. *)

ServerReads ==
  /\ wire # <<>>
  /\ last' = Head(wire)
  /\ dropped' = {l \in dropped : l > Head(wire)}
  /\ wire' = Tail(wire)
  /\ UNCHANGED <<queue, pend, unconf, session, broken>>

\* What is in transit is lost; what the server read of it before is
\* ServerReads.
Break ==
  /\ session \in {"live", "flush"} /\ ~broken
  /\ broken' = TRUE /\ wire' = <<>>
  /\ dropped' = dropped \cup Lines(wire)
  /\ UNCHANGED <<queue, pend, unconf, session, last>>

Session == Take \/ TakeQuit \/ Flush \/ Flushed \/ Inbound \/ NoticeLoss
             \/ Reconnect
Network == ServerReads \/ Break
=============================================================================
