----------------------------- MODULE HandClaims -----------------------------
(***************************************************************************)
(* Sessions, processes and claims of Hands.  A Hand is one agent_sessions  *)
(* row, one process (a tmux session, or a terminal inside the app) and one *)
(* row of `assignments` that claims its spark.  Three programs write them  *)
(* without a lock around all three: the CLI that spawns a Hand step by     *)
(* step, the app that spawns one from the UI with its writes in parallel   *)
(* and reconciles the sessions with tmux every three seconds, and the      *)
(* operator's `ryve assign` and `ryve sweep` commands.                     *)
(***************************************************************************)
EXTENDS Integers, FiniteSets

CONSTANTS
  Hands,        \* session ids
  Sparks,
  Nobody,       \* neither a Hand nor a spark
  Kinds,        \* which spawn paths are used: a subset of {"cli", "ui"}
  UserActions,  \* does the user delete and resume sessions in the UI?
  Faults,       \* do the app and `tmux list-sessions` fail?
  DbFails       \* do statements fail whose result the code drops?

ASSUME ClaimConstants ==
  /\ Nobody \notin Hands /\ Nobody \notin Sparks
  /\ Kinds \subseteq {"cli", "ui"}
  /\ UserActions \in BOOLEAN /\ Faults \in BOOLEAN /\ DbFails \in BOOLEAN

VARIABLES
  target,   \* target[h]: the spark h is spawned for
  spawner,  \* spawner[h]: how far the program that spawns h has come
  session,  \* session[h]: agent_sessions.status of h
  claim,    \* claim[h]: status of h's newest assignments row
  proc,     \* proc[h]: h's process
  closed,   \* closed[s]: sparks.status is "closed"
  rec,      \* the reconciler of the app
  missed    \* history: Hands whose session the reconciler has ended and whose
            \* claim it did not abandon, by a failing statement or its death

claimVars == <<target, spawner, session, claim, proc, closed, rec, missed>>

SpawnStep == {"idle", "begun", "persisted", "claimed", "aborting", "ui", "done",
              "failed"}
SessionStatus == {"none", "active", "ended"}
ClaimStatus == {"none", "active", "completed", "abandoned"}
Process == {"none", "tmux", "terminal", "gone"}

Idle == [pc |-> "idle", live |-> {}, todo |-> {}, ending |-> Nobody]

TypeOK ==
  /\ target \in [Hands -> Sparks \cup {Nobody}]
  /\ spawner \in [Hands -> SpawnStep]
  /\ session \in [Hands -> SessionStatus]
  /\ claim \in [Hands -> ClaimStatus]
  /\ proc \in [Hands -> Process]
  /\ closed \in [Sparks -> BOOLEAN]
  /\ rec \in [pc : {"idle", "listed", "walking"}, live : SUBSET Hands,
              todo : SUBSET Hands, ending : Hands \cup {Nobody}]
  /\ missed \in SUBSET Hands

Init ==
  /\ target = [h \in Hands |-> Nobody]
  /\ spawner = [h \in Hands |-> "idle"]
  /\ session = [h \in Hands |-> "none"]
  /\ claim = [h \in Hands |-> "none"]
  /\ proc = [h \in Hands |-> "none"]
  /\ closed = [s \in Sparks |-> FALSE]
  /\ rec = Idle
  /\ missed = {}

Owns(h, s) == claim[h] = "active" /\ target[h] = s
Alive(h) == proc[h] \in {"tmux", "terminal"}

-----------------------------------------------------------------------------
(* assignment_repo: each operation is one transaction. *)

\* Mutant: the check of assign is forgotten.
Assign_Unchecked(h) == claim' = [claim EXCEPT ![h] = "active"]

\* Mutant: assign takes the spark from its owner.
Assign_Steals(h) ==
  claim' = [g \in Hands |-> IF g = h THEN "active"
                            ELSE IF Owns(g, target[h]) THEN "abandoned" ELSE claim[g]]

\* assign: refused when the spark has an active owner.
Assign(h) ==
  /\ \A g \in Hands : ~Owns(g, target[h])
  /\ claim' = [claim EXCEPT ![h] = "active"]

Refused(h) == \E g \in Hands : Owns(g, target[h])

\* abandon and complete touch an active row only.
EndClaim(h, status) ==
  claim' = IF claim[h] = "active" THEN [claim EXCEPT ![h] = status] ELSE claim

-----------------------------------------------------------------------------
(* spawn_hand: the CLI path, one step per write that others can see. *)

SpawnAt(h, from, to) ==
  spawner[h] = from /\ spawner' = [spawner EXCEPT ![h] = to]

\* The checks and the worktree, up to the first database write.
BeginSpawn(h, s) ==
  /\ "cli" \in Kinds
  /\ SpawnAt(h, "idle", "begun")
  /\ target' = [target EXCEPT ![h] = s]
  /\ UNCHANGED <<session, claim, proc, closed, rec, missed>>

PersistSession(h) ==
  /\ SpawnAt(h, "begun", "persisted")
  /\ session' = [session EXCEPT ![h] = "active"]
  /\ UNCHANGED <<target, claim, proc, closed, rec, missed>>

\* Mutant: the spark is claimed before the session row is written.
SpawnClaim_BeforeSession(h) ==
  /\ SpawnAt(h, "begun", "claimed")
  /\ Assign(h)
  /\ UNCHANGED <<target, session, proc, closed, rec, missed>>

SpawnClaim(h) ==
  /\ SpawnAt(h, "persisted", "claimed")
  /\ Assign(h)
  /\ UNCHANGED <<target, session, proc, closed, rec, missed>>

\* AlreadyClaimed leaves spawn_hand with `?`: the session row stays active.
SpawnRefused(h) ==
  /\ SpawnAt(h, "persisted", "failed")
  /\ Refused(h)
  /\ UNCHANGED <<target, session, claim, proc, closed, rec, missed>>

\* Mutant: the process is launched before the claim.
Launch_BeforeClaim(h) ==
  /\ SpawnAt(h, "persisted", "done")
  /\ proc' = [proc EXCEPT ![h] = "tmux"]
  /\ UNCHANGED <<target, session, claim, closed, rec, missed>>

\* launch_in_tmux, which does not look at the claim again.
Launch(h) ==
  /\ SpawnAt(h, "claimed", "done")
  /\ proc' = [proc EXCEPT ![h] = "tmux"]
  /\ UNCHANGED <<target, session, claim, closed, rec, missed>>

\* The tool policy or tmux fails: abandon, then end the session.  The results
\* of both are dropped.
AbortAbandon(h) ==
  /\ SpawnAt(h, "claimed", "aborting")
  /\ EndClaim(h, "abandoned") \/ (DbFails /\ UNCHANGED claim)
  /\ UNCHANGED <<target, session, proc, closed, rec, missed>>

AbortEnd(h) ==
  /\ SpawnAt(h, "aborting", "failed")
  /\ \/ session' = [session EXCEPT ![h] = "ended"]
     \/ DbFails /\ UNCHANGED session
  /\ UNCHANGED <<target, claim, proc, closed, rec, missed>>

\* Any other error (`?` after the crew, the prompt file) and the death of the
\* spawning process: what was written stays.
SpawnDies(h) ==
  /\ spawner[h] \in {"begun", "persisted", "claimed", "aborting"}
  /\ spawner' = [spawner EXCEPT ![h] = "failed"]
  /\ UNCHANGED <<target, session, claim, proc, closed, rec, missed>>

-----------------------------------------------------------------------------
(* The UI path: the session row, the claim and the terminal are written by *)
(* parallel tasks, the results of the first two ignored.                   *)

UiSpawn(h, s) ==
  /\ "ui" \in Kinds
  /\ SpawnAt(h, "idle", "ui")
  /\ target' = [target EXCEPT ![h] = s]
  /\ UNCHANGED <<session, claim, proc, closed, rec, missed>>

UiPersistSession(h) ==
  /\ spawner[h] = "ui" /\ session[h] = "none"
  /\ session' = [session EXCEPT ![h] = "active"]
  /\ UNCHANGED <<target, spawner, claim, proc, closed, rec, missed>>

UiAssign(h) ==
  /\ spawner[h] = "ui" /\ claim[h] = "none"
  /\ Assign(h)
  /\ UNCHANGED <<target, spawner, session, proc, closed, rec, missed>>

UiTerminal(h) ==
  /\ spawner[h] = "ui" /\ proc[h] = "none"
  /\ proc' = [proc EXCEPT ![h] = "terminal"]
  /\ UNCHANGED <<target, spawner, session, claim, closed, rec, missed>>

\* The tasks are over; each write, and the terminal, came about or failed.
UiSettled(h) ==
  /\ SpawnAt(h, "ui", "done")
  /\ UNCHANGED <<target, session, claim, proc, closed, rec, missed>>

-----------------------------------------------------------------------------
(* The life of a Hand. *)

Exit(h) ==
  /\ Alive(h)
  /\ proc' = [proc EXCEPT ![h] = "gone"]
  /\ UNCHANGED <<target, spawner, session, claim, closed, rec, missed>>

\* The app sees the terminal of a UI Hand shut down, or the user closes its
\* tab: terminate_session ends the row and leaves the claim.
TerminalClosed(h) ==
  /\ proc[h] = "terminal"
  /\ proc' = [proc EXCEPT ![h] = "gone"]
  /\ session' = IF session[h] = "active"
                THEN [session EXCEPT ![h] = "ended"] ELSE session
  /\ UNCHANGED <<target, spawner, claim, closed, rec, missed>>

\* `ryve assign close`, past its chat-of-record gate.
AssignClose(h) ==
  /\ Alive(h) /\ claim[h] = "active"
  /\ EndClaim(h, "completed")
  /\ UNCHANGED <<target, spawner, session, proc, closed, rec, missed>>

\* `ryve assign release`, and reassign_stalled before it spawns again: the
\* old process is not touched.
AssignRelease(h) ==
  /\ claim[h] = "active"
  /\ EndClaim(h, "abandoned")
  /\ UNCHANGED <<target, spawner, session, proc, closed, rec, missed>>

\* `ryve assign claim` by a Hand that lost or gave up its claim.
AssignClaim(h) ==
  /\ Alive(h) /\ claim[h] # "active" /\ spawner[h] = "done"
  /\ Assign(h)
  /\ UNCHANGED <<target, spawner, session, proc, closed, rec, missed>>

CloseSpark(s) ==
  /\ ~closed[s]
  /\ closed' = [closed EXCEPT ![s] = TRUE]
  /\ UNCHANGED <<target, spawner, session, claim, proc, rec, missed>>

\* ResumeAgent in the UI: reactivate, and a terminal for the old session.
ResumeAgent(h) ==
  /\ UserActions
  /\ session[h] = "ended" /\ spawner[h] = "done" /\ ~Alive(h)
  /\ session' = [session EXCEPT ![h] = "active"]
  /\ proc' = [proc EXCEPT ![h] = "terminal"]
  /\ missed' = missed \ {h}
  /\ UNCHANGED <<target, spawner, claim, closed, rec>>

\* DeleteSession in the UI: terminate_session, then the row is deleted.  The
\* claims of the session are not looked at.
DeleteSession(h) ==
  /\ UserActions
  /\ session[h] # "none" /\ spawner[h] \in {"done", "failed"}
  /\ session' = [session EXCEPT ![h] = "none"]
  /\ proc' = IF proc[h] = "tmux" THEN [proc EXCEPT ![h] = "gone"] ELSE proc
  /\ UNCHANGED <<target, spawner, claim, closed, rec, missed>>

-----------------------------------------------------------------------------
(* reconcile_sessions: at boot and every three seconds.  It lists tmux     *)
(* first, reads the session rows next, and then writes row after row.  Of  *)
(* the statements that fail it hears nothing and goes on to the next.      *)

RecList ==
  /\ rec.pc = "idle"
  /\ \E live \in {{h \in Hands : proc[h] = "tmux"}} \cup (IF Faults THEN {{}} ELSE {}) :
       rec' = [rec EXCEPT !.pc = "listed", !.live = live]
  /\ UNCHANGED <<target, spawner, session, claim, proc, closed, missed>>

RecRead ==
  /\ rec.pc = "listed"
  /\ rec' = [rec EXCEPT !.pc = "walking",
                        !.todo = {h \in Hands : session[h] = "active"} \ rec.live]
  /\ UNCHANGED <<target, spawner, session, claim, proc, closed, missed>>

\* A failing list_for_workshop reads as an empty list.
RecReadFails ==
  /\ DbFails /\ rec.pc = "listed"
  /\ rec' = [rec EXCEPT !.pc = "walking"]
  /\ UNCHANGED <<target, spawner, session, claim, proc, closed, missed>>

RecEnd(h) ==
  /\ rec.pc = "walking" /\ rec.ending = Nobody /\ h \in rec.todo
  /\ session' = IF session[h] = "none" THEN session
                ELSE [session EXCEPT ![h] = "ended"]
  /\ rec' = [rec EXCEPT !.todo = rec.todo \ {h}, !.ending = h]
  /\ UNCHANGED <<target, spawner, claim, proc, closed, missed>>

\* A failing end_session: on to the claims all the same.
RecEndFails(h) ==
  /\ DbFails
  /\ rec.pc = "walking" /\ rec.ending = Nobody /\ h \in rec.todo
  /\ rec' = [rec EXCEPT !.todo = rec.todo \ {h}, !.ending = h]
  /\ UNCHANGED <<target, spawner, session, claim, proc, closed, missed>>


RecAbandon(h) ==
  /\ rec.ending = h
  /\ EndClaim(h, "abandoned")
  /\ rec' = [rec EXCEPT !.ending = Nobody]
  /\ UNCHANGED <<target, spawner, session, proc, closed, missed>>

\* The Hand whose claim is lost if the pass goes on, or ends, without it.
Ended == {h \in Hands : rec.ending = h /\ claim[h] = "active" /\ session[h] # "active"}

\* A failing list_for_session reads as an empty list, and the result of a
\* failing abandon is dropped.
RecAbandonFails(h) ==
  /\ DbFails /\ rec.ending = h
  /\ missed' = missed \cup Ended
  /\ rec' = [rec EXCEPT !.ending = Nobody]
  /\ UNCHANGED <<target, spawner, session, claim, proc, closed>>

RecDone ==
  /\ rec.pc = "walking" /\ rec.todo = {} /\ rec.ending = Nobody
  /\ rec' = Idle
  /\ UNCHANGED <<target, spawner, session, claim, proc, closed, missed>>

\* The app quits or dies: its terminals go with it, and the parallel tasks
\* of its UI spawns.
AppCrash ==
  /\ Faults
  /\ rec' = Idle
  /\ missed' = missed \cup Ended
  /\ proc' = [h \in Hands |-> IF proc[h] = "terminal" THEN "gone" ELSE proc[h]]
  /\ spawner' = [h \in Hands |-> IF spawner[h] = "ui" THEN "failed" ELSE spawner[h]]
  /\ UNCHANGED <<target, session, claim, closed>>

\* `ryve sweep stalls --abandon`: the rows find_orphaned_claims returns.
Orphaned(h) ==
  claim[h] = "active" /\ session[h] = "ended" /\ ~closed[target[h]]

SweepAbandon(h) ==
  /\ Orphaned(h)
  /\ EndClaim(h, "abandoned")
  /\ UNCHANGED <<target, spawner, session, proc, closed, rec, missed>>

-----------------------------------------------------------------------------
SpawnNext(h) ==
  \/ \E s \in Sparks : BeginSpawn(h, s) \/ UiSpawn(h, s)
  \/ PersistSession(h) \/ SpawnClaim(h) \/ SpawnRefused(h) \/ Launch(h)
  \/ AbortAbandon(h) \/ AbortEnd(h) \/ SpawnDies(h)
  \/ UiPersistSession(h) \/ UiAssign(h) \/ UiTerminal(h) \/ UiSettled(h)

HandNext(h) ==
  \/ Exit(h) \/ TerminalClosed(h)
  \/ AssignClose(h) \/ AssignRelease(h) \/ AssignClaim(h) \/ SweepAbandon(h)
  \/ ResumeAgent(h) \/ DeleteSession(h)

RecNext ==
  \/ RecList \/ RecRead \/ RecReadFails \/ RecDone
  \/ \E h \in Hands : \/ RecEnd(h) \/ RecEndFails(h)
                       \/ RecAbandon(h) \/ RecAbandonFails(h)

Next ==
  \/ \E h \in Hands : SpawnNext(h) \/ HandNext(h)
  \/ \E s \in Sparks : CloseSpark(s)
  \/ RecNext
  \/ AppCrash

Spec == Init /\ [][Next]_claimVars

\* The three-second subscription keeps the reconciler going while the app
\* runs, and neither a statement it tries in pass after pass nor the app
\* between two of them fails for ever.  Nothing obliges a Hand, the user or the
\* operator to act.
FairSpec ==
  /\ Spec /\ WF_claimVars(RecNext)
  /\ SF_claimVars(RecRead) /\ \A h \in Hands : SF_claimVars(RecEnd(h))

-----------------------------------------------------------------------------
(* Properties. *)

\* A spark has at most one active owner, whatever the spawners, reapers and
\* operators interleave (assignment_repo.rs, assign).
SingleOwner ==
  \A g, h \in Hands :
    (claim[g] = "active" /\ claim[h] = "active" /\ target[g] = target[h]) => g = h

\* Claims implement SparkOwnership: a spark is never taken from its owner by
\* the next one, it is freed first.
OwnerOf(s) ==
  IF \E h \in Hands : Owns(h, s) THEN CHOOSE h \in Hands : Owns(h, s) ELSE Nobody

Ownership == INSTANCE SparkOwnership WITH owner <- [s \in Sparks |-> OwnerOf(s)]

ImplementsOwnership == Ownership!OwnershipSpec

\* A claim nobody works under any more can still be found: its session row is
\* active, where the reconciler looks, or ended, where find_orphaned_claims
\* does while the spark is open ("the authoritative detector for that state",
\* assignment_repo.rs).
StrandedIsDetectable ==
  \A h \in Hands :
    (claim[h] = "active" /\ ~Alive(h) /\ spawner[h] \in {"done", "failed"})
      => session[h] # "none"

\* A Hand in tmux was spawned past a claim of its own: two spawns that race
\* for a spark start one process, though the claim may be lost later.
NoHandWithoutClaim ==
  \A h \in Hands : proc[h] = "tmux" => claim[h] # "none"

\* Reconciling a workshop ends the sessions whose process died and no other
\* (app.rs, the comment on the poll).
OnlyDeadSessionsEnd ==
  [][\A h \in Hands : RecEnd(h) /\ session[h] = "active" => ~Alive(h)]_claimVars

=============================================================================
