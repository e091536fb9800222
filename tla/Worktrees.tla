----------------------------- MODULE Worktrees -----------------------------
(***************************************************************************)
(* `ryve worktree prune` (handle_worktree_prune of cli.rs and              *)
(* worktree_cleanup.rs) among Hands that start, work, commit, end and are  *)
(* resumed.  The command reads the sessions once, looks at every directory *)
(* and only then removes what it judged removable, without looking again.  *)
(*                                                                         *)
(* A tree, its branch and its session go by one id.  What git ignores, and *)
(* the files Ryve writes itself, are not work.                             *)
(***************************************************************************)
EXTENDS Naturals, FiniteSets

CONSTANTS
  Tree,       \* short ids
  Work,       \* pieces of work
  MaxPrunes   \* bound on the runs of the command

ASSUME WorktreeConstants == MaxPrunes \in Nat

VARIABLES
  there,    \* trees whose directory exists
  branch,   \* those whose branch exists
  session,  \* session[t]: status of the agent_sessions row, none before
  agent,    \* trees whose agent process runs
  edits,    \* edits[t]: work that is not committed
  commits,  \* commits[t]: work on the branch that main does not have
  lost,     \* work that is gone
  prune,    \* the command under way
  judged,   \* judged[t]: how far it has got with t
  known,    \* work that was there when it began to look at its tree
  prunes    \* runs so far

worktreeVars == <<there, branch, session, agent, edits, commits, lost, prune,
                  judged, known, prunes>>

SessionStatus == {"none", "active", "ended"}
Judgement == {"todo", "half", "removable", "kept", "unlinked"}

WorktreeTypeOK ==
  /\ there \subseteq Tree /\ branch \subseteq Tree /\ agent \subseteq Tree
  /\ session \in [Tree -> SessionStatus]
  /\ edits \in [Tree -> SUBSET Work] /\ commits \in [Tree -> SUBSET Work]
  /\ lost \subseteq Work /\ known \subseteq Work
  /\ prune \in [runs : BOOLEAN, active : SUBSET Tree]
  /\ judged \in [Tree -> Judgement]
  /\ prunes \in Nat

NoPrune == [runs |-> FALSE, active |-> {}]

WorktreeInit ==
  /\ there = {} /\ branch = {} /\ agent = {} /\ lost = {} /\ known = {}
  /\ session = [t \in Tree |-> "none"]
  /\ edits = [t \in Tree |-> {}] /\ commits = [t \in Tree |-> {}]
  /\ prune = NoPrune
  /\ judged = [t \in Tree |-> "kept"]
  /\ prunes = 0

-----------------------------------------------------------------------------
(* Hands. *)

\* create_hand_worktree; nothing to do if the directory exists, an error if
\* only the branch does.  spawn_hand does it before it writes the session, the
\* app while it does.
MakeTree(t) ==
  /\ t \notin there /\ t \notin branch
  /\ there' = there \cup {t} /\ branch' = branch \cup {t}
  /\ UNCHANGED <<session, agent, edits, commits, lost, prune, judged, known,
                 prunes>>

\* agent_session_repo: create, end_session, reactivate.  The app writes the row
\* in a task of its own and ends it on what it can see of the agent.
SetSession(t, st) ==
  /\ \/ session[t] = "none" /\ st = "active"
     \/ session[t] = "active" /\ st = "ended"
     \/ session[t] = "ended" /\ st = "active"
  /\ session' = [session EXCEPT ![t] = st]
  /\ UNCHANGED <<there, branch, agent, edits, commits, lost, prune, judged,
                 known, prunes>>

StartAgent(t) ==
  /\ t \in there /\ t \notin agent
  /\ agent' = agent \cup {t}
  /\ UNCHANGED <<there, branch, session, edits, commits, lost, prune, judged,
                 known, prunes>>

AgentExits(t) ==
  /\ t \in agent
  /\ agent' = agent \ {t}
  /\ UNCHANGED <<there, branch, session, edits, commits, lost, prune, judged,
                 known, prunes>>

IsNew(i) == i \notin known \cup lost \cup UNION {edits[t] \cup commits[t] : t \in Tree}

Edit(t, i) ==
  /\ t \in agent /\ t \in there /\ IsNew(i)
  /\ edits' = [edits EXCEPT ![t] = edits[t] \cup {i}]
  /\ UNCHANGED <<there, branch, session, agent, commits, lost, prune, judged,
                 known, prunes>>

Commit(t) ==
  /\ t \in agent /\ t \in there /\ edits[t] # {}
  /\ commits' = [commits EXCEPT ![t] = commits[t] \cup edits[t]]
  /\ edits' = [edits EXCEPT ![t] = {}]
  /\ UNCHANGED <<there, branch, session, agent, lost, prune, judged, known,
                 prunes>>

\* Main gets the branch.
Integrate(t) ==
  /\ commits[t] # {}
  /\ commits' = [commits EXCEPT ![t] = {}]
  /\ UNCHANGED <<there, branch, session, agent, edits, lost, prune, judged,
                 known, prunes>>

-----------------------------------------------------------------------------
(* The command. *)

\* The sessions, or none of them when the query fails.
StartPrune ==
  /\ ~prune.runs /\ prunes < MaxPrunes
  /\ \E active \in {{}, {t \in Tree : session[t] = "active"}} :
       prune' = [runs |-> TRUE, active |-> active]
  /\ judged' = [t \in Tree |-> IF t \in there THEN "todo" ELSE "kept"]
  /\ prunes' = prunes + 1
  /\ UNCHANGED <<there, branch, session, agent, edits, commits, lost, known>>

\* Mutant: the branch is counted first and the tree looked at afterwards.
Safe_CountedFirst(t, look) ==
  IF look = 1 THEN commits[t] = {} ELSE edits[t] = {}

\* gather_worktree_facts: worktree_is_clean, then unmerged_count.
Safe(t, look) == IF look = 1 THEN edits[t] = {} ELSE commits[t] = {}

Look(t) ==
  /\ judged[t] = "todo"
  /\ judged' = [judged EXCEPT ![t] = IF Safe(t, 1) THEN "half" ELSE "kept"]
  /\ known' = known \cup edits[t] \cup commits[t]
  /\ UNCHANGED <<there, branch, session, agent, edits, commits, lost, prune,
                 prunes>>

\* The session counts as live if it was active; a process whose pid the row
\* has counts too, one that it does not have does not.
Judge(t) ==
  /\ judged[t] = "half"
  /\ \E pidAlive \in {FALSE, (t \in agent)} :
       judged' = [judged EXCEPT ![t] =
                    IF Safe(t, 2) /\ t \notin prune.active /\ ~pidAlive
                    THEN "removable" ELSE "kept"]
  /\ UNCHANGED <<there, branch, session, agent, edits, commits, lost, prune,
                 known, prunes>>

AllJudged == \A t \in Tree : judged[t] \notin {"todo", "half"}

\* git worktree remove --force
RemoveTree(t) ==
  /\ prune.runs /\ AllJudged /\ judged[t] = "removable"
  /\ there' = there \ {t}
  /\ lost' = lost \cup edits[t] /\ edits' = [edits EXCEPT ![t] = {}]
  /\ judged' = [judged EXCEPT ![t] = "unlinked"]
  /\ UNCHANGED <<branch, session, agent, commits, prune, known, prunes>>

\* git branch -D
DeleteBranch(t) ==
  /\ judged[t] = "unlinked"
  /\ branch' = branch \ {t}
  /\ lost' = lost \cup commits[t] /\ commits' = [commits EXCEPT ![t] = {}]
  /\ judged' = [judged EXCEPT ![t] = "kept"]
  /\ UNCHANGED <<there, session, agent, edits, prune, known, prunes>>

\* Either git command fails: the next tree.
GitFails(t) ==
  /\ AllJudged /\ judged[t] \in {"removable", "unlinked"}
  /\ judged' = [judged EXCEPT ![t] = "kept"]
  /\ UNCHANGED <<there, branch, session, agent, edits, commits, lost, prune,
                 known, prunes>>

\* It is done, or killed.
EndPrune ==
  /\ prune.runs
  /\ prune' = NoPrune
  /\ judged' = [t \in Tree |-> "kept"]
  /\ UNCHANGED <<there, branch, session, agent, edits, commits, lost, known,
                 prunes>>

WorktreeNext ==
  \/ StartPrune \/ EndPrune
  \/ \E t \in Tree :
       \/ MakeTree(t) \/ StartAgent(t) \/ AgentExits(t)
       \/ Commit(t) \/ Integrate(t)
       \/ Look(t) \/ Judge(t) \/ RemoveTree(t) \/ DeleteBranch(t) \/ GitFails(t)
       \/ \E st \in SessionStatus : SetSession(t, st)
       \/ \E i \in Work : Edit(t, i)

WorktreeSpec == WorktreeInit /\ [][WorktreeNext]_worktreeVars

-----------------------------------------------------------------------------

\* "would lose uncommitted work", "would lose committed work", "never touched
\* while a Hand might still be using the worktree" (worktree_cleanup.rs): what
\* a prune destroys was made after it had begun to look at the tree, by a Hand
\* it had not found active when it read the sessions.
LostWorkWasLate ==
  [][\A t \in Tree : \A i \in (edits[t] \cup commits[t]) \cap lost' :
       i \notin known /\ t \notin prune.active]_worktreeVars
=============================================================================
