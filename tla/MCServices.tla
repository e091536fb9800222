----------------------------- MODULE MCServices -----------------------------
(***************************************************************************)
(* One run for eight components that share no state: the watch scheduler,  *)
(* the spark event relay, the GitHub mirror, the graph of bonds, the       *)
(* pruning of worktrees, the releases, snapshots and restores.  A          *)
(* behaviour is a behaviour of one of them, the others standing still:     *)
(* interleaving them would show nothing more.                              *)
(***************************************************************************)
EXTENDS Watches, EventRelay, GithubMirror, Bonds, Worktrees, Releases,
        Snapshots, Restores, TLC

CONSTANTS w1, w2, i1, i2, s1, s2, s3

TwoIntents == w1 :> i1 @@ w2 :> i2
IntervalAndZero == w1 :> [cron |-> FALSE, secs |-> 2] @@ w2 :> [cron |-> FALSE, secs |-> 0]
FourEvents == 1..4
TwoSubscribers == 1..2
FirstPoisoned == {<<1, 2>>}
ThreeEvents == 1..3
\* A pull request that is reviewed, one whose review comes too early, one with
\* an event that does not parse, and one that is merged under the Hands.
PullRequests ==
  {<<"opened", "approved", "ci_failed">>, <<"approved", "opened", "changes">>,
   <<"opened", "malformed", "changes">>, <<"unsupported", "ignored", "merged">>}
FlatOrUnderFirst ==
  {[s \in {s1, s2, s3} |-> NoParent], [s \in {s1, s2, s3} |-> IF s = s1 THEN NoParent ELSE s1]}
DaysOfTwo == {<<2, 2>>}
Reviewable == {"awaiting_review", NullPhase}

VARIABLE part

Parts == {"watches", "relay", "mirror", "bonds", "worktrees", "epics", "closes",
          "snapshots", "restores"}

others(p) ==
  /\ p # "watches" => UNCHANGED watchVars
  /\ p # "relay" => UNCHANGED relayVars
  /\ p # "mirror" => UNCHANGED mirrorVars
  /\ p # "bonds" => UNCHANGED bondVars
  /\ p # "worktrees" => UNCHANGED worktreeVars
  /\ p \notin {"epics", "closes"} => UNCHANGED releaseVars
  /\ p # "snapshots" => UNCHANGED snapshotVars
  /\ p # "restores" => UNCHANGED restoreVars

vars == <<part, watchVars, relayVars, mirrorVars, bondVars, worktreeVars,
          releaseVars, snapshotVars, restoreVars>>

\* The mirror has several initial states; for another part one of them will do.
Init ==
  /\ part \in Parts
  /\ WatchInit /\ RelayInit /\ BondInit /\ WorktreeInit /\ MirrorInit
  /\ ReleaseInit /\ SnapshotInit /\ RestoreInit
  /\ part # "mirror" =>
       story = <<"opened", "malformed", "changes">> /\ phase = NullPhase
  /\ part # "bonds" => parent = [s \in Spark |-> NoParent]

\* No create reads a spark and no edit of one stands in the way of a create, so that
\* any graph with any sparks is also reached by editing these last, when whoever was
\* overtaken has checked again and given up.
GraphThenSparks ==
  /\ creating' # creating => deferred = {} /\ \A s \in Spark : status[s] = "open"
  /\ sparkVars' # sparkVars =>
       overtaken = {} /\ \A c \in Creator : creating[c] = NoBond

\* Of a graph in which two creates have raced nothing is claimed any more.  Epics
\* and closes of a release have nothing in common but its status, which may be
\* set at any time.
Next ==
  /\ \/ part = "watches" /\ WatchNext
     \/ part = "relay" /\ RelayNext
     \/ part = "mirror" /\ MirrorNext
     \/ part = "bonds" /\ ~raced /\ BondNext /\ GraphThenSparks
     \/ part = "worktrees" /\ WorktreeNext
     \/ part = "epics" /\ ReleaseNext /\ UNCHANGED closing
     \/ part = "closes" /\ ReleaseNext /\ UNCHANGED members
     \/ part = "snapshots" /\ SnapshotNext
     \/ part = "restores" /\ RestoreNext
  /\ others(part)
  /\ UNCHANGED part

\* WatchFairness, RelayFairness and MirrorFairness, each for the behaviours of
\* its part.
Spec ==
  /\ Init /\ [][Next]_vars
  /\ \A r \in Runner : WF_watchVars(part = "watches" /\ Serve(r))
  /\ WF_relayVars(part = "relay" /\ (Drain \/ Deliver))
  /\ \A e \in Events : WF_relayVars(part = "relay" /\ BackoffEnds(e))
  /\ WF_mirrorVars(part = "mirror" /\ PollStep)
  /\ WF_mirrorVars(part = "mirror" /\ ThrottleEnds)
=============================================================================
