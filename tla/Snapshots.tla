----------------------------- MODULE Snapshots -----------------------------
(***************************************************************************)
(* Snapshots of a workshop's database and their retention                  *)
(* (data/src/backup.rs): taken by the app's timer, by the close of a       *)
(* workshop and by `ryve backup create`, pruned after each of these and by *)
(* `ryve backup prune`.  Nothing holds these together but the names of     *)
(* files, which tell seconds apart.                                        *)
(***************************************************************************)
EXTENDS Integers, FiniteSets

CONSTANTS
  Task,        \* snapshots and prunes under way: the app's and the CLI's
  KeepRecent,  \* keep_recent, or --keep
  Tapers,      \* <<period, span>>: the newest of each period in the span stays
  MaxInstant,  \* bound on the seconds
  MaxSuffix,   \* bound on the suffixes in a second; one digit, which sorts as it counts
  MaxAborts    \* bound on dying tasks and failing file operations

ASSUME SnapshotConstants ==
  /\ KeepRecent \in Nat
  /\ Tapers \subseteq (Nat \ {0}) \X Nat
  /\ {MaxInstant, MaxAborts} \subseteq Nat /\ MaxSuffix \in 0..9

VARIABLES
  instant,  \* the second in which it is
  snap,     \* snap[n]: the file of that name
  task,     \* task[t]: how far t has got
  aborts    \* tasks that died and operations that failed so far

snapshotVars == <<instant, snap, task, aborts>>

\* sparks-<second>.db, or sparks-<second>-<suffix>.db
Name == (0..MaxInstant) \X (0..MaxSuffix)

NoTask == [stage |-> "idle", name |-> <<0, 0>>, doomed |-> {}]

SnapshotTypeOK ==
  /\ instant \in 0..MaxInstant /\ aborts \in Nat
  /\ snap \in [Name -> {"none", "partial", "whole"}]
  /\ task \in [Task -> [stage : {"idle", "named", "writing", "written", "pruning"},
                        name : Name, doomed : SUBSET Name]]

SnapshotInit ==
  /\ instant = 0 /\ aborts = 0
  /\ snap = [n \in Name |-> "none"]
  /\ task = [t \in Task |-> NoTask]

Abort == aborts < MaxAborts /\ aborts' = aborts + 1

NextInstant ==
  /\ instant < MaxInstant
  /\ instant' = instant + 1
  /\ UNCHANGED <<snap, task, aborts>>

-----------------------------------------------------------------------------
(* Snapshots.                                                              *)

\* take_snapshot: the first suffix whose file does not exist.
NameSnapshot(t, k) ==
  /\ task[t] = NoTask
  /\ snap[<<instant, k>>] = "none"
  /\ \A j \in 0..(k - 1) : snap[<<instant, j>>] # "none"
  /\ task' = [task EXCEPT ![t].stage = "named", ![t].name = <<instant, k>>]
  /\ UNCHANGED <<instant, snap, aborts>>

\* VACUUM INTO: the file grows under its name.  One that has come up since the
\* name was chosen fails the snapshot.
StartVacuum(t) ==
  /\ task[t].stage = "named"
  /\ IF snap[task[t].name] = "none"
     THEN /\ snap' = [snap EXCEPT ![task[t].name] = "partial"]
          /\ task' = [task EXCEPT ![t].stage = "writing"]
     ELSE /\ task' = [task EXCEPT ![t] = NoTask]
          /\ UNCHANGED snap
  /\ UNCHANGED <<instant, aborts>>

\* The file is whole, unless a prune has unlinked it.
FinishVacuum(t) ==
  /\ task[t].stage = "writing"
  /\ snap' = IF snap[task[t].name] = "partial"
             THEN [snap EXCEPT ![task[t].name] = "whole"] ELSE snap
  /\ task' = [task EXCEPT ![t].stage = "written"]
  /\ UNCHANGED <<instant, aborts>>

\* The program dies, or the disk is full.  What was written stays.
TaskEnds(t) ==
  /\ task[t] # NoTask /\ Abort
  /\ task' = [task EXCEPT ![t] = NoTask]
  /\ UNCHANGED <<instant, snap>>

-----------------------------------------------------------------------------
(* Retention.                                                              *)

\* list_snapshots: by second; a suffixed name does not parse and sorts by its
\* path, in which "-1.db" stands before ".db".
ListedLater(m, n) ==
  \/ m[1] > n[1]
  \/ m[1] = n[1] /\ m[2] = 0 /\ n[2] # 0
  \/ m[1] = n[1] /\ n[2] # 0 /\ m[2] > n[2]

\* Mutant: the list is walked from its older end.
Retained_OldestFirst(listed) ==
  {n \in listed : Cardinality({m \in listed : ListedLater(n, m)}) < KeepRecent}

\* retained_indices: the newest, the recent ones, and the newest of each day
\* and week within its span, of those whose name tells the time.
Retained(listed) ==
  LET Parsed == {n \in listed : n[2] = 0} IN
  {n \in listed :
     \/ \A m \in listed : ~ListedLater(m, n)
     \/ Cardinality({m \in listed : ListedLater(m, n)}) < KeepRecent
     \/ /\ n \in Parsed
        /\ \E p \in Tapers :
             /\ n[1] >= instant - p[2]
             /\ \A m \in Parsed : m[1] \div p[1] = n[1] \div p[1] => ~ListedLater(m, n)}

\* apply_retention, behind a snapshot or for `ryve backup prune`.
ListSnapshots(t) ==
  /\ task[t] = NoTask \/ task[t].stage = "written"
  /\ LET listed == {n \in Name : snap[n] # "none"} IN
     task' = [task EXCEPT ![t] = [stage |-> "pruning", name |-> <<0, 0>>,
                                  doomed |-> listed \ Retained(listed)]]
  /\ UNCHANGED <<instant, snap, aborts>>

\* Oldest first; what cannot be removed is logged and stays.
PruneOne(t, n) ==
  /\ task[t].stage = "pruning"
  /\ n \in task[t].doomed /\ \A m \in task[t].doomed : ~ListedLater(n, m)
  /\ \/ snap' = [snap EXCEPT ![n] = "none"] /\ UNCHANGED aborts
     \/ Abort /\ UNCHANGED snap
  /\ task' = [task EXCEPT ![t].doomed = task[t].doomed \ {n}]
  /\ UNCHANGED instant

EndPruning(t) ==
  /\ task[t].stage = "pruning" /\ task[t].doomed = {}
  /\ task' = [task EXCEPT ![t] = NoTask]
  /\ UNCHANGED <<instant, snap, aborts>>

SnapshotNext ==
  \/ NextInstant
  \/ \E t \in Task :
       \/ \E k \in 0..MaxSuffix : NameSnapshot(t, k)
       \/ StartVacuum(t) \/ FinishVacuum(t) \/ TaskEnds(t)
       \/ ListSnapshots(t) \/ EndPruning(t)
       \/ \E n \in Name : PruneOne(t, n)

SnapshotSpec == SnapshotInit /\ [][SnapshotNext]_snapshotVars

-----------------------------------------------------------------------------

\* "The most recent snapshot is never deleted" (backup.rs), but the list knows files,
\* and one that was interrupted or is still being written is a file.  What holds is
\* that no prune, however old its list, removes the newest whole snapshot, unless
\* KeepRecent such files are newer; then nothing whole may be left.  Newest by the
\* second: of two in one second the one that was taken last may go.
NewestSnapshotRemains ==
  [][\A n \in Name : snap[n] = "whole" /\ snap'[n] # "whole" =>
       \/ \E m \in Name \ {n} : snap[m] = "whole" /\ m[1] >= n[1]
       \/ Cardinality({m \in Name : snap[m] = "partial" /\ m[1] >= n[1]}) >= KeepRecent
    ]_snapshotVars
=============================================================================
