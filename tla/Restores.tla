------------------------------ MODULE Restores ------------------------------
(***************************************************************************)
(* `ryve restore` (restore_snapshot of data/src/backup.rs) and the files   *)
(* it replaces: a workshop's database and its write-ahead log.             *)
(*                                                                         *)
(* What a file holds is the number of the newest write in it.  Writes go   *)
(* to the log until the last program closes the database.  A restore finds *)
(* no program that has it open: "the UI should be shut down first".        *)
(***************************************************************************)
EXTENDS Naturals

CONSTANTS
  Absent,      \* there is no such file
  Garbage,     \* a file that is not a whole database
  MaxSecond,   \* bound on the clock
  MaxWrites,   \* bound on the writes
  MaxMishaps   \* bound on deaths, damages and failing file operations

ASSUME RestoreConstants ==
  /\ Absent \notin Nat /\ Garbage \notin Nat /\ Absent # Garbage
  /\ {MaxSecond, MaxWrites, MaxMishaps} \subseteq Nat

VARIABLES
  second,    \* what stamps can tell apart
  open,      \* some program has the database open
  db,        \* sparks.db
  wal,       \* its write-ahead log
  foreign,   \* the log is left over from another database
  wrote,     \* the newest write
  restoring, \* the newest restore: source is what the snapshot holds
  aside,     \* aside[s]: what was moved to *.pre-restore-<s>.bak
  owed,      \* writes that restores have found in place
  restored,  \* what was restored, until something else happens to the database
  mishaps

restoreVars == <<second, open, db, wal, foreign, wrote, restoring, aside, owed,
                 restored, mishaps>>

Second == 0..MaxSecond
Content == Nat \cup {Absent, Garbage}
Log == Nat \cup {Absent}

RestoreTypeOK ==
  /\ second \in Second /\ open \in BOOLEAN /\ foreign \in BOOLEAN
  /\ db \in Content /\ wal \in Log /\ restored \in Content
  /\ wrote \in Nat /\ mishaps \in Nat
  /\ restoring \in [stage : {"no", "sides", "copy"}, at : Second,
                    source : Content, stuck : BOOLEAN]
  /\ aside \in [Second -> [db : Content, wal : Log]]
  /\ owed \subseteq Nat

RestoreInit ==
  /\ second = 0 /\ wrote = 0 /\ mishaps = 0
  /\ open = FALSE /\ db = 0 /\ wal = Absent /\ foreign = FALSE
  /\ restoring = [stage |-> "no", at |-> 0, source |-> Absent, stuck |-> FALSE]
  /\ aside = [s \in Second |-> [db |-> Absent, wal |-> Absent]]
  /\ owed = {} /\ restored = Absent

Mishap == mishaps < MaxMishaps /\ mishaps' = mishaps + 1

-----------------------------------------------------------------------------
(* The database, as SQLite and the programs treat it.                      *)

\* What a program reads: the log goes before the database, if it is its own.
Live == IF wal = Absent THEN db
        ELSE IF foreign \/ db \notin Nat THEN Garbage ELSE wal

\* open_sparks_db: a database that is missing is created and its log deleted;
\* one that is damaged, also by the log of another one, is refused.  A log that
\* this spoils is owed to nobody any more.
OpenDb ==
  /\ ~open /\ restoring.stage = "no" /\ db # Garbage
  /\ open' = (foreign => db = Absent)
  /\ db' = IF db = Absent THEN 0 ELSE IF foreign THEN Garbage ELSE db
  /\ IF db = Absent \/ foreign
     THEN wal' = Absent /\ owed' = owed \ {wal}
     ELSE UNCHANGED <<wal, owed>>
  /\ foreign' = FALSE
  /\ UNCHANGED <<second, wrote, restoring, aside, restored, mishaps>>

WriteDb ==
  /\ open /\ wrote < MaxWrites
  /\ wrote' = wrote + 1 /\ wal' = wrote + 1 /\ restored' = Absent
  /\ UNCHANGED <<second, open, db, foreign, restoring, aside, owed, mishaps>>

\* The last program closes it.
CloseDb ==
  /\ open
  /\ open' = FALSE /\ db' = Live /\ wal' = Absent
  /\ UNCHANGED <<second, foreign, wrote, restoring, aside, owed, restored,
                 mishaps>>

\* All die that have it open, and leave the log.
ProgramsDie ==
  /\ open
  /\ open' = FALSE
  /\ UNCHANGED <<second, db, wal, foreign, wrote, restoring, aside, owed,
                 restored, mishaps>>

\* What a restore is for: the file is corrupt or gone.
Damage ==
  /\ ~open /\ restoring.stage = "no" /\ db # Absent /\ Mishap
  /\ db' \in {Garbage, Absent} \ {db}
  /\ restored' = Absent
  /\ UNCHANGED <<second, open, wal, foreign, wrote, restoring, aside, owed>>

NextSecond ==
  /\ second < MaxSecond
  /\ second' = second + 1
  /\ UNCHANGED <<open, db, wal, foreign, wrote, restoring, aside, owed,
                 restored, mishaps>>

-----------------------------------------------------------------------------
(* The command.                                                            *)

\* Mutant: one name for all that is moved aside.
AsideName_Fixed(s) == 0

\* The stamp in *.pre-restore-<stamp>.bak.
AsideName(s) == s

\* sparks.db, if there is one, is moved aside, over a copy of the same name: a
\* second restore in one second ends what is owed of the copies of the first.
\* The snapshot is of some state that was, or was interrupted.
BeginRestore(source) ==
  /\ ~open /\ restoring.stage = "no"
  /\ restoring' = [stage |-> "sides", at |-> second, source |-> source,
                   stuck |-> FALSE]
  /\ owed' = (owed \ {aside[second].db, aside[second].wal})
               \cup ({db, wal} \cap Nat)
  /\ aside' = IF db = Absent THEN aside
              ELSE [aside EXCEPT ![AsideName(second)].db = db]
  /\ db' = Absent /\ restored' = Absent
  /\ UNCHANGED <<second, open, wal, foreign, wrote, mishaps>>

\* Mutant: there are sidecars to move only where there was a database.
HasSidecars_WithDb == wal # Absent /\ aside[restoring.at].db # Absent

\* "independently of whether `sparks.db` existed"
HasSidecars == wal # Absent

MoveSidecars ==
  /\ restoring.stage = "sides" /\ HasSidecars
  /\ aside' = [aside EXCEPT ![AsideName(restoring.at)].wal = wal]
  /\ wal' = Absent /\ foreign' = FALSE
  /\ restoring' = [restoring EXCEPT !.stage = "copy"]
  /\ UNCHANGED <<second, open, db, wrote, owed, restored, mishaps>>

\* A sidecar that cannot be moved is logged and stays.
SidecarStuck ==
  /\ restoring.stage = "sides" /\ HasSidecars /\ Mishap
  /\ restoring' = [restoring EXCEPT !.stage = "copy", !.stuck = TRUE]
  /\ UNCHANGED <<second, open, db, wal, foreign, wrote, aside, owed, restored>>

NoSidecars ==
  /\ restoring.stage = "sides" /\ ~HasSidecars
  /\ restoring' = [restoring EXCEPT !.stage = "copy"]
  /\ UNCHANGED <<second, open, db, wal, foreign, wrote, aside, owed, restored,
                 mishaps>>

\* The copy is made beside the database and renamed over it.
PutInPlace ==
  /\ restoring.stage = "copy"
  /\ restoring' = [restoring EXCEPT !.stage = "no"]
  /\ db' = restoring.source /\ restored' = restoring.source
  /\ foreign' = (wal # Absent)
  /\ UNCHANGED <<second, open, wal, wrote, aside, owed, mishaps>>

\* It is killed, or the copy fails.
RestoreDies ==
  /\ restoring.stage # "no" /\ Mishap
  /\ restoring' = [restoring EXCEPT !.stage = "no"]
  /\ UNCHANGED <<second, open, db, wal, foreign, wrote, aside, owed, restored>>

RestoreNext ==
  \/ OpenDb \/ WriteDb \/ CloseDb \/ ProgramsDie \/ Damage \/ NextSecond
  \/ \E source \in 0..wrote \cup {Garbage} : BeginRestore(source)
  \/ MoveSidecars \/ SidecarStuck \/ NoSidecars \/ PutInPlace \/ RestoreDies

RestoreSpec == RestoreInit /\ [][RestoreNext]_restoreVars

-----------------------------------------------------------------------------

\* After a restore that moved all it found, the database reads as the snapshot,
\* also where an earlier restore died half way and left a log without its
\* database: "stale WAL/SHM/journal files can ... apply unintended state".
RestoredAsTaken == restored # Absent /\ ~restoring.stuck => Live = restored

Kept(v) == v \in {db, wal} \/ \E s \in Second : v \in {aside[s].db, aside[s].wal}

\* "This gives the user a chance to recover their existing state" (backup.rs):
\* what a restore has found in place stays in place or aside, through deaths,
\* retries and further restores.  Two exceptions are taken out of owed: another
\* restore in the same second, and a program that opens the database between a
\* restore that died, or could not move the log, and the next one.
PriorWorkIsKept == \A v \in owed : Kept(v)
=============================================================================
