------------------------------ MODULE Releases ------------------------------
(***************************************************************************)
(* Releases: release_repo.rs with the triggers of 011_releases.sql, and    *)
(* `ryve release` of cli.rs, which goes back and forth between the         *)
(* database, git and the artifact directory without anything that holds    *)
(* them together.                                                          *)
(*                                                                         *)
(* Left out: which branch is checked out, and so what a tag or an artifact *)
(* was made from; cut_at; the texts of a release.  Branch, tag and         *)
(* artifact of a version go by its number.                                 *)
(***************************************************************************)
EXTENDS Naturals

CONSTANTS
  Release,    \* release ids
  Versions,   \* versions, numbered in semver order; 0 stands for none
  Epic,       \* epics
  Closer,     \* runs of `ryve release close`
  MaxFailures  \* bound on steps of a close that have to be rolled back

ASSUME ReleaseConstants == Versions \subseteq Nat \ {0} /\ MaxFailures \in Nat

VARIABLES
  release,   \* release[r]: the releases row
  members,   \* release_epics: pairs <<r, e>>
  cutting,   \* versions whose branch a `release create` is about to cut
  branches,  \* versions v with a branch release/v
  tags,      \* versions v with a tag v<v>
  artifacts, \* versions with a staged artifact
  closing,   \* closing[c]: how far a close has got
  unclean,   \* releases with metadata that a roll-back could not clear
  failures    \* failures so far

releaseVars == <<release, members, cutting, branches, tags, artifacts, closing,
                 unclean, failures>>

\* open: planning, in_progress or ready; shut: cut or abandoned.
ReleaseStatus == {"absent", "open", "shut", "closed"}
ReleaseRow == [status : ReleaseStatus, version : Versions \cup {0},
               tag : Versions \cup {0}]
Stages == {"idle", "gate", "tag", "build", "record", "close",
           "clear", "untag", "unstage", "untagOnly"}
Closings == [stage : Stages, rel : Release \cup {0}, version : Versions \cup {0}]
NoClose == [stage |-> "idle", rel |-> 0, version |-> 0]

ReleaseTypeOK ==
  /\ release \in [Release -> ReleaseRow]
  /\ members \subseteq Release \X Epic
  /\ cutting \subseteq Versions /\ branches \subseteq Versions
  /\ tags \subseteq Versions /\ artifacts \subseteq Versions
  /\ closing \in [Closer -> Closings]
  /\ unclean \subseteq Release
  /\ failures \in Nat

ReleaseInit ==
  /\ release = [r \in Release |-> [status |-> "absent", version |-> 0, tag |-> 0]]
  /\ members = {} /\ cutting = {} /\ branches = {} /\ tags = {} /\ artifacts = {}
  /\ closing = [c \in Closer |-> NoClose]
  /\ unclean = {} /\ failures = 0

-----------------------------------------------------------------------------
(* The repository. *)

\* The version is a bump of the releases found closed before, of none if that
\* read fails; edits make it any.
CreateRelease(r, v) ==
  /\ release[r].status = "absent"
  /\ release' = [release EXCEPT ![r] = [status |-> "open", version |-> v, tag |-> 0]]
  /\ cutting' = cutting \cup {v}
  /\ UNCHANGED <<members, branches, tags, artifacts, closing, unclean, failures>>

\* cut_release_branch, which refuses an existing branch and a dirty tree; the
\* row stays in either case.
CutBranch(v) ==
  /\ v \in cutting
  /\ cutting' = cutting \ {v}
  /\ branches' \in {branches, branches \cup {v}}
  /\ UNCHANGED <<release, members, tags, artifacts, closing, unclean, failures>>

\* Another open release has the epic.
HeldElsewhere(r, e) ==
  \E s \in Release \ {r} : <<s, e>> \in members /\ release[s].status = "open"

\* add_epic, with the trigger release_epics_single_open_insert.
AddEpic(r, e) ==
  /\ release[r].status # "absent"
  /\ <<r, e>> \notin members
  /\ ~HeldElsewhere(r, e)
  /\ members' = members \cup {<<r, e>>}
  /\ UNCHANGED <<release, cutting, branches, tags, artifacts, closing, unclean,
                 failures>>

RemoveEpic(r, e) ==
  /\ <<r, e>> \in members
  /\ members' = members \ {<<r, e>>}
  /\ UNCHANGED <<release, cutting, branches, tags, artifacts, closing, unclean,
                 failures>>

\* Mutant: reopening is checked after a close only.
MayTurn_FromClosed(r, st) ==
  (st = "open" /\ release[r].status = "closed") =>
    \A e \in Epic : <<r, e>> \in members => ~HeldElsewhere(r, e)

\* The trigger release_reopen_conflict_check.
MayTurn(r, st) ==
  (st = "open" /\ release[r].status # "open") =>
    \A e \in Epic : <<r, e>> \in members => ~HeldElsewhere(r, e)

\* set_status, from any status to any other.
SetReleaseStatus(r, st) ==
  /\ release[r].status # "absent" /\ st # "absent"
  /\ MayTurn(r, st)
  /\ release' = [release EXCEPT ![r].status = st]
  /\ UNCHANGED <<members, cutting, branches, tags, artifacts, closing, unclean,
                 failures>>

\* update; the version may be any.
EditRelease(r, v) ==
  /\ release[r].status # "absent"
  /\ release' = [release EXCEPT ![r].version = v]
  /\ UNCHANGED <<members, cutting, branches, tags, artifacts, closing, unclean,
                 failures>>

-----------------------------------------------------------------------------
(* release_close. *)

At(c, stage) == closing[c].stage = stage

GoTo(c, stage) ==
  closing' = [closing EXCEPT ![c] =
                IF stage = "idle" THEN NoClose
                ELSE [closing[c] EXCEPT !.stage = stage]]

\* The row is read once, whatever its status.
StartClose(c, r) ==
  /\ At(c, "idle") /\ release[r].status # "absent"
  /\ closing' = [closing EXCEPT ![c] =
                   [stage |-> "gate", rel |-> r, version |-> release[r].version]]
  /\ UNCHANGED <<release, members, cutting, branches, tags, artifacts, unclean,
                 failures>>

\* Each member epic is closed when it is looked at, which says nothing of the
\* moment after; then the branch is checked out.
PassGate(c) ==
  /\ At(c, "gate") /\ closing[c].version \in branches
  /\ GoTo(c, "tag")
  /\ UNCHANGED <<release, members, cutting, branches, tags, artifacts, unclean,
                 failures>>

\* Mutant: git tag --force.
TagRelease_Force(c) ==
  /\ At(c, "tag")
  /\ tags' = tags \cup {closing[c].version}
  /\ GoTo(c, "build")
  /\ UNCHANGED <<release, members, cutting, branches, artifacts, unclean, failures>>

\* tag_release: git refuses a tag that exists.
TagRelease(c) ==
  /\ At(c, "tag") /\ closing[c].version \notin tags
  /\ tags' = tags \cup {closing[c].version}
  /\ GoTo(c, "build")
  /\ UNCHANGED <<release, members, cutting, branches, artifacts, unclean, failures>>

BuildArtifact(c) ==
  /\ At(c, "build")
  /\ artifacts' = artifacts \cup {closing[c].version}
  /\ GoTo(c, "record")
  /\ UNCHANGED <<release, members, cutting, branches, tags, unclean, failures>>

RecordClose(c) ==
  /\ At(c, "record")
  /\ release' = [release EXCEPT ![closing[c].rel].tag = closing[c].version]
  /\ unclean' = unclean \ {closing[c].rel}
  /\ GoTo(c, "close")
  /\ UNCHANGED <<members, cutting, branches, tags, artifacts, failures>>

\* set_status: the row is updated and read again; should the second fail, the
\* close is rolled back around a row that is closed.
SetClosed(c) ==
  /\ At(c, "close")
  /\ release' = [release EXCEPT ![closing[c].rel].status = "closed"]
  /\ \/ GoTo(c, "idle") /\ UNCHANGED failures
     \/ failures < MaxFailures /\ failures' = failures + 1 /\ GoTo(c, "clear")
  /\ UNCHANGED <<members, cutting, branches, tags, artifacts, unclean>>

\* Where the roll-back of a failed step begins.
Undo == [build |-> "untagOnly", record |-> "untag", close |-> "clear"]

CloseFails(c) ==
  /\ closing[c].stage \in DOMAIN Undo /\ failures < MaxFailures
  /\ failures' = failures + 1
  /\ GoTo(c, Undo[closing[c].stage])
  /\ UNCHANGED <<release, members, cutting, branches, tags, artifacts, unclean>>

\* A step of a roll-back that fails as well is passed over.
ClearMetadata(c) ==
  /\ At(c, "clear")
  /\ \/ /\ release' = [release EXCEPT ![closing[c].rel].tag = 0]
        /\ unclean' = unclean \ {closing[c].rel}
     \/ /\ unclean' = unclean \cup {closing[c].rel}
        /\ UNCHANGED release
  /\ GoTo(c, "untag")
  /\ UNCHANGED <<members, cutting, branches, tags, artifacts, failures>>

Untag(c) ==
  /\ closing[c].stage \in {"untag", "untagOnly"}
  /\ tags' \in {tags, tags \ {closing[c].version}}
  /\ GoTo(c, IF At(c, "untag") THEN "unstage" ELSE "idle")
  /\ UNCHANGED <<release, members, cutting, branches, artifacts, unclean, failures>>

Unstage(c) ==
  /\ At(c, "unstage")
  /\ artifacts' \in {artifacts, artifacts \ {closing[c].version}}
  /\ GoTo(c, "idle")
  /\ UNCHANGED <<release, members, cutting, branches, tags, unclean, failures>>

\* The gate or git refuses, which nothing has to be undone for, or the command
\* is killed, which undoes nothing.
CloseEnds(c) ==
  /\ ~At(c, "idle")
  /\ GoTo(c, "idle")
  /\ UNCHANGED <<release, members, cutting, branches, tags, artifacts, unclean,
                 failures>>

CloseStep(c) ==
  \/ PassGate(c) \/ TagRelease(c) \/ BuildArtifact(c) \/ RecordClose(c)
  \/ SetClosed(c) \/ CloseFails(c) \/ CloseEnds(c)
  \/ ClearMetadata(c) \/ Untag(c) \/ Unstage(c)

ReleaseNext ==
  \/ \E r \in Release, v \in Versions : CreateRelease(r, v) \/ EditRelease(r, v)
  \/ \E v \in Versions : CutBranch(v)
  \/ \E r \in Release, e \in Epic : AddEpic(r, e) \/ RemoveEpic(r, e)
  \/ \E r \in Release, st \in ReleaseStatus : SetReleaseStatus(r, st)
  \/ \E c \in Closer, r \in Release : StartClose(c, r)
  \/ \E c \in Closer : CloseStep(c)

ReleaseSpec == ReleaseInit /\ [][ReleaseNext]_releaseVars

-----------------------------------------------------------------------------

\* "a single spark cannot belong to more than one release while that other
\* release is still in an "open" state" (011_releases.sql): neither by adding
\* it nor by reopening a release that kept it.
OneOpenRelease ==
  \A r, s \in Release, e \in Epic :
    /\ {<<r, e>>, <<s, e>>} \subseteq members
    /\ release[r].status = "open" /\ release[s].status = "open"
    => r = s

\* The tag a release records is there and is its own, though versions need not
\* be unique and closes overlap, fail, roll back and are killed; unless a
\* roll-back could not clear the record.
RecordedTagStands ==
  \A r \in Release \ unclean : release[r].tag # 0 =>
    /\ release[r].tag \in tags
    /\ \A s \in Release \ (unclean \cup {r}) : release[s].tag # release[r].tag
=============================================================================
