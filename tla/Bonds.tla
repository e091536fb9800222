------------------------------- MODULE Bonds -------------------------------
(***************************************************************************)
(* The dependency graph of sparks: data/src/sparks/bond_repo.rs, whose     *)
(* create looks for a cycle over one connection and inserts over another,  *)
(* and hot_sparks of graph.rs, which lists what can be worked on.  Only    *)
(* the blocking bonds are kept; the others take part in neither.  Parents  *)
(* are a column of the spark, and no bond.                                 *)
(***************************************************************************)
EXTENDS Naturals

CONSTANTS
  Spark,
  NoParent,
  Hierarchies, \* who may be whose parent
  Creator,   \* commands and handlers that create bonds
  NoBond     \* a creator that is not creating one

ASSUME BondConstants ==
  /\ NoBond \notin Spark \X Spark
  /\ NoParent \notin Spark
  /\ Hierarchies \subseteq [Spark -> Spark \cup {NoParent}]

VARIABLES
  bonds,     \* blocking bonds <<from, to>>: from blocks to
  status,    \* status[s]: open (or in_progress), aside (blocked, deferred), closed
  deferred,  \* sparks whose defer_until is in the future
  parent,    \* parent[s]: parent_id, if it has one
  creating,  \* creating[c]: the bond c has checked and will insert
  overtaken, \* creators before whose insert somebody else's came
  raced      \* an overtaken creator has inserted its bond

sparkVars == <<status, deferred, parent>>
bondVars == <<bonds, sparkVars, creating, overtaken, raced>>

SparkStatus == {"open", "aside", "closed"}

BondTypeOK ==
  /\ bonds \subseteq Spark \X Spark
  /\ status \in [Spark -> SparkStatus]
  /\ deferred \subseteq Spark
  /\ parent \in Hierarchies
  /\ creating \in [Creator -> (Spark \X Spark) \cup {NoBond}]
  /\ overtaken \subseteq Creator
  /\ raced \in BOOLEAN

BondInit ==
  /\ bonds = {}
  /\ status = [s \in Spark |-> "open"] /\ deferred = {} /\ parent \in Hierarchies
  /\ creating = [c \in Creator |-> NoBond]
  /\ overtaken = {}
  /\ raced = FALSE

-----------------------------------------------------------------------------

\* is_cyclic_directed, without paths: a finite graph has a cycle exactly if
\* some of its vertices each have a predecessor among them.
Cyclic(graph) ==
  \E S \in (SUBSET Spark) \ {{}} : \A y \in S : \E x \in S : <<x, y>> \in graph

\* Mutant: the proposed bond is checked in the wrong direction.
WouldCreateCycle_Reversed(x, y) == Cyclic(bonds \cup {<<y, x>>})

\* would_create_cycle: the whole graph with the proposed bond.
WouldCreateCycle(x, y) == Cyclic(bonds \cup {<<x, y>>})

\* create, first half: the check reads through the pool.
Check(c, x, y) ==
  /\ creating[c] = NoBond
  /\ ~WouldCreateCycle(x, y)
  /\ creating' = [creating EXCEPT ![c] = <<x, y>>]
  /\ overtaken' = overtaken \ {c}
  /\ UNCHANGED <<bonds, sparkVars, raced>>

\* create, second half: its transaction has read nothing before the insert, so
\* it takes whatever has been committed meanwhile; UNIQUE refuses a bond that
\* exists.
Insert(c) ==
  /\ creating[c] # NoBond
  /\ creating' = [creating EXCEPT ![c] = NoBond]
  /\ IF creating[c] \in bonds
     THEN UNCHANGED <<bonds, overtaken, raced>>
     ELSE /\ bonds' = bonds \cup {creating[c]}
          /\ raced' = (raced \/ c \in overtaken)
          /\ overtaken' = overtaken \cup (Creator \ {c})
  /\ UNCHANGED sparkVars

\* The insert fails, or the process dies.
GiveUp(c) ==
  /\ creating[c] # NoBond
  /\ creating' = [creating EXCEPT ![c] = NoBond]
  /\ UNCHANGED <<bonds, sparkVars, overtaken, raced>>

Unbond(b) ==
  /\ b \in bonds
  /\ bonds' = bonds \ {b}
  /\ UNCHANGED <<sparkVars, creating, overtaken, raced>>

\* spark_repo::update: users and Hands edit sparks as they like.
SetStatus(s, st) ==
  /\ status[s] # st
  /\ status' = [status EXCEPT ![s] = st]
  /\ UNCHANGED <<bonds, deferred, parent, creating, overtaken, raced>>

Reparent(p) ==
  /\ p # parent
  /\ parent' = p
  /\ UNCHANGED <<bonds, status, deferred, creating, overtaken, raced>>

Defer(s) ==
  /\ s \notin deferred
  /\ deferred' = deferred \cup {s}
  /\ UNCHANGED <<bonds, status, parent, creating, overtaken, raced>>

\* The date is taken back, or comes.
DeferEnds(s) ==
  /\ s \in deferred
  /\ deferred' = deferred \ {s}
  /\ UNCHANGED <<bonds, status, parent, creating, overtaken, raced>>

BondNext ==
  \/ \E c \in Creator : Insert(c) \/ GiveUp(c)
  \/ \E c \in Creator, x, y \in Spark : Check(c, x, y)
  \/ \E b \in bonds : Unbond(b)
  \/ \E s \in Spark, st \in SparkStatus : SetStatus(s, st)
  \/ \E p \in Hierarchies : Reparent(p)
  \/ \E s \in Spark : Defer(s) \/ DeferEnds(s)

BondSpec == BondInit /\ [][BondNext]_bondVars

-----------------------------------------------------------------------------

\* Blocked: some blocker is not closed.
BlockedIds == {y \in Spark : \E x \in Spark : <<x, y>> \in bonds
                                               /\ status[x] # "closed"}

\* Put off: deferred, or a child of a deferred spark, be that closed or not.
PutOff == deferred \cup {s \in Spark : parent[s] \in deferred}

HotSparks == ({s \in Spark : status[s] = "open"} \ BlockedIds) \ PutOff

\* While something is left to do, something can be done: a spark is hot, or one
\* that no other blocks waits for a person or a date, having been set aside or put
\* off.  Unless two creates raced: "the cycle check and INSERT are wrapped in a
\* transaction to prevent TOCTOU races" (bond_repo.rs), but the check reads
\* outside of it.
SomethingIsHot ==
  (~raced /\ \E s \in Spark : status[s] # "closed") =>
    \/ HotSparks # {}
    \/ \E s \in Spark \ BlockedIds :
         status[s] = "aside" \/ (status[s] = "open" /\ s \in PutOff)
=============================================================================
