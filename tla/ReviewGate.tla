----------------------------- MODULE ReviewGate -----------------------------
(***************************************************************************)
(* What the phase machinery promises about a piece of work, without roles, *)
(* snapshots, versions or repair counters: nothing is merged that was not  *)
(* endorsed after its latest submission, an endorsement by a reviewer is   *)
(* not the author's own, an endorsement is only withdrawn because of a     *)
(* conflict, and what is merged stays merged.                              *)
(***************************************************************************)
CONSTANTS Items, Workers, NoWorker

VARIABLES gate,      \* gate[i]: open, submitted, endorsed or merged
          owner,     \* owner[i]: the author, NoWorker before there is one
          endorser,  \* endorser[i]: who endorsed the latest submission
          byOverride \* byOverride[i]: that endorsement overrode the review

gateVars == <<gate, owner, endorser, byOverride>>

GateInit ==
  /\ gate = [i \in Items |-> "open"]
  /\ owner = [i \in Items |-> NoWorker]
  /\ endorser = [i \in Items |-> NoWorker]
  /\ byOverride = [i \in Items |-> FALSE]

TakeOn(i, w) ==
  /\ gate[i] = "open" /\ owner[i] = NoWorker
  /\ owner' = [owner EXCEPT ![i] = w]
  /\ UNCHANGED <<gate, endorser, byOverride>>

\* A submission is not endorsed: whatever an earlier one was worth is gone.
Submit(i) ==
  /\ gate[i] = "open" /\ owner[i] # NoWorker
  /\ gate' = [gate EXCEPT ![i] = "submitted"]
  /\ endorser' = [endorser EXCEPT ![i] = NoWorker]
  /\ byOverride' = [byOverride EXCEPT ![i] = FALSE]
  /\ UNCHANGED owner

Endorse(i, w, override) ==
  /\ gate[i] = "submitted"
  /\ override \/ w # owner[i]
  /\ gate' = [gate EXCEPT ![i] = "endorsed"]
  /\ endorser' = [endorser EXCEPT ![i] = w]
  /\ byOverride' = [byOverride EXCEPT ![i] = override]
  /\ UNCHANGED owner

\* Turned down, taken back as stuck, or handed back for a merge conflict.
SendBack(i) ==
  /\ gate[i] \in {"submitted", "endorsed"}
  /\ gate' = [gate EXCEPT ![i] = "open"]
  /\ UNCHANGED <<owner, endorser, byOverride>>

Merge(i) ==
  /\ gate[i] = "endorsed"
  /\ gate' = [gate EXCEPT ![i] = "merged"]
  /\ UNCHANGED <<owner, endorser, byOverride>>

GateNext ==
  \E i \in Items :
    \/ Submit(i)
    \/ SendBack(i)
    \/ Merge(i)
    \/ \E w \in Workers : TakeOn(i, w)
    \/ \E w \in Workers, override \in BOOLEAN : Endorse(i, w, override)

GateSpec == GateInit /\ [][GateNext]_gateVars
=============================================================================
