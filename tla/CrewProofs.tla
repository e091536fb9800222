----------------------------- MODULE CrewProofs -----------------------------
(***************************************************************************)
(* For any crew, caps and interleaving: the respawn cap holds, a release   *)
(* hits silent Hands only, the parent gets one marker per assignment, and, *)
(* where closed sparks stay closed, the Merger starts on closed children.  *)
(***************************************************************************)
EXTENDS Crew, TLAPS

CyclesLeft == pc \notin {"done", "dead"} => cycles < MaxCycles

\* The child being respawned is below its cap.
CurBelowCap == pc = "respawn" => cur \in Children /\ respawns[cur] < MaxRespawns

\* The rows inserted for a child are the first Hand and the counted respawns.
Counted(s) ==
  /\ spawned[s] <= 1 + MaxRespawns
  /\ pc = "spawn" => /\ respawns[s] = 0
                     /\ spawned[s] <= 1
                     /\ s \in todo => spawned[s] = 0
  /\ pc \notin {"spawn", "dead"} => /\ respawns[s] <= MaxRespawns
                                    /\ spawned[s] <= 1 + respawns[s]

AllCounted == \A s \in Children : Counted(s)

IInv == TypeOK /\ CyclesLeft /\ CurBelowCap /\ AllCounted

-----------------------------------------------------------------------------
(* Typing, by groups of actions. *)

LEMMA RowType ==
  ASSUME NEW c \in Claim, NEW sess \in Nat, NEW active \in BOOLEAN,
         NEW ours \in BOOLEAN, NEW phase \in {"null", "working", "stuck"}
  PROVE  /\ Row(c, sess, active, ours, phase) \in Claim
         /\ Row(c, sess, active, ours, phase).fresh
         /\ Row(c, sess, active, ours, phase).hushed = c.hushed
         /\ NewSession(c) \in Nat
BY DEF Row, Claim, NewSession

LEMMA InitIInv == Init => IInv
<1> SUFFICES ASSUME Init PROVE IInv
  OBVIOUS
<1>1. NoClaim \in Claim
  BY DEF NoClaim, Claim
<1>2. Unseen \in Report
  BY DEF Unseen, Report
<1>a. /\ claim \in [Children -> Claim] /\ seen \in [Children -> Report]
      /\ spark \in [Children -> {"open", "completed", "other"}]
      /\ respawns \in [Children -> Nat] /\ spawned \in [Children -> Nat]
  BY <1>1, <1>2 DEF Init
<1>b. cycles \in 0..MaxCycles /\ life \in 1..MaxLives
  BY CrewConstants DEF Init
<1>3. TypeOK
  BY <1>a, <1>b DEF Init, TypeOK
<1> QED
  BY <1>3, CrewConstants DEF Init, IInv, CyclesLeft, CurBelowCap, AllCounted, Counted

\* No silent session is forgotten, and one falls silent only on record.
Remembers(q) ==
  /\ claim[q].hushed \subseteq claim'[q].hushed
  /\ ~claim'[q].fresh => \/ claim'[q].sess \in claim'[q].hushed
                         \/ ~claim[q].fresh /\ claim'[q].sess = claim[q].sess

\* What the environment may do to a child's newest row.
LEMMA EnvEffect ==
  ASSUME TypeOK, NEW s \in Children, Env(s)
  PROVE  /\ EnvUnchanged
         /\ spark' \in [Children -> {"open", "completed", "other"}]
         /\ claim' \in [Children -> Claim]
         /\ \A q \in Children : Remembers(q)
<1>0. /\ claim \in [Children -> Claim] /\ claim[s] \in Claim
      /\ spark \in [Children -> {"open", "completed", "other"}]
  BY DEF TypeOK
<1> USE DEF Remembers
<1>1. CASE Quiet(s)
  BY <1>0, <1>1 DEF Quiet, Claim
<1>2. CASE Beat(s)
  BY <1>0, <1>2 DEF Beat, Claim
<1>3. CASE EndClaim(s)
  BY <1>0, <1>3 DEF EndClaim, Claim
<1>4. CASE CloseSpark(s, "completed") \/ CloseSpark(s, "other") \/ Reopen(s)
  BY <1>0, <1>4 DEF CloseSpark, Reopen
<1>a. ASSUME NEW sess \in Nat, NEW phase \in {"null", "working"},
             claim' = [claim EXCEPT ![s] = Row(claim[s], sess, TRUE, FALSE, phase)]
      PROVE  claim' \in [Children -> Claim] /\ \A q \in Children : Remembers(q)
  <2> DEFINE row == Row(claim[s], sess, TRUE, FALSE, phase)
  <2>a. phase \in {"null", "working", "stuck"}
    OBVIOUS
  <2>1. row \in Claim /\ row.fresh /\ row.hushed = claim[s].hushed
    BY <1>0, <2>a, RowType
  <2>2. claim'[s] = row /\ \A q \in Children : q # s => claim'[q] = claim[q]
    BY <1>0, <1>a
  <2>3. claim' \in [Children -> Claim]
    BY <1>0, <1>a, <2>1
  <2> HIDE DEF row
  <2> QED
    BY <1>0, <2>1, <2>2, <2>3
<1>5. ASSUME NEW phase \in {"null", "working"}, RivalClaims(s, phase)
      PROVE  /\ EnvUnchanged /\ spark' = spark
             /\ claim' \in [Children -> Claim] /\ \A q \in Children : Remembers(q)
  <2>1. NewSession(claim[s]) \in Nat
    BY <1>0, RowType
  <2>2. /\ claim' = [claim EXCEPT ![s] = Row(claim[s], NewSession(claim[s]), TRUE, FALSE, phase)]
        /\ EnvUnchanged /\ spark' = spark
    BY <1>5 DEF RivalClaims
  <2> QED
    BY <1>a, <2>1, <2>2
<1>8. ASSUME NEW sess \in 1..claim[s].n, ClaimsAgain(s, sess)
      PROVE  /\ EnvUnchanged /\ spark' = spark
             /\ claim' \in [Children -> Claim] /\ \A q \in Children : Remembers(q)
  <2>1. sess \in Nat
    BY <1>0 DEF Claim
  <2>2. /\ claim' = [claim EXCEPT ![s] = Row(claim[s], sess, TRUE, FALSE, "null")]
        /\ EnvUnchanged /\ spark' = spark
    BY <1>8 DEF ClaimsAgain
  <2> QED
    BY <1>a, <2>1, <2>2
<1>6. CASE GetStuck(s)
  BY <1>0, <1>6 DEF GetStuck, Claim
<1>7. CASE Override(s)
  BY <1>0, <1>7 DEF Override, Claim
<1> QED
  BY <1>0, <1>1, <1>2, <1>3, <1>4, <1>5, <1>6, <1>7, <1>8 DEF Env

\* What spawn_hand does to the rows.
LEMMA ClaimForEffect ==
  ASSUME TypeOK, NEW s \in Children, NEW launched \in BOOLEAN, ClaimFor(s, launched)
  PROVE  /\ spark' = spark
         /\ claim' \in [Children -> Claim] /\ spawned' \in [Children -> Nat]
         /\ spawned' = [spawned EXCEPT ![s] = spawned[s] + 1]
         /\ \A q \in Children : Remembers(q)
<1> DEFINE row == Row(claim[s], NewSession(claim[s]), launched, TRUE, "null")
<1>1. /\ claim \in [Children -> Claim] /\ claim[s] \in Claim
      /\ spawned \in [Children -> Nat]
  BY DEF TypeOK
<1>2. NewSession(claim[s]) \in Nat
  BY <1>1, RowType
<1>3. row \in Claim /\ row.fresh /\ row.hushed = claim[s].hushed
  BY <1>1, <1>2, RowType
<1>4. /\ claim' = [claim EXCEPT ![s] = row] /\ spark' = spark
      /\ spawned' = [spawned EXCEPT ![s] = spawned[s] + 1]
  BY DEF ClaimFor
<1> HIDE DEF row
<1>5. claim'[s] = row /\ \A q \in Children : q # s => claim'[q] = claim[q]
  BY <1>1, <1>4
<1>6. \A q \in Children : Remembers(q)
  BY <1>3, <1>5 DEF Remembers
<1> QED
  BY <1>1, <1>3, <1>4, <1>6

LEMMA SpawnFailsEffect ==
  ASSUME IInv, NEW s \in Children, SpawnFails(s), spawned[s] <= MaxRespawns
  PROVE  IInv'
<1>1. CASE UNCHANGED <<envVars, spawned>>
  BY <1>1 DEF SpawnFails, outVars, envVars, IInv, TypeOK, CyclesLeft, CurBelowCap,
              AllCounted, Counted
<1>2. CASE ClaimFor(s, FALSE)
  <2>1. /\ spark' = spark /\ claim' \in [Children -> Claim]
        /\ spawned' \in [Children -> Nat]
        /\ spawned' = [spawned EXCEPT ![s] = spawned[s] + 1]
    BY <1>2, ClaimForEffect DEF IInv
  <2>2. TypeOK' /\ CyclesLeft' /\ CurBelowCap'
    BY <2>1 DEF SpawnFails, outVars, IInv, TypeOK, CyclesLeft, CurBelowCap
  <2>3. \A q \in Children : spawned[q] \in Nat /\ spawned[q] <= 1 + MaxRespawns
    BY DEF IInv, TypeOK, AllCounted, Counted
  <2>4. AllCounted'
    BY <2>1, <2>3, CrewConstants DEF SpawnFails, AllCounted, Counted
  <2> QED
    BY <2>2, <2>4 DEF IInv
<1> QED
  BY <1>1, <1>2 DEF SpawnFails

LEMMA StateOfType == ASSUME NEW s \in Children PROVE StateOf(s) \in MemberState
BY DEF StateOf, OwnerState, MemberState

LEMMA NextIInv == IInv /\ [Next]_crewVars => IInv'
<1> SUFFICES ASSUME IInv, [Next]_crewVars PROVE IInv'
  OBVIOUS
<1> USE DEF IInv
<1>1. ASSUME NEW s \in Children, SpawnChild(s) PROVE IInv'
  <2>1. /\ spark' = spark /\ claim' \in [Children -> Claim]
        /\ spawned' \in [Children -> Nat]
        /\ spawned' = [spawned EXCEPT ![s] = spawned[s] + 1]
    BY <1>1, ClaimForEffect DEF SpawnChild
  <2>2. TypeOK' /\ CyclesLeft' /\ CurBelowCap'
    BY <1>1, <2>1 DEF SpawnChild, outVars, TypeOK, CyclesLeft, CurBelowCap
  <2>3. \A q \in Children : /\ spawned[q] \in Nat /\ spawned[q] <= 1
                            /\ respawns[q] = 0 /\ (q \in todo => spawned[q] = 0)
    BY <1>1 DEF SpawnChild, TypeOK, AllCounted, Counted
  <2>4. ASSUME NEW q \in Children PROVE Counted(q)'
    <3>1. respawns'[q] = 0
      BY <1>1, <2>3 DEF SpawnChild
    <3>2. spawned'[q] <= 1
      BY <1>1, <2>1, <2>3 DEF SpawnChild, TypeOK
    <3>3. q \in todo' => spawned'[q] = 0
      BY <1>1, <2>1, <2>3 DEF SpawnChild, TypeOK
    <3>4. spawned'[q] \in Nat
      BY <2>1
    <3> QED
      BY <3>1, <3>2, <3>3, <3>4, CrewConstants DEF Counted
  <2> QED
    BY <2>2, <2>4 DEF AllCounted
<1>2. ASSUME NEW s \in Children, SpawnChildFails(s) PROVE IInv'
  <2>1. spawned[s] <= MaxRespawns
    BY <1>2, CrewConstants DEF SpawnChildFails, TypeOK, AllCounted, Counted
  <2> QED
    BY <1>2, <2>1, SpawnFailsEffect DEF SpawnChildFails
<1>3. CASE Prune
  <2>1. Unseen \in Report
    BY DEF Unseen, Report
  <2>2. seen' \in [Children -> Report]
    BY <1>3, <2>1 DEF Prune
  <2> QED
    BY <1>3, <2>2 DEF Prune, HeadOnly, outVars, envVars, TypeOK, CyclesLeft,
                      CurBelowCap, AllCounted, Counted
<1>4. ASSUME NEW s \in Children, PollMember(s) PROVE IInv'
  <2>1. /\ claim[s].n \in Nat /\ claim[s].block \in Nat /\ claim[s].sess \in Nat
        /\ StateOf(s) \in MemberState
    BY StateOfType DEF TypeOK, Claim
  <2>2. [state |-> StateOf(s), n |-> claim[s].n, sess |-> claim[s].sess,
         block |-> claim[s].block] \in Report
    BY <2>1 DEF Report
  <2>3. seen' \in [Children -> Report]
    BY <1>4, <2>2 DEF PollMember, TypeOK
  <2> QED
    BY <1>4, <2>3 DEF PollMember, HeadOnly, outVars, envVars, TypeOK, CyclesLeft,
                      CurBelowCap, AllCounted, Counted
<1>5. CASE PollEnds
  BY <1>5 DEF PollEnds, HeadOnly, outVars, envVars, TypeOK, CyclesLeft, CurBelowCap,
              AllCounted, Counted
<1>6. CASE NotifyStuck
  <2>1. \A s \in Children : BlockSeen(s) \in Block
    BY DEF BlockSeen, Block, TypeOK, Report
  <2>m. \A s \in Children : MarkerOf(s) \in Marker
    BY <2>1, CrewConstants DEF MarkerOf, Marker, TypeOK
  <2>2. Unnotified \in SUBSET Children /\ In({"Stalled", "Unassigned"}) \in SUBSET Children
    BY DEF Unnotified, In, TypeOK
  <2>3. ASSUME NEW E \in SUBSET Children, NEW C \in SUBSET Children, Notify(E, C)
        PROVE  told' \in SUBSET Marker /\ flared' \in SUBSET Block
    BY <2>1, <2>m, <2>3 DEF Notify, TypeOK
  <2>4. told' \in SUBSET Marker /\ flared' \in SUBSET Block
    BY <1>6, <2>2, <2>3 DEF NotifyStuck
  <2> QED
    BY <1>6, <2>2, <2>4 DEF NotifyStuck, envVars, TypeOK, CyclesLeft, CurBelowCap,
                            AllCounted, Counted
<1>7. ASSUME NEW s \in Children, SkipCapped(s) PROVE IInv'
  BY <1>7 DEF SkipCapped, HeadOnly, outVars, envVars, TypeOK, CyclesLeft, CurBelowCap,
              AllCounted, Counted
<1>8. ASSUME NEW s \in Children, Release(s) PROVE IInv'
  <2>a. claim \in [Children -> Claim] /\ [claim[s] EXCEPT !.active = FALSE] \in Claim
    BY DEF TypeOK, Claim
  <2>b. \/ claim' = claim
        \/ claim' = [claim EXCEPT ![s] = [claim[s] EXCEPT !.active = FALSE]]
    BY <1>8 DEF Release, Abandon
  <2>1. claim' \in [Children -> Claim]
    BY <2>a, <2>b
  <2>2. respawns[s] < MaxRespawns
    BY <1>8, CrewConstants DEF Release, Capped, TypeOK
  <2> QED
    BY <1>8, <2>1, <2>2 DEF Release, outVars, TypeOK, CyclesLeft, CurBelowCap,
                            AllCounted, Counted
<1>9. CASE Respawn
  <2>0. cur \in Children /\ respawns[cur] < MaxRespawns
    BY <1>9 DEF Respawn, CurBelowCap
  <2>1. /\ spark' = spark /\ claim' \in [Children -> Claim]
        /\ spawned' \in [Children -> Nat]
        /\ spawned' = [spawned EXCEPT ![cur] = spawned[cur] + 1]
    BY <1>9, <2>0, ClaimForEffect DEF Respawn
  <2>2. respawns' \in [Children -> Nat]
    BY <1>9, <2>0 DEF Respawn, TypeOK
  <2>3. TypeOK' /\ CyclesLeft' /\ CurBelowCap'
    BY <1>9, <2>1, <2>2 DEF Respawn, outVars, TypeOK, CyclesLeft, CurBelowCap
  <2>4. \A q \in Children : /\ spawned[q] \in Nat /\ respawns[q] \in Nat
                            /\ respawns[q] <= MaxRespawns /\ spawned[q] <= 1 + respawns[q]
    BY <1>9 DEF Respawn, TypeOK, AllCounted, Counted
  <2>5. ASSUME NEW q \in Children
        PROVE  respawns'[q] <= MaxRespawns /\ spawned'[q] <= 1 + respawns'[q]
    <3>1. CASE q = cur
      BY <1>9, <2>0, <2>1, <2>4, <3>1, CrewConstants DEF Respawn, TypeOK
    <3>2. CASE q # cur
      BY <1>9, <2>1, <2>4, <3>2 DEF Respawn, TypeOK
    <3> QED
      BY <3>1, <3>2
  <2>6. AllCounted'
    BY <1>9, <2>1, <2>2, <2>5, CrewConstants DEF Respawn, AllCounted, Counted
  <2> QED
    BY <2>3, <2>6
<1>10. CASE RespawnFails
  <2>1. cur \in Children /\ spawned[cur] <= MaxRespawns
    BY <1>10, CrewConstants DEF RespawnFails, CurBelowCap, TypeOK, AllCounted, Counted
  <2> QED
    BY <1>10, <2>1, SpawnFailsEffect DEF RespawnFails
<1>11. CASE EndCycle
  <2>1. cycles \in Nat /\ cycles < MaxCycles
    BY <1>11 DEF EndCycle, TypeOK, CyclesLeft
  <2>2. cycles' \in 0..MaxCycles /\ CyclesLeft'
    BY <1>11, <2>1, CrewConstants DEF EndCycle, CyclesLeft
  <2> QED
    BY <1>11, <2>2 DEF EndCycle, HeadOnly, outVars, envVars, TypeOK, CurBelowCap,
                       AllCounted, Counted
<1>12. CASE Finalize
  BY <1>12 DEF Finalize, envVars, TypeOK, CyclesLeft, CurBelowCap, AllCounted, Counted
<1>13. CASE HeadDies
  BY <1>13 DEF HeadDies, HeadOnly, outVars, envVars, TypeOK, CyclesLeft, CurBelowCap,
               AllCounted, Counted
<1>14. CASE Restart
  <2>1. Unseen \in Report
    BY DEF Unseen, Report
  <2>2. /\ seen' \in [Children -> Report] /\ respawns' \in [Children -> Nat]
        /\ spawned' \in [Children -> Nat] /\ cycles' \in 0..MaxCycles
    BY <1>14, <2>1, CrewConstants DEF Restart
  <2>3. life' \in 1..MaxLives
    BY <1>14, CrewConstants DEF Restart, TypeOK
  <2>4. TypeOK' /\ CyclesLeft' /\ CurBelowCap'
    BY <1>14, <2>2, <2>3, CrewConstants DEF Restart, outVars, envVars, TypeOK,
                                            CyclesLeft, CurBelowCap
  <2> QED
    BY <1>14, <2>4, CrewConstants DEF Restart, AllCounted, Counted
<1>15. ASSUME NEW s \in Children, Env(s) PROVE IInv'
  BY <1>15, EnvEffect DEF EnvUnchanged, headVars, outVars, TypeOK, CyclesLeft,
                          CurBelowCap, AllCounted, Counted
<1>16. CASE UNCHANGED crewVars
  BY <1>16 DEF crewVars, envVars, headVars, outVars, TypeOK, CyclesLeft, CurBelowCap,
               AllCounted, Counted
<1> QED
  BY <1>1, <1>2, <1>3, <1>4, <1>5, <1>6, <1>7, <1>8, <1>9, <1>10, <1>11, <1>12, <1>13,
     <1>14, <1>15, <1>16 DEF Next, HeadStep

LEMMA Inductive == Spec => []IInv
BY InitIInv, NextIInv, PTL DEF Spec

\* Every reachable state of the crew is well typed.
THEOREM TypeCorrectness == Spec => []TypeOK
<1>1. IInv => TypeOK
  BY DEF IInv
<1> QED
  BY <1>1, Inductive, PTL

\* reassign_stalled: whatever fails or is raced, a child gets at most one Hand
\* more than max_respawns_per_spark in one run.
THEOREM RespawnsAreCapped == Spec => []RespawnCap
<1>1. IInv => RespawnCap
  BY DEF IInv, AllCounted, Counted, RespawnCap
<1> QED
  BY <1>1, Inductive, PTL

-----------------------------------------------------------------------------
(* Releases hit silent Hands. *)

\* A session that is silent now, or was when it was polled, is remembered.
ReportOfSilence ==
  \A s \in Children :
    /\ ~claim[s].fresh => claim[s].sess \in claim[s].hushed
    /\ seen[s].state = "Stalled" => seen[s].sess \in claim[s].hushed

LEMMA ReportOfSilenceStep ==
  ASSUME IInv, ReportOfSilence, [Next]_crewVars
  PROVE  ReportOfSilence'
<1>a. ASSUME UNCHANGED seen, \A q \in Children : Remembers(q)
      PROVE  ReportOfSilence'
  BY <1>a DEF ReportOfSilence, Remembers
<1>b. UNCHANGED claim => \A q \in Children : Remembers(q)
  BY DEF Remembers
<1>1. ASSUME NEW s \in Children, SpawnChild(s) PROVE ReportOfSilence'
  BY <1>1, <1>a, ClaimForEffect DEF SpawnChild, IInv
<1>2. ASSUME NEW s \in Children, SpawnFails(s) PROVE ReportOfSilence'
  BY <1>2, <1>a, <1>b, ClaimForEffect DEF SpawnFails, envVars, IInv
<1>3. CASE Prune \/ Restart
  <2>1. UNCHANGED claim /\ seen' = [s \in Children |-> Unseen]
    BY <1>3 DEF Prune, Restart, HeadOnly, envVars
  <2> QED
    BY <2>1 DEF ReportOfSilence, Unseen
<1>4. ASSUME NEW s \in Children, PollMember(s) PROVE ReportOfSilence'
  <2>1. /\ UNCHANGED claim
        /\ seen'[s].state = StateOf(s) /\ seen'[s].sess = claim[s].sess
        /\ \A q \in Children : q # s => seen'[q] = seen[q]
    BY <1>4 DEF PollMember, HeadOnly, envVars, IInv, TypeOK
  <2>2. StateOf(s) = "Stalled" => ~claim[s].fresh
    BY DEF StateOf, OwnerState
  <2> QED
    BY <2>1, <2>2 DEF ReportOfSilence
<1>5. CASE \/ PollEnds \/ NotifyStuck \/ EndCycle \/ Finalize \/ HeadDies
           \/ (\E s \in Children : SkipCapped(s)) \/ UNCHANGED crewVars
  <2>1. UNCHANGED <<claim, seen>>
    BY <1>5 DEF PollEnds, NotifyStuck, EndCycle, Finalize, HeadDies, SkipCapped,
                HeadOnly, envVars, crewVars, headVars
  <2> QED
    BY <2>1, <1>a, <1>b
<1>6. ASSUME NEW s \in Children, Release(s) PROVE ReportOfSilence'
  <2>1. UNCHANGED seen
    BY <1>6 DEF Release
  <2>a. claim \in [Children -> Claim]
    BY DEF IInv, TypeOK
  <2>b. \/ claim' = claim
        \/ claim' = [claim EXCEPT ![s] = [claim[s] EXCEPT !.active = FALSE]]
    BY <1>6 DEF Release, Abandon
  <2>2. \A q \in Children : claim'[q].sess = claim[q].sess
                            /\ claim'[q].hushed = claim[q].hushed
                            /\ claim'[q].fresh = claim[q].fresh
    BY <2>a, <2>b DEF Claim
  <2> QED
    BY <2>1, <2>2 DEF ReportOfSilence
<1>7. CASE Respawn
  <2>1. cur \in Children
    BY <1>7 DEF Respawn, IInv, CurBelowCap
  <2> QED
    BY <1>7, <1>a, <2>1, ClaimForEffect DEF Respawn, IInv
<1>8. CASE RespawnFails
  BY <1>2, <1>8 DEF RespawnFails, IInv, CurBelowCap
<1>9. ASSUME NEW s \in Children, Env(s) PROVE ReportOfSilence'
  BY <1>9, <1>a, EnvEffect DEF EnvUnchanged, headVars, IInv
<1> QED
  BY <1>1, <1>2, <1>3, <1>4, <1>5, <1>6, <1>7, <1>8, <1>9
     DEF Next, HeadStep, SpawnChildFails

LEMMA ReportHolds == Spec => [](IInv /\ ReportOfSilence)
<1>1. ASSUME Init PROVE ReportOfSilence
  <2> SUFFICES ASSUME NEW s \in Children
               PROVE  claim[s].fresh /\ seen[s].state # "Stalled"
    BY DEF ReportOfSilence
  <2> QED
    BY <1>1 DEF Init, NoClaim, Unseen
<1>2. IInv /\ ReportOfSilence /\ [Next]_crewVars => ReportOfSilence'
  BY ReportOfSilenceStep
<1> QED
  BY <1>1, <1>2, Inductive, PTL DEF Spec

\* reassign_stalled: the session it abandons had stopped beating on this child;
\* what another session claims between the poll and the release stays.  The fresh
\* claim of the silent session itself does not.
THEOREM ReleasesAreDue == Spec => OnlySilentHandsLoseTheirClaim
<1> DEFINE Due == \A s \in Children :
      cur' = s /\ cur # s /\ claim[s].active /\ ~claim'[s].active
        => claim[s].sess \in claim[s].hushed
<1>1. ASSUME IInv, ReportOfSilence, Next PROVE Due
  <2>1. ASSUME NEW s \in Children, cur' = s, cur # s PROVE Release(s)
    <3>1. cur' # cur /\ cur' # NoChild
      BY <2>1, CrewConstants
    <3>2. PICK q \in Children : Release(q)
      BY <1>1, <3>1
         DEF Next, HeadStep, SpawnChild, SpawnChildFails, SpawnFails, PollMember,
             SkipCapped, Prune, PollEnds, NotifyStuck, Respawn, RespawnFails, EndCycle,
             Finalize, HeadDies, Restart, Env, Quiet, Beat, EndClaim, CloseSpark, Reopen,
             RivalClaims, ClaimsAgain, GetStuck, Override, EnvUnchanged, headVars
    <3> QED
      BY <2>1, <3>2 DEF Release
  <2> SUFFICES ASSUME NEW s \in Children, cur' = s, cur # s, claim[s].active,
                      ~claim'[s].active
               PROVE  claim[s].sess \in claim[s].hushed
    OBVIOUS
  <2>2. Release(s)
    BY <2>1
  <2>3. seen[s].state = "Stalled" /\ seen[s].sess = claim[s].sess
    BY <2>2 DEF Release, Abandon
  <2> QED
    BY <1>1, <2>3 DEF ReportOfSilence
<1>2. IInv /\ ReportOfSilence /\ [Next]_crewVars => [Due]_crewVars
  BY <1>1
<1> QED
  BY <1>2, ReportHolds, PTL DEF Spec, OnlySilentHandsLoseTheirClaim

-----------------------------------------------------------------------------
(* Markers. *)

LEMMA MarkerStep ==
  ASSUME OneMarkerPerAssignment, [Next]_crewVars
  PROVE  OneMarkerPerAssignment'
<1>1. ASSUME NEW E, NEW C \in SUBSET Unnotified, Notify(E, C)
      PROVE  OneMarkerPerAssignment'
  <2>1. told' = told \cup {MarkerOf(s) : s \in C}
    BY <1>1 DEF Notify
  <2>2. ASSUME NEW s \in C, NEW t \in told
        PROVE  ~(t.block[1] = s /\ t.block[2] = seen[s].n)
    BY <2>2 DEF Unnotified
  <2>3. \A s \in C : MarkerOf(s).block[1] = s /\ MarkerOf(s).block[2] = seen[s].n
    BY DEF MarkerOf, BlockSeen
  <2> SUFFICES ASSUME NEW t \in told', NEW u \in told',
                      t.block[1] = u.block[1], t.block[2] = u.block[2]
               PROVE  t = u
    BY DEF OneMarkerPerAssignment
  <2>4. CASE t \in told /\ u \in told
    BY <2>4 DEF OneMarkerPerAssignment
  <2>5. CASE \E s \in C : t = MarkerOf(s)
    BY <2>1, <2>2, <2>3, <2>5
  <2>6. CASE \E s \in C : u = MarkerOf(s)
    BY <2>1, <2>2, <2>3, <2>6
  <2> QED
    BY <2>1, <2>4, <2>5, <2>6
<1>2. CASE NotifyStuck
  BY <1>1, <1>2 DEF NotifyStuck
<1>3. CASE UNCHANGED told
  BY <1>3 DEF OneMarkerPerAssignment
<1>4. NotifyStuck \/ UNCHANGED told
  BY DEF Next, HeadStep, SpawnChild, SpawnChildFails, SpawnFails, PollMember,
         SkipCapped, Release, Prune, PollEnds, Respawn, RespawnFails, EndCycle,
         Finalize, HeadDies, Restart, Env, Quiet, Beat, EndClaim, CloseSpark, Reopen,
         RivalClaims, ClaimsAgain, GetStuck, Override, EnvUnchanged, HeadOnly, outVars, crewVars
<1> QED
  BY <1>2, <1>3, <1>4

\* notify_stuck: no two passes comment on one assignment, whatever fails, however
\* often it gets stuck, is polled stuck and the command is started.
THEOREM MarkersAreSingle == Spec => []OneMarkerPerAssignment
<1>1. Init => OneMarkerPerAssignment
  BY DEF Init, OneMarkerPerAssignment
<1> QED
  BY <1>1, MarkerStep, PTL DEF Spec

\* notify_stuck: the marker is written after the flare it stands for, so a pass
\* that fails in between repeats the flare and never loses it.
THEOREM MarkersFollowFlares == Spec => []NoSilentMarker
<1>1. Init => NoSilentMarker
  BY DEF Init, NoSilentMarker
<1>2. ASSUME NoSilentMarker, [Next]_crewVars PROVE NoSilentMarker'
  <2>1. CASE NotifyStuck
    <3>1. PICK E \in SUBSET Unnotified, C \in SUBSET Unnotified :
            C \subseteq E /\ Notify(E, C)
      <4>1. CASE Notify(Unnotified, Unnotified)
        BY <4>1
      <4>2. CASE \E done \in SUBSET Unnotified : Notify(done, done)
        BY <4>2
      <4>3. CASE \E done \in SUBSET Unnotified :
                   \E s \in Unnotified \ done : Notify(done \cup {s}, done)
        <5>1. PICK done \in SUBSET Unnotified, s \in Unnotified :
                Notify(done \cup {s}, done)
          BY <4>3
        <5>2. done \cup {s} \in SUBSET Unnotified /\ done \subseteq done \cup {s}
          OBVIOUS
        <5> QED
          BY <5>1, <5>2
      <4> QED
        BY <2>1, <4>1, <4>2, <4>3 DEF NotifyStuck
    <3>2. ASSUME NEW t \in told' PROVE t.block \in flared'
      <4>1. CASE t \in told
        BY <1>2, <3>1, <4>1 DEF Notify, NoSilentMarker
      <4>2. CASE \E s \in C : t = MarkerOf(s)
        BY <3>1, <4>2 DEF Notify, MarkerOf
      <4> QED
        BY <3>1, <4>1, <4>2 DEF Notify
    <3> QED
      BY <3>2 DEF NoSilentMarker
  <2>2. CASE UNCHANGED <<told, flared>>
    BY <1>2, <2>2 DEF NoSilentMarker
  <2>3. NotifyStuck \/ UNCHANGED <<told, flared>>
    BY <1>2 DEF Next, HeadStep, SpawnChild, SpawnChildFails, SpawnFails, PollMember,
         SkipCapped, Release, Prune, PollEnds, Respawn, RespawnFails, EndCycle,
         Finalize, HeadDies, Restart, Env, Quiet, Beat, EndClaim, CloseSpark, Reopen,
         RivalClaims, ClaimsAgain, GetStuck, Override, EnvUnchanged, HeadOnly, outVars, crewVars
  <2> QED
    BY <2>1, <2>2, <2>3
<1> QED
  BY <1>1, <1>2, PTL DEF Spec

-----------------------------------------------------------------------------
(* The Merger, where closed sparks stay closed. *)

Finished == {"Completed", "ClosedOther"}

\* What was dropped is closed, and what the report calls closed still is.
ClosedStayClosed ==
  /\ pc \notin {"spawn", "dead"} =>
       \A s \in Children : s \notin tracked => spark[s] # "open"
  /\ \A s \in Children : seen[s].state \in Finished => spark[s] # "open"
  /\ pc = "finalize" => AllDone
  /\ MergerAfterClose

LEMMA ClosedStep ==
  ASSUME ~Reopens, IInv, ClosedStayClosed, [Next]_crewVars
  PROVE  ClosedStayClosed'
<1> USE DEF Finished
<1>a. ASSUME spark' = spark, seen' = seen, tracked' = tracked, merger' = merger,
             pc' \notin {"spawn", "dead"} => pc \notin {"spawn", "dead"},
             pc' = "finalize" => pc = "finalize" \/ AllDone
      PROVE  ClosedStayClosed'
  BY <1>a DEF ClosedStayClosed, AllDone, In, MergerAfterClose
<1>1. ASSUME NEW s \in Children, SpawnChild(s) PROVE ClosedStayClosed'
  <2>1. UNCHANGED <<spark, seen, merger>>
    BY <1>1 DEF SpawnChild, ClaimFor, outVars
  <2>2. pc' = "spawn" \/ (pc' = "prune" /\ tracked' = Children)
    BY <1>1 DEF SpawnChild
  <2> QED
    BY <2>1, <2>2 DEF ClosedStayClosed, MergerAfterClose
<1>2. ASSUME NEW s \in Children, SpawnFails(s) PROVE ClosedStayClosed'
  BY <1>2, <1>a DEF SpawnFails, ClaimFor, envVars, outVars
<1>3. CASE Prune
  <2>1. UNCHANGED <<spark, merger>> /\ pc' = "poll" /\ pc = "prune"
    BY <1>3 DEF Prune, HeadOnly, envVars, outVars
  <2>2. \A s \in Children : s \notin tracked' => spark[s] # "open"
    BY <1>3, <2>1 DEF Prune, Dropped, ClosedStayClosed
  <2>3. \A s \in Children : seen'[s].state = "none"
    BY <1>3 DEF Prune, Unseen
  <2> QED
    BY <2>1, <2>2, <2>3 DEF ClosedStayClosed, MergerAfterClose
<1>4. ASSUME NEW s \in Children, PollMember(s) PROVE ClosedStayClosed'
  <2>1. UNCHANGED <<spark, tracked, merger, pc>> /\ pc = "poll"
    BY <1>4 DEF PollMember, HeadOnly, envVars, outVars
  <2>2. /\ seen'[s].state = StateOf(s)
        /\ \A q \in Children : q # s => seen'[q] = seen[q]
    BY <1>4 DEF PollMember, IInv, TypeOK
  <2>3. StateOf(s) \in Finished => spark[s] # "open"
    BY DEF StateOf, OwnerState
  <2> QED
    BY <2>1, <2>2, <2>3 DEF ClosedStayClosed, MergerAfterClose
<1>5. CASE \/ PollEnds \/ NotifyStuck \/ EndCycle \/ HeadDies
           \/ (\E s \in Children : SkipCapped(s) \/ Release(s)) \/ UNCHANGED crewVars
  BY <1>5, <1>a DEF PollEnds, NotifyStuck, Notify, EndCycle, HeadDies, SkipCapped, Release,
                    HeadOnly, envVars, outVars, headVars, crewVars
<1>6. CASE Respawn
  BY <1>6, <1>a DEF Respawn, ClaimFor, outVars
<1>7. CASE RespawnFails
  BY <1>2, <1>7 DEF RespawnFails, IInv, CurBelowCap
<1>8. CASE Finalize
  <2>1. UNCHANGED <<spark, seen, tracked>> /\ pc = "finalize" /\ pc' = "done"
    BY <1>8 DEF Finalize, envVars
  <2>2. \A s \in Children : spark[s] # "open"
    BY <2>1 DEF ClosedStayClosed, AllDone, In
  <2> QED
    BY <2>1, <2>2 DEF ClosedStayClosed, MergerAfterClose
<1>9. CASE Restart
  <2>1. UNCHANGED <<spark, merger>> /\ pc' = "spawn"
    BY <1>9 DEF Restart, envVars, outVars
  <2>2. \A s \in Children : seen'[s].state = "none"
    BY <1>9 DEF Restart, Unseen
  <2> QED
    BY <2>1, <2>2 DEF ClosedStayClosed, MergerAfterClose
<1>10. ASSUME NEW s \in Children, Env(s) PROVE ClosedStayClosed'
  <2>1. UNCHANGED <<pc, tracked, seen, merger>>
    BY <1>10, EnvEffect DEF EnvUnchanged, headVars, outVars, IInv
  <2>2. \A q \in Children : spark[q] # "open" => spark'[q] # "open"
    BY <1>10 DEF Env, Quiet, Beat, EndClaim, CloseSpark, Reopen, RivalClaims,
                 ClaimsAgain, GetStuck, Override, IInv, TypeOK
  <2> QED
    BY <2>1, <2>2 DEF ClosedStayClosed, MergerAfterClose, AllDone, In
<1> QED
  BY <1>1, <1>2, <1>3, <1>4, <1>5, <1>6, <1>7, <1>8, <1>9, <1>10
     DEF Next, HeadStep, SpawnChildFails

\* finalize_with_merger: with no spark reopened, the Merger starts on closed
\* children only, however old the report and whatever was dropped or failed.
THEOREM MergerWaits == ASSUME ~Reopens PROVE Spec => []MergerAfterClose
<1>1. Init => ClosedStayClosed
  BY DEF Init, ClosedStayClosed, MergerAfterClose, Unseen, Finished
<1>2. IInv /\ ClosedStayClosed /\ [Next]_crewVars => ClosedStayClosed'
  BY ClosedStep
<1>3. ClosedStayClosed => MergerAfterClose
  BY DEF ClosedStayClosed
<1> QED
  BY <1>1, <1>2, <1>3, Inductive, PTL DEF Spec

-----------------------------------------------------------------------------
(* The end of a run: the provable half of MergerComes. *)

\* The steps of a cycle in their order; a respawn is part of the reassigning.
Stage(at) ==
  CASE at = "spawn" -> 0 [] at = "prune" -> 1 [] at = "poll" -> 2
    [] at = "notify" -> 3 [] at \in {"reassign", "respawn"} -> 4
    [] at = "finalize" -> 5 [] OTHER -> 6

\* Each step of the command takes it to a later cycle, a later stage of this
\* one, or takes a child off the pass; a release comes once before that.
CommandAdvances ==
  [][HeadStep =>
       \/ cycles' > cycles
       \/ /\ cycles' = cycles
          /\ \/ Stage(pc') > Stage(pc)
             \/ /\ Stage(pc') = Stage(pc) /\ todo' \subseteq todo
                /\ todo' # todo \/ (pc = "reassign" /\ pc' = "respawn")]_crewVars

\* The command has a child to go on with wherever it needs one.
HasWork ==
  /\ pc = "spawn" => todo # {}
  /\ pc = "respawn" => cur \in todo

\* On the way to the Merger: every child is closed, one that is on the list as
\* completed, and the pass that is under way has seen nothing else.
Wrapping ==
  \/ merger
  \/ /\ \A s \in Children : spark[s] # "open"
     /\ \E s \in tracked : spark[s] = "completed"
     /\ \/ pc = "prune"
        \/ pc = "poll" /\ \A s \in tracked \ todo : seen[s].state \in Finished
        \/ pc \in {"notify", "finalize"} /\ AllDone

\* Once on the way, the command gets nowhere but to the Merger or its end.
WrapsUp == [][Wrapping /\ pc' # "dead" => Wrapping']_crewVars

LEMMA HasWorkStep ==
  ASSUME Children # {}, IInv, HasWork, [Next]_crewVars
  PROVE  HasWork'
<1> USE DEF HasWork
<1>1. ASSUME NEW s \in Children, SpawnChild(s) PROVE HasWork'
  BY <1>1 DEF SpawnChild, ClaimFor, IInv, TypeOK
<1>2. ASSUME NEW s \in Children, SpawnFails(s) PROVE HasWork'
  BY <1>2 DEF SpawnFails
<1>3. ASSUME NEW s \in Children, PollMember(s) \/ SkipCapped(s) \/ Release(s)
      PROVE  HasWork'
  BY <1>3 DEF PollMember, SkipCapped, Release
<1>4. CASE Prune \/ PollEnds \/ NotifyStuck \/ Respawn \/ EndCycle \/ Finalize
  BY <1>4 DEF Prune, PollEnds, NotifyStuck, Respawn, EndCycle, Finalize
<1>5. CASE RespawnFails
  BY <1>2, <1>5 DEF RespawnFails, IInv, CurBelowCap
<1>6. CASE HeadDies \/ Restart
  BY <1>6 DEF HeadDies, Restart
<1>7. ASSUME NEW s \in Children, Env(s) PROVE HasWork'
  BY <1>7, EnvEffect DEF EnvUnchanged, headVars, IInv
<1>8. CASE UNCHANGED crewVars
  BY <1>8 DEF crewVars, headVars
<1> QED
  BY <1>1, <1>2, <1>3, <1>4, <1>5, <1>6, <1>7, <1>8
     DEF Next, HeadStep, SpawnChildFails

LEMMA HasWorkHolds == ASSUME Children # {} PROVE Spec => []HasWork
<1>1. Init => HasWork
  BY DEF Init, HasWork
<1>2. IInv /\ HasWork /\ [Next]_crewVars => HasWork'
  BY HasWorkStep
<1> QED
  BY <1>1, <1>2, Inductive, PTL DEF Spec

\* The loop of `ryve head orchestrate` ends: whatever the Hands and rivals do,
\* it has max_cycles cycles of six stages, and each stage visits a child once.
THEOREM CommandEnds == ASSUME Children # {} PROVE Spec => CommandAdvances
<1> DEFINE Onward ==
      \/ cycles' > cycles
      \/ /\ cycles' = cycles
         /\ \/ Stage(pc') > Stage(pc)
            \/ /\ Stage(pc') = Stage(pc) /\ todo' \subseteq todo
               /\ todo' # todo \/ (pc = "reassign" /\ pc' = "respawn")
<1>1. ASSUME IInv, HasWork, HeadStep PROVE Onward
  <2>0. cycles \in Nat
    BY <1>1, CrewConstants DEF IInv, TypeOK
  <2>1. ASSUME NEW s \in Children, SpawnChild(s) PROVE Onward
    BY <1>1, <2>1 DEF SpawnChild, Stage
  <2>2. ASSUME pc \in {"spawn", "respawn"}, NEW s \in Children, SpawnFails(s)
        PROVE  Onward
    BY <2>2 DEF SpawnFails, Stage
  <2>3. ASSUME NEW s \in Children, PollMember(s) \/ SkipCapped(s) PROVE Onward
    BY <2>3 DEF PollMember, SkipCapped, Stage
  <2>4. ASSUME NEW s \in Children, Release(s) PROVE Onward
    BY <2>4 DEF Release, Stage
  <2>5. CASE Prune \/ PollEnds \/ NotifyStuck \/ Finalize
    BY <2>5 DEF Prune, PollEnds, NotifyStuck, Finalize, Stage
  <2>6. CASE Respawn
    <3>1. pc = "respawn" /\ pc' = "reassign" /\ cycles' = cycles
          /\ todo' = todo \ {cur} /\ cur \in todo
      BY <1>1, <2>6 DEF Respawn, HasWork
    <3>2. Stage(pc) = 4 /\ Stage(pc') = 4
      BY <3>1 DEF Stage
    <3> QED
      BY <3>1, <3>2
  <2>7. CASE RespawnFails
    BY <1>1, <2>2, <2>7 DEF RespawnFails, IInv, CurBelowCap
  <2>8. CASE EndCycle
    BY <2>0, <2>8 DEF EndCycle
  <2> QED
    BY <1>1, <2>1, <2>2, <2>3, <2>4, <2>5, <2>6, <2>7, <2>8
       DEF HeadStep, SpawnChildFails
<1>2. IInv /\ HasWork /\ [Next]_crewVars => [HeadStep => Onward]_crewVars
  BY <1>1
<1> QED
  BY <1>2, HasWorkHolds, Inductive, PTL DEF Spec, CommandAdvances

\* Closed children stay as they are where nothing is reopened, and only Finalize
\* spawns the Merger.
LEMMA ClosedChildrenStay ==
  ASSUME ~Reopens, IInv, [Next]_crewVars
  PROVE  /\ \A s \in Children : spark[s] # "open" => spark'[s] = spark[s]
         /\ merger => merger'
<1>1. ASSUME NEW s \in Children, SpawnChild(s) \/ SpawnFails(s)
      PROVE  UNCHANGED <<spark, merger>>
  BY <1>1 DEF SpawnChild, SpawnFails, ClaimFor, envVars, outVars
<1>2. ASSUME NEW s \in Children, PollMember(s) \/ SkipCapped(s) \/ Release(s)
      PROVE  UNCHANGED <<spark, merger>>
  BY <1>2 DEF PollMember, SkipCapped, Release, HeadOnly, envVars, outVars
<1>3. CASE Prune \/ PollEnds \/ NotifyStuck \/ EndCycle \/ HeadDies \/ Restart
  BY <1>3 DEF Prune, PollEnds, NotifyStuck, EndCycle, HeadDies, Restart, HeadOnly,
              envVars, outVars
<1>4. CASE Respawn
  BY <1>4 DEF Respawn, ClaimFor, outVars
<1>5. CASE RespawnFails
  BY <1>1, <1>5 DEF RespawnFails, IInv, CurBelowCap
<1>6. CASE Finalize
  BY <1>6 DEF Finalize, envVars
<1>7. ASSUME NEW s \in Children, Env(s)
      PROVE  /\ \A q \in Children : spark[q] # "open" => spark'[q] = spark[q]
             /\ UNCHANGED merger
  <2>1. UNCHANGED merger
    BY <1>7, EnvEffect DEF EnvUnchanged, outVars, IInv
  <2>2. \A q \in Children : spark[q] # "open" => spark'[q] = spark[q]
    BY <1>7 DEF Env, Quiet, Beat, EndClaim, CloseSpark, Reopen, RivalClaims,
                ClaimsAgain, GetStuck, Override, IInv, TypeOK
  <2> QED
    BY <2>1, <2>2
<1>8. CASE UNCHANGED crewVars
  BY <1>8 DEF crewVars, envVars, outVars
<1> QED
  BY <1>1, <1>2, <1>3, <1>4, <1>5, <1>6, <1>7, <1>8
     DEF Next, HeadStep, SpawnChildFails

\* With no spark reopened, a command that starts a cycle when all children are
\* closed, one it still lists as completed, polls nothing but closed ones, drops
\* none that it needs and passes the gate of the Merger; only its death or its
\* last step is in the way.
THEOREM MergerIsInReach == ASSUME ~Reopens PROVE Spec => WrapsUp
<1>1. ASSUME IInv, [Next]_crewVars, Wrapping, pc' # "dead" PROVE Wrapping'
  <2>0. /\ \A s \in Children : spark[s] # "open" => spark'[s] = spark[s]
        /\ merger => merger'
    BY <1>1, ClosedChildrenStay
  <2>1. CASE merger
    BY <2>0, <2>1 DEF Wrapping
  <2>2. CASE ~merger
    <3>1. /\ \A s \in Children : spark[s] # "open" /\ spark'[s] = spark[s]
          /\ tracked \in SUBSET Children
      BY <1>1, <2>0, <2>2 DEF Wrapping, IInv, TypeOK
    <3>2. PICK c \in tracked : spark[c] = "completed"
      BY <1>1, <2>2 DEF Wrapping
    <3>3. pc \in {"prune", "poll", "notify", "finalize"}
      BY <1>1, <2>2 DEF Wrapping
    <3>a. ASSUME UNCHANGED <<pc, tracked, todo, seen>> PROVE Wrapping'
      BY <1>1, <2>2, <3>1, <3>2, <3>a DEF Wrapping, AllDone, In
    <3>4. CASE Prune
      <4>1. pc' = "poll" /\ todo' = tracked' /\ c \in tracked'
            /\ tracked' \subseteq tracked
        BY <3>2, <3>4 DEF Prune, Dropped
      <4> QED
        BY <3>1, <3>2, <4>1 DEF Wrapping
    <3>5. ASSUME NEW s \in Children, PollMember(s) PROVE Wrapping'
      <4>1. /\ UNCHANGED <<tracked, pc>> /\ pc = "poll" /\ todo' = todo \ {s}
            /\ seen'[s].state = StateOf(s)
            /\ \A q \in Children : q # s => seen'[q] = seen[q]
        BY <1>1, <3>5 DEF PollMember, IInv, TypeOK
      <4>2. StateOf(s) \in Finished
        BY <1>1, <3>1 DEF StateOf, Finished, IInv, TypeOK
      <4>3. \A q \in tracked' \ todo' : seen'[q].state \in Finished
        BY <1>1, <2>2, <3>1, <4>1, <4>2 DEF Wrapping
      <4> QED
        BY <3>1, <3>2, <4>1, <4>3 DEF Wrapping
    <3>6. CASE PollEnds
      <4>1. UNCHANGED <<tracked, seen>> /\ pc = "poll" /\ todo = {} /\ pc' = "notify"
        BY <3>6 DEF PollEnds
      <4>2. \A q \in tracked : seen[q].state \in Finished
        BY <1>1, <2>2, <4>1 DEF Wrapping
      <4>3. AllDone'
        BY <3>2, <4>1, <4>2 DEF AllDone, In, Finished
      <4> QED
        BY <3>1, <3>2, <4>1, <4>3 DEF Wrapping
    <3>7. CASE NotifyStuck
      <4>1. UNCHANGED <<tracked, seen>> /\ AllDone /\ pc' = "finalize"
        BY <1>1, <2>2, <3>7 DEF NotifyStuck, Wrapping
      <4>2. AllDone'
        BY <4>1 DEF AllDone, In
      <4> QED
        BY <3>1, <3>2, <4>1, <4>2 DEF Wrapping
    <3>8. CASE Finalize
      BY <3>8 DEF Finalize, Wrapping
    <3>9. ASSUME NEW s \in Children, Env(s) PROVE Wrapping'
      BY <1>1, <3>9, <3>a, EnvEffect DEF EnvUnchanged, headVars, IInv
    <3>10. CASE UNCHANGED crewVars
      BY <3>10, <3>a DEF crewVars, headVars
    <3>11. \/ Prune \/ PollEnds \/ NotifyStuck \/ Finalize \/ UNCHANGED crewVars
           \/ \E s \in Children : PollMember(s) \/ Env(s)
      BY <1>1, <3>3
         DEF Next, HeadStep, SpawnChild, SpawnChildFails, SkipCapped, Release, Respawn,
             RespawnFails, EndCycle, HeadDies, Restart
    <3> QED
      BY <3>4, <3>5, <3>6, <3>7, <3>8, <3>9, <3>10, <3>11
  <2> QED
    BY <2>1, <2>2
<1>2. IInv /\ [Next]_crewVars => [Wrapping /\ pc' # "dead" => Wrapping']_crewVars
  BY <1>1
<1> QED
  BY <1>2, Inductive, PTL DEF Spec, WrapsUp
=============================================================================
