-------------------------- MODULE HandClaimsProofs --------------------------
(***************************************************************************)
(* For any number of Hands and sparks, both spawn paths, every fault and   *)
(* every command of the operator and the user: a spark has one owner at a  *)
(* time, claims implement SparkOwnership, and no Hand is launched in tmux  *)
(* without having claimed its spark.  Where the UI neither spawns nor      *)
(* deletes, a stranded claim always has a session row to be found by.      *)
(***************************************************************************)
EXTENDS HandClaims, TLAPS

USE ClaimConstants

-----------------------------------------------------------------------------
(* What a step does to claims and targets. *)

\* The claim is written last but one, so a spawn that has not come that far
\* owns nothing and its target may still change.
ClaimAfterSession ==
  \A h \in Hands :
    /\ spawner[h] \in {"idle", "begun", "persisted"} => claim[h] = "none"
    /\ spawner[h] = "claimed" => claim[h] # "none"

Takes(h) == Assign(h) /\ target' = target

Ends(h) ==
  /\ \E ended \in {"completed", "abandoned"} : EndClaim(h, ended)
  /\ target' = target

Aims(h) ==
  /\ spawner[h] = "idle" /\ claim' = claim
  /\ \E s \in Sparks : target' = [target EXCEPT ![h] = s]

\* Every step takes a free spark, ends one claim, names the spark of a spawn
\* that begins, or does nothing to claims and targets.
LEMMA StepOnClaims ==
  ASSUME [Next]_claimVars
  PROVE  \/ \E h \in Hands : Takes(h) \/ Ends(h) \/ Aims(h)
         \/ UNCHANGED <<claim, target>>
<1>1. CASE \E h \in Hands : SpawnNext(h)
  <2>1. PICK h \in Hands : SpawnNext(h)
    BY <1>1
  <2>2. CASE \E s \in Sparks : BeginSpawn(h, s) \/ UiSpawn(h, s)
    BY <2>2 DEF BeginSpawn, UiSpawn, Aims, SpawnAt
  <2>3. CASE SpawnClaim(h) \/ UiAssign(h)
    BY <2>3 DEF SpawnClaim, UiAssign, Takes
  <2>4. CASE AbortAbandon(h)
    <3>1. CASE EndClaim(h, "abandoned")
      BY <2>4, <3>1 DEF AbortAbandon, Ends
    <3>2. CASE UNCHANGED claim
      BY <2>4, <3>2 DEF AbortAbandon
    <3> QED
      BY <2>4, <3>1, <3>2 DEF AbortAbandon
  <2> QED
    BY <2>1, <2>2, <2>3, <2>4
    DEF SpawnNext, PersistSession, SpawnRefused, Launch, AbortEnd, SpawnDies,
        UiPersistSession, UiTerminal, UiSettled
<1>2. CASE \E h \in Hands : HandNext(h)
  <2>1. PICK h \in Hands : HandNext(h)
    BY <1>2
  <2>2. CASE AssignClaim(h)
    BY <2>2 DEF AssignClaim, Takes
  <2>3. CASE AssignClose(h) \/ AssignRelease(h) \/ SweepAbandon(h)
    BY <2>3 DEF AssignClose, AssignRelease, SweepAbandon, Ends
  <2> QED
    BY <2>1, <2>2, <2>3
    DEF HandNext, Exit, TerminalClosed, ResumeAgent, DeleteSession
<1>3. CASE \E s \in Sparks : CloseSpark(s)
  BY <1>3 DEF CloseSpark
<1>4. CASE RecNext
  <2>1. CASE \E h \in Hands : RecAbandon(h)
    BY <2>1 DEF RecAbandon, Ends
  <2> QED
    BY <1>4, <2>1 DEF RecNext, RecList, RecRead, RecReadFails, RecDone, RecEnd,
                      RecEndFails, RecAbandonFails
<1>5. CASE AppCrash
  BY <1>5 DEF AppCrash
<1>6. CASE UNCHANGED claimVars
  BY <1>6 DEF claimVars
<1> QED
  BY <1>1, <1>2, <1>3, <1>4, <1>5, <1>6 DEF Next

-----------------------------------------------------------------------------
(* The inductive invariant. *)

IInv == TypeOK /\ ClaimAfterSession /\ SingleOwner /\ NoHandWithoutClaim

LEMMA InitIInv == Init => IInv
  BY DEF Init, IInv, TypeOK, Idle, SpawnStep, SessionStatus, ClaimStatus, Process,
         ClaimAfterSession, SingleOwner, NoHandWithoutClaim

LEMMA TypeOKStep ==
  ASSUME TypeOK, [Next]_claimVars
  PROVE  TypeOK'
<1> USE DEF TypeOK, SpawnStep, SessionStatus, ClaimStatus, Process, SpawnAt, Assign, EndClaim
<1>1. ASSUME NEW h \in Hands, SpawnNext(h)
      PROVE  TypeOK'
  <2>1. CASE \E s \in Sparks : BeginSpawn(h, s) \/ UiSpawn(h, s)
    BY <2>1 DEF BeginSpawn, UiSpawn
  <2>2. CASE PersistSession(h) \/ AbortEnd(h) \/ UiPersistSession(h)
    BY <2>2 DEF PersistSession, AbortEnd, UiPersistSession
  <2>3. CASE SpawnClaim(h) \/ UiAssign(h)
    BY <2>3 DEF SpawnClaim, UiAssign
  <2>4. CASE SpawnRefused(h) \/ SpawnDies(h) \/ UiSettled(h)
    BY <2>4 DEF SpawnRefused, SpawnDies, UiSettled
  <2>5. CASE Launch(h) \/ UiTerminal(h)
    BY <2>5 DEF Launch, UiTerminal
  <2>6. CASE AbortAbandon(h)
    BY <2>6 DEF AbortAbandon
  <2> QED
    BY <1>1, <2>1, <2>2, <2>3, <2>4, <2>5, <2>6 DEF SpawnNext
<1>2. ASSUME NEW h \in Hands, HandNext(h)
      PROVE  TypeOK'
  <2>1. CASE Exit(h) \/ TerminalClosed(h)
    BY <2>1 DEF Exit, TerminalClosed
  <2>2. CASE AssignClose(h) \/ AssignRelease(h) \/ SweepAbandon(h)
    BY <2>2 DEF AssignClose, AssignRelease, SweepAbandon
  <2>3. CASE AssignClaim(h)
    BY <2>3 DEF AssignClaim
  <2>4. CASE ResumeAgent(h) \/ DeleteSession(h)
    BY <2>4 DEF ResumeAgent, DeleteSession
  <2> QED
    BY <1>2, <2>1, <2>2, <2>3, <2>4 DEF HandNext
<1>3. CASE \E s \in Sparks : CloseSpark(s)
  BY <1>3 DEF CloseSpark
<1>4. CASE RecList
  <2>1. PICK live \in {{h \in Hands : proc[h] = "tmux"}} \cup (IF Faults THEN {{}} ELSE {}) :
          rec' = [rec EXCEPT !.pc = "listed", !.live = live]
    BY <1>4 DEF RecList
  <2>2. live \in SUBSET Hands
    BY <2>1
  <2> QED
    BY <1>4, <2>1, <2>2 DEF RecList
<1>5. CASE RecRead
  BY <1>5 DEF RecRead
<1>11. CASE RecReadFails
  BY <1>11 DEF RecReadFails
<1>6. CASE RecDone
  BY <1>6 DEF RecDone, Idle
<1>7. CASE \E h \in Hands : RecEnd(h) \/ RecEndFails(h)
  <2>1. PICK h \in Hands : RecEnd(h) \/ RecEndFails(h)
    BY <1>7
  <2>2. session' \in [Hands -> SessionStatus]
    BY <2>1 DEF RecEnd, RecEndFails
  <2>3. rec' \in [pc : {"idle", "listed", "walking"}, live : SUBSET Hands,
                  todo : SUBSET Hands, ending : Hands \cup {Nobody}]
    <3>1. rec' = [rec EXCEPT !.todo = rec.todo \ {h}, !.ending = h]
      BY <2>1 DEF RecEnd, RecEndFails
    <3> QED
      BY <3>1
  <2> QED
    BY <2>1, <2>2, <2>3 DEF RecEnd, RecEndFails
<1>8. CASE \E h \in Hands : RecAbandon(h) \/ RecAbandonFails(h)
  BY <1>8 DEF RecAbandon, RecAbandonFails, Ended
<1>9. CASE AppCrash
  BY <1>9 DEF AppCrash, Idle, Ended
<1>10. CASE UNCHANGED claimVars
  BY <1>10 DEF claimVars
<1> QED
  BY <1>1, <1>2, <1>3, <1>4, <1>5, <1>6, <1>7, <1>8, <1>9, <1>10, <1>11
  DEF Next, RecNext

LEMMA ClaimAfterSessionStep ==
  ASSUME TypeOK, ClaimAfterSession, NoHandWithoutClaim, [Next]_claimVars
  PROVE  ClaimAfterSession' /\ NoHandWithoutClaim'
<1> USE DEF TypeOK, ClaimAfterSession, NoHandWithoutClaim, SpawnAt, Assign, EndClaim
<1>1. ASSUME NEW h \in Hands, SpawnNext(h)
      PROVE  ClaimAfterSession' /\ NoHandWithoutClaim'
  <2>1. CASE \E s \in Sparks : BeginSpawn(h, s) \/ UiSpawn(h, s)
    BY <2>1 DEF BeginSpawn, UiSpawn
  <2>2. CASE PersistSession(h) \/ AbortEnd(h) \/ UiPersistSession(h)
    BY <2>2 DEF PersistSession, AbortEnd, UiPersistSession
  <2>3. CASE SpawnClaim(h) \/ UiAssign(h)
    BY <2>3 DEF SpawnClaim, UiAssign
  <2>4. CASE SpawnRefused(h) \/ SpawnDies(h) \/ UiSettled(h)
    BY <2>4 DEF SpawnRefused, SpawnDies, UiSettled
  <2>5. CASE Launch(h) \/ UiTerminal(h)
    BY <2>5 DEF Launch, UiTerminal
  <2>6. CASE AbortAbandon(h)
    BY <2>6 DEF AbortAbandon
  <2> QED
    BY <1>1, <2>1, <2>2, <2>3, <2>4, <2>5, <2>6 DEF SpawnNext
<1>2. ASSUME NEW h \in Hands, HandNext(h)
      PROVE  ClaimAfterSession' /\ NoHandWithoutClaim'
  <2>1. CASE Exit(h) \/ TerminalClosed(h) \/ ResumeAgent(h) \/ DeleteSession(h)
    BY <2>1 DEF Exit, TerminalClosed, ResumeAgent, DeleteSession
  <2>2. CASE AssignClose(h) \/ AssignRelease(h) \/ SweepAbandon(h)
    BY <2>2 DEF AssignClose, AssignRelease, SweepAbandon
  <2>3. CASE AssignClaim(h)
    BY <2>3 DEF AssignClaim
  <2> QED
    BY <1>2, <2>1, <2>2, <2>3 DEF HandNext
<1>3. CASE \E h \in Hands : RecAbandon(h)
  BY <1>3 DEF RecAbandon
<1>4. CASE \/ RecList \/ RecRead \/ RecReadFails \/ RecDone
           \/ \E h \in Hands : RecEnd(h) \/ RecEndFails(h) \/ RecAbandonFails(h)
  BY <1>4 DEF RecList, RecRead, RecReadFails, RecDone, RecEnd, RecEndFails,
              RecAbandonFails
<1>5. CASE AppCrash
  BY <1>5 DEF AppCrash
<1>6. CASE \E s \in Sparks : CloseSpark(s)
  BY <1>6 DEF CloseSpark
<1>7. CASE UNCHANGED claimVars
  BY <1>7 DEF claimVars
<1> QED
  BY <1>1, <1>2, <1>3, <1>4, <1>5, <1>6, <1>7 DEF Next, RecNext

\* A spark is taken when nobody owns it, and a target changes only before
\* the claim.
LEMMA SingleOwnerStep ==
  ASSUME TypeOK, ClaimAfterSession, SingleOwner, [Next]_claimVars
  PROVE  SingleOwner'
<1>1. CASE \E h \in Hands : Takes(h)
  BY <1>1 DEF Takes, Assign, Owns, SingleOwner, TypeOK
<1>2. CASE \E h \in Hands : Ends(h)
  BY <1>2 DEF Ends, EndClaim, SingleOwner, TypeOK
<1>3. CASE \E h \in Hands : Aims(h)
  BY <1>3 DEF Aims, ClaimAfterSession, SingleOwner, TypeOK
<1> QED
  BY StepOnClaims, <1>1, <1>2, <1>3 DEF SingleOwner

LEMMA IInvHolds == Spec => []IInv
<1>1. IInv /\ [Next]_claimVars => IInv'
  BY TypeOKStep, ClaimAfterSessionStep, SingleOwnerStep DEF IInv
<1> QED
  BY InitIInv, <1>1, PTL DEF Spec

\* Every reachable state of sessions, processes and claims is well typed.
THEOREM TypeCorrectness == Spec => []TypeOK
<1>1. IInv => TypeOK
  BY DEF IInv
<1> QED
  BY IInvHolds, <1>1, PTL

\* Whatever the spawners, the reconciler, the operator and the user
\* interleave, a spark has at most one active owner: the check of assign is
\* enough, because a spawn has no claim yet when it chooses its spark.
THEOREM OneOwner == Spec => []SingleOwner
<1>1. IInv => SingleOwner
  BY DEF IInv
<1> QED
  BY IInvHolds, <1>1, PTL

\* spawn_hand never launches a Hand that has not claimed its spark.
THEOREM LaunchedPastItsClaim == Spec => []NoHandWithoutClaim
<1>1. IInv => NoHandWithoutClaim
  BY DEF IInv
<1> QED
  BY IInvHolds, <1>1, PTL

-----------------------------------------------------------------------------
(* Refinement. *)

\* With one owner per spark, the CHOOSE of OwnerOf has no choice.
LEMMA OwnerIsOwner ==
  ASSUME SingleOwner, NEW s \in Sparks
  PROVE  /\ \A h \in Hands : Owns(h, s) <=> OwnerOf(s) = h
         /\ OwnerOf(s) = Nobody <=> \A h \in Hands : ~Owns(h, s)
<1>1. CASE \E h \in Hands : Owns(h, s)
  <2>1. PICK h \in Hands : Owns(h, s)
    BY <1>1
  <2>2. \A g \in Hands : Owns(g, s) => g = h
    BY <2>1 DEF Owns, SingleOwner
  <2>3. OwnerOf(s) = CHOOSE g \in Hands : Owns(g, s)
    BY <1>1 DEF OwnerOf
  <2>4. OwnerOf(s) \in Hands /\ Owns(OwnerOf(s), s)
    BY <1>1, <2>3
  <2>5. OwnerOf(s) = h
    BY <2>2, <2>4
  <2> QED
    BY <2>1, <2>2, <2>5
<1>2. CASE ~ \E h \in Hands : Owns(h, s)
  <2>1. OwnerOf(s) = Nobody
    BY <1>2 DEF OwnerOf
  <2> QED
    BY <1>2, <2>1
<1> QED
  BY <1>1, <1>2

\* The same for the next state.
LEMMA OwnerIsOwnerNext ==
  ASSUME SingleOwner', NEW s \in Sparks
  PROVE  /\ \A h \in Hands : Owns(h, s)' <=> OwnerOf(s)' = h
         /\ OwnerOf(s)' = Nobody <=> \A h \in Hands : ~Owns(h, s)'
<1>1. CASE \E h \in Hands : Owns(h, s)'
  <2>1. PICK h \in Hands : Owns(h, s)'
    BY <1>1
  <2>2. \A g \in Hands : Owns(g, s)' => g = h
    BY <2>1 DEF Owns, SingleOwner
  <2>3. OwnerOf(s)' = CHOOSE g \in Hands : Owns(g, s)'
    BY <1>1 DEF OwnerOf
  <2>4. OwnerOf(s)' \in Hands /\ \E g \in Hands : OwnerOf(s)' = g /\ Owns(g, s)'
    BY <1>1, <2>3
  <2>5. OwnerOf(s)' = h
    BY <2>2, <2>4
  <2> QED
    BY <2>1, <2>2, <2>5
<1>2. CASE ~ \E h \in Hands : Owns(h, s)'
  <2>1. OwnerOf(s)' = Nobody
    BY <1>2 DEF OwnerOf
  <2> QED
    BY <1>2, <2>1
<1> QED
  BY <1>1, <1>2

LEMMA InitRefines == Init => Ownership!OwnershipInit
  BY DEF Init, Ownership!OwnershipInit, OwnerOf, Owns

\* A spark whose Hands own it as before has the owner it had.
LEMMA OwnerKept ==
  ASSUME SingleOwner, SingleOwner', NEW s \in Sparks,
         \A h \in Hands : Owns(h, s)' <=> Owns(h, s)
  PROVE  OwnerOf(s)' = OwnerOf(s)
<1>1. CASE \E h \in Hands : Owns(h, s)
  BY <1>1, OwnerIsOwner, OwnerIsOwnerNext
<1>2. CASE ~ \E h \in Hands : Owns(h, s)
  BY <1>2, OwnerIsOwner, OwnerIsOwnerNext
<1> QED
  BY <1>1, <1>2

LEMMA TakeRefines ==
  ASSUME TypeOK, SingleOwner, SingleOwner', NEW h \in Hands, Takes(h)
  PROVE  Ownership!OwnershipNext \/ UNCHANGED [s \in Sparks |-> OwnerOf(s)]
<1>1. \A g \in Hands : ~Owns(g, target[h])
  BY DEF Takes, Assign
<1>2. ASSUME NEW s \in Sparks, s # target[h]
      PROVE  OwnerOf(s)' = OwnerOf(s)
  <2>1. \A g \in Hands : Owns(g, s)' <=> Owns(g, s)
    BY <1>2 DEF Takes, Assign, Owns, TypeOK
  <2> QED
    BY <2>1, OwnerKept
<1>3. CASE target[h] \in Sparks
  <2>1. OwnerOf(target[h]) = Nobody
    BY <1>1, <1>3, OwnerIsOwner
  <2>2. claim'[h] = "active" /\ target' = target
    BY DEF Takes, Assign, TypeOK
  <2>3. PICK s \in Sparks : s = target[h]
    BY <1>3
  <2>4. Owns(h, s)'
    BY <2>2, <2>3 DEF Owns
  <2>5. OwnerOf(s)' = h
    BY <2>4, OwnerIsOwnerNext
  <2>6. Ownership!Take(s, h)
    BY <1>2, <2>1, <2>3, <2>5 DEF Ownership!Take
  <2> QED
    BY <2>6 DEF Ownership!OwnershipNext
<1>4. CASE target[h] \notin Sparks
  BY <1>2, <1>4
<1> QED
  BY <1>3, <1>4

LEMMA EndRefines ==
  ASSUME TypeOK, SingleOwner, SingleOwner', NEW h \in Hands, Ends(h)
  PROVE  Ownership!OwnershipNext \/ UNCHANGED [s \in Sparks |-> OwnerOf(s)]
<1>1. \A g \in Hands : g # h => claim'[g] = claim[g]
  BY DEF Ends, EndClaim, TypeOK
<1>2. claim'[h] # "active" /\ target' = target
  BY DEF Ends, EndClaim, TypeOK
<1>3. ASSUME NEW s \in Sparks, ~Owns(h, s)
      PROVE  OwnerOf(s)' = OwnerOf(s)
  <2>1. \A g \in Hands : Owns(g, s)' <=> Owns(g, s)
    BY <1>1, <1>2, <1>3 DEF Owns
  <2> QED
    BY <2>1, OwnerKept
<1>4. ASSUME NEW s \in Sparks, Owns(h, s)
      PROVE  Ownership!OwnershipNext
  <2>1. OwnerOf(s) = h
    BY <1>4, OwnerIsOwner
  <2>2. \A g \in Hands : ~Owns(g, s)'
    BY <1>1, <1>2, <1>4 DEF Owns, SingleOwner
  <2>3. OwnerOf(s)' = Nobody
    BY <2>2, OwnerIsOwnerNext
  <2>4. \A q \in Sparks : q # s => OwnerOf(q)' = OwnerOf(q)
    BY <1>3, <1>4 DEF Owns
  <2>5. Ownership!Free(s)
    BY <2>1, <2>3, <2>4 DEF Ownership!Free
  <2> QED
    BY <2>5 DEF Ownership!OwnershipNext
<1> QED
  BY <1>3, <1>4

LEMMA NextRefines ==
  ASSUME IInv, SingleOwner', [Next]_claimVars
  PROVE  Ownership!OwnershipNext \/ UNCHANGED [s \in Sparks |-> OwnerOf(s)]
<1>1. ASSUME NEW h \in Hands, Aims(h)
      PROVE  UNCHANGED [s \in Sparks |-> OwnerOf(s)]
  <2>1. ASSUME NEW s \in Sparks
        PROVE  OwnerOf(s)' = OwnerOf(s)
    <3>1. \A g \in Hands : Owns(g, s)' <=> Owns(g, s)
      BY <1>1 DEF Aims, Owns, IInv, TypeOK, ClaimAfterSession
    <3> QED
      BY <3>1, OwnerKept DEF IInv
  <2> QED
    BY <2>1
<1>2. CASE UNCHANGED <<claim, target>>
  BY <1>2 DEF OwnerOf, Owns
<1> QED
  BY StepOnClaims, TakeRefines, EndRefines, <1>1, <1>2 DEF IInv

\* Claims implement SparkOwnership: every step of every program frees one
\* spark, takes one free spark, or leaves all owners alone.
THEOREM Refinement == Spec => ImplementsOwnership
<1>1. IInv /\ IInv' /\ [Next]_claimVars
        => Ownership!OwnershipNext \/ UNCHANGED [s \in Sparks |-> OwnerOf(s)]
  BY NextRefines DEF IInv
<1> QED
  BY InitRefines, IInvHolds, <1>1, PTL
  DEF Spec, ImplementsOwnership, Ownership!OwnershipSpec

-----------------------------------------------------------------------------
(* Stranded claims, where the UI neither spawns nor deletes. *)

\* A claim is made after its session row, and so is everything that follows.
RowBeforeClaim ==
  \A h \in Hands :
    /\ spawner[h] \in {"persisted", "claimed", "aborting", "done"} => session[h] # "none"
    /\ spawner[h] # "ui"
    /\ claim[h] # "none" => session[h] # "none"

LEMMA RowBeforeClaimStep ==
  ASSUME UserActions = FALSE, "ui" \notin Kinds,
         TypeOK, RowBeforeClaim, [Next]_claimVars
  PROVE  RowBeforeClaim'
<1> USE DEF TypeOK, RowBeforeClaim, SpawnAt, Assign, EndClaim
<1>1. ASSUME NEW h \in Hands, SpawnNext(h)
      PROVE  RowBeforeClaim'
  <2>1. CASE \E s \in Sparks : BeginSpawn(h, s) \/ UiSpawn(h, s)
    BY <2>1 DEF BeginSpawn, UiSpawn
  <2>2. CASE PersistSession(h) \/ AbortEnd(h)
    BY <2>2 DEF PersistSession, AbortEnd
  <2>3. CASE SpawnClaim(h) \/ AbortAbandon(h)
    BY <2>3 DEF SpawnClaim, AbortAbandon
  <2>4. CASE SpawnRefused(h) \/ SpawnDies(h) \/ Launch(h)
    BY <2>4 DEF SpawnRefused, SpawnDies, Launch
  <2>5. CASE UiPersistSession(h) \/ UiAssign(h) \/ UiTerminal(h) \/ UiSettled(h)
    BY <2>5 DEF UiPersistSession, UiAssign, UiTerminal, UiSettled
  <2> QED
    BY <1>1, <2>1, <2>2, <2>3, <2>4, <2>5 DEF SpawnNext
<1>2. ASSUME NEW h \in Hands, HandNext(h)
      PROVE  RowBeforeClaim'
  <2>1. CASE Exit(h) \/ TerminalClosed(h)
    BY <2>1 DEF Exit, TerminalClosed
  <2>2. CASE AssignClose(h) \/ AssignRelease(h) \/ SweepAbandon(h) \/ AssignClaim(h)
    BY <2>2 DEF AssignClose, AssignRelease, SweepAbandon, AssignClaim
  <2>3. CASE ResumeAgent(h) \/ DeleteSession(h)
    BY <2>3 DEF ResumeAgent, DeleteSession
  <2> QED
    BY <1>2, <2>1, <2>2, <2>3 DEF HandNext
<1>3. CASE \E h \in Hands : RecEnd(h) \/ RecAbandon(h)
  BY <1>3 DEF RecEnd, RecAbandon
<1>4. CASE \/ RecList \/ RecRead \/ RecReadFails \/ RecDone
           \/ \E h \in Hands : RecEndFails(h) \/ RecAbandonFails(h)
  BY <1>4 DEF RecList, RecRead, RecReadFails, RecDone, RecEndFails, RecAbandonFails
<1>5. CASE AppCrash
  BY <1>5 DEF AppCrash
<1>6. CASE \E s \in Sparks : CloseSpark(s)
  BY <1>6 DEF CloseSpark
<1>7. CASE UNCHANGED claimVars
  BY <1>7 DEF claimVars
<1> QED
  BY <1>1, <1>2, <1>3, <1>4, <1>5, <1>6, <1>7 DEF Next, RecNext

\* As long as Hands are spawned by the CLI and nobody deletes a session, no
\* fault leaves a stranded claim without a session row: the reconciler or
\* find_orphaned_claims can see it.
THEOREM StrandedClaimsAreDetectable ==
  ASSUME UserActions = FALSE, "ui" \notin Kinds
  PROVE  Spec => []StrandedIsDetectable
<1>1. Init => RowBeforeClaim
  BY DEF Init, RowBeforeClaim
<1>2. TypeOK /\ RowBeforeClaim /\ [Next]_claimVars => RowBeforeClaim'
  BY RowBeforeClaimStep
<1>3. RowBeforeClaim => StrandedIsDetectable
  BY DEF RowBeforeClaim, StrandedIsDetectable
<1> QED
  BY TypeCorrectness, <1>1, <1>2, <1>3, PTL DEF Spec

-----------------------------------------------------------------------------
(* Passes of the reconciler: the provable half of StrandedIsFreed. *)

\* What RecList, RecRead and RecDone leave of the fields they do not mention.
PassShape ==
  /\ rec.pc # "walking" => rec.todo = {} /\ rec.ending = Nobody
  /\ rec.pc = "idle" => rec = Idle

\* Each step of a pass takes it to its next stage, ends a session on its list or
\* the claim of the session it has just ended, or fails to; nothing is added to
\* the list.
PassAdvances ==
  [][rec.pc # "idle" =>
       \/ rec' = Idle
       \/ rec.pc = "listed" /\ rec'.pc = "walking"
       \/ /\ rec'.pc = rec.pc /\ rec'.todo \subseteq rec.todo
          /\ RecNext => \/ rec'.todo # rec.todo
                        \/ rec.ending # Nobody /\ rec'.ending = Nobody]_claimVars

Stranded(h) ==
  /\ claim[h] = "active" /\ session[h] = "active" /\ ~Alive(h)
  /\ spawner[h] \in {"done", "failed"}

\* The pass under way will end the claim of h.
Chased(h) ==
  \/ rec.pc = "listed" /\ h \notin rec.live /\ Stranded(h)
  \/ /\ h \in rec.todo \/ (h \in Hands /\ rec.ending = h)
     /\ claim[h] = "active" /\ ~Alive(h) /\ spawner[h] \in {"done", "failed"}

\* A pass that begins when h is stranded is after its claim, and stays so until
\* the claim is ended, the Hand is resumed, the app dies or the user deletes the
\* session.  A read or an abandon that fails takes it off the pass, and leaves
\* it to the next one unless its session has ended.
PassFrees ==
  [][\A h \in Hands :
       /\ Chased(h) \/ (Stranded(h) /\ RecList)
       /\ ~AppCrash /\ ~DeleteSession(h)
       => \/ Chased(h)' \/ claim'[h] # "active" \/ Alive(h)'
          \/ /\ RecReadFails \/ RecAbandonFails(h)
             /\ Stranded(h)' \/ h \in missed']_claimVars

\* What a step does to the pass.
LEMMA StepOnPass ==
  ASSUME TypeOK, PassShape, [Next]_claimVars
  PROVE  \/ rec' = rec /\ ~RecNext
         \/ RecList \/ RecRead \/ RecReadFails \/ RecDone \/ AppCrash
         \/ \E h \in Hands : \/ RecEnd(h) \/ RecEndFails(h)
                              \/ RecAbandon(h) \/ RecAbandonFails(h)
<1>1. CASE RecNext
  BY <1>1 DEF RecNext
<1>2. CASE ~RecNext
  BY <1>2 DEF Next, claimVars, SpawnNext, HandNext, CloseSpark, BeginSpawn, UiSpawn,
       PersistSession, SpawnClaim, SpawnRefused, Launch, AbortAbandon, AbortEnd,
       SpawnDies, UiPersistSession, UiAssign, UiTerminal, UiSettled, Exit,
       TerminalClosed, AssignClose, AssignRelease, AssignClaim, SweepAbandon,
       ResumeAgent, DeleteSession
<1> QED
  BY <1>1, <1>2

\* The fields of rec after each step of a pass.
LEMMA PassEffect ==
  ASSUME TypeOK, PassShape
  PROVE  /\ RecList => /\ rec.pc = "idle" /\ rec'.pc = "listed"
                       /\ rec'.todo = {} /\ rec'.ending = Nobody
                       /\ rec'.live \subseteq {h \in Hands : proc[h] = "tmux"}
         /\ RecRead => /\ rec.pc = "listed" /\ rec'.pc = "walking"
                       /\ rec'.ending = Nobody
                       /\ rec'.todo = {h \in Hands : session[h] = "active"} \ rec.live
         /\ RecReadFails => /\ rec.pc = "listed" /\ rec'.pc = "walking"
                            /\ rec'.todo = {} /\ rec'.ending = Nobody
         /\ \A h \in Hands :
              /\ RecEnd(h) \/ RecEndFails(h) =>
                              /\ rec.pc = "walking" /\ h \in rec.todo
                              /\ rec.ending = Nobody
                              /\ rec'.pc = "walking" /\ rec'.todo = rec.todo \ {h}
                              /\ rec'.ending = h
              /\ RecAbandon(h) \/ RecAbandonFails(h) =>
                                  /\ rec.pc = "walking" /\ rec.ending = h
                                  /\ rec'.pc = "walking" /\ rec'.todo = rec.todo
                                  /\ rec'.ending = Nobody
<1> USE DEF TypeOK, PassShape
<1>1. ASSUME RecList
      PROVE  /\ rec.pc = "idle" /\ rec'.pc = "listed"
             /\ rec'.todo = {} /\ rec'.ending = Nobody
             /\ rec'.live \subseteq {h \in Hands : proc[h] = "tmux"}
  BY <1>1 DEF RecList, Idle
<1>2. ASSUME RecRead
      PROVE  /\ rec.pc = "listed" /\ rec'.pc = "walking" /\ rec'.ending = Nobody
             /\ rec'.todo = {h \in Hands : session[h] = "active"} \ rec.live
  BY <1>2 DEF RecRead
<1>5. ASSUME RecReadFails
      PROVE  /\ rec.pc = "listed" /\ rec'.pc = "walking"
             /\ rec'.todo = {} /\ rec'.ending = Nobody
  BY <1>5 DEF RecReadFails
<1>3. ASSUME NEW h \in Hands, RecEnd(h) \/ RecEndFails(h)
      PROVE  /\ rec.pc = "walking" /\ h \in rec.todo /\ rec.ending = Nobody
             /\ rec'.pc = "walking" /\ rec'.todo = rec.todo \ {h} /\ rec'.ending = h
  BY <1>3 DEF RecEnd, RecEndFails
<1>4. ASSUME NEW h \in Hands, RecAbandon(h) \/ RecAbandonFails(h)
      PROVE  /\ rec.pc = "walking" /\ rec.ending = h
             /\ rec'.pc = "walking" /\ rec'.todo = rec.todo /\ rec'.ending = Nobody
  BY <1>4, ClaimConstants DEF RecAbandon, RecAbandonFails
<1> QED
  BY <1>1, <1>2, <1>3, <1>4, <1>5

LEMMA PassShapeHolds == Spec => []PassShape
<1>1. Init => PassShape
  BY DEF Init, PassShape, Idle
<1>2. ASSUME TypeOK, PassShape, [Next]_claimVars PROVE PassShape'
  <2>1. CASE \/ RecList \/ RecRead \/ RecReadFails
             \/ \E h \in Hands : \/ RecEnd(h) \/ RecEndFails(h)
                                  \/ RecAbandon(h) \/ RecAbandonFails(h)
    BY <1>2, <2>1, PassEffect DEF PassShape
  <2>2. CASE RecDone \/ AppCrash
    BY <2>2 DEF RecDone, AppCrash, PassShape, Idle
  <2>3. CASE rec' = rec
    BY <1>2, <2>3 DEF PassShape
  <2> QED
    BY <1>2, <2>1, <2>2, <2>3, StepOnPass
<1> QED
  BY <1>1, <1>2, TypeCorrectness, PTL DEF Spec

\* reconcile_sessions ends: it walks the sessions it has read, each once.
THEOREM PassesEnd == Spec => PassAdvances
<1> DEFINE Onward ==
      \/ rec' = Idle
      \/ rec.pc = "listed" /\ rec'.pc = "walking"
      \/ /\ rec'.pc = rec.pc /\ rec'.todo \subseteq rec.todo
         /\ RecNext => \/ rec'.todo # rec.todo
                       \/ rec.ending # Nobody /\ rec'.ending = Nobody
<1>1. ASSUME TypeOK, PassShape, [Next]_claimVars, rec.pc # "idle" PROVE Onward
  <2>1. CASE \/ RecRead \/ RecReadFails
             \/ \E h \in Hands : \/ RecEnd(h) \/ RecEndFails(h)
                                  \/ RecAbandon(h) \/ RecAbandonFails(h)
    <3>1. ASSUME NEW h \in Hands, RecEnd(h) \/ RecEndFails(h) PROVE Onward
      BY <1>1, <3>1, PassEffect
    <3>2. ASSUME NEW h \in Hands, RecAbandon(h) \/ RecAbandonFails(h) PROVE Onward
      BY <1>1, <3>2, PassEffect, ClaimConstants
    <3> QED
      BY <1>1, <2>1, <3>1, <3>2, PassEffect
  <2>2. CASE RecDone \/ AppCrash
    BY <2>2 DEF RecDone, AppCrash
  <2>3. CASE rec' = rec /\ ~RecNext
    BY <2>3
  <2>4. ~RecList
    BY <1>1 DEF RecList
  <2> QED
    BY <1>1, <2>1, <2>2, <2>3, <2>4, StepOnPass
<1>2. TypeOK /\ PassShape /\ [Next]_claimVars =>
        [rec.pc # "idle" => Onward]_claimVars
  BY <1>1
<1> QED
  BY <1>2, TypeCorrectness, PassShapeHolds, PTL DEF Spec, PassAdvances

\* A dead Hand past its spawn stays dead unless it is resumed, and its spawner
\* does nothing more; its session ends by the reconciler and the user alone.
LEMMA DeadStaysDead ==
  ASSUME TypeOK, [Next]_claimVars, NEW h \in Hands,
         spawner[h] \in {"done", "failed"}, ~Alive(h)
  PROVE  /\ spawner'[h] = spawner[h]
         /\ \/ Alive(h)'
            \/ session'[h] = session[h] \/ RecEnd(h) \/ DeleteSession(h)
<1> USE DEF TypeOK, Alive
<1>1. ASSUME NEW g \in Hands, SpawnNext(g)
      PROVE  spawner'[h] = spawner[h] /\ session'[h] = session[h]
  <2>1. CASE g = h
    BY <1>1, <2>1 DEF SpawnNext, SpawnAt, BeginSpawn, UiSpawn, PersistSession,
       SpawnClaim, SpawnRefused, Launch, AbortAbandon, AbortEnd, SpawnDies,
       UiPersistSession, UiAssign, UiTerminal, UiSettled
  <2>2. CASE g # h
    BY <1>1, <2>2 DEF SpawnNext, SpawnAt, BeginSpawn, UiSpawn, PersistSession,
       SpawnClaim, SpawnRefused, Launch, AbortAbandon, AbortEnd, SpawnDies,
       UiPersistSession, UiAssign, UiTerminal, UiSettled
  <2> QED
    BY <2>1, <2>2
<1>2. ASSUME NEW g \in Hands, HandNext(g)
      PROVE  /\ spawner'[h] = spawner[h]
             /\ Alive(h)' \/ session'[h] = session[h] \/ DeleteSession(h)
  BY <1>2 DEF HandNext, Exit, TerminalClosed, AssignClose, AssignRelease,
       AssignClaim, SweepAbandon, ResumeAgent, DeleteSession
<1>3. CASE RecNext
  BY <1>3 DEF RecNext, RecList, RecRead, RecReadFails, RecDone, RecEnd, RecEndFails,
              RecAbandon, RecAbandonFails
<1>4. CASE AppCrash \/ (\E s \in Sparks : CloseSpark(s)) \/ UNCHANGED claimVars
  BY <1>4 DEF AppCrash, CloseSpark, claimVars
<1> QED
  BY <1>1, <1>2, <1>3, <1>4 DEF Next

\* The reconciler is the authority for dead sessions: no step of another
\* program, spawner or operator takes a stranded Hand off a pass that began
\* after it had died, and a statement that fails loses the claim only between
\* the end of its session and its abandonment.
THEOREM PassesFreeTheDead == Spec => PassFrees
<1>1. ASSUME TypeOK, PassShape, [Next]_claimVars, NEW h \in Hands,
             Chased(h) \/ (Stranded(h) /\ RecList), ~AppCrash, ~DeleteSession(h),
             claim'[h] = "active", ~Alive(h)'
      PROVE  \/ Chased(h)'
             \/ /\ RecReadFails \/ RecAbandonFails(h)
                /\ Stranded(h)' \/ h \in missed'
  <2>1. spawner[h] \in {"done", "failed"} /\ ~Alive(h) /\ claim[h] = "active"
    BY <1>1 DEF Chased, Stranded
  <2>2. spawner'[h] \in {"done", "failed"}
    BY <1>1, <2>1, DeadStaysDead
  <2>3. session'[h] = session[h] \/ RecEnd(h)
    BY <1>1, <2>1, DeadStaysDead
  <2>4. h # Nobody
    BY ClaimConstants
  <2>5. CASE RecList
    <3>1. Stranded(h)
      BY <1>1, <2>4, <2>5, PassEffect DEF Chased, PassShape
    <3>2. rec'.pc = "listed" /\ h \notin rec'.live
      BY <1>1, <2>1, <2>5, PassEffect DEF Alive
    <3>3. session'[h] = "active"
      BY <2>5, <3>1 DEF RecList, Stranded
    <3> QED
      BY <1>1, <2>2, <3>2, <3>3 DEF Chased, Stranded
  <2>6. CASE RecRead
    <3>1. Stranded(h) /\ h \notin rec.live
      BY <1>1, <2>4, <2>6, PassEffect DEF Chased, PassShape, RecList
    <3>2. h \in rec'.todo
      BY <1>1, <2>6, <3>1, PassEffect DEF Stranded
    <3> QED
      BY <1>1, <2>2, <3>2 DEF Chased
  <2>7. CASE RecDone
    BY <1>1, <2>4, <2>7 DEF RecDone, Chased, RecList
  <2>11. CASE RecReadFails
    <3>1. Stranded(h)
      BY <1>1, <2>4, <2>11, PassEffect DEF Chased, PassShape, RecList
    <3> QED
      BY <1>1, <2>2, <2>11, <3>1 DEF RecReadFails, Stranded
  <2>8. ASSUME NEW g \in Hands, RecEnd(g) \/ RecEndFails(g) PROVE Chased(h)'
    <3>1. h \in rec.todo
      BY <1>1, <2>4, <2>8, PassEffect DEF Chased, RecList
    <3>2. h \in rec'.todo \/ rec'.ending = h
      BY <1>1, <2>8, <3>1, PassEffect
    <3> QED
      BY <1>1, <2>2, <3>2 DEF Chased
  <2>9. ASSUME NEW g \in Hands, RecAbandon(g) PROVE Chased(h)'
    <3>1. h \in rec.todo \/ rec.ending = h
      BY <1>1, <2>9, PassEffect DEF Chased, RecList
    <3>2. rec.ending # h
      BY <1>1, <2>1, <2>9 DEF RecAbandon, EndClaim, TypeOK
    <3>3. h \in rec'.todo
      BY <1>1, <2>9, <3>1, <3>2, PassEffect
    <3> QED
      BY <1>1, <2>2, <3>3 DEF Chased
  <2>12. ASSUME NEW g \in Hands, RecAbandonFails(g)
         PROVE  Chased(h)' \/ (RecAbandonFails(h) /\ (Stranded(h)' \/ h \in missed'))
    <3>1. h \in rec.todo \/ rec.ending = h
      BY <1>1, <2>12, PassEffect DEF Chased, RecList
    <3>2. CASE rec.ending = h
      <4>1. g = h /\ session' = session /\ missed' = missed \cup Ended
        BY <2>12, <3>2 DEF RecAbandonFails
      <4>2. session[h] # "active" => h \in Ended
        BY <2>1, <3>2 DEF Ended
      <4> QED
        BY <1>1, <2>2, <2>12, <4>1, <4>2 DEF Stranded
    <3>3. CASE h \in rec.todo
      <4>1. h \in rec'.todo
        BY <1>1, <2>12, <3>3, PassEffect
      <4> QED
        BY <1>1, <2>2, <4>1 DEF Chased
    <3> QED
      BY <3>1, <3>2, <3>3
  <2>10. CASE rec' = rec /\ ~RecNext
    <3>1. Chased(h) /\ session'[h] = session[h]
      BY <1>1, <2>3, <2>10 DEF RecNext
    <3> QED
      BY <1>1, <2>2, <2>10, <3>1 DEF Chased, Stranded
  <2> QED
    BY <1>1, <2>5, <2>6, <2>7, <2>8, <2>9, <2>10, <2>11, <2>12, StepOnPass
<1>2. TypeOK /\ PassShape /\ [Next]_claimVars =>
        [\A h \in Hands :
           /\ Chased(h) \/ (Stranded(h) /\ RecList)
           /\ ~AppCrash /\ ~DeleteSession(h)
           => \/ Chased(h)' \/ claim'[h] # "active" \/ Alive(h)'
              \/ /\ RecReadFails \/ RecAbandonFails(h)
                 /\ Stranded(h)' \/ h \in missed']_claimVars
  BY <1>1
<1> QED
  BY <1>2, TypeCorrectness, PassShapeHolds, PTL DEF Spec, PassFrees
=============================================================================
