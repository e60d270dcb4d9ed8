---------------------------- MODULE KernelProofs ----------------------------
(***************************************************************************)
(* The contract of the collapse decision (core/worldline-collapse.ads,     *)
(* the postcondition of Decide), proved of the decision procedure for      *)
(* every request, whatever the identities in it are.                       *)
(***************************************************************************)
EXTENDS WorldlineKernel, TLAPS

Measurements == {"UNMEASURED", "NONE_FOUND", "FOUND"}

(* What the Ada types say of a request; its identities are unconstrained.  *)
WellFormed(q) ==
  /\ q.phase \in {"PREPARE", "COMMIT"}
  /\ q.mode \in {"CANDIDATE_EVALUATION", "CHECKPOINT_RETURN"}
  /\ q.conflicts \in Measurements /\ q.foreignWrites \in Measurements

(* A refusal that reports a mismatch, and the pair it is about. *)
MismatchReason(q) ==
  [WATCH_INCOMPLETE          |-> <<q.registeredWatchSet, q.watchedSet>>,
   PRIME_CHANGED             |-> <<q.generationBefore, q.generationAfter>>,
   PARENT_MISMATCH           |-> <<q.expectedParent, q.candidateParent>>,
   EVIDENCE_SUBJECT_MISMATCH |-> <<q.expectedSubject, q.evidenceSubject>>,
   BASE_MISMATCH             |-> <<q.expectedBase, q.candidateBase>>,
   DELTA_MISMATCH            |-> <<q.expectedDelta, q.candidateDelta>>,
   ROOT_SET_MISMATCH         |-> <<q.expectedRootSet, q.candidateRootSet>>,
   STAGED_ROOT_MISMATCH      |-> <<q.expectedStagedRoot, q.actualStagedRoot>>,
   VALIDATION_CONTEXT_MISMATCH |->
     <<q.currentRequirement, q.evaluatedRequirement>>,
   VERIFIER_EXECUTION_IDENTITY_MISMATCH |->
     <<q.declaredVerifiers, q.executedVerifiers>>,
   CHECKPOINT_MISMATCH       |-> <<q.expectedCheckpoint, q.witnessedCheckpoint>>]

-----------------------------------------------------------------------------
(* Absence is never authorized: the rule implies that every measurement    *)
(* was made and every identity it needs is present.                        *)
LEMMA RuleNeedsPresence ==
  ASSUME NEW q, WellFormed(q), AllHold(q)
  PROVE  Measured(q) /\ RequiredPresent(q)
<1>1. Measured(q)
  BY DEF AllHold, Same, Measured
<1>2. /\ q.expectedParent # Absent /\ q.candidateParent # Absent
      /\ q.expectedSubject # Absent /\ q.evidenceSubject # Absent
      /\ q.expectedBase # Absent /\ q.candidateBase # Absent
      /\ q.expectedDelta # Absent /\ q.candidateDelta # Absent
      /\ q.expectedRootSet # Absent /\ q.candidateRootSet # Absent
  BY DEF AllHold, Same
<1>3. /\ q.stagedContentRoot # Absent
      /\ q.expectedStagedRoot # Absent
      /\ q.phase = "PREPARE" \/ q.actualStagedRoot # Absent
  BY DEF AllHold, Same, StagedRootHolds, EvidenceHolds, Covered, PrimaryCovers,
         StagedCovers, WellFormed
<1>4. CASE q.mode = "CANDIDATE_EVALUATION"
  <2>1. /\ q.currentRequirement # Absent /\ q.evaluatedRequirement # Absent
        /\ q.declaredVerifiers # Absent /\ q.executedVerifiers # Absent
    BY <1>4 DEF AllHold, Same, EvidenceHolds
  <2>2. QED BY <1>1, <1>2, <1>3, <1>4, <2>1 DEF RequiredPresent
<1>5. CASE q.mode = "CHECKPOINT_RETURN"
  <2>1. q.expectedCheckpoint # Absent
    BY <1>5 DEF AllHold, Same, EvidenceHolds
  <2>2. QED BY <1>1, <1>2, <1>3, <1>5, <2>1 DEF RequiredPresent
<1>6. QED BY <1>4, <1>5 DEF WellFormed

(* Decide answers AUTHORIZED exactly when every obligation of the rule     *)
(* holds: no order of the checks, and no absent identity, authorizes more. *)
THEOREM AuthorizedIffAllHold ==
  ASSUME NEW q, WellFormed(q)
  PROVE  Decide(q) = "AUTHORIZED" <=> AllHold(q)
<1>1. ASSUME AllHold(q) PROVE Decide(q) = "AUTHORIZED"
  <2>1. Measured(q) /\ RequiredPresent(q)
    BY <1>1, RuleNeedsPresence
  <2>2. QED
    BY <1>1, <2>1 DEF AllHold, Decide, StagedRootHolds, EvidenceHolds, Same
<1>2. ASSUME Decide(q) = "AUTHORIZED" PROVE AllHold(q)
  <2>1. /\ q.candidateState = "VALID"
        /\ q.conflicts # "FOUND" /\ q.foreignWrites # "FOUND"
        /\ Measured(q) /\ RequiredPresent(q) /\ Covered(q)
        /\ Same(q.registeredWatchSet, q.watchedSet)
        /\ Same(q.generationBefore, q.generationAfter)
        /\ Same(q.expectedParent, q.candidateParent)
        /\ Same(q.expectedSubject, q.evidenceSubject)
        /\ Same(q.expectedBase, q.candidateBase)
        /\ Same(q.expectedDelta, q.candidateDelta)
        /\ Same(q.expectedRootSet, q.candidateRootSet)
    BY <1>2 DEF Decide
  <2>2. q.phase = "COMMIT" => Same(q.expectedStagedRoot, q.actualStagedRoot)
    BY <1>2 DEF Decide
  <2>3. q.mode = "CANDIDATE_EVALUATION" =>
          /\ q.rosterComplete
          /\ Same(q.currentRequirement, q.evaluatedRequirement)
          /\ Same(q.declaredVerifiers, q.executedVerifiers)
    BY <1>2 DEF Decide
  <2>4. q.mode = "CHECKPOINT_RETURN" =>
          Same(q.expectedCheckpoint, q.witnessedCheckpoint)
    BY <1>2 DEF Decide
  <2>5. StagedRootHolds(q)
    BY <2>1, <2>2 DEF StagedRootHolds, RequiredPresent
  <2>6. EvidenceHolds(q)
    BY <2>1, <2>3, <2>4 DEF EvidenceHolds, WellFormed
  <2>7. q.conflicts = "NONE_FOUND" /\ q.foreignWrites = "NONE_FOUND"
    BY <2>1 DEF Measured, WellFormed, Measurements
  <2>8. QED BY <2>1, <2>5, <2>6, <2>7 DEF AllHold
<1>3. QED BY <1>1, <1>2

(* A refusal that reports a mismatch is never about something absent: both *)
(* sides of the pair it names were there and they differ.                  *)
THEOREM MismatchesAreDifferences ==
  ASSUME NEW q, WellFormed(q), Decide(q) \in DOMAIN MismatchReason(q)
  PROVE  Differ(MismatchReason(q)[Decide(q)][1], MismatchReason(q)[Decide(q)][2])
<1> DEFINE d == Decide(q)
<1>1. d = "WATCH_INCOMPLETE" => Differ(q.registeredWatchSet, q.watchedSet)
  BY DEF Decide, Measured, Same, Differ
<1>2. d = "PRIME_CHANGED" => Differ(q.generationBefore, q.generationAfter)
  BY DEF Decide, Measured, Same, Differ
<1>3. d = "PARENT_MISMATCH" => Differ(q.expectedParent, q.candidateParent)
  BY DEF Decide, RequiredPresent, Same, Differ
<1>4. d = "EVIDENCE_SUBJECT_MISMATCH" => Differ(q.expectedSubject, q.evidenceSubject)
  BY DEF Decide, RequiredPresent, Same, Differ
<1>5. d = "BASE_MISMATCH" => Differ(q.expectedBase, q.candidateBase)
  BY DEF Decide, RequiredPresent, Same, Differ
<1>6. d = "DELTA_MISMATCH" => Differ(q.expectedDelta, q.candidateDelta)
  BY DEF Decide, RequiredPresent, Same, Differ
<1>7. d = "ROOT_SET_MISMATCH" => Differ(q.expectedRootSet, q.candidateRootSet)
  BY DEF Decide, RequiredPresent, Same, Differ
<1>8. d = "STAGED_ROOT_MISMATCH" => Differ(q.expectedStagedRoot, q.actualStagedRoot)
  BY DEF Decide, RequiredPresent, Same, Differ
<1>9. d = "VALIDATION_CONTEXT_MISMATCH" =>
        Differ(q.currentRequirement, q.evaluatedRequirement)
  BY DEF Decide, RequiredPresent, Same, Differ
<1>10. d = "VERIFIER_EXECUTION_IDENTITY_MISMATCH" =>
        Differ(q.declaredVerifiers, q.executedVerifiers)
  BY DEF Decide, RequiredPresent, Same, Differ
<1>11. d = "CHECKPOINT_MISMATCH" =>
        Differ(q.expectedCheckpoint, q.witnessedCheckpoint)
  BY DEF Decide, RequiredPresent, Same, Differ
<1>12. QED
  BY <1>1, <1>2, <1>3, <1>4, <1>5, <1>6, <1>7, <1>8, <1>9, <1>10, <1>11
     DEF MismatchReason
=============================================================================
