--------------------------- MODULE WorldlineKernel ---------------------------
(***************************************************************************)
(* The decision kernel of WORLDLINE (core/, Ada/SPARK) as pure operators:  *)
(* the lifecycle relation of worlds, the lifecycle relation of             *)
(* transactions, and the collapse decision.  The runtime reaches the       *)
(* kernel through core.py for every one of them.                           *)
(*                                                                         *)
(* An identity of a request is an arbitrary value, or Absent: the Ada      *)
(* Optional_* records, whose Present flag says whether Value means         *)
(* anything.                                                               *)
(***************************************************************************)
CONSTANT Absent

WorldStates == {"MUTABLE", "FINALIZING", "VALID", "DEGRADED", "DEAD",
                "ARCHIVED", "COLLAPSED"}

TxStates == {"PREPARED", "AUTHORIZED", "DENIED", "COMMITTED", "ABORTED"}

(* The world states a world in state s may move to. *)
WorldSuccessors(s) ==
  CASE s = "MUTABLE"               -> {"FINALIZING", "DEAD"}
    [] s = "FINALIZING"            -> {"VALID", "DEGRADED", "DEAD"}
    [] s = "VALID"                 -> {"COLLAPSED", "ARCHIVED"}
    [] s = "DEGRADED"              -> {"DEAD", "ARCHIVED"}
    [] s \in {"DEAD", "COLLAPSED"} -> {"ARCHIVED"}
    [] OTHER                       -> {}

Allowed(from, to) == to \in WorldSuccessors(from)

(* The transaction states a transaction in state s may move to. *)
TxSuccessors(s) ==
  CASE s = "PREPARED"   -> {"AUTHORIZED", "DENIED", "ABORTED"}
    [] s = "AUTHORIZED" -> {"COMMITTED", "ABORTED"}
    [] s = "DENIED"     -> {"ABORTED"}
    [] OTHER            -> {}

TransactionAllowed(from, to) == to \in TxSuccessors(from)

-----------------------------------------------------------------------------
(* Two absent values are never the same, and never differ either. *)
Same(l, r)   == l # Absent /\ l = r
Differ(l, r) == l # Absent /\ r # Absent /\ l # r

(* Every measurement was made. *)
Measured(q) ==
  /\ q.conflicts # "UNMEASURED"
  /\ q.foreignWrites # "UNMEASURED"
  /\ q.generationBefore # Absent /\ q.generationAfter # Absent
  /\ q.registeredWatchSet # Absent /\ q.watchedSet # Absent

(* Every identity the question depends on is present. *)
RequiredPresent(q) ==
  /\ q.expectedParent # Absent /\ q.candidateParent # Absent
  /\ q.expectedSubject # Absent /\ q.evidenceSubject # Absent
  /\ q.expectedBase # Absent /\ q.candidateBase # Absent
  /\ q.expectedDelta # Absent /\ q.candidateDelta # Absent
  /\ q.expectedRootSet # Absent /\ q.candidateRootSet # Absent
  /\ q.stagedContentRoot # Absent
  /\ q.expectedStagedRoot # Absent
  /\ q.phase = "PREPARE" \/ q.actualStagedRoot # Absent
  /\ \/ /\ q.mode = "CANDIDATE_EVALUATION"
        /\ q.currentRequirement # Absent /\ q.evaluatedRequirement # Absent
        /\ q.declaredVerifiers # Absent /\ q.executedVerifiers # Absent
     \/ /\ q.mode = "CHECKPOINT_RETURN"
        /\ q.expectedCheckpoint # Absent

(* The staged tree has one observation at prepare, two equal ones at commit. *)
StagedRootHolds(q) ==
  IF q.phase = "COMMIT" THEN Same(q.expectedStagedRoot, q.actualStagedRoot)
                        ELSE q.expectedStagedRoot # Absent

(* The primary evaluation examined exactly the bytes that would go live. *)
PrimaryCovers(q) == Same(q.testedRoot, q.stagedContentRoot)

(* An evaluation of the staged merge examined exactly the staged bytes. *)
StagedCovers(q) ==
  /\ Same(q.currentRequirement, q.stagedEvaluatedRequirement)
  /\ q.stagedRosterComplete
  /\ Same(q.declaredVerifiers, q.stagedExecutedVerifiers)
  /\ Same(q.stagedExaminedRoot, q.stagedContentRoot)

CoveredByRequirement(q) == Same(q.currentRequirement, q.evaluatedRequirement) \* mutant

Covered(q) == PrimaryCovers(q) \/ StagedCovers(q)

(* The evidence obligation of the request's mode. *)
EvidenceHolds(q) ==
  /\ IF q.mode = "CANDIDATE_EVALUATION"
     THEN /\ Same(q.currentRequirement, q.evaluatedRequirement)
          /\ q.rosterComplete
          /\ Same(q.declaredVerifiers, q.executedVerifiers)
     ELSE Same(q.expectedCheckpoint, q.witnessedCheckpoint)
  /\ Covered(q)

(* The whole rule, as the kernel's contract states it. *)
AllHold(q) ==
  /\ q.candidateState = "VALID"
  /\ q.conflicts = "NONE_FOUND"
  /\ q.foreignWrites = "NONE_FOUND"
  /\ Same(q.registeredWatchSet, q.watchedSet)
  /\ Same(q.generationBefore, q.generationAfter)
  /\ Same(q.expectedParent, q.candidateParent)
  /\ Same(q.expectedSubject, q.evidenceSubject)
  /\ Same(q.expectedBase, q.candidateBase)
  /\ Same(q.expectedDelta, q.candidateDelta)
  /\ Same(q.expectedRootSet, q.candidateRootSet)
  /\ StagedRootHolds(q)
  /\ EvidenceHolds(q)

(* The decision procedure: the first reason that applies is the answer. *)
Decide(q) ==
  LET evaluation == q.mode = "CANDIDATE_EVALUATION"
      return     == q.mode = "CHECKPOINT_RETURN"
  IN
  IF q.candidateState # "VALID"                     THEN "INVALID_CANDIDATE"
  ELSE IF q.conflicts = "FOUND"                     THEN "CONFLICT"
  ELSE IF q.foreignWrites = "FOUND"                 THEN "FOREIGN_MANAGED_WRITE"
  ELSE IF ~Measured(q)                              THEN "MEASUREMENT_ABSENT"
  ELSE IF ~Same(q.registeredWatchSet, q.watchedSet) THEN "WATCH_INCOMPLETE"
  ELSE IF ~Same(q.generationBefore, q.generationAfter) THEN "PRIME_CHANGED"
  ELSE IF evaluation /\ ~q.rosterComplete
                                       THEN "EXECUTION_EVIDENCE_INCOMPLETE"
  ELSE IF ~RequiredPresent(q)                       THEN "IDENTITY_ABSENT"
  ELSE IF ~Same(q.expectedParent, q.candidateParent)   THEN "PARENT_MISMATCH"
  ELSE IF ~Same(q.expectedSubject, q.evidenceSubject)
                                       THEN "EVIDENCE_SUBJECT_MISMATCH"
  ELSE IF ~Same(q.expectedBase, q.candidateBase)       THEN "BASE_MISMATCH"
  ELSE IF ~Same(q.expectedDelta, q.candidateDelta)     THEN "DELTA_MISMATCH"
  ELSE IF ~Same(q.expectedRootSet, q.candidateRootSet) THEN "ROOT_SET_MISMATCH"
  ELSE IF q.phase = "COMMIT" /\ ~Same(q.expectedStagedRoot, q.actualStagedRoot)
                                       THEN "STAGED_ROOT_MISMATCH"
  ELSE IF evaluation /\ ~Same(q.currentRequirement, q.evaluatedRequirement)
                                       THEN "VALIDATION_CONTEXT_MISMATCH"
  ELSE IF evaluation /\ ~Same(q.declaredVerifiers, q.executedVerifiers)
                                       THEN "VERIFIER_EXECUTION_IDENTITY_MISMATCH"
  ELSE IF return /\ q.witnessedCheckpoint = Absent  THEN "CHECKPOINT_UNWITNESSED"
  ELSE IF return /\ ~Same(q.expectedCheckpoint, q.witnessedCheckpoint)
                                       THEN "CHECKPOINT_MISMATCH"
  ELSE IF ~Covered(q)                               THEN "STAGED_UNTESTED"
  ELSE "AUTHORIZED"
=============================================================================
