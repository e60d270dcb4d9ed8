--------------------------- MODULE CollapseSteps ----------------------------
(***************************************************************************)
(* Every action of Collapse keeps the invariant of CollapseInvariant, one  *)
(* lemma per action: first the frame lemmas, then the actions that change  *)
(* only where the daemon stands, then those that change the records, the   *)
(* mappings, PRIME or the receipts.  CollapseTypes has the same for the    *)
(* types.                                                                  *)
(***************************************************************************)
EXTENDS CollapseTypes

USE DEF diskVars, txVars, worldVars, primeVars, watchVars, envVars, histVars,
        Consistent, Pending, Undone

(* What the invariant reads of a request's memory is as before. *)
SameRequest ==
  /\ op'.kind = op.kind /\ op'.tx = op.tx /\ op'.cand = op.cand
  /\ op'.goal = op.goal /\ op'.queue = op.queue /\ op'.stage = op.stage

(* The data the invariant reads is as before. *)
SameData ==
  /\ UNCHANGED <<live, slot, lost, file, row, rec, primeGen, receipts>>
  /\ loose' \subseteq loose

(* The facts about the records and the receipts depend on the data only. *)
LEMMA DataFrame ==
  ASSUME RecordsOK, PendingOK, ChainOK, SameData
  PROVE  RecordsOK' /\ PendingOK' /\ ChainOK'
<1>1. RecordsOK'
  BY DEF RecordsOK, RecordOK, Exchanged, Recorded, SameData
<1>2. PendingOK'
  BY DEF PendingOK, Recorded, SameData
<1>3. ChainOK'
  BY DEF ChainOK, ReceiptsDistinct, LeftLive, Settlement, Recorded, SameData
<1>4. QED BY <1>1, <1>2, <1>3

(* The other facts depend on the data and on where the daemon stands. *)
LEMMA ControlFrame ==
  ASSUME ControlOK, PhasesOK, QueueOK, UnrecordedAttended, SameData,
         UNCHANGED <<mode, pc, op, bad>>
  PROVE  ControlOK' /\ PhasesOK' /\ QueueOK' /\ UnrecordedAttended'
<1>1. ControlOK' BY DEF ControlOK, KindsAt
<1>2. PhasesOK' BY DEF PhasesOK, PhaseOK, Exchanged, Recorded, SameData
<1>3. QueueOK' BY DEF QueueOK, Recorded, SameData
<1>4. UnrecordedAttended'
  BY DEF UnrecordedAttended, Attended, Recorded, SameData
<1>5. QED BY <1>1, <1>2, <1>3, <1>4

(* The memory of a daemon at rest. *)
LEMMA NoOpFields ==
  /\ NoOp.kind = "none" /\ NoOp.tx = Absent /\ NoOp.cand = Absent
  /\ NoOp.queue = {} /\ NoOp.stage = 1
  BY DEF NoOp

(* A status request begins its reconcile with nothing quarantined. *)
LEMMA StatusReconcileKeeps ==
  ASSUME TypeOK, Consistent, StatusReconcile
  PROVE  Consistent'
<1>1. /\ mode = "serve" /\ pc = "idle" /\ mode' = mode /\ bad' = bad /\ bad = {}
      /\ pc' = "reconcile" /\ op'.kind = "status"
      /\ op'.tx = Absent /\ op'.queue = {}
  BY NoOpType DEF TypeOK, StatusReconcile, Serving, Op, SameData, NoOp
<1>2. SameData
  BY DEF StatusReconcile, SameData
<1>3. ControlOK'
  BY <1>1 DEF ControlOK, KindsAt, Steps, PrimeSteps
<1>4. PhasesOK'
  BY <1>1, <1>2 DEF PhasesOK, PhaseOK, Recorded, SameData
<1>5. QueueOK'
  BY <1>1, <1>2 DEF QueueOK, Recorded, SameData
<1>6. UnrecordedAttended'
  BY <1>1, <1>2
     DEF UnrecordedAttended, Attended, FinishSteps, Recorded, SameData
<1>7. QED BY <1>2, <1>3, <1>4, <1>5, <1>6, DataFrame

(* The capture only picks the id of the generation to publish. *)
LEMMA ReconcileCaptureKeeps ==
  ASSUME TypeOK, Consistent, NEW r \in Recon, ReconcileCapture(r)
  PROVE  Consistent'
<1>1. /\ mode' = mode /\ bad' = bad
      /\ pc = "reconcile" /\ pc' = "captured" /\ SameRequest
      /\ op'.world = r
  BY DEF TypeOK, ReconcileCapture, Op, SameRequest, SameData
<1>2. SameData
  BY DEF ReconcileCapture, SameData
<1>3. ControlOK'
  BY <1>1 DEF ControlOK, KindsAt, Steps, PrimeSteps, SameRequest
<1>4. PhasesOK'
  BY <1>1, <1>2 DEF PhasesOK, PhaseOK, Recorded, SameData, SameRequest
<1>5. QueueOK'
  BY <1>1, <1>2 DEF QueueOK, Recorded, SameData, SameRequest
<1>6. UnrecordedAttended'
  BY <1>1, <1>2
     DEF UnrecordedAttended, Attended, FinishSteps, Recorded, SameData,
         SameRequest
<1>7. QED BY <1>2, <1>3, <1>4, <1>5, <1>6, DataFrame

(* A stable capture goes on to be published, another ends the request. *)
LEMMA ReconcileStableKeeps ==
  ASSUME TypeOK, Consistent, ReconcileStable
  PROVE  Consistent'
<1>1. /\ mode' = mode /\ bad' = bad
      /\ pc = "captured"
      /\ \/ pc' = "insert" /\ SameRequest /\ op'.world = op.world
         \/ pc' = "idle" /\ op' = NoOp
  BY NoOpType DEF TypeOK, ReconcileStable, Goto, Op, SameRequest, SameData
<1>2. SameData
  BY DEF ReconcileStable, SameData
<1>3. ControlOK'
  BY <1>1, NoOpFields DEF ControlOK, KindsAt, Steps, PrimeSteps, SameRequest
<1>4. PhasesOK'
  BY <1>1, <1>2, NoOpFields, CollapseConstants
     DEF PhasesOK, PhaseOK, ControlOK, KindsAt, RecordsOK, RecordOK, QueueOK,
         Exchanged, Recorded, SameData, SameRequest, Steps, PrimeSteps, World,
         Mapping
<1>5. QueueOK'
  BY <1>1, <1>2, NoOpFields DEF QueueOK, Recorded, SameData, SameRequest
<1>6. UnrecordedAttended'
  BY <1>1, <1>2, NoOpFields
     DEF UnrecordedAttended, Attended, FinishSteps, ControlOK, KindsAt,
         Recorded, SameData, SameRequest
<1>7. QED BY <1>2, <1>3, <1>4, <1>5, <1>6, DataFrame

(* The old PRIME is archived; no transaction is concerned. *)
LEMMA RetirePrimeKeeps ==
  ASSUME TypeOK, Consistent, RetirePrime
  PROVE  Consistent'
<1>1. /\ mode' = mode /\ bad' = bad
      /\ pc = "retire" /\ pc' = "setprime" /\ SameRequest
      /\ op'.world = op.world
  BY DEF TypeOK, RetirePrime, Op, SameRequest, SameData
<1>2. SameData
  BY DEF RetirePrime, SameData
<1>3. ControlOK'
  BY <1>1 DEF ControlOK, KindsAt, Steps, PrimeSteps, SameRequest
<1>4. PhasesOK'
  BY <1>1, <1>2 DEF PhasesOK, PhaseOK, Recorded, SameData, SameRequest
<1>5. QueueOK'
  BY <1>1, <1>2 DEF QueueOK, Recorded, SameData, SameRequest
<1>6. UnrecordedAttended'
  BY <1>1, <1>2
     DEF UnrecordedAttended, Attended, FinishSteps, Recorded, SameData,
         SameRequest
<1>7. QED BY <1>2, <1>3, <1>4, <1>5, <1>6, DataFrame

(* A fork begins with nothing quarantined and no transaction. *)
LEMMA BeginForkKeeps ==
  ASSUME TypeOK, Consistent, NEW c \in Cand, BeginFork(c)
  PROVE  Consistent'
<1>1. /\ mode = "serve" /\ pc = "idle" /\ mode' = mode /\ bad' = bad /\ bad = {}
      /\ pc' \in {"reconcile", "freeze"} /\ op'.kind = "fork"
      /\ op'.tx = Absent /\ op'.cand = c /\ op'.queue = {}
  BY NoOpType DEF TypeOK, BeginFork, Serving, Op, SameData, NoOp
<1>2. SameData
  BY DEF BeginFork, SameData
<1>3. ControlOK'
  BY <1>1 DEF ControlOK, KindsAt, Steps, PrimeSteps
<1>4. PhasesOK'
  BY <1>1, <1>2 DEF PhasesOK, PhaseOK, Recorded, SameData
<1>5. QueueOK'
  BY <1>1, <1>2 DEF QueueOK, Recorded, SameData
<1>6. UnrecordedAttended'
  BY <1>1, <1>2
     DEF UnrecordedAttended, Attended, FinishSteps, Recorded, SameData
<1>7. QED BY <1>2, <1>3, <1>4, <1>5, <1>6, DataFrame

(* The freeze captures, or ends when nothing is watched. *)
LEMMA FreezeCaptureKeeps ==
  ASSUME TypeOK, Consistent, FreezeCapture
  PROVE  Consistent'
<1>1. /\ mode' = mode /\ bad' = bad
      /\ pc = "freeze"
      /\ \/ pc' = "frozen" /\ SameRequest
         \/ pc' = "idle" /\ op' = NoOp
  BY NoOpType DEF TypeOK, FreezeCapture, Goto, Op, SameRequest, SameData
<1>2. SameData
  BY DEF FreezeCapture, SameData
<1>3. ControlOK'
  BY <1>1, NoOpFields DEF ControlOK, KindsAt, Steps, PrimeSteps, SameRequest
<1>4. PhasesOK'
  BY <1>1, <1>2, NoOpFields DEF PhasesOK, PhaseOK, Recorded, SameData, SameRequest
<1>5. QueueOK'
  BY <1>1, <1>2, NoOpFields DEF QueueOK, Recorded, SameData, SameRequest
<1>6. UnrecordedAttended'
  BY <1>1, <1>2, NoOpFields
     DEF UnrecordedAttended, Attended, FinishSteps, ControlOK, KindsAt,
         Recorded, SameData, SameRequest
<1>7. QED BY <1>2, <1>3, <1>4, <1>5, <1>6, DataFrame

(* The freeze ends the request. *)
LEMMA FreezeEndKeeps ==
  ASSUME TypeOK, Consistent, FreezeEnd
  PROVE  Consistent'
<1>1. /\ mode' = mode /\ bad' = bad
      /\ pc = "frozen" /\ pc' = "idle" /\ op' = NoOp
  BY NoOpType DEF TypeOK, FreezeEnd, Goto, Op, SameData
<1>2. SameData
  BY DEF FreezeEnd, SameData
<1>3. ControlOK'
  BY <1>1, NoOpFields DEF ControlOK, KindsAt, Steps, PrimeSteps
<1>4. PhasesOK'
  BY <1>1, <1>2, NoOpFields DEF PhasesOK, PhaseOK, Recorded, SameData
<1>5. QueueOK'
  BY <1>1, <1>2, NoOpFields DEF QueueOK, Recorded, SameData
<1>6. UnrecordedAttended'
  BY <1>1, <1>2, NoOpFields
     DEF UnrecordedAttended, Attended, FinishSteps, ControlOK, KindsAt,
         Recorded, SameData
<1>7. QED BY <1>2, <1>3, <1>4, <1>5, <1>6, DataFrame

(* A prepare begins with nothing quarantined and no transaction. *)
LEMMA BeginPrepareKeeps ==
  ASSUME TypeOK, Consistent, NEW c \in Cand, BeginPrepare(c)
  PROVE  Consistent'
<1>1. /\ mode = "serve" /\ pc = "idle" /\ mode' = mode /\ bad' = bad /\ bad = {}
      /\ pc' \in {"reconcile", "prepare"} /\ op'.kind = "prepare"
      /\ op'.tx = Absent /\ op'.cand = c /\ op'.queue = {}
  BY NoOpType DEF TypeOK, BeginPrepare, Serving, Op, SameData, NoOp
<1>2. SameData
  BY DEF BeginPrepare, SameData
<1>3. ControlOK'
  BY <1>1 DEF ControlOK, KindsAt, Steps, PrimeSteps
<1>4. PhasesOK'
  BY <1>1, <1>2 DEF PhasesOK, PhaseOK, Recorded, SameData
<1>5. QueueOK'
  BY <1>1, <1>2 DEF QueueOK, Recorded, SameData
<1>6. UnrecordedAttended'
  BY <1>1, <1>2
     DEF UnrecordedAttended, Attended, FinishSteps, Recorded, SameData
<1>7. QED BY <1>2, <1>3, <1>4, <1>5, <1>6, DataFrame

(* A refused prepare ends before a transaction exists. *)
LEMMA PrepareRefuseKeeps ==
  ASSUME TypeOK, Consistent, PrepareRefuse
  PROVE  Consistent'
<1>1. /\ mode' = mode /\ bad' = bad
      /\ pc = "prepare" /\ pc' = "idle" /\ op' = NoOp
  BY NoOpType DEF TypeOK, PrepareRefuse, Goto, Op, SameData
<1>2. SameData
  BY DEF PrepareRefuse, SameData
<1>3. ControlOK'
  BY <1>1, NoOpFields DEF ControlOK, KindsAt, Steps, PrimeSteps
<1>4. PhasesOK'
  BY <1>1, <1>2, NoOpFields DEF PhasesOK, PhaseOK, Recorded, SameData
<1>5. QueueOK'
  BY <1>1, <1>2, NoOpFields DEF QueueOK, Recorded, SameData
<1>6. UnrecordedAttended'
  BY <1>1, <1>2, NoOpFields
     DEF UnrecordedAttended, Attended, FinishSteps, ControlOK, KindsAt,
         Recorded, SameData
<1>7. QED BY <1>2, <1>3, <1>4, <1>5, <1>6, DataFrame

(* An abort begins only on a transaction that is not live. *)
LEMMA BeginAbortKeeps ==
  ASSUME TypeOK, Consistent, NEW t \in Tx, BeginAbort(t)
  PROVE  Consistent'
<1>1. /\ mode = "serve" /\ pc = "idle" /\ mode' = mode /\ bad' = bad
      /\ file[t] = row[t] /\ row[t] \in {"PREPARED", "AUTHORIZED", "DENIED"}
      /\ live # t /\ pc' = "setfile" /\ op'.kind = "abort" /\ op'.tx = t
      /\ op'.goal = "ABORTED" /\ op'.queue = {}
  BY NoOpType DEF TypeOK, BeginAbort, Serving, Op, SameData, NoOp
<1>2. SameData
  BY DEF BeginAbort, SameData
<1>3. ControlOK'
  BY <1>1 DEF ControlOK, KindsAt, Steps, PrimeSteps
<1>4. PhasesOK'
  BY <1>1, <1>2 DEF PhasesOK, PhaseOK, Recorded, RecordsOK, RecordOK, Exchanged, SameData
<1>5. QueueOK'
  BY <1>1, <1>2 DEF QueueOK, Recorded, SameData
<1>6. UnrecordedAttended'
  BY <1>1, <1>2
     DEF UnrecordedAttended, Attended, FinishSteps, Recorded, SameData
<1>7. QED BY <1>2, <1>3, <1>4, <1>5, <1>6, DataFrame

(* A commit begins on a PREPARED transaction, or goes to its end. *)
LEMMA BeginCommitKeeps ==
  ASSUME TypeOK, Consistent, NEW t \in Tx, BeginCommit(t)
  PROVE  Consistent'
<1>1. /\ mode = "serve" /\ pc = "idle" /\ mode' = mode /\ bad' = bad
      /\ op'.kind = "commit" /\ op'.tx = t /\ op'.queue = {}
      /\ \/ /\ Committable(t) /\ op'.goal = "DENIED"
            /\ pc' \in {"authorize", "setfile"}
         \/ pc' = "refresh"
  BY NoOpType DEF TypeOK, BeginCommit, Serving, Op, SameData, NoOp
<1>2. SameData
  BY DEF BeginCommit, SameData
<1>3. ControlOK'
  BY <1>1, CollapseConstants
     DEF ControlOK, KindsAt, Steps, PrimeSteps, Committable, World, Mapping,
         QueueOK
<1>4. PhasesOK'
  BY <1>1, <1>2, CollapseConstants
     DEF PhasesOK, PhaseOK, ControlOK, KindsAt, RecordsOK, RecordOK, QueueOK,
         Exchanged, Recorded, SameData, Committable, Steps, PrimeSteps, World,
         Mapping
<1>5. QueueOK'
  BY <1>1, <1>2 DEF QueueOK, Recorded, SameData
<1>6. UnrecordedAttended'
  BY <1>1, <1>2
     DEF UnrecordedAttended, Attended, FinishSteps, Recorded, SameData
<1>7. QED BY <1>2, <1>3, <1>4, <1>5, <1>6, DataFrame

(* The guard lets the exchange happen or aborts what is not live. *)
LEMMA ExchangeGuardKeeps ==
  ASSUME TypeOK, Consistent, ExchangeGuard
  PROVE  Consistent'
<1>1. /\ mode' = mode /\ bad' = bad
      /\ pc = "guard" /\ op'.kind = op.kind /\ op'.tx = op.tx
      /\ op'.queue = op.queue /\ op'.cand = op.cand
      /\ pc' = "exchange" \/ (pc' = "setfile" /\ op'.goal = "ABORTED")
  BY DEF TypeOK, ExchangeGuard, Assign, Op, SameData
<1>2. SameData
  BY DEF ExchangeGuard, SameData
<1>3. ControlOK'
  BY <1>1 DEF ControlOK, KindsAt, Steps, PrimeSteps
<1>4. PhasesOK'
  BY <1>1, <1>2 DEF PhasesOK, PhaseOK, Exchanged, Recorded, SameData
<1>5. QueueOK'
  BY <1>1, <1>2 DEF QueueOK, ControlOK, KindsAt, Recorded, SameData
<1>6. UnrecordedAttended'
  BY <1>1, <1>2
     DEF UnrecordedAttended, Attended, FinishSteps, ControlOK, KindsAt,
         Recorded, SameData
<1>7. QED BY <1>2, <1>3, <1>4, <1>5, <1>6, DataFrame

(* A failed exchange left live alone: the transaction is aborted. *)
LEMMA ExchangeFailsKeeps ==
  ASSUME TypeOK, Consistent, ExchangeFails
  PROVE  Consistent'
<1>1. /\ mode' = mode /\ bad' = bad
      /\ pc = "exchange" /\ op'.kind = op.kind /\ op'.tx = op.tx
      /\ op'.queue = op.queue /\ op'.cand = op.cand
      /\ pc' = "setfile" /\ op'.goal = "ABORTED"
  BY DEF TypeOK, ExchangeFails, Assign, Op, SameData
<1>2. SameData
  BY DEF ExchangeFails, SameData
<1>3. ControlOK'
  BY <1>1 DEF ControlOK, KindsAt, Steps, PrimeSteps
<1>4. PhasesOK'
  BY <1>1, <1>2 DEF PhasesOK, PhaseOK, Exchanged, Recorded, SameData
<1>5. QueueOK'
  BY <1>1, <1>2 DEF QueueOK, ControlOK, KindsAt, Recorded, SameData
<1>6. UnrecordedAttended'
  BY <1>1, <1>2
     DEF UnrecordedAttended, Attended, FinishSteps, ControlOK, KindsAt,
         Recorded, SameData
<1>7. QED BY <1>2, <1>3, <1>4, <1>5, <1>6, DataFrame

(* The exchange is durable; the finishing begins. *)
LEMMA FsyncExchangeKeeps ==
  ASSUME TypeOK, Consistent, NEW ok \in BOOLEAN, FsyncExchange(ok)
  PROVE  Consistent'
<1>1. /\ mode' = mode /\ bad' = bad
      /\ pc = "fsync" /\ pc' = "candidate" /\ SameRequest
  BY DEF TypeOK, FsyncExchange, Op, SameRequest, SameData
<1>2. SameData
  BY DEF FsyncExchange, SameData
<1>3. ControlOK'
  BY <1>1 DEF ControlOK, KindsAt, Steps, PrimeSteps, SameRequest
<1>4. PhasesOK'
  BY <1>1, <1>2 DEF PhasesOK, PhaseOK, Recorded, SameData, SameRequest
<1>5. QueueOK'
  BY <1>1, <1>2 DEF QueueOK, Recorded, SameData, SameRequest
<1>6. UnrecordedAttended'
  BY <1>1, <1>2
     DEF UnrecordedAttended, Attended, FinishSteps, Recorded, SameData,
         SameRequest
<1>7. QED BY <1>2, <1>3, <1>4, <1>5, <1>6, DataFrame

(* Archiving a sibling concerns no transaction. *)
LEMMA FinishSiblingKeeps ==
  ASSUME TypeOK, Consistent, NEW w \in World, FinishSibling(w)
  PROVE  Consistent'
<1>1. /\ mode' = mode /\ bad' = bad
      /\ pc = "siblings" /\ pc' = pc /\ SameRequest
  BY DEF TypeOK, FinishSibling, Op, SameRequest, SameData
<1>2. SameData
  BY DEF FinishSibling, SameData
<1>3. ControlOK'
  BY <1>1 DEF ControlOK, KindsAt, Steps, PrimeSteps, SameRequest
<1>4. PhasesOK'
  BY <1>1, <1>2 DEF PhasesOK, PhaseOK, Recorded, SameData, SameRequest
<1>5. QueueOK'
  BY <1>1, <1>2 DEF QueueOK, Recorded, SameData, SameRequest
<1>6. UnrecordedAttended'
  BY <1>1, <1>2
     DEF UnrecordedAttended, Attended, FinishSteps, Recorded, SameData,
         SameRequest
<1>7. QED BY <1>2, <1>3, <1>4, <1>5, <1>6, DataFrame

(* The finishing chooses what to publish; the transaction stays live. *)
LEMMA FinishPublishKeeps ==
  ASSUME TypeOK, Consistent, FinishPublish
  PROVE  Consistent'
<1>1. /\ mode' = mode /\ bad' = bad
      /\ pc = "siblings" /\ pc' \in {"settle", "retire", "insert"} /\ SameRequest
      /\ pc' = "settle" <=> primeGen = op.tx
  BY DEF TypeOK, FinishPublish, Op, SameRequest, SameData
<1>2. SameData
  BY DEF FinishPublish, SameData
<1>3. ControlOK'
  BY <1>1, CollapseConstants
     DEF ControlOK, KindsAt, Steps, PrimeSteps, SameRequest, World, Mapping
<1>4. PhasesOK'
  BY <1>1, <1>2 DEF PhasesOK, PhaseOK, Recorded, SameData, SameRequest
<1>5. QueueOK'
  BY <1>1, <1>2 DEF QueueOK, Recorded, SameData, SameRequest
<1>6. UnrecordedAttended'
  BY <1>1, <1>2
     DEF UnrecordedAttended, Attended, FinishSteps, Recorded, SameData,
         SameRequest
<1>7. QED BY <1>2, <1>3, <1>4, <1>5, <1>6, DataFrame

(* The record moves on towards COMMITTED while the transaction is live. *)
LEMMA FinishSettleKeeps ==
  ASSUME TypeOK, Consistent, FinishSettle
  PROVE  Consistent'
<1>1. /\ mode' = mode /\ bad' = bad
      /\ pc = "settle" /\ op'.kind = op.kind /\ op'.tx = op.tx
      /\ op'.cand = op.cand /\ op'.queue = op.queue /\ op'.stage = op.stage
      /\ \/ pc' = "offline" /\ file[op.tx] = "COMMITTED"
         \/ /\ pc' = "setfile" /\ file[op.tx] # "COMMITTED"
            /\ op'.goal = IF file[op.tx] = "PREPARED" THEN "AUTHORIZED"
                                                      ELSE "COMMITTED"
  BY DEF TypeOK, FinishSettle, Assign, Op, SameData
<1>2. SameData
  BY DEF FinishSettle, SameData
<1>3. ControlOK'
  BY <1>1 DEF ControlOK, KindsAt, Steps, PrimeSteps
<1>4. PhasesOK'
  BY <1>1, <1>2
     DEF PhasesOK, PhaseOK, Recorded, RecordsOK, RecordOK, ControlOK, KindsAt, Exchanged,
         SameData
<1>5. QueueOK'
  BY <1>1, <1>2 DEF QueueOK, Recorded, SameData
<1>6. UnrecordedAttended'
  BY <1>1, <1>2
     DEF UnrecordedAttended, Attended, FinishSteps, Recorded, SameData
<1>7. QED BY <1>2, <1>3, <1>4, <1>5, <1>6, DataFrame

(* Only dirty changes. *)
LEMMA FinishOfflineKeeps ==
  ASSUME TypeOK, Consistent, FinishOffline
  PROVE  Consistent'
<1>1. /\ mode' = mode /\ bad' = bad
      /\ pc = "offline" /\ pc' = "receipt" /\ SameRequest
  BY DEF TypeOK, FinishOffline, Op, SameRequest, SameData
<1>2. SameData
  BY DEF FinishOffline, SameData
<1>3. ControlOK'
  BY <1>1 DEF ControlOK, KindsAt, Steps, PrimeSteps, SameRequest
<1>4. PhasesOK'
  BY <1>1, <1>2 DEF PhasesOK, PhaseOK, Recorded, SameData, SameRequest
<1>5. QueueOK'
  BY <1>1, <1>2 DEF QueueOK, Recorded, SameData, SameRequest
<1>6. UnrecordedAttended'
  BY <1>1, <1>2
     DEF UnrecordedAttended, Attended, FinishSteps, Recorded, SameData,
         SameRequest
<1>7. QED BY <1>2, <1>3, <1>4, <1>5, <1>6, DataFrame

(* The watcher is rebuilt at the end of a commit request. *)
LEMMA RefreshKeeps ==
  ASSUME TypeOK, Consistent, NEW ok \in BOOLEAN, Refresh(ok)
  PROVE  Consistent'
<1>1. /\ mode' = mode /\ bad' = bad
      /\ pc = "refresh" /\ pc' = "idle" /\ op' = NoOp
  BY NoOpType DEF TypeOK, Refresh, Goto, Op, SameData
<1>2. SameData
  BY DEF Refresh, SameData
<1>3. ControlOK'
  BY <1>1, NoOpFields DEF ControlOK, KindsAt, Steps, PrimeSteps
<1>4. PhasesOK'
  BY <1>1, <1>2, NoOpFields DEF PhasesOK, PhaseOK, Recorded, SameData
<1>5. QueueOK'
  BY <1>1, <1>2, NoOpFields DEF QueueOK, Recorded, SameData
<1>6. UnrecordedAttended'
  BY <1>1, <1>2, NoOpFields
     DEF UnrecordedAttended, Attended, FinishSteps, ControlOK, KindsAt,
         Recorded, SameData
<1>7. QED BY <1>2, <1>3, <1>4, <1>5, <1>6, DataFrame

(* A crash forgets the memory and leaves the data. *)
LEMMA CrashKeeps ==
  ASSUME TypeOK, Consistent, Crash
  PROVE  Consistent'
<1>1. /\ mode' = "down" /\ bad' = {} /\ pc' = "idle" /\ op' = NoOp
  BY NoOpType DEF TypeOK, Crash, Op, SameData
<1>2. SameData
  BY DEF Crash, SameData
<1>3. ControlOK'
  BY <1>1, NoOpFields DEF ControlOK, KindsAt, Steps, PrimeSteps
<1>4. PhasesOK'
  BY <1>1, <1>2, NoOpFields DEF PhasesOK, PhaseOK, Recorded, SameData
<1>5. QueueOK'
  BY <1>1, <1>2, NoOpFields DEF QueueOK, Recorded, SameData
<1>6. UnrecordedAttended'
  BY <1>1, <1>2, NoOpFields
     DEF UnrecordedAttended, Attended, FinishSteps, Recorded, SameData
<1>7. QED BY <1>2, <1>3, <1>4, <1>5, <1>6, DataFrame

(* Recovery queues every pending transaction, the live one among them. *)
LEMMA StartKeeps ==
  ASSUME TypeOK, Consistent, Start
  PROVE  Consistent'
<1>1. /\ mode = "down" /\ mode' = "recover" /\ pc' = "recover" /\ bad' = bad
      /\ op'.kind = "recover" /\ op'.tx = Absent /\ op'.stage = 1
      /\ op'.queue = {t \in Tx : row[t] \in {"PREPARED", "AUTHORIZED"}}
  BY NoOpType DEF TypeOK, Start, Op, SameData, NoOp
<1>2. SameData
  BY DEF Start, SameData
<1>3. ControlOK'
  BY <1>1 DEF ControlOK, KindsAt, Steps, PrimeSteps
<1>4. PhasesOK'
  BY <1>1, <1>2 DEF PhasesOK, PhaseOK, Recorded, SameData
<1>5. QueueOK'
  BY <1>1, <1>2 DEF QueueOK, Recorded, SameData
<1>6. UnrecordedAttended'
  BY <1>1, <1>2
     DEF UnrecordedAttended, Attended, FinishSteps, ControlOK, KindsAt,
         PhasesOK, PhaseOK, RecordsOK, RecordOK, Exchanged, Recorded, SameData
<1>7. QED BY <1>2, <1>3, <1>4, <1>5, <1>6, DataFrame

(* The markers send a pending transaction to its finish or its abort. *)
LEMMA RecoverOneKeeps ==
  ASSUME TypeOK, Consistent, NEW t \in Tx, RecoverOne(t)
  PROVE  Consistent'
<1>1. /\ mode' = mode /\ pc = "recover" /\ op.stage = 1 /\ t \in op.queue
      /\ op'.kind = op.kind /\ op'.tx = t /\ op'.stage = 1 /\ op'.cand = op.cand
      /\ op'.queue = op.queue \ {t}
      /\ \/ /\ file[t] = row[t] /\ live = t /\ slot[t] # t
            /\ pc' = "candidate" /\ bad' = bad
         \/ /\ file[t] = row[t] /\ slot[t] = t /\ live # t
            /\ pc' = "setfile" /\ op'.goal = "ABORTED" /\ bad' = bad
         \/ pc' = "recover" /\ bad' = bad \cup {t}
  BY DEF TypeOK, RecoverOne, Op, SameData
<1>2. SameData
  BY DEF RecoverOne, SameData
<1>3. ControlOK'
  BY <1>1 DEF ControlOK, KindsAt, Steps, PrimeSteps
<1>4. PhasesOK'
  BY <1>1, <1>2, CollapseConstants
     DEF PhasesOK, PhaseOK, ControlOK, KindsAt, RecordsOK, RecordOK, QueueOK,
         Exchanged, Recorded, SameData, Steps, PrimeSteps, World, Mapping
<1>5. QueueOK'
  BY <1>1, <1>2 DEF QueueOK, Recorded, SameData
<1>6. UnrecordedAttended'
  BY <1>1, <1>2
     DEF UnrecordedAttended, Attended, FinishSteps, Recorded, SameData
<1>7. QED BY <1>2, <1>3, <1>4, <1>5, <1>6, DataFrame

(* Then every COMMITTED transaction without receipt is queued. *)
LEMMA RecoverReceiptsKeeps ==
  ASSUME TypeOK, Consistent, RecoverReceipts
  PROVE  Consistent'
<1>1. /\ mode' = mode /\ bad' = bad
      /\ pc = "recover" /\ pc' = "recover" /\ op.stage = 1 /\ op.queue = {}
      /\ op'.kind = op.kind /\ op'.tx = op.tx /\ op'.stage = 2 /\ op'.cand = op.cand
      /\ op'.queue = {t \in Tx : row[t] = "COMMITTED" /\ ~Recorded(t)}
  BY DEF TypeOK, RecoverReceipts, Op, SameData
<1>2. SameData
  BY DEF RecoverReceipts, SameData
<1>3. ControlOK'
  BY <1>1 DEF ControlOK, KindsAt, Steps, PrimeSteps
<1>4. PhasesOK'
  BY <1>1, <1>2 DEF PhasesOK, PhaseOK, Recorded, SameData
<1>5. QueueOK'
  BY <1>1, <1>2 DEF QueueOK, ControlOK, KindsAt, Recorded, SameData
<1>6. UnrecordedAttended'
  BY <1>1, <1>2
     DEF UnrecordedAttended, Attended, FinishSteps, Recorded, SameData
<1>7. QED BY <1>2, <1>3, <1>4, <1>5, <1>6, DataFrame

(* A COMMITTED transaction without receipt is live: it is finished. *)
LEMMA RecoverReceiptKeeps ==
  ASSUME TypeOK, Consistent, NEW t \in Tx, RecoverReceipt(t)
  PROVE  Consistent'
<1>1. /\ mode' = mode /\ pc = "recover" /\ op.stage = 2 /\ t \in op.queue
      /\ op'.kind = op.kind /\ op'.tx = t /\ op'.stage = 2 /\ op'.cand = op.cand
      /\ op'.queue = op.queue \ {t}
      /\ \/ file[t] = row[t] /\ pc' = "candidate" /\ bad' = bad
         \/ pc' = "recover" /\ bad' = bad \cup {t}
  BY DEF TypeOK, RecoverReceipt, Op, SameData
<1>2. SameData
  BY DEF RecoverReceipt, SameData
<1>3. ControlOK'
  BY <1>1 DEF ControlOK, KindsAt, Steps, PrimeSteps
<1>4. PhasesOK'
  <2>1. row[t] = "COMMITTED" /\ ~Recorded(t) /\ op.kind = "recover"
    BY <1>1 DEF QueueOK, ControlOK, KindsAt
  <2>2. primeGen = t /\ RecordOK(t)
    BY <2>1 DEF PendingOK, RecordsOK
  <2>3. file[t] = "COMMITTED" /\ (live = t \/ t \in lost)
    BY <2>1, <2>2 DEF RecordOK
  <2>4. QED BY <1>1, <1>2, <2>1, <2>2, <2>3 DEF PhasesOK, PhaseOK, Recorded, SameData
<1>5. QueueOK'
  BY <1>1, <1>2 DEF QueueOK, Recorded, SameData
<1>6. UnrecordedAttended'
  BY <1>1, <1>2
     DEF UnrecordedAttended, Attended, FinishSteps, Recorded, SameData
<1>7. QED BY <1>2, <1>3, <1>4, <1>5, <1>6, DataFrame

(* When recovery ends, what has no receipt is quarantined. *)
LEMMA RecoveryEndKeeps ==
  ASSUME TypeOK, Consistent, RecoveryEnd
  PROVE  Consistent'
<1>1. /\ pc = "recover" /\ op.stage = 2 /\ op.queue = {}
      /\ mode' = "serve" /\ bad' = bad /\ pc' = "idle" /\ op' = NoOp
  BY NoOpType DEF TypeOK, RecoveryEnd, Op, SameData
<1>2. SameData
  BY DEF RecoveryEnd, SameData
<1>3. ControlOK'
  BY <1>1, NoOpFields DEF ControlOK, KindsAt, Steps, PrimeSteps
<1>4. PhasesOK'
  BY <1>1, <1>2, NoOpFields DEF PhasesOK, PhaseOK, Recorded, SameData
<1>5. QueueOK'
  BY <1>1, <1>2, NoOpFields DEF QueueOK, Recorded, SameData
<1>6. UnrecordedAttended'
  BY <1>1, <1>2, NoOpFields
     DEF UnrecordedAttended, Attended, FinishSteps, ControlOK, KindsAt,
         Recorded, SameData
<1>7. QED BY <1>2, <1>3, <1>4, <1>5, <1>6, DataFrame

(* A raised exception quarantines what is live and unrecorded. *)
LEMMA RaiseKeeps ==
  ASSUME TypeOK, ControlOK, RecordsOK, PhasesOK, QueueOK, UnrecordedAttended, Raise,
         pc \in FallibleSteps, mode' = mode, UNCHANGED <<live, file, row, receipts>>
  PROVE  ControlOK' /\ PhasesOK' /\ QueueOK' /\ UnrecordedAttended'
<1>1. \/ /\ op.kind = "recover" /\ pc' = "recover" /\ op' = op
         /\ bad' = bad \cup {op.tx}
      \/ /\ op.kind = "commit" /\ pc' = "refresh" /\ op' = op
         /\ bad' = IF live = op.tx THEN bad \cup {op.tx} ELSE bad
      \/ /\ op.kind \in {"status", "fork", "prepare", "abort"}
         /\ pc' = "idle" /\ op' = NoOp /\ bad' = bad
  BY
     DEF Raise, Goto, Leave, Quarantines, TypeOK, Op, Kinds, ControlOK,
         KindsAt,
         FallibleSteps
<1>2. ControlOK'
  BY <1>1, NoOpFields, CollapseConstants
     DEF ControlOK, KindsAt, Steps, PrimeSteps, FallibleSteps, TypeOK, Maybe, Op
<1>3. PhasesOK'
  BY <1>1, NoOpFields, CollapseConstants DEF PhasesOK, PhaseOK, Recorded, World, Mapping
<1>4. QueueOK'
  BY <1>1, NoOpFields, CollapseConstants
     DEF QueueOK, ControlOK, KindsAt, FallibleSteps, Recorded
<1>5. UnrecordedAttended'
  <2> SUFFICES ASSUME NEW u \in Tx, Pending(u)
               PROVE  Attended(u)'
    BY DEF UnrecordedAttended, Recorded
  <2>1. Attended(u)
    BY DEF UnrecordedAttended
  <2>2. CASE op.kind \in {"recover", "commit"}
    <3>1. op.kind = "commit" /\ op.tx = u /\ pc \in FinishSteps => live = u
      BY DEF FinishSteps, FallibleSteps, PhasesOK, PhaseOK, Recorded, RecordsOK, RecordOK
    <3>2. QED BY <1>1, <2>1, <2>2, <3>1 DEF Attended
  <2>3. CASE op.kind \in {"status", "fork", "prepare", "abort"}
    <3>1. ~(op.tx = u /\ pc \in FinishSteps)
      BY <2>3, CollapseConstants
         DEF FinishSteps, FallibleSteps, ControlOK, KindsAt, PhasesOK, PhaseOK, Recorded,
             RecordsOK, RecordOK, Exchanged, World, Mapping
    <3>2. mode # "recover" /\ mode # "down"
      BY <2>3 DEF ControlOK, FallibleSteps
    <3>3. QED BY <1>1, <2>1, <2>3, <3>1, <3>2 DEF Attended
  <2>4. QED BY <1>1, <2>2, <2>3
<1>6. QED BY <1>2, <1>3, <1>4, <1>5

(* The chain and what waits for its receipt depend on little of the data. *)
LEMMA ChainFrame ==
  ASSUME UNCHANGED <<live, slot, lost, receipts>>
  PROVE  /\ ChainOK => ChainOK'
         /\ PendingOK /\ UNCHANGED <<row, primeGen>> => PendingOK'
  BY DEF ChainOK, ReceiptsDistinct, LeftLive, Settlement, PendingOK, Recorded

(* The chain of receipts does not look at an unrecorded mapping. *)
LEMMA ChainSlot ==
  ASSUME TypeOK, ChainOK, NEW t \in Tx, ~Recorded(t), live # t, NEW x,
         slot' = [slot EXCEPT ![t] = x], UNCHANGED <<live, lost, receipts>>
  PROVE  ChainOK'
<1>1. \A i \in 1..Len(receipts) : receipts[i] \in Tx /\ receipts[i] # t
  BY DEF TypeOK, Recorded, Range
<1>2. \A u \in Tx : u # t => slot'[u] = slot[u]
  BY DEF TypeOK
<1>3. \A n, g : LeftLive(n, g)' <=> LeftLive(n, g)
  BY DEF LeftLive
<1>4. Settlement' = Settlement
  BY <1>2 DEF Settlement, Recorded
<1>5. ASSUME NEW i \in 1..Len(receipts), receipts[i] \notin lost
      PROVE  LeftLive(i - 1, slot'[receipts[i]])
  BY <1>1, <1>2, <1>5 DEF ChainOK
<1>6. QED BY <1>3, <1>4, <1>5 DEF ChainOK, ReceiptsDistinct, LeftLive

(* The publication goes on, or its exception quarantines. *)
LEMMA InsertCheckpointKeeps ==
  ASSUME TypeOK, Consistent, InsertCheckpoint
  PROVE  Consistent'
<1>1. SameData /\ pc = "insert" /\ mode' = mode
  BY DEF InsertCheckpoint, SameData
<1>2. CASE Raise
  BY <1>1, <1>2, RaiseKeeps, DataFrame DEF SameData, FallibleSteps
<1>3. CASE Goto("retire") /\ bad' = bad
  <2>1. pc' = "retire" /\ op' = op
    BY <1>3 DEF Goto
  <2>2. ControlOK'
    BY <1>1, <1>3, <2>1 DEF ControlOK, KindsAt, Steps, PrimeSteps
  <2>3. PhasesOK'
    BY <1>1, <2>1 DEF PhasesOK, PhaseOK, Recorded, SameData
  <2>4. QueueOK'
    BY <1>1, <2>1 DEF QueueOK, Recorded, SameData
  <2>5. UnrecordedAttended'
    BY <1>1, <1>3, <2>1
       DEF UnrecordedAttended, Attended, FinishSteps, Recorded, SameData
  <2>6. QED BY <1>1, <2>2, <2>3, <2>4, <2>5, DataFrame
<1>4. QED BY <1>2, <1>3 DEF InsertCheckpoint

(* The candidate is collapsed, or its exception quarantines. *)
LEMMA FinishCandidateKeeps ==
  ASSUME TypeOK, Consistent, FinishCandidate
  PROVE  Consistent'
<1>1. SameData /\ pc = "candidate" /\ mode' = mode
  BY DEF FinishCandidate, SameData
<1>2. CASE Raise
  BY <1>1, <1>2, RaiseKeeps, DataFrame DEF SameData, FallibleSteps
<1>3. CASE pc' = "siblings" /\ bad' = bad /\ \E W : op' = [op EXCEPT !.todo = W]
  <2>1. SameRequest
    BY <1>3 DEF TypeOK, Op, SameRequest
  <2>2. ControlOK'
    BY <1>1, <1>3, <2>1 DEF ControlOK, KindsAt, Steps, PrimeSteps, SameRequest
  <2>3. PhasesOK'
    BY <1>1, <1>3, <2>1 DEF PhasesOK, PhaseOK, Recorded, SameData, SameRequest
  <2>4. QueueOK'
    BY <1>1, <1>3, <2>1 DEF QueueOK, Recorded, SameData, SameRequest
  <2>5. UnrecordedAttended'
    BY <1>1, <1>3, <2>1
       DEF UnrecordedAttended, Attended, FinishSteps, Recorded, SameData, SameRequest
  <2>6. QED BY <1>1, <2>2, <2>3, <2>4, <2>5, DataFrame
<1>4. \/ Raise
      \/ pc' = "siblings" /\ bad' = bad /\ \E W : op' = [op EXCEPT !.todo = W]
  BY DEF FinishCandidate
<1>5. QED BY <1>2, <1>3, <1>4

(* A failing call raises; a prepare also removes its own staging. *)
LEMMA StorageFaultKeeps ==
  ASSUME TypeOK, Consistent, StorageFault
  PROVE  Consistent'
<1>1. ControlOK' /\ PhasesOK' /\ QueueOK' /\ UnrecordedAttended'
  BY RaiseKeeps DEF StorageFault
<1>2. CASE pc = "staged"
  <2>1. op.tx \in Tx /\ file[op.tx] = Absent
    BY <1>2 DEF ControlOK, Steps, PrimeSteps, PhasesOK, PhaseOK, Recorded
  <2>2. /\ slot' = [slot EXCEPT ![op.tx] = Absent]
        /\ UNCHANGED <<live, loose, lost, file, row, rec, primeGen, receipts>>
    BY <1>2 DEF StorageFault
  <2>3. row[op.tx] = Absent /\ live # op.tx /\ ~Recorded(op.tx) /\ ~Exchanged(op.tx)
    BY <2>1, CollapseConstants DEF RecordsOK, RecordOK, TxStates
  <2>4. RecordsOK'
    <3> SUFFICES ASSUME NEW t \in Tx PROVE RecordOK(t)'
      BY DEF RecordsOK
    <3>1. RecordOK(t)
      BY DEF RecordsOK
    <3>2. slot'[t] = IF t = op.tx THEN Absent ELSE slot[t]
      BY <2>2 DEF TypeOK
    <3>3. QED
      BY <2>1, <2>2, <2>3, <3>1, <3>2, CollapseConstants
         DEF RecordOK, Exchanged, Recorded, TxStates
  <2>5. ChainOK'
    BY <2>1, <2>2, <2>3, ChainSlot
  <2>6. PendingOK'
    BY <2>2 DEF PendingOK, Recorded
  <2>7. QED BY <1>1, <2>4, <2>5, <2>6
<1>3. CASE pc # "staged"
  <2>1. SameData
    BY <1>3 DEF StorageFault, SameData
  <2>2. QED BY <1>1, <2>1, DataFrame
<1>4. QED BY <1>2, <1>3

(* PRIME names the transaction only once it is exchanged. *)
LEMMA SetPrimeKeeps ==
  ASSUME TypeOK, Consistent, SetPrime
  PROVE  Consistent'
<1>1. /\ pc = "setprime" /\ mode' = mode /\ bad' = bad
      /\ UNCHANGED <<live, slot, loose, lost, file, row, rec, receipts>>
      /\ \/ op.tx = Absent /\ primeGen' = op.world /\ pc' = "idle" /\ op' = NoOp
         \/ /\ op.tx = Absent /\ primeGen' = op.world /\ op' = op
            /\ pc' = IF op.kind = "fork" THEN "freeze" ELSE "prepare"
            /\ op.kind \in {"fork", "prepare"}
         \/ op.tx # Absent /\ primeGen' = op.tx /\ pc' = "settle" /\ op' = op
  BY DEF SetPrime, Goto, AfterReconcile
<1>2. ControlOK'
  BY <1>1, NoOpFields, CollapseConstants
     DEF ControlOK, KindsAt, Steps, PrimeSteps, TypeOK, Op, Maybe
<1>3. RecordsOK'
  <2> SUFFICES ASSUME NEW t \in Tx, primeGen' = t PROVE Exchanged(t)
    BY <1>1 DEF RecordsOK, RecordOK, Exchanged, Recorded
  <2>1. op.tx = t
    BY <1>1, CollapseConstants DEF ControlOK
  <2>2. QED BY <1>1, <2>1 DEF PhasesOK, PhaseOK, Recorded, RecordsOK, RecordOK
<1>4. PhasesOK'
  BY <1>1, NoOpFields, CollapseConstants DEF PhasesOK, PhaseOK, Recorded, World, Mapping
<1>5. QueueOK'
  BY <1>1, NoOpFields, CollapseConstants DEF QueueOK, Recorded
<1>6. UnrecordedAttended'
  BY <1>1, NoOpFields, CollapseConstants
     DEF UnrecordedAttended, Attended, FinishSteps, ControlOK, KindsAt, Recorded,
         World, Mapping
<1>7. ChainOK'
  BY <1>1, ChainFrame
<1>8. PendingOK'
  <2> SUFFICES ASSUME NEW t \in Tx, Pending(t)
               PROVE  (\A u \in Tx : Pending(u) => u = t) /\ primeGen' = t
    BY <1>1 DEF PendingOK, Recorded
  <2>1. CASE op.tx = Absent
    <3>1. mode = "serve" /\ bad = {}
      BY <1>1, <2>1 DEF ControlOK, KindsAt, TypeOK
    <3>2. QED
      BY <2>1, <3>1, CollapseConstants DEF UnrecordedAttended, Attended, World, Mapping
  <2>2. CASE op.tx # Absent
    <3>1. op.tx \in Tx /\ Pending(op.tx)
      BY <1>1, <2>2 DEF TypeOK, Op, Maybe, PhasesOK, PhaseOK, Recorded
    <3>2. QED BY <1>1, <2>2, <3>1 DEF PendingOK
  <2>3. QED BY <2>1, <2>2
<1>9. QED BY <1>2, <1>3, <1>4, <1>5, <1>6, <1>7, <1>8

(* A new transaction: its mapping exists unless the merge conflicts. *)
LEMMA PrepareStageKeeps ==
  ASSUME TypeOK, Consistent, NEW t \in Tx, NEW passed \in BOOLEAN,
         PrepareStage(t, passed)
  PROVE  Consistent'
<1>1. /\ pc = "prepare" /\ pc' = "staged" /\ mode' = mode /\ bad' = bad
      /\ file[t] = Absent /\ slot[t] = Absent
      /\ UNCHANGED <<live, loose, lost, file, row, primeGen, receipts>>
  BY DEF PrepareStage
<1>2. /\ op'.kind = op.kind /\ op'.tx = t /\ op'.cand = op.cand
      /\ op'.queue = op.queue
  BY DEF PrepareStage, TypeOK, Op
<1> DEFINE r == [cand |-> op.cand, before |-> tree[live],
                 staged |-> Merge(op.cand, tree[live]),
                 conflict |-> Conflict(op.cand, tree[live]),
                 primary |-> evaluated[op.cand],
                 second |-> IF passed THEN req ELSE Absent,
                 authorized |-> Absent]
<1>3. /\ r.cand = op.cand /\ rec' = [rec EXCEPT ![t] = r]
      /\ slot' = [slot EXCEPT ![t] = IF r.conflict THEN Absent ELSE t]
  BY DEF PrepareStage
<1> HIDE DEF r
<1>4. /\ rec'[t].cand = op.cand
      /\ slot'[t] = IF rec'[t].conflict THEN Absent ELSE t
      /\ \A u \in Tx : u # t => rec'[u] = rec[u] /\ slot'[u] = slot[u]
  BY <1>3 DEF TypeOK
<1>5. /\ row[t] = Absent /\ live # t /\ ~Recorded(t) /\ op.cand \in Cand
      /\ op.kind = "prepare"
  BY <1>1, CollapseConstants
     DEF RecordsOK, RecordOK, Exchanged, ControlOK, KindsAt, TxStates
<1>6. ControlOK'
  BY <1>1, <1>2, <1>5 DEF ControlOK, KindsAt, Steps, PrimeSteps
<1>7. RecordsOK'
  <2> SUFFICES ASSUME NEW u \in Tx PROVE RecordOK(u)'
    BY DEF RecordsOK
  <2>1. RecordOK(u)
    BY DEF RecordsOK
  <2>2. CASE u = t
    BY <1>1, <1>4, <1>5, <2>1, <2>2, CollapseConstants
       DEF RecordOK, Exchanged, Recorded, TxStates
  <2>3. CASE u # t
    BY <1>1, <1>4, <2>1, <2>3 DEF RecordOK, Exchanged, Recorded
  <2>4. QED BY <2>2, <2>3
<1>8. PhasesOK'
  BY <1>1, <1>2, <1>4, <1>5 DEF PhasesOK, PhaseOK, Recorded
<1>9. QueueOK'
  BY <1>1, <1>2, <1>5 DEF QueueOK, Recorded
<1>10. UnrecordedAttended'
  BY <1>1, <1>2, <1>5
     DEF UnrecordedAttended, Attended, FinishSteps, ControlOK, KindsAt, Recorded
<1>11. ChainOK'
  <2>1. PICK x : slot' = [slot EXCEPT ![t] = x]
    BY <1>3
  <2>2. QED BY <1>1, <1>5, <2>1, ChainSlot
<1>12. PendingOK'
  BY <1>1 DEF PendingOK, Recorded
<1>13. QED BY <1>6, <1>7, <1>8, <1>9, <1>10, <1>11, <1>12

(* Only an authorized request is recorded as PREPARED. *)
LEMMA PrepareDecideKeeps ==
  ASSUME TypeOK, Consistent, PrepareDecide
  PROVE  Consistent'
<1> DEFINE t == op.tx
           d == Decide(Request(t, "PREPARE"))
<1>1. /\ pc = "staged" /\ pc' = "row" /\ mode' = mode /\ bad' = bad /\ op' = op
      /\ UNCHANGED <<live, slot, loose, lost, row, rec, primeGen, receipts>>
      /\ file' = [file EXCEPT ![t] = IF d = "AUTHORIZED" THEN "PREPARED"
                                                         ELSE "DENIED"]
  BY DEF PrepareDecide
<1>2. /\ t \in Tx /\ file[t] = Absent /\ rec[t].cand \in Cand
      /\ slot[t] = IF rec[t].conflict THEN Absent ELSE t
  BY <1>1 DEF ControlOK, Steps, PrimeSteps, PhasesOK, PhaseOK, Recorded
<1>3. d = "AUTHORIZED" => ~rec[t].conflict
  BY DEF Decide, Request
<1> HIDE DEF d
<1>4. /\ file'[t] \in {"PREPARED", "DENIED"}
      /\ file'[t] = "PREPARED" => slot[t] = t
      /\ \A u \in Tx : u # t => file'[u] = file[u]
  BY <1>1, <1>2, <1>3 DEF TypeOK
<1>5. row[t] = Absent /\ ~Exchanged(t) /\ live # t /\ ~Recorded(t)
  BY <1>2, CollapseConstants DEF RecordsOK, RecordOK, TxStates
<1>6. ControlOK'
  BY <1>1 DEF ControlOK, KindsAt, Steps, PrimeSteps
<1>7. RecordsOK'
  <2> SUFFICES ASSUME NEW u \in Tx PROVE RecordOK(u)'
    BY DEF RecordsOK
  <2>1. RecordOK(u)
    BY DEF RecordsOK
  <2>2. CASE u = t
    BY <1>1, <1>2, <1>4, <1>5, <2>1, <2>2, CollapseConstants
       DEF RecordOK, Exchanged, Recorded, TxStates
  <2>3. CASE u # t
    BY <1>1, <1>4, <2>1, <2>3 DEF RecordOK, Exchanged, Recorded
  <2>4. QED BY <2>2, <2>3
<1>8. PhasesOK'
  BY <1>1, <1>4, <1>5 DEF PhasesOK, PhaseOK, Recorded
<1>9. QueueOK'
  BY <1>1 DEF QueueOK, Recorded
<1>10. UnrecordedAttended'
  BY <1>1, <1>5 DEF UnrecordedAttended, Attended, FinishSteps, Recorded
<1>11. ChainOK'
  BY <1>1, ChainFrame
<1>12. PendingOK'
  BY <1>1 DEF PendingOK, Recorded
<1>13. QED BY <1>6, <1>7, <1>8, <1>9, <1>10, <1>11, <1>12

(* The row repeats the record; a denied transaction is reclaimed. *)
LEMMA PrepareRowKeeps ==
  ASSUME TypeOK, Consistent, PrepareRow
  PROVE  Consistent'
<1> DEFINE t == op.tx
<1>1. /\ pc = "row" /\ mode' = mode /\ bad' = bad
      /\ UNCHANGED <<live, slot, loose, lost, file, rec, primeGen, receipts>>
      /\ row' = [row EXCEPT ![t] = file[t]]
      /\ \/ file[t] = "DENIED" /\ pc' = "reclaim" /\ op' = op
         \/ file[t] # "DENIED" /\ pc' = "idle" /\ op' = NoOp
  BY DEF PrepareRow, Goto
<1>2. /\ t \in Tx /\ file[t] \in {"PREPARED", "DENIED"} /\ row[t] = Absent
      /\ file[t] = "PREPARED" => slot[t] = t
  BY <1>1 DEF ControlOK, Steps, PrimeSteps, PhasesOK, PhaseOK, Recorded
<1>3. row'[t] = file[t] /\ \A u \in Tx : u # t => row'[u] = row[u]
  BY <1>1, <1>2 DEF TypeOK
<1>4. ~Exchanged(t) /\ live # t /\ ~Recorded(t) /\ op.kind = "prepare"
  BY <1>1, <1>2, CollapseConstants
     DEF RecordsOK, RecordOK, TxStates, ControlOK, KindsAt
<1>5. ControlOK'
  BY <1>1, <1>2, NoOpFields DEF ControlOK, KindsAt, Steps, PrimeSteps
<1>6. RecordsOK'
  <2> SUFFICES ASSUME NEW u \in Tx PROVE RecordOK(u)'
    BY DEF RecordsOK
  <2>1. RecordOK(u)
    BY DEF RecordsOK
  <2>2. CASE u = t
    BY <1>1, <1>2, <1>3, <1>4, <2>1, <2>2, CollapseConstants
       DEF RecordOK, Exchanged, Recorded, TxStates
  <2>3. CASE u # t
    BY <1>1, <1>3, <2>1, <2>3 DEF RecordOK, Exchanged, Recorded
  <2>4. QED BY <2>2, <2>3
<1>7. PhasesOK'
  BY <1>1, <1>2, <1>4, NoOpFields, CollapseConstants
     DEF PhasesOK, PhaseOK, Recorded, World, Mapping
<1>8. QueueOK'
  BY <1>1, <1>4, NoOpFields, CollapseConstants DEF QueueOK, Recorded
<1>9. UnrecordedAttended'
  <2>1. \A u \in Tx : Pending(u)' => u # t /\ Pending(u)
    BY <1>1, <1>2, <1>3, <1>4 DEF Recorded
  <2>2. mode = "serve" /\ bad = {}
    BY <1>1, <1>4 DEF ControlOK, TypeOK
  <2>3. \A u \in Tx : u # t => ~Pending(u)
    BY <2>2 DEF UnrecordedAttended, Attended
  <2>4. QED BY <2>1, <2>3 DEF UnrecordedAttended
<1>10. ChainOK'
  BY <1>1, ChainFrame
<1>11. PendingOK'
  BY <1>1, <1>2, <1>3 DEF PendingOK, Recorded
<1>12. QED BY <1>5, <1>6, <1>7, <1>8, <1>9, <1>10, <1>11

(* The JSON record moves first, along the lifecycle. *)
LEMMA SetFileKeeps ==
  ASSUME TypeOK, Consistent, SetFile
  PROVE  Consistent'
<1> DEFINE t == op.tx
<1>1. /\ pc = "setfile" /\ pc' = "setrow" /\ mode' = mode /\ bad' = bad /\ op' = op
      /\ UNCHANGED <<live, slot, loose, lost, row, rec, primeGen, receipts>>
      /\ file' = [file EXCEPT ![t] = op.goal]
  BY DEF SetFile
<1>2. t \in Tx /\ PhaseOK(t) /\ RecordOK(t)
  BY <1>1 DEF ControlOK, Steps, PrimeSteps, PhasesOK, RecordsOK
<1>3. file'[t] = op.goal /\ \A u \in Tx : u # t => file'[u] = file[u]
  BY <1>1, <1>2 DEF TypeOK
<1>4. file[t] # Absent
  BY <1>1, <1>2, CollapseConstants DEF PhaseOK, Recorded, TxStates
<1>5. ControlOK'
  BY <1>1 DEF ControlOK, KindsAt, Steps, PrimeSteps
<1>6. RecordsOK'
  <2> SUFFICES ASSUME NEW u \in Tx PROVE RecordOK(u)'
    BY DEF RecordsOK
  <2>1. RecordOK(u)
    BY DEF RecordsOK
  <2>2. CASE u = t
    BY <1>1, <1>2, <1>3, <1>4, <2>1, <2>2, CollapseConstants
       DEF PhaseOK, RecordOK, Exchanged, Recorded, TxStates
  <2>3. CASE u # t
    BY <1>1, <1>3, <2>1, <2>3 DEF RecordOK, Exchanged, Recorded
  <2>4. QED BY <2>2, <2>3
<1>7. PhasesOK'
  <2>1. /\ \/ op.goal = "DENIED" /\ op.kind = "commit" /\ row[t] = "PREPARED"
           \/ /\ op.goal = "AUTHORIZED" /\ op.kind = "commit"
              /\ row[t] = "PREPARED" /\ slot[t] = t /\ t \notin lost
           \/ /\ op.goal = "ABORTED"
              /\ row[t] \in {"PREPARED", "AUTHORIZED", "DENIED"}
           \/ /\ op.goal = "COMMITTED" /\ op.kind \in {"commit", "recover"}
              /\ live = t /\ row[t] = "AUTHORIZED" /\ primeGen = t
    BY <1>1, <1>2 DEF PhaseOK, RecordOK, Exchanged
  <2>2. QED BY <1>1, <1>3, <2>1 DEF PhasesOK, PhaseOK
<1>8. QueueOK'
  BY <1>1 DEF QueueOK, Recorded
<1>9. UnrecordedAttended'
  BY <1>1 DEF UnrecordedAttended, Attended, FinishSteps, Recorded
<1>10. ChainOK'
  BY <1>1, ChainFrame
<1>11. PendingOK'
  BY <1>1 DEF PendingOK, Recorded
<1>12. QED BY <1>5, <1>6, <1>7, <1>8, <1>9, <1>10, <1>11

(* The row follows the JSON record. *)
LEMMA SetRowKeeps ==
  ASSUME TypeOK, Consistent, SetRow
  PROVE  Consistent'
<1> DEFINE t == op.tx
<1>1. /\ pc = "setrow" /\ mode' = mode /\ bad' = bad /\ op' = op
      /\ UNCHANGED <<live, slot, loose, lost, file, rec, primeGen, receipts>>
      /\ row' = [row EXCEPT ![t] = op.goal]
  BY DEF SetRow
<1>2. t \in Tx /\ PhaseOK(t) /\ RecordOK(t)
  BY <1>1 DEF ControlOK, Steps, PrimeSteps, PhasesOK, RecordsOK
<1>3. row'[t] = op.goal /\ \A u \in Tx : u # t => row'[u] = row[u]
  BY <1>1, <1>2 DEF TypeOK
<1>4. \/ op.goal = "COMMITTED" /\ pc' = "offline"
      \/ op.goal = "AUTHORIZED" /\ live # t /\ pc' = "guard"
      \/ op.goal \in {"DENIED", "ABORTED"} /\ pc' = "reclaim"
  BY <1>1, <1>2 DEF SetRow, PhaseOK, Recorded, RecordOK, Exchanged
<1>5. file[t] = op.goal /\ file[t] # Absent
  BY <1>1, <1>2, CollapseConstants DEF PhaseOK, Recorded, TxStates
<1>6. ControlOK'
  BY <1>1, <1>2, <1>4 DEF ControlOK, KindsAt, Steps, PrimeSteps, PhaseOK, Recorded
<1>7. RecordsOK'
  <2> SUFFICES ASSUME NEW u \in Tx PROVE RecordOK(u)'
    BY DEF RecordsOK
  <2>1. RecordOK(u)
    BY DEF RecordsOK
  <2>2. CASE u = t
    BY <1>1, <1>2, <1>3, <1>5, <2>1, <2>2, CollapseConstants
       DEF PhaseOK, RecordOK, Exchanged, Recorded, TxStates
  <2>3. CASE u # t
    BY <1>1, <1>3, <2>1, <2>3 DEF RecordOK, Exchanged, Recorded
  <2>4. QED BY <2>2, <2>3
<1>8. PhasesOK'
  <2>1. /\ pc' = "offline" => live = t /\ primeGen = t /\ ~Recorded(t)
        /\ pc' = "guard" => slot[t] = t /\ t \notin lost
    BY <1>1, <1>2, <1>4 DEF PhaseOK, RecordOK
  <2>2. QED BY <1>1, <1>3, <1>4, <1>5, <2>1 DEF PhasesOK, PhaseOK, Recorded
<1>9. QueueOK'
  BY <1>1, <1>2, <1>3 DEF QueueOK, Recorded, ControlOK, TypeOK, Op
<1>10. UnrecordedAttended'
  <2> SUFFICES ASSUME NEW u \in Tx, Pending(u)'
               PROVE  Attended(u)'
    BY <1>1 DEF UnrecordedAttended, Recorded
  <2>2. CASE u = t
    <3>1. op.goal = "COMMITTED"
      BY <1>1, <1>2, <1>3, <2>2 DEF PhaseOK, RecordOK, Exchanged, Recorded
    <3>2. QED BY <1>1, <1>4, <2>2, <3>1 DEF Attended, FinishSteps
  <2>3. CASE u # t
    <3>1. Attended(u)
      BY <1>1, <1>3, <2>3 DEF UnrecordedAttended, Recorded
    <3>2. QED BY <1>1, <1>3, <2>3, <3>1 DEF Attended
  <2>4. QED BY <2>2, <2>3
<1>11. ChainOK'
  BY <1>1, ChainFrame
<1>12. PendingOK'
  <2>1. op.goal = "COMMITTED" => live = t /\ primeGen = t
    BY <1>1, <1>2 DEF PhaseOK, Recorded
  <2>2. QED BY <1>1, <1>2, <1>3, <2>1 DEF PendingOK, Recorded
<1>13. QED BY <1>6, <1>7, <1>8, <1>9, <1>10, <1>11, <1>12

(* Only the staging of a DENIED or ABORTED transaction goes. *)
LEMMA ReclaimKeeps ==
  ASSUME TypeOK, Consistent, Reclaim
  PROVE  Consistent'
<1> DEFINE t == op.tx
<1>1. /\ pc = "reclaim" /\ mode' = mode /\ bad' = bad
      /\ UNCHANGED <<live, loose, lost, file, row, rec, primeGen, receipts>>
      /\ slot' = IF live = t THEN slot ELSE [slot EXCEPT ![t] = Absent]
      /\ \/ op.kind = "recover" /\ pc' = "recover" /\ op' = op
         \/ op.kind = "commit" /\ pc' = "refresh" /\ op' = op
         \/ op.kind \in {"prepare", "abort"} /\ pc' = "idle" /\ op' = NoOp
  BY DEF Reclaim, Goto, Leave, ControlOK, KindsAt
<1>2. t \in Tx /\ PhaseOK(t) /\ RecordOK(t)
  BY <1>1 DEF ControlOK, Steps, PrimeSteps, PhasesOK, RecordsOK
<1>3. /\ file[t] \in {"DENIED", "ABORTED"} /\ ~Exchanged(t) /\ live # t
      /\ ~Recorded(t)
  BY <1>1, <1>2 DEF PhaseOK, Recorded, RecordOK
<1>4. slot'[t] = Absent /\ \A u \in Tx : u # t => slot'[u] = slot[u]
  BY <1>1, <1>2, <1>3 DEF TypeOK
<1>5. ControlOK'
  BY <1>1, <1>2, NoOpFields DEF ControlOK, KindsAt, Steps, PrimeSteps
<1>6. RecordsOK'
  <2> SUFFICES ASSUME NEW u \in Tx PROVE RecordOK(u)'
    BY DEF RecordsOK
  <2>1. RecordOK(u)
    BY DEF RecordsOK
  <2>2. CASE u = t
    BY <1>1, <1>2, <1>3, <1>4, <2>1, <2>2, CollapseConstants
       DEF RecordOK, Exchanged, Recorded, TxStates
  <2>3. CASE u # t
    BY <1>1, <1>4, <2>1, <2>3 DEF RecordOK, Exchanged, Recorded
  <2>4. QED BY <2>2, <2>3
<1>7. PhasesOK'
  BY <1>1, NoOpFields, CollapseConstants DEF PhasesOK, PhaseOK, Recorded, World, Mapping
<1>8. QueueOK'
  BY <1>1, NoOpFields, CollapseConstants DEF QueueOK, Recorded
<1>9. UnrecordedAttended'
  BY <1>1, <1>3, NoOpFields
     DEF UnrecordedAttended, Attended, FinishSteps, ControlOK, KindsAt, Recorded
<1>10. ChainOK'
  BY <1>1, <1>2, <1>3, ChainSlot
<1>11. PendingOK'
  BY <1>1 DEF PendingOK, Recorded
<1>12. QED BY <1>5, <1>6, <1>7, <1>8, <1>9, <1>10, <1>11

(* The decision only sets where the record goes next. *)
LEMMA AuthorizeKeeps ==
  ASSUME TypeOK, Consistent, Authorize
  PROVE  Consistent'
<1> DEFINE t == op.tx
<1>1. /\ pc = "authorize" /\ pc' = "setfile" /\ mode' = mode /\ bad' = bad
      /\ UNCHANGED <<live, slot, loose, lost, file, row, primeGen, receipts>>
      /\ rec' = rec \/ rec' = [rec EXCEPT ![t].authorized = req]
      /\ \/ op' = [op EXCEPT !.goal = "AUTHORIZED", !.gen = Generation]
         \/ op' = [op EXCEPT !.goal = "ABORTED"]
         \/ \E b : op' = [op EXCEPT !.moved = b]
  BY DEF Authorize
<1>2. t \in Tx /\ PhaseOK(t) /\ RecordOK(t)
  BY <1>1 DEF ControlOK, Steps, PrimeSteps, PhasesOK, RecordsOK
<1>3. /\ op'.kind = op.kind /\ op'.tx = t /\ op'.cand = op.cand
      /\ op'.queue = op.queue /\ op'.stage = op.stage
      /\ op'.goal \in {op.goal, "AUTHORIZED", "ABORTED"}
  BY <1>1 DEF TypeOK, Op
<1>4. \A u \in Tx : rec'[u].cand = rec[u].cand
  BY <1>1, <1>2 DEF TypeOK, Record
<1>5. ControlOK'
  BY <1>1, <1>2, <1>3 DEF ControlOK, KindsAt, Steps, PrimeSteps
<1>6. RecordsOK'
  BY <1>1, <1>4 DEF RecordsOK, RecordOK, Exchanged, Recorded
<1>7. PhasesOK'
  BY <1>1, <1>2, <1>3
     DEF PhasesOK, PhaseOK, Recorded, ControlOK, KindsAt, RecordOK, Exchanged
<1>8. QueueOK'
  BY <1>1, <1>3 DEF QueueOK, Recorded
<1>9. UnrecordedAttended'
  BY <1>1, <1>3 DEF UnrecordedAttended, Attended, FinishSteps, Recorded
<1>10. ChainOK'
  BY <1>1, ChainFrame
<1>11. PendingOK'
  BY <1>1 DEF PendingOK, Recorded
<1>12. QED BY <1>5, <1>6, <1>7, <1>8, <1>9, <1>10, <1>11

(* The exchange displaces a recorded generation. *)
LEMMA ExchangeKeeps ==
  ASSUME TypeOK, Consistent, Exchange
  PROVE  Consistent'
<1> DEFINE t == op.tx
<1>1. /\ pc = "exchange" /\ pc' = "fsync" /\ mode' = mode /\ bad' = bad /\ op' = op
      /\ live' = t /\ slot' = [slot EXCEPT ![t] = live] /\ loose' = loose \cup {t}
      /\ UNCHANGED <<lost, file, row, rec, primeGen, receipts>>
  BY DEF Exchange
<1>2. t \in Tx /\ PhaseOK(t) /\ RecordOK(t) /\ live \in Mapping
  BY <1>1 DEF ControlOK, Steps, PrimeSteps, PhasesOK, RecordsOK, TypeOK
<1>3. /\ file[t] = "AUTHORIZED" /\ row[t] = "AUTHORIZED" /\ slot[t] = t
      /\ ~Exchanged(t) /\ live # t /\ ~Recorded(t) /\ primeGen # t
      /\ live # Absent /\ t \notin lost
  BY <1>1, <1>2, CollapseConstants DEF PhaseOK, Recorded, RecordOK, Exchanged, World
<1>4. slot'[t] = live /\ \A u \in Tx : u # t => slot'[u] = slot[u]
  BY <1>1, <1>2 DEF TypeOK
<1>5. \A u \in Tx : ~Pending(u)
  <2>1. bad = {} /\ mode = "serve"
    BY <1>1, <1>3 DEF ControlOK, KindsAt, TypeOK
  <2>2. QED BY <1>1, <2>1 DEF UnrecordedAttended, Attended, FinishSteps
<1>6. ControlOK'
  BY <1>1 DEF ControlOK, KindsAt, Steps, PrimeSteps
<1>7. RecordsOK'
  <2> SUFFICES ASSUME NEW u \in Tx PROVE RecordOK(u)'
    BY DEF RecordsOK
  <2>1. RecordOK(u)
    BY DEF RecordsOK
  <2>2. CASE u = t
    BY <1>1, <1>2, <1>3, <1>4, <2>1, <2>2, CollapseConstants
       DEF RecordOK, Exchanged, Recorded, TxStates
  <2>3. CASE u # t
    BY <1>1, <1>4, <1>5, <2>1, <2>3 DEF RecordOK, Exchanged, Recorded
  <2>4. QED BY <2>2, <2>3
<1>8. PhasesOK'
  BY <1>1, <1>2, <1>3, <1>4, <1>5 DEF PhasesOK, PhaseOK, Exchanged, Recorded
<1>9. QueueOK'
  BY <1>1 DEF QueueOK, Recorded
<1>10. \A u \in Tx : Pending(u)' => u = t
  BY <1>1, <1>5 DEF Recorded
<1>11. UnrecordedAttended'
  BY <1>1, <1>10 DEF UnrecordedAttended, Attended, FinishSteps
<1>12. PendingOK'
  BY <1>1, <1>3, <1>10 DEF PendingOK
<1>13. ChainOK'
  <2>1. \A i \in 1..Len(receipts) : receipts[i] \in Tx /\ receipts[i] # t
    BY <1>3 DEF TypeOK, Recorded, Range
  <2>2. \A n, g : LeftLive(n, g)' <=> LeftLive(n, g)
    BY <1>1 DEF LeftLive
  <2>3. Settlement = live /\ Settlement' = live
    BY <1>1, <1>2, <1>3, <1>4, <1>5 DEF Settlement, Recorded
  <2>4. ASSUME NEW i \in 1..Len(receipts), receipts[i] \notin lost
        PROVE  LeftLive(i - 1, slot'[receipts[i]])
    BY <1>4, <2>1, <2>4 DEF ChainOK
  <2>5. QED BY <1>1, <2>2, <2>3, <2>4 DEF ChainOK, ReceiptsDistinct, LeftLive
<1>14. QED BY <1>6, <1>7, <1>8, <1>9, <1>11, <1>12, <1>13

(* A recorded transaction has a place among the receipts. *)
LEMMA ReceiptIndex ==
  ASSUME TypeOK
  PROVE  \A t : Recorded(t) <=> \E i \in 1..Len(receipts) : receipts[i] = t
  BY DEF TypeOK, Recorded, Range

(* What is live, if no exchange waits for its receipt, is recorded and not *)
(* lost.                                                                   *)
LEMMA LeftIsRecorded ==
  ASSUME TypeOK, RecordsOK, NEW n, n \in 0..Len(receipts), NEW g, g \in Tx,
         LeftLive(n, g)
  PROVE  Recorded(g) /\ g \notin lost /\ Exchanged(g)
<1>1. g # Genesis
  BY CollapseConstants
<1>2. PICK i \in 1..n : g = receipts[i] /\ g \notin lost
  BY <1>1 DEF LeftLive
<1>3. Recorded(g)
  BY <1>2, ReceiptIndex DEF TypeOK
<1>4. QED BY <1>2, <1>3 DEF RecordsOK, RecordOK

(* What the receipts before the lost one left is as before. *)
LEMMA LeftBefore ==
  ASSUME NEW t, lost' = lost \cup {t}, receipts' = receipts,
         NEW m \in Nat, NEW g, LeftLive(m, g), \A i \in 1..m : receipts[i] # t
  PROVE  LeftLive(m, g)'
  BY DEF LeftLive

(* A power loss undoes the last exchange, which left what it displaced. *)
LEMMA PowerLossKeeps ==
  ASSUME TypeOK, Consistent, PowerLoss
  PROVE  Consistent'
<1>0. PICK t, g, n : t = live /\ g = slot[t] /\ n = Len(receipts)
  OBVIOUS
<1>1. /\ mode = "down" /\ t \in loose /\ loose' = loose \ {t} /\ lost' = lost \cup {t}
      /\ live' = g /\ slot' = [slot EXCEPT ![t] = t]
      /\ UNCHANGED <<file, row, rec, primeGen, receipts, mode, pc, op, bad>>
  BY <1>0 DEF PowerLoss
<1>2. t \in Tx /\ RecordOK(t)
  BY <1>1 DEF RecordsOK, TypeOK
<1>3. /\ file[t] \in {"AUTHORIZED", "COMMITTED"} /\ row[t] \in {"AUTHORIZED", "COMMITTED"}
      /\ g \notin {t, Absent} /\ t \notin lost
  BY <1>0, <1>1, <1>2 DEF RecordOK, Exchanged
<1>4. slot'[t] = t /\ \A u \in Tx : u # t => slot'[u] = slot[u]
  BY <1>1, <1>2 DEF TypeOK
<1>5. pc = "idle" /\ op = NoOp
  BY <1>1 DEF ControlOK
<1>6. n \in Nat /\ \A i \in 1..n : receipts[i] \in Tx
  BY <1>0 DEF TypeOK
<1>7. /\ \E m \in 0..n : LeftLive(m, g)
      /\ LeftLive(n, g)'
      /\ \A j \in 1..n : receipts[j] \notin lost' =>
           /\ receipts[j] # t /\ LeftLive(j - 1, slot[receipts[j]])
           /\ \A i \in 1..(j - 1) : receipts[i] # t
  <2>1. CASE Recorded(t)
    <3>1. PICK k \in 1..n : receipts[k] = t
      BY <1>0, <2>1, ReceiptIndex
    <3>2. Settlement = t /\ t # Genesis
      BY <1>0, <1>2, <2>1, CollapseConstants DEF Settlement
    <3>3. LeftLive(k - 1, g)
      BY <1>0, <1>3, <3>1 DEF ChainOK
    <3>4. \A j \in (k + 1)..n : receipts[j] \in lost
      <4>1. PICK i \in 1..n : /\ t = receipts[i]
                             /\ \A j \in (i + 1)..n : receipts[j] \in lost
        BY <1>0, <3>2 DEF ChainOK, LeftLive
      <4>2. i = k
        BY <1>0, <3>1, <4>1 DEF ChainOK, ReceiptsDistinct
      <4>3. QED BY <4>1, <4>2
    <3>5. \A i \in 1..(k - 1) : receipts[i] # t
      BY <1>0, <1>6, <3>1 DEF ChainOK, ReceiptsDistinct
    <3>6. k - 1 \in Nat /\ k - 1 \in 0..n
      BY <1>6
    <3>7. LeftLive(k - 1, g)'
      BY <1>1, <3>3, <3>5, <3>6, LeftBefore
    <3>8. \A i \in k..n : receipts[i] \in lost'
      BY <1>1, <1>6, <3>1, <3>4
    <3>9. LeftLive(n, g)'
      BY <1>1, <1>6, <3>7, <3>8 DEF LeftLive
    <3>10. ASSUME NEW j \in 1..n, receipts[j] \notin lost'
           PROVE  /\ receipts[j] # t /\ LeftLive(j - 1, slot[receipts[j]])
                  /\ \A i \in 1..(j - 1) : receipts[i] # t
      <4>1. j < k /\ receipts[j] # t
        BY <1>1, <1>6, <3>8, <3>10
      <4>2. QED BY <1>0, <1>1, <3>5, <3>10, <4>1 DEF ChainOK
    <3>11. QED BY <3>3, <3>6, <3>9, <3>10
  <2>2. CASE ~Recorded(t)
    <3>1. \A i \in 1..n : receipts[i] # t
      BY <1>0, <2>2, ReceiptIndex
    <3>2. LeftLive(n, g)
      BY <1>0, <1>2, <2>2 DEF ChainOK, Settlement
    <3>3. LeftLive(n, g)'
      BY <1>1, <1>6, <3>1, <3>2, LeftBefore
    <3>4. QED BY <1>0, <1>1, <1>6, <3>1, <3>2, <3>3 DEF ChainOK
  <2>3. QED BY <2>1, <2>2
<1>8. g \in Tx => Recorded(g) /\ Exchanged(g)
  BY <1>0, <1>7, LeftIsRecorded
<1>9. ControlOK'
  BY <1>1 DEF ControlOK, KindsAt
<1>10. RecordsOK'
  <2> SUFFICES ASSUME NEW u \in Tx PROVE RecordOK(u)'
    BY DEF RecordsOK
  <2>1. RecordOK(u)
    BY DEF RecordsOK
  <2>2. CASE u = t
    BY <1>1, <1>2, <1>3, <1>4, <2>1, <2>2, CollapseConstants
       DEF RecordOK, Exchanged, Recorded, TxStates
  <2>3. CASE u # t
    BY <1>0, <1>1, <1>4, <1>8, <2>1, <2>3 DEF RecordOK, Exchanged, Recorded
  <2>4. QED BY <2>2, <2>3
<1>11. PhasesOK'
  BY <1>1, <1>5, NoOpFields, CollapseConstants DEF PhasesOK, World, Mapping
<1>12. QueueOK'
  BY <1>1 DEF QueueOK, Recorded
<1>13. UnrecordedAttended'
  BY <1>1 DEF UnrecordedAttended, Attended
<1>14. PendingOK'
  <2>1. \A u \in Tx : Pending(u)' => Pending(u)
    BY <1>1, <1>8 DEF Recorded
  <2>2. QED BY <1>1, <2>1 DEF PendingOK
<1>15. ChainOK'
  <2>1. Settlement' = g
    BY <1>1, <1>8 DEF Settlement, Recorded
  <2>2. ASSUME NEW j \in 1..n, receipts[j] \notin lost'
        PROVE  LeftLive(j - 1, slot[receipts[j]])'
    <3>1. PICK h, m : h = slot[receipts[j]] /\ m = j - 1
      OBVIOUS
    <3>2. LeftLive(m, h)'
      BY <1>1, <1>6, <1>7, <2>2, <3>1, LeftBefore
    <3>3. slot'[receipts[j]] = h
      BY <1>4, <1>6, <1>7, <2>2, <3>1
    <3>4. QED BY <1>1, <3>1, <3>2, <3>3
  <2>3. QED BY <1>0, <1>1, <1>7, <2>1, <2>2 DEF ChainOK, ReceiptsDistinct
<1>16. QED BY <1>9, <1>10, <1>11, <1>12, <1>13, <1>14, <1>15

(* What is in a sequence after an append. *)
LEMMA RangeAppend ==
  ASSUME NEW S, NEW s \in Seq(S), NEW e \in S
  PROVE  Range(Append(s, e)) = Range(s) \cup {e}
<1>1. /\ Len(s) \in Nat /\ DOMAIN s = 1..Len(s)
      /\ DOMAIN Append(s, e) = 1..(Len(s) + 1)
      /\ \A i \in 1..Len(s) : Append(s, e)[i] = s[i]
      /\ Append(s, e)[Len(s) + 1] = e
  OBVIOUS
<1>2. ASSUME NEW x \in Range(Append(s, e)) PROVE x \in Range(s) \cup {e}
  <2>1. PICK i \in 1..(Len(s) + 1) : x = Append(s, e)[i]
    BY <1>1, <1>2 DEF Range
  <2>2. QED BY <1>1, <2>1 DEF Range
<1>3. ASSUME NEW x \in Range(s) PROVE x \in Range(Append(s, e))
  <2>1. PICK i \in 1..Len(s) : x = s[i]
    BY <1>1, <1>3 DEF Range
  <2>2. i \in 1..(Len(s) + 1) /\ x = Append(s, e)[i]
    BY <1>1, <2>1
  <2>3. QED BY <1>1, <2>2 DEF Range
<1>4. e \in Range(Append(s, e))
  BY <1>1 DEF Range
<1>5. QED BY <1>2, <1>3, <1>4

(* The receipt extends the chain by the live transaction. *)
LEMMA FinishReceiptKeeps ==
  ASSUME TypeOK, Consistent, FinishReceipt
  PROVE  Consistent'
<1> DEFINE t == op.tx
<1>1. /\ pc = "receipt" /\ mode' = mode /\ bad' = bad
      /\ receipts' = IF Recorded(t) THEN receipts ELSE Append(receipts, t)
      /\ UNCHANGED <<live, slot, loose, lost, file, row, rec, primeGen>>
      /\ \/ op.kind = "recover" /\ pc' = "recover" /\ op' = op
         \/ op.kind = "commit" /\ pc' = "refresh" /\ op' = op
  BY DEF FinishReceipt, Goto, Leave, ControlOK, KindsAt
<1>2. t \in Tx /\ PhaseOK(t) /\ RecordOK(t)
  BY <1>1 DEF ControlOK, Steps, PrimeSteps, PhasesOK, RecordsOK
<1>3. /\ live = t \/ t \in lost
      /\ file[t] = "COMMITTED" /\ row[t] = "COMMITTED" /\ ~Recorded(t)
  BY <1>1, <1>2 DEF PhaseOK, Recorded
<1>4. Range(receipts') = Range(receipts) \cup {t}
  BY <1>1, <1>2, RangeAppend DEF TypeOK, Recorded
<1>5. \A u \in Tx : Recorded(u)' <=> Recorded(u) \/ u = t
  BY <1>4 DEF Recorded
<1>6. ControlOK'
  BY <1>1, <1>2 DEF ControlOK, KindsAt, Steps, PrimeSteps
<1>7. RecordsOK'
  <2> SUFFICES ASSUME NEW u \in Tx PROVE RecordOK(u)'
    BY DEF RecordsOK
  <2>1. RecordOK(u)
    BY DEF RecordsOK
  <2>2. CASE u = t
    BY <1>1, <1>2, <1>3, <1>5, <2>1, <2>2, CollapseConstants
       DEF RecordOK, Exchanged, TxStates
  <2>3. CASE u # t
    BY <1>1, <1>5, <2>1, <2>3 DEF RecordOK, Exchanged
  <2>4. QED BY <2>2, <2>3
<1>8. PhasesOK'
  BY <1>1, CollapseConstants DEF PhasesOK, PhaseOK, Recorded
<1>9. QueueOK'
  BY <1>1, <1>2, <1>5 DEF QueueOK, TypeOK, Op
<1>10. \A u \in Tx : ~Pending(u)'
  <2>1. Pending(t)
    BY <1>3
  <2>2. QED BY <1>1, <1>2, <1>5, <2>1 DEF PendingOK
<1>11. UnrecordedAttended' /\ PendingOK'
  BY <1>10 DEF UnrecordedAttended, PendingOK
<1>12. ChainOK'
  <2>1. PICK n : n = Len(receipts)
    OBVIOUS
  <2>2. /\ receipts \in Seq(Tx) /\ n \in Nat
        /\ Len(receipts') = n + 1 /\ receipts'[n + 1] = t
        /\ \A i \in 1..n : receipts'[i] = receipts[i]
    BY <1>1, <1>2, <1>3, <2>1 DEF TypeOK
  <2>3. \A i \in 1..n : receipts[i] # t
    BY <1>3, <2>1, ReceiptIndex
  <2>4. ASSUME NEW m \in 0..n, NEW g PROVE LeftLive(m, g)' <=> LeftLive(m, g)
    <3>1. \A i \in 1..m : receipts'[i] = receipts[i]
      BY <2>2
    <3>2. \A i \in 1..m : \A j \in (i + 1)..m : receipts'[j] = receipts[j]
      BY <2>2, <3>1
    <3>3. lost' = lost
      BY <1>1
    <3>4. QED BY <3>1, <3>2, <3>3 DEF LeftLive
  <2>5. ReceiptsDistinct'
    BY <2>1, <2>2, <2>3 DEF ReceiptsDistinct, ChainOK
  <2>6. live = t => t \notin lost /\ LeftLive(n, slot[t])
    BY <1>2, <1>3, <2>1 DEF RecordOK, ChainOK, Settlement
  <2>7. ASSUME NEW i \in 1..(n + 1), receipts'[i] \notin lost
        PROVE  LeftLive(i - 1, slot[receipts'[i]])
    <3>1. CASE i \in 1..n
      BY <2>1, <2>2, <2>7, <3>1 DEF ChainOK
    <3>2. CASE i = n + 1
      BY <1>3, <2>2, <2>6, <2>7, <3>2
    <3>3. QED BY <2>2, <3>1, <3>2
  <2>8. \A i \in 1..(n + 1) :
          receipts'[i] \notin lost' => LeftLive(i - 1, slot[receipts[i]])'
    <3> SUFFICES ASSUME NEW i \in 1..(n + 1), receipts'[i] \notin lost'
                 PROVE  LeftLive(i - 1, slot[receipts[i]])'
      OBVIOUS
    <3>1. PICK m, h : m = i - 1 /\ h = slot[receipts'[i]] /\ m \in 0..n
      BY <2>2
    <3>2. LeftLive(m, h)'
      BY <1>1, <2>4, <2>7, <3>1
    <3>3. QED BY <1>1, <3>1, <3>2
  <2>9. PICK g : g = live
    OBVIOUS
  <2>10. Settlement' = g
    BY <1>1, <1>10, <2>9 DEF Settlement
  <2>11. LeftLive(n + 1, g)'
    <3>1. CASE live = t
      BY <1>1, <2>2, <2>6, <2>9, <3>1 DEF LeftLive
    <3>2. CASE live # t
      <4>1. Settlement = g /\ t \in lost
        BY <1>3, <1>10, <1>5, <2>9, <3>2, <1>1 DEF Settlement
      <4>2. LeftLive(n, g)'
        BY <2>1, <2>2, <2>4, <4>1 DEF ChainOK
      <4>3. QED BY <1>1, <2>2, <4>1, <4>2 DEF LeftLive
    <3>3. QED BY <3>1, <3>2
  <2>12. QED BY <2>2, <2>5, <2>8, <2>10, <2>11 DEF ChainOK
<1>13. QED BY <1>6, <1>7, <1>8, <1>9, <1>11, <1>12

-----------------------------------------------------------------------------
(* The actions that touch nothing the invariant reads, the types aside:    *)
(* other programs, the watcher's thread, the agents.                       *)
LEMMA OutsideKeeps ==
  ASSUME Consistent,
         \/ WatcherDeliver \/ Agents \/ Environment
         \/ \E c \in Cand : Revalidate(c)
  PROVE  Consistent'
<1>1. SameData /\ UNCHANGED <<mode, pc, op, bad>>
  BY
     DEF WatcherDeliver, Agents, Environment, Revalidate, Finalizing,
         Finalized,
         FailedStart, ExternalWrite, PolicyChange, SameData
<1>2. QED BY <1>1, DataFrame, ControlFrame

=============================================================================
