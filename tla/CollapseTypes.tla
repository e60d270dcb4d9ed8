---------------------------- MODULE CollapseTypes ----------------------------
(***************************************************************************)
(* Every step of Collapse keeps TypeOK.  The type invariant alone is not   *)
(* inductive: that the transaction a step works on is one, that its record *)
(* names a candidate and that an undone exchange leaves a generation live  *)
(* come from the other parts of the invariant (CollapseInvariant).  One    *)
(* lemma per action, named for it; TypeStep combines them.                 *)
(***************************************************************************)
EXTENDS CollapseInvariant, TLAPS

USE DEF diskVars, txVars, worldVars, primeVars, watchVars, envVars, histVars

(* The values the model starts from and the updates it makes are typed. *)
LEMMA PlainTreeType ==
  PlainTree \in Tree
  BY DEF PlainTree, Tree, Value

(* The memory of a daemon at rest is typed. *)
LEMMA NoOpType ==
  NoOp \in Op
  BY PlainTreeType DEF NoOp, Op, Maybe, Kinds, World, Mapping, TxStates

(* The empty record is typed. *)
LEMMA NoRecordType ==
  NoRecord \in Record
  BY PlainTreeType, CollapseConstants DEF NoRecord, Record, Maybe, Reqs

(* Updating a field of the memory with a value of its type is typed. *)
LEMMA OpUpdates ==
  ASSUME NEW o \in Op
  PROVE  /\ \A t \in Tx : [o EXCEPT !.tx = t] \in Op
         /\ \A c \in Cand : [o EXCEPT !.cand = c] \in Op
         /\ \A g \in Maybe(Nat) : [o EXCEPT !.gen = g] \in Op
         /\ \A s \in Tree : [o EXCEPT !.seen = s] \in Op
         /\ \A w \in World : [o EXCEPT !.world = w] \in Op
         /\ \A g \in TxStates : [o EXCEPT !.goal = g] \in Op
         /\ \A k \in Kinds : [o EXCEPT !.kind = k] \in Op
         /\ \A Q \in SUBSET Tx : [o EXCEPT !.queue = Q] \in Op
         /\ \A W \in SUBSET World : [o EXCEPT !.todo = W] \in Op
         /\ \A m \in BOOLEAN : [o EXCEPT !.moved = m] \in Op
  BY DEF Op, Maybe

(* Consuming the queue keeps the watcher typed. *)
LEMMA ConsumeType ==
  ASSUME TypeOK, Consume
  PROVE  wgen' \in Nat /\ pend' \in BOOLEAN /\ watched' \in Maybe(Mapping)
<1>1. Drained \in Nat BY DEF Drained, TypeOK
<1>2. QED BY <1>1 DEF Consume, TypeOK

(* So does draining it, which may mark PRIME dirty. *)
LEMMA DrainType ==
  ASSUME TypeOK, Drain
  PROVE  /\ wgen' \in Nat /\ pend' \in BOOLEAN /\ watched' \in Maybe(Mapping)
         /\ dirty' \in BOOLEAN /\ reported' \in BOOLEAN
  BY ConsumeType DEF Drain, TypeOK

(* A generation is a number, or absent. *)
LEMMA GenerationType ==
  ASSUME TypeOK
  PROVE  Generation \in Maybe(Nat)
  BY DEF TypeOK, Generation, Drained, Maybe

(* An exception leaves a typed control state. *)
LEMMA RaiseType ==
  ASSUME TypeOK, ControlOK, Raise, pc \in FallibleSteps
  PROVE  op' \in Op /\ pc' \in Steps /\ bad' \in SUBSET Tx
<1>1. op' \in Op /\ pc' \in Steps
  BY NoOpType DEF Raise, Goto, Leave, TypeOK, Steps
<1>2. Quarantines => op.tx \in Tx
  <2>1. CASE op.kind = "recover"
    BY <2>1 DEF TypeOK, ControlOK, KindsAt, Steps, PrimeSteps, FallibleSteps,
            Maybe, Op
  <2>2. CASE live = op.tx
    BY <2>2, CollapseConstants DEF TypeOK, Mapping, World, Maybe, Op
  <2>3. QED BY <2>1, <2>2 DEF Quarantines
<1>3. bad' \in SUBSET Tx
  BY <1>2 DEF Raise, TypeOK
<1>4. QED BY <1>1, <1>3

-----------------------------------------------------------------------------
(* The world around the daemon: other programs, the watcher's thread, the  *)
(* agents.                                                                 *)

(* ExternalWrite keeps the types. *)
LEMMA ExternalWriteType ==
  ASSUME TypeOK, ControlOK, NEW p \in Path, NEW v \in Edit \cup {Genesis},
         ExternalWrite(p, v)
  PROVE  TypeOK'
<1>1. tree' \in [Mapping -> Tree]
  BY DEF TypeOK, ExternalWrite, Tree, Value
<1>2. late' \in SUBSET Tx
  BY DEF TypeOK, ExternalWrite, ControlOK, Steps, PrimeSteps
<1>3. writes' \in 0..MaxWrites /\ pend' \in BOOLEAN
  BY CollapseConstants DEF TypeOK, ExternalWrite
<1>4. QED BY <1>1, <1>2, <1>3 DEF TypeOK, ExternalWrite

(* WatcherDeliver keeps the types. *)
LEMMA WatcherDeliverType ==
  ASSUME TypeOK, WatcherDeliver
  PROVE  TypeOK'
  BY DrainType DEF TypeOK, WatcherDeliver

(* PolicyChange keeps the types. *)
LEMMA PolicyChangeType ==
  ASSUME TypeOK, PolicyChange
  PROVE  TypeOK'
  BY CollapseConstants DEF TypeOK, PolicyChange, Reqs

(* Finalizing keeps the types. *)
LEMMA FinalizingType ==
  ASSUME TypeOK, NEW c \in Cand, Finalizing(c)
  PROVE  TypeOK'
  BY DEF TypeOK, Finalizing, World, Maybe, WorldStates

(* Finalized keeps the types. *)
LEMMA FinalizedType ==
  ASSUME TypeOK, NEW c \in Cand, NEW S \in SUBSET Path,
         NEW verdict \in Verdicts, Finalized(c, S, verdict)
  PROVE  TypeOK'
  BY CollapseConstants DEF TypeOK, Finalized, World, Maybe, WorldStates, Tree,
          Value

(* FailedStart keeps the types. *)
LEMMA FailedStartType ==
  ASSUME TypeOK, NEW c \in Cand, FailedStart(c)
  PROVE  TypeOK'
  BY DEF TypeOK, FailedStart, World, Maybe, WorldStates

(* Revalidate keeps the types. *)
LEMMA RevalidateType ==
  ASSUME TypeOK, NEW c \in Cand, Revalidate(c)
  PROVE  TypeOK'
  BY DEF TypeOK, Revalidate

-----------------------------------------------------------------------------
(* Reconcile and the publication of a checkpoint. *)

(* StatusReconcile keeps the types. *)
LEMMA StatusReconcileType ==
  ASSUME TypeOK, StatusReconcile
  PROVE  TypeOK'
<1>1. op' \in Op BY NoOpType, OpUpdates DEF StatusReconcile, Kinds
<1>2. QED BY <1>1 DEF TypeOK, StatusReconcile, Steps

(* ReconcileCapture keeps the types. *)
LEMMA ReconcileCaptureType ==
  ASSUME TypeOK, NEW r \in Recon, ReconcileCapture(r)
  PROVE  TypeOK'
<1>1. op \in Op /\ tree[live] \in Tree /\ r \in World BY DEF TypeOK, World
<1>2. op' \in Op BY <1>1, GenerationType DEF ReconcileCapture, Op
<1>3. QED BY <1>2, ConsumeType DEF TypeOK, ReconcileCapture, Steps, Consume

(* ReconcileStable keeps the types. *)
LEMMA ReconcileStableType ==
  ASSUME TypeOK, ReconcileStable
  PROVE  TypeOK'
  BY NoOpType, DrainType DEF TypeOK, ReconcileStable, Steps, Goto

(* InsertCheckpoint keeps the types. *)
LEMMA InsertCheckpointType ==
  ASSUME TypeOK, ControlOK, InsertCheckpoint
  PROVE  TypeOK'
<1>1. CASE Unpublishable(op.world, Published)
  <2>1. op' \in Op /\ pc' \in Steps /\ bad' \in SUBSET Tx
    BY <1>1, RaiseType DEF InsertCheckpoint, FallibleSteps
  <2>2. QED BY <1>1, <2>1 DEF TypeOK, InsertCheckpoint
<1>2. CASE ~(Unpublishable(op.world, Published))
  <2>1. op' = op /\ pc' = "retire" /\ bad' = bad
    BY <1>2 DEF InsertCheckpoint, Goto
  <2>2. /\ Published \in Tree /\ prime \in World
    BY DEF TypeOK, Published, Op, Maybe, Record
  <2>3. \/ UNCHANGED <<state, parent, content>>
        \/ /\ state' = [state EXCEPT ![op.world] = "VALID"]
           /\ parent' = [parent EXCEPT ![op.world] = prime]
           /\ content' = [content EXCEPT ![op.world] = Published]
    BY <1>2 DEF InsertCheckpoint
  <2>4. state' \in [World -> Maybe(WorldStates)]
    BY <2>3 DEF TypeOK, Maybe, WorldStates
  <2>5. parent' \in [World -> Maybe(World)]
    BY <2>2, <2>3 DEF TypeOK, Maybe
  <2>6. content' \in [World -> Tree]
    BY <2>2, <2>3 DEF TypeOK
  <2>7. QED BY <1>2, <2>1, <2>4, <2>5, <2>6 DEF TypeOK, InsertCheckpoint, Steps
<1>3. QED BY <1>1, <1>2

(* RetirePrime keeps the types. *)
LEMMA RetirePrimeType ==
  ASSUME TypeOK, RetirePrime
  PROVE  TypeOK'
  BY DEF TypeOK, RetirePrime, Steps, Maybe, WorldStates

(* SetPrime keeps the types. *)
LEMMA SetPrimeType ==
  ASSUME TypeOK, SetPrime
  PROVE  TypeOK'
<1>1. op' \in Op /\ pc' \in Steps
  BY NoOpType DEF TypeOK, SetPrime, Goto, AfterReconcile, Steps
<1>2. prime' \in World /\ primeGen' \in World
  BY DEF TypeOK, SetPrime, Op, Maybe, World, Mapping
<1>3. QED BY <1>1, <1>2 DEF TypeOK, SetPrime

-----------------------------------------------------------------------------
(* Fork. *)

(* BeginFork keeps the types. *)
LEMMA BeginForkType ==
  ASSUME TypeOK, NEW c \in Cand, BeginFork(c)
  PROVE  TypeOK'
<1>1. op' \in Op BY NoOpType DEF BeginFork, Kinds, Op, Maybe
<1>2. QED BY <1>1, DrainType DEF TypeOK, BeginFork, Steps

(* FreezeCapture keeps the types. *)
LEMMA FreezeCaptureType ==
  ASSUME TypeOK, FreezeCapture
  PROVE  TypeOK'
<1>1. op \in Op /\ tree[live] \in Tree BY DEF TypeOK
<1>2. op' \in Op BY <1>1, NoOpType, GenerationType DEF FreezeCapture, Goto, Op
<1>3. QED BY <1>2, DrainType DEF TypeOK, FreezeCapture, Goto, Steps

(* FreezeEnd keeps the types. *)
LEMMA FreezeEndType ==
  ASSUME TypeOK, ControlOK, FreezeEnd
  PROVE  TypeOK'
<1>1. op' \in Op /\ pc' \in Steps
  BY NoOpType DEF FreezeEnd, Goto, Steps
<1>2. op.cand \in Cand /\ op.seen \in Tree
  BY DEF TypeOK, ControlOK, FreezeEnd, KindsAt, Op
<1>3. /\ state' \in [World -> Maybe(WorldStates)]
      /\ parent' \in [World -> Maybe(World)] /\ base' \in [Cand -> Tree]
  BY <1>2 DEF TypeOK, FreezeEnd, World, Maybe, WorldStates
<1>4. QED BY <1>1, <1>3, DrainType DEF TypeOK, FreezeEnd

-----------------------------------------------------------------------------
(* Prepare. *)

(* BeginPrepare keeps the types. *)
LEMMA BeginPrepareType ==
  ASSUME TypeOK, NEW c \in Cand, BeginPrepare(c)
  PROVE  TypeOK'
<1>1. op' \in Op BY NoOpType DEF BeginPrepare, Kinds, Op, Maybe
<1>2. QED BY <1>1, DrainType DEF TypeOK, BeginPrepare, Steps

(* PrepareRefuse keeps the types. *)
LEMMA PrepareRefuseType ==
  ASSUME TypeOK, PrepareRefuse
  PROVE  TypeOK'
  BY NoOpType DEF TypeOK, PrepareRefuse, Steps, Goto

(* A merge of trees is a tree. *)
LEMMA MergeType ==
  ASSUME TypeOK, NEW c \in Cand, NEW current \in Tree
  PROVE  Merge(c, current) \in Tree
  BY DEF TypeOK, Merge, Tree, World

(* PrepareStage keeps the types. *)
LEMMA PrepareStageType ==
  ASSUME TypeOK, ControlOK, NEW t \in Tx, NEW passed \in BOOLEAN,
         PrepareStage(t, passed)
  PROVE  TypeOK'
<1> DEFINE c        == op.cand
           conflict == Conflict(c, tree[live])
           merged   == Merge(c, tree[live])
           r        == [cand |-> c, before |-> tree[live], staged |-> merged,
                        conflict |-> conflict, primary |-> evaluated[c],
                        second |-> IF passed THEN req ELSE Absent,
                        authorized |-> Absent]
<1>1. c \in Cand /\ tree[live] \in Tree /\ op \in Op
  BY DEF TypeOK, ControlOK, PrepareStage, KindsAt
<1>2. merged \in Tree
  BY <1>1, MergeType
<1>3. conflict \in BOOLEAN
  BY DEF Conflict
<1>4. r \in Record
  BY <1>1, <1>2, <1>3 DEF Record, TypeOK, Maybe
<1>5. /\ rec' = [rec EXCEPT ![t] = r] /\ tree' = [tree EXCEPT ![t] = merged]
      /\ slot' = [slot EXCEPT ![t] = IF conflict THEN Absent ELSE t]
      /\ op' = [op EXCEPT !.tx = t, !.gen = Generation]
  BY DEF PrepareStage
<1> HIDE DEF merged, conflict, r, c
<1>6. rec' \in [Tx -> Record] /\ tree' \in [Mapping -> Tree]
  BY <1>2, <1>4, <1>5 DEF TypeOK, Mapping
<1>7. slot' \in [Tx -> Maybe(Mapping)]
  BY <1>5 DEF TypeOK, Mapping, Maybe
<1>8. op' \in Op
  BY <1>1, <1>5, GenerationType DEF Op, Maybe
<1>9. QED BY <1>6, <1>7, <1>8, DrainType DEF TypeOK, PrepareStage, Steps

(* PrepareDecide keeps the types. *)
LEMMA PrepareDecideType ==
  ASSUME TypeOK, ControlOK, PrepareDecide
  PROVE  TypeOK'
  BY ConsumeType DEF TypeOK, PrepareDecide, ControlOK, Steps, PrimeSteps,
          Maybe, TxStates

(* PrepareRow keeps the types. *)
LEMMA PrepareRowType ==
  ASSUME TypeOK, ControlOK, PrepareRow
  PROVE  TypeOK'
  BY NoOpType DEF TypeOK, PrepareRow, ControlOK, PrimeSteps, Steps, Goto

-----------------------------------------------------------------------------
(* The two records of a transaction, and abort. *)

(* SetFile keeps the types. *)
LEMMA SetFileType ==
  ASSUME TypeOK, ControlOK, SetFile
  PROVE  TypeOK'
  BY DEF TypeOK, SetFile, ControlOK, PrimeSteps, Steps, Maybe, Op

(* SetRow keeps the types. *)
LEMMA SetRowType ==
  ASSUME TypeOK, ControlOK, SetRow
  PROVE  TypeOK'
  BY DEF TypeOK, SetRow, ControlOK, PrimeSteps, Steps, Maybe, Op

(* Reclaim keeps the types. *)
LEMMA ReclaimType ==
  ASSUME TypeOK, Reclaim
  PROVE  TypeOK'
  BY NoOpType DEF TypeOK, Reclaim, Steps, Goto, Leave, Maybe

(* BeginAbort keeps the types. *)
LEMMA BeginAbortType ==
  ASSUME TypeOK, NEW t \in Tx, BeginAbort(t)
  PROVE  TypeOK'
<1>1. op' \in Op BY NoOpType DEF BeginAbort, Kinds, Op, Maybe, TxStates
<1>2. QED BY <1>1 DEF TypeOK, BeginAbort, Steps

-----------------------------------------------------------------------------
(* Commit. *)

(* BeginCommit keeps the types. *)
LEMMA BeginCommitType ==
  ASSUME TypeOK, NEW t \in Tx, BeginCommit(t)
  PROVE  TypeOK'
<1>1. CASE Committable(t)
  <2>1. op' = [NoOp EXCEPT !.kind = "commit", !.tx = t, !.goal = "DENIED",
                           !.gen = Generation]
    BY <1>1 DEF BeginCommit
  <2>2. op' \in Op
    BY <2>1, NoOpType, GenerationType DEF Kinds, Op, Maybe, TxStates
  <2>3. QED BY <1>1, <2>2, DrainType DEF TypeOK, BeginCommit, Steps
<1>2. CASE ~Committable(t)
  <2>1. op' = [NoOp EXCEPT !.kind = "commit", !.tx = t]
    BY <1>2 DEF BeginCommit
  <2>2. op' \in Op
    BY <2>1, NoOpType DEF Kinds, Op, Maybe
  <2>3. QED BY <1>2, <2>2 DEF TypeOK, BeginCommit, Steps
<1>3. QED BY <1>1, <1>2

(* Authorize keeps the types. *)
LEMMA AuthorizeType ==
  ASSUME TypeOK, ControlOK, Authorize
  PROVE  TypeOK'
<1>1. op \in Op /\ op.tx \in Tx
  BY DEF TypeOK, ControlOK, Authorize, Steps, PrimeSteps
<1>2. /\ \/ op' = [op EXCEPT !.goal = "AUTHORIZED", !.gen = Generation]
         \/ op' = [op EXCEPT !.goal = "ABORTED"]
         \/ \E b \in BOOLEAN : op' = [op EXCEPT !.moved = b]
      /\ rec' = [rec EXCEPT ![op.tx].authorized = req] \/ rec' = rec
  BY DEF Authorize
<1>3. op' \in Op
  <2>1. CASE op' = [op EXCEPT !.goal = "AUTHORIZED", !.gen = Generation]
    BY <1>1, <2>1, GenerationType DEF Op, TxStates
  <2>2. CASE op' = [op EXCEPT !.goal = "ABORTED"]
    BY <1>1, <2>2 DEF Op, TxStates
  <2>3. CASE \E b \in BOOLEAN : op' = [op EXCEPT !.moved = b]
    BY <1>1, <2>3 DEF Op
  <2>4. QED BY <1>2, <2>1, <2>2, <2>3
<1>4. rec' \in [Tx -> Record]
  <2>1. [rec[op.tx] EXCEPT !.authorized = req] \in Record
    <3>1. rec[op.tx] \in Record /\ req \in Maybe(Reqs)
      BY <1>1 DEF TypeOK, Maybe
    <3>2. QED BY <3>1 DEF Record
  <2>2. QED BY <1>1, <1>2, <2>1 DEF TypeOK
<1>5. QED BY <1>3, <1>4, DrainType DEF TypeOK, Authorize, Steps

(* ExchangeGuard keeps the types. *)
LEMMA ExchangeGuardType ==
  ASSUME TypeOK, ExchangeGuard
  PROVE  TypeOK'
<1>1. op' \in Op /\ pc' \in Steps
  BY OpUpdates DEF ExchangeGuard, Assign, TypeOK, Steps, TxStates
<1>2. QED BY <1>1, DrainType DEF TypeOK, ExchangeGuard

(* Exchange keeps the types. *)
LEMMA ExchangeType ==
  ASSUME TypeOK, ControlOK, Exchange
  PROVE  TypeOK'
  BY DEF TypeOK, Exchange, ControlOK, PrimeSteps, Steps, Maybe, Mapping

(* ExchangeFails keeps the types. *)
LEMMA ExchangeFailsType ==
  ASSUME TypeOK, ExchangeFails
  PROVE  TypeOK'
<1>1. op' \in Op /\ pc' \in Steps
  BY OpUpdates DEF ExchangeFails, Assign, TypeOK, Steps, TxStates
<1>2. faults' \in 0..MaxFaults
  BY CollapseConstants DEF TypeOK, ExchangeFails
<1>3. QED BY <1>1, <1>2 DEF TypeOK, ExchangeFails

(* FsyncExchange keeps the types. *)
LEMMA FsyncExchangeType ==
  ASSUME TypeOK, NEW ok \in BOOLEAN, FsyncExchange(ok)
  PROVE  TypeOK'
<1>1. faults' \in 0..MaxFaults
  BY CollapseConstants DEF TypeOK, FsyncExchange
<1>2. loose' \in SUBSET Tx
  BY DEF TypeOK, FsyncExchange
<1>3. QED BY <1>1, <1>2, ConsumeType DEF TypeOK, FsyncExchange, Steps

-----------------------------------------------------------------------------
(* Finishing a commit. *)

(* FinishCandidate keeps the types. *)
LEMMA FinishCandidateType ==
  ASSUME TypeOK, ControlOK, PhasesOK, RecordsOK, FinishCandidate
  PROVE  TypeOK'
<1> DEFINE c == rec[op.tx].cand
<1>1. CASE state[c] \in {"VALID", "COLLAPSED"}
  <2>1. op' \in Op /\ pc' \in Steps /\ bad' = bad
    <3>1. Rivals(c) \in SUBSET World /\ op \in Op
      BY DEF Rivals, TypeOK
    <3>2. [op EXCEPT !.todo = Rivals(c)] \in Op
      BY <3>1, OpUpdates
    <3>3. QED BY <1>1, <3>2 DEF FinishCandidate, Steps
  <2>2. state' \in [World -> Maybe(WorldStates)]
    BY <1>1 DEF TypeOK, FinishCandidate, Maybe, WorldStates
  <2>3. QED BY <2>1, <2>2 DEF TypeOK, FinishCandidate
<1>2. CASE state[c] \notin {"VALID", "COLLAPSED"}
  <2>1. op' \in Op /\ pc' \in Steps /\ bad' \in SUBSET Tx
    BY <1>2, RaiseType DEF FinishCandidate, FallibleSteps
  <2>2. QED BY <1>2, <2>1 DEF TypeOK, FinishCandidate
<1>3. QED BY <1>1, <1>2

(* FinishSibling keeps the types. *)
LEMMA FinishSiblingType ==
  ASSUME TypeOK, NEW w \in World, FinishSibling(w)
  PROVE  TypeOK'
<1>1. op \in Op /\ op.todo \ {w} \in SUBSET World
  BY DEF TypeOK, Op
<1>2. op' \in Op
  BY <1>1, OpUpdates DEF FinishSibling
<1>3. state' \in [World -> Maybe(WorldStates)]
  BY DEF TypeOK, FinishSibling, Maybe, WorldStates
<1>4. QED BY <1>2, <1>3 DEF TypeOK, FinishSibling

(* FinishPublish keeps the types. *)
LEMMA FinishPublishType ==
  ASSUME TypeOK, ControlOK, PhasesOK, RecordsOK, FinishPublish
  PROVE  TypeOK'
<1>1. op.tx \in Tx /\ rec[op.tx].cand \in Cand
  <2>1. op.tx \in Tx
    BY DEF ControlOK, FinishPublish, Steps, PrimeSteps
  <2>2. file[op.tx] # Absent
    <3>1. CASE live = op.tx
      BY <2>1, <3>1, CollapseConstants DEF RecordsOK, RecordOK, TxStates
    <3>2. CASE Undone(op.tx)
      BY <2>1, <3>2, CollapseConstants DEF RecordsOK, RecordOK, TxStates, Undone
    <3>3. QED BY <2>1, <3>1, <3>2 DEF FinishPublish, PhasesOK, PhaseOK
  <2>3. QED BY <2>1, <2>2 DEF RecordsOK, RecordOK
<1>2. op' \in Op
  <2>1. op \in Op /\ op.tx \in World /\ rec[op.tx].cand \in World
    BY <1>1 DEF TypeOK, World, Mapping
  <2>2. \A w \in World : [op EXCEPT !.world = w] \in Op
    BY <2>1, OpUpdates
  <2>3. QED BY <2>1, <2>2 DEF FinishPublish
<1>3. QED BY <1>2 DEF TypeOK, FinishPublish, Steps

(* FinishSettle keeps the types. *)
LEMMA FinishSettleType ==
  ASSUME TypeOK, FinishSettle
  PROVE  TypeOK'
<1>1. op' \in Op /\ pc' \in Steps
  BY OpUpdates DEF TypeOK, FinishSettle, Assign, Steps, TxStates
<1>2. QED BY <1>1 DEF TypeOK, FinishSettle

(* FinishOffline keeps the types. *)
LEMMA FinishOfflineType ==
  ASSUME TypeOK, FinishOffline
  PROVE  TypeOK'
  BY DEF TypeOK, FinishOffline, Steps

(* FinishReceipt keeps the types. *)
LEMMA FinishReceiptType ==
  ASSUME TypeOK, ControlOK, FinishReceipt
  PROVE  TypeOK'
  BY NoOpType DEF TypeOK, FinishReceipt, ControlOK, PrimeSteps, Steps, Goto,
          Leave

(* Refresh keeps the types. *)
LEMMA RefreshType ==
  ASSUME TypeOK, NEW ok \in BOOLEAN, Refresh(ok)
  PROVE  TypeOK'
<1>1. op' \in Op /\ pc' \in Steps
  BY NoOpType DEF Refresh, Goto, Steps
<1>2. faults' \in 0..MaxFaults /\ watched' \in Maybe(Mapping)
  BY CollapseConstants DEF TypeOK, Refresh, Maybe
<1>3. QED BY <1>1, <1>2 DEF TypeOK, Refresh

-----------------------------------------------------------------------------
(* Failures, restart and recovery. *)

(* StorageFault keeps the types. *)
LEMMA StorageFaultType ==
  ASSUME TypeOK, ControlOK, StorageFault
  PROVE  TypeOK'
<1>1. op' \in Op /\ pc' \in Steps /\ bad' \in SUBSET Tx
  BY RaiseType DEF StorageFault
<1>2. faults' \in 0..MaxFaults
  BY CollapseConstants DEF TypeOK, StorageFault
<1>3. slot' \in [Tx -> Maybe(Mapping)]
  BY DEF TypeOK, StorageFault, Maybe
<1>4. QED BY <1>1, <1>2, <1>3 DEF TypeOK, StorageFault

(* Crash keeps the types. *)
LEMMA CrashType ==
  ASSUME TypeOK, Crash
  PROVE  TypeOK'
<1>1. op' \in Op /\ pc' \in Steps /\ bad' \in SUBSET Tx
  BY NoOpType DEF Crash, Steps
<1>2. crashes' \in 0..MaxCrashes /\ watched' \in Maybe(Mapping)
  BY CollapseConstants DEF TypeOK, Crash, Maybe
<1>3. QED BY <1>1, <1>2 DEF TypeOK, Crash

(* PowerLoss keeps the types. *)
LEMMA PowerLossType ==
  ASSUME TypeOK, RecordsOK, PowerLoss
  PROVE  TypeOK'
<1>1. live \in Tx /\ slot[live] \in Mapping
  BY DEF TypeOK, PowerLoss, RecordsOK, RecordOK, Exchanged, Maybe
<1>2. /\ live' \in Mapping /\ slot' \in [Tx -> Maybe(Mapping)]
      /\ loose' \in SUBSET Tx /\ lost' \in SUBSET Tx
  BY <1>1 DEF TypeOK, PowerLoss, Mapping, Maybe
<1>3. QED BY <1>2 DEF PowerLoss, TypeOK

(* Start keeps the types. *)
LEMMA StartType ==
  ASSUME TypeOK, Start
  PROVE  TypeOK'
<1>1. op' \in Op
  BY NoOpType DEF Start, Kinds, Op
<1>2. QED BY <1>1 DEF TypeOK, Start, Maybe, Steps

(* RecoverOne keeps the types. *)
LEMMA RecoverOneType ==
  ASSUME TypeOK, NEW t \in Tx, RecoverOne(t)
  PROVE  TypeOK'
<1>1. op \in Op /\ (tree[t] # rec[t].staged) \in BOOLEAN
  BY DEF TypeOK
<1>2. op' \in Op
  <2> DEFINE rest == [op EXCEPT !.queue = @ \ {t}, !.tx = t]
  <2>1. rest \in Op
    BY <1>1 DEF Op, Maybe
  <2>2. \/ op' = [rest EXCEPT !.moved = (tree[t] # rec[t].staged)]
        \/ op' = [rest EXCEPT !.goal = "ABORTED"]
        \/ op' = rest
    BY DEF RecoverOne
  <2> HIDE DEF rest
  <2>3. QED BY <1>1, <2>1, <2>2, OpUpdates DEF TxStates
<1>3. pc' \in Steps /\ bad' \in SUBSET Tx
  BY DEF TypeOK, RecoverOne, Steps
<1>4. QED BY <1>2, <1>3 DEF TypeOK, RecoverOne

(* RecoverReceipts keeps the types. *)
LEMMA RecoverReceiptsType ==
  ASSUME TypeOK, RecoverReceipts
  PROVE  TypeOK'
<1> DEFINE Q == {t \in Tx : row[t] = "COMMITTED" /\ ~Recorded(t)}
<1>1. Q \in SUBSET Tx /\ op \in Op
  BY DEF TypeOK
<1>2. op' = [op EXCEPT !.stage = 2, !.queue = Q]
  BY DEF RecoverReceipts
<1> HIDE DEF Q
<1>3. op' \in Op
  <2>1. 2 \in 1..2 OBVIOUS
  <2>2. [op EXCEPT !.stage = 2] \in Op BY <1>1, <2>1 DEF Op
  <2>3. op' = [[op EXCEPT !.stage = 2] EXCEPT !.queue = Q] BY <1>1, <1>2 DEF Op
  <2>4. QED BY <1>1, <2>2, <2>3, OpUpdates
<1>4. QED BY <1>3 DEF TypeOK, RecoverReceipts

(* RecoverReceipt keeps the types. *)
LEMMA RecoverReceiptType ==
  ASSUME TypeOK, NEW t \in Tx, RecoverReceipt(t)
  PROVE  TypeOK'
<1>1. op \in Op /\ (tree[t] # rec[t].staged) \in BOOLEAN
  BY DEF TypeOK
<1>2. op' \in Op
  BY <1>1 DEF RecoverReceipt, Op, Maybe
<1>3. pc' \in Steps /\ bad' \in SUBSET Tx
  BY DEF TypeOK, RecoverReceipt, Steps
<1>4. QED BY <1>2, <1>3 DEF TypeOK, RecoverReceipt

(* RecoveryEnd keeps the types. *)
LEMMA RecoveryEndType ==
  ASSUME TypeOK, RecoveryEnd
  PROVE  TypeOK'
  BY NoOpType DEF TypeOK, RecoveryEnd, Steps, Maybe, WorldStates

-----------------------------------------------------------------------------
(* The initial state is typed. *)

(* Init keeps the types. *)
LEMMA InitType ==
  ASSUME Init
  PROVE  TypeOK
<1>1. /\ live \in Mapping /\ slot \in [Tx -> Maybe(Mapping)]
      /\ tree \in [Mapping -> Tree] /\ loose \in SUBSET Tx /\ lost \in SUBSET Tx
  BY PlainTreeType DEF Init, Mapping, Maybe
<1>2. /\ file \in [Tx -> Maybe(TxStates)] /\ row \in [Tx -> Maybe(TxStates)]
      /\ rec \in [Tx -> Record]
  BY NoRecordType DEF Init, Maybe
<1>3. /\ state \in [World -> Maybe(WorldStates)]
      /\ parent \in [World -> Maybe(World)] /\ content \in [World -> Tree]
  BY PlainTreeType DEF Init, Maybe, WorldStates
<1>4. base \in [Cand -> Tree] /\ evaluated \in [Cand -> Reqs]
  BY PlainTreeType, CollapseConstants DEF Init, Reqs
<1>5. /\ prime \in World /\ primeGen \in World
      /\ watched \in Maybe(Mapping)
  BY DEF Init, Maybe, World, Mapping
<1>6. /\ req \in Reqs /\ writes \in 0..MaxWrites /\ crashes \in 0..MaxCrashes
      /\ faults \in 0..MaxFaults /\ wgen \in Nat
  BY CollapseConstants DEF Init, Reqs
<1>7. /\ dirty \in BOOLEAN /\ pend \in BOOLEAN /\ reported \in BOOLEAN
  BY DEF Init
<1>8. receipts \in Seq(Tx) /\ bad \in SUBSET Tx /\ late \in SUBSET Tx
  <2>1. receipts = <<>> /\ bad = {} /\ late = {}
    BY DEF Init
  <2>2. QED BY <2>1
<1>9. mode \in {"down", "recover", "serve"} /\ pc \in Steps /\ op \in Op
  BY NoOpType DEF Init, Steps
<1>10. QED BY <1>1, <1>2, <1>3, <1>4, <1>5, <1>6, <1>7, <1>8, <1>9 DEF TypeOK

(* Every step keeps every variable in its type. *)
LEMMA TypeStep ==
  ASSUME TypeOK, ControlOK, RecordsOK, PhasesOK, Next
  PROVE  TypeOK'
<1>1. CASE Requests
  BY <1>1, StatusReconcileType, BeginForkType, RevalidateType, BeginPrepareType,
     BeginCommitType, BeginAbortType DEF Requests
<1>2. CASE DaemonStep
  BY <1>2, ReconcileCaptureType, ReconcileStableType, InsertCheckpointType,
     RetirePrimeType, SetPrimeType, FreezeCaptureType, FreezeEndType,
     PrepareRefuseType, PrepareDecideType, PrepareRowType, PrepareStageType,
     SetFileType, SetRowType, ReclaimType, AuthorizeType, ExchangeGuardType,
     ExchangeType, FsyncExchangeType, FinishCandidateType, FinishPublishType,
     FinishSettleType, FinishOfflineType, FinishSiblingType, FinishReceiptType,
     RefreshType, RecoverOneType, RecoverReceiptType, RecoverReceiptsType,
     RecoveryEndType DEF DaemonStep
<1>3. CASE WatcherDeliver
  BY <1>3, WatcherDeliverType
<1>4. CASE Agents
  BY <1>4, FinalizingType, FailedStartType, FinalizedType DEF Agents
<1>5. CASE Environment
  BY <1>5, ExternalWriteType, PolicyChangeType DEF Environment
<1>6. CASE Failures
  BY <1>6, ExchangeFailsType, FsyncExchangeType, RefreshType, StorageFaultType, CrashType,
     PowerLossType DEF Failures
<1>7. CASE Start
  BY <1>7, StartType
<1>8. QED BY <1>1, <1>2, <1>3, <1>4, <1>5, <1>6, <1>7 DEF Next
=============================================================================
