--------------------------- MODULE CollapseProofs ---------------------------
(***************************************************************************)
(* The safety properties of Collapse, proved for every number of           *)
(* candidates, transactions, generations and paths, and with no bound on   *)
(* the crashes, faults and external writes: the invariant of               *)
(* CollapseInvariant is inductive, and the properties follow from it.      *)
(***************************************************************************)
EXTENDS CollapseSteps

USE DEF diskVars, txVars, worldVars, primeVars, watchVars, envVars, histVars,
        Consistent

(* The initial state satisfies the invariant. *)
LEMMA InvariantInit ==
  ASSUME Init
  PROVE  IInv
<1>1. /\ live = Genesis /\ receipts = <<>> /\ op = NoOp /\ pc = "idle"
      /\ mode = "serve" /\ bad = {} /\ primeGen = Genesis
      /\ slot = [t \in Tx |-> Absent] /\ file = [t \in Tx |-> Absent]
      /\ row = [t \in Tx |-> Absent] /\ loose = {} /\ lost = {}
  BY DEF Init
<1>2. \A t \in Tx : /\ t # Genesis /\ ~Recorded(t) /\ slot[t] = Absent
                    /\ file[t] = Absent /\ row[t] = Absent
  BY <1>1, CollapseConstants DEF Recorded, Range
<1>3. ControlOK
  BY <1>1, NoOpFields DEF ControlOK, KindsAt, PrimeSteps
<1>4. RecordsOK
  BY <1>1, <1>2, CollapseConstants DEF RecordsOK, RecordOK, Exchanged, TxStates
<1>5. PhasesOK /\ QueueOK
  BY <1>1, NoOpFields, CollapseConstants DEF PhasesOK, QueueOK, World, Mapping
<1>6. UnrecordedAttended /\ PendingOK
  BY <1>1, <1>2, CollapseConstants DEF UnrecordedAttended, PendingOK, Pending, TxStates
<1>7. ChainOK
  BY <1>1, <1>2 DEF ChainOK, ReceiptsDistinct, LeftLive, Settlement
<1>8. QED BY <1>3, <1>4, <1>5, <1>6, <1>7, InitType DEF IInv

(* Every step preserves the invariant. *)
LEMMA InvariantStep ==
  ASSUME IInv, [Next]_vars
  PROVE  IInv'
<1> USE DEF IInv
<1>1. CASE Next
  <2>1. TypeOK'
    BY <1>1, TypeStep
  <2> SUFFICES Consistent'
    BY <2>1
  <2>2. CASE Requests
    BY <2>2, StatusReconcileKeeps, BeginForkKeeps, BeginPrepareKeeps,
       BeginCommitKeeps, BeginAbortKeeps, OutsideKeeps DEF Requests
  <2>3. CASE DaemonStep
    BY <2>3, ReconcileCaptureKeeps, ReconcileStableKeeps, InsertCheckpointKeeps,
       RetirePrimeKeeps, SetPrimeKeeps, FreezeCaptureKeeps, FreezeEndKeeps,
       PrepareRefuseKeeps, PrepareDecideKeeps, PrepareRowKeeps,
       PrepareStageKeeps, SetFileKeeps, SetRowKeeps, ReclaimKeeps,
       AuthorizeKeeps, ExchangeGuardKeeps, ExchangeKeeps, FsyncExchangeKeeps,
       FinishCandidateKeeps, FinishPublishKeeps, FinishSettleKeeps,
       FinishOfflineKeeps, FinishSiblingKeeps, FinishReceiptKeeps, RefreshKeeps,
       RecoverOneKeeps, RecoverReceiptKeeps, RecoverReceiptsKeeps,
       RecoveryEndKeeps DEF DaemonStep
  <2>4. CASE WatcherDeliver \/ Agents \/ Environment
    BY <2>4, OutsideKeeps
  <2>5. CASE Failures
    BY <2>5, ExchangeFailsKeeps, FsyncExchangeKeeps, RefreshKeeps,
       StorageFaultKeeps, CrashKeeps, PowerLossKeeps DEF Failures
  <2>6. CASE Start
    BY <2>6, StartKeeps
  <2>7. QED BY <1>1, <2>2, <2>3, <2>4, <2>5, <2>6 DEF Next
<1>2. CASE UNCHANGED vars
  <2>1. TypeOK'
    BY <1>2 DEF vars, TypeOK
  <2>2. SameData /\ UNCHANGED <<mode, pc, op, bad>>
    BY <1>2 DEF vars, SameData
  <2>3. QED BY <2>1, <2>2, DataFrame, ControlFrame
<1>3. QED BY <1>1, <1>2

(* IInv holds in every reachable state of the collapse protocol. *)
THEOREM Invariance == Spec => []IInv
<1>1. Init => IInv
  BY InvariantInit
<1>2. IInv /\ [Next]_vars => IInv'
  BY InvariantStep
<1>3. QED BY <1>1, <1>2, PTL DEF Spec

-----------------------------------------------------------------------------
(* Every variable always has its type. *)
THEOREM TypeCorrect == Spec => []TypeOK
<1>1. IInv => TypeOK
  BY DEF IInv
<1>2. QED BY <1>1, Invariance, PTL

(* What is live is never a generation the records let anybody discard,     *)
(* whatever crashes, failing storage calls, aborts and restarts do.        *)
THEOREM LiveIsKept == Spec => []LiveNeverDiscarded
<1>1. IInv => LiveNeverDiscarded
  BY DEF IInv, RecordsOK, RecordOK, LiveNeverDiscarded
<1>2. QED BY <1>1, Invariance, PTL

(* For a pending transaction whose records agree, the two markers always   *)
(* tell recovery whether its exchange happened.                            *)
THEOREM RecoveryIsDecided == Spec => []MarkersDecide
<1>1. IInv => MarkersDecide
  <2> SUFFICES ASSUME IInv, NEW t \in Tx, file[t] = row[t],
                      row[t] \in {"PREPARED", "AUTHORIZED"}
               PROVE  (live = t) # (slot[t] = t)
    BY DEF MarkersDecide
  <2>1. RecordOK(t)
    BY DEF IInv, RecordsOK
  <2>2. CASE Exchanged(t)
    <3>1. live = t
      BY <2>1, <2>2 DEF RecordOK
    <3>2. QED BY <2>2, <3>1 DEF Exchanged
  <2>3. CASE ~Exchanged(t)
    BY <2>1, <2>3 DEF RecordOK
  <2>4. QED BY <2>2, <2>3
<1>2. QED BY <1>1, Invariance, PTL

(* The receipts are always the exchanges that happened, in order, each     *)
(* displacing what the ones before it, and the power losses in between,    *)
(* had left live; only what is live can lack its receipt.                  *)
THEOREM ReceiptsAreExchanges == Spec => []ReceiptsFollowExchanges
<1>1. IInv => ReceiptsFollowExchanges
  <2> SUFFICES ASSUME IInv PROVE ReceiptsFollowExchanges
    OBVIOUS
  <2>1. ASSUME NEW i \in 1..Len(receipts)
        PROVE  /\ file[receipts[i]] = "COMMITTED" /\ row[receipts[i]] = "COMMITTED"
               /\ receipts[i] \notin lost => LeftLive(i - 1, slot[receipts[i]])
    <3>1. receipts[i] \in Tx /\ Recorded(receipts[i])
      BY DEF IInv, TypeOK, Recorded, Range
    <3>2. QED BY <3>1 DEF IInv, ChainOK, RecordsOK, RecordOK
  <2>2. ASSUME NEW t \in Tx, Exchanged(t), ~Recorded(t) PROVE live = t
    BY <2>2 DEF IInv, RecordsOK, RecordOK
  <2>3. LeftLive(Len(receipts), Settlement)
    BY DEF IInv, ChainOK
  <2>4. QED BY <2>1, <2>2, <2>3 DEF ReceiptsFollowExchanges, Settlement
<1>2. QED BY <1>1, Invariance, PTL

-----------------------------------------------------------------------------
(* Only three actions change what is live, what is recorded or what is     *)
(* lost.                                                                   *)
LEMMA FewMove ==
  ASSUME [Next]_vars, ~Exchange, ~PowerLoss, ~FinishReceipt
  PROVE  UNCHANGED <<live, lost, receipts>>
<1>1. CASE Requests
  BY <1>1 DEF Requests, StatusReconcile, BeginFork, Revalidate, BeginPrepare,
              BeginCommit, BeginAbort
<1>2. CASE DaemonStep
  BY <1>2 DEF DaemonStep, ReconcileCapture, ReconcileStable, InsertCheckpoint,
              RetirePrime, SetPrime, FreezeCapture, FreezeEnd, PrepareRefuse,
              PrepareDecide, PrepareRow, PrepareStage, SetFile, SetRow, Reclaim,
              Authorize, ExchangeGuard, FsyncExchange, FinishCandidate,
              FinishPublish, FinishSettle, FinishOffline, FinishSibling,
              Refresh, RecoverOne, RecoverReceipt, RecoverReceipts, RecoveryEnd
<1>3. CASE WatcherDeliver \/ Agents \/ Environment \/ Failures \/ Start
  BY <1>3 DEF WatcherDeliver, Agents, Finalizing, FailedStart, Finalized,
              Environment, ExternalWrite, PolicyChange, Failures, ExchangeFails,
              FsyncExchange, Refresh, StorageFault, Crash, Start
<1>4. CASE UNCHANGED vars
  BY <1>4 DEF vars
<1>5. QED BY <1>1, <1>2, <1>3, <1>4 DEF Next

(* Only these and the fsync change what is durable. *)
LEMMA FewSync ==
  ASSUME [Next]_vars, ~Exchange, ~PowerLoss, loose' # loose
  PROVE  loose' = {}
<1>1. CASE Requests
  BY <1>1 DEF Requests, StatusReconcile, BeginFork, Revalidate, BeginPrepare,
              BeginCommit, BeginAbort
<1>2. CASE DaemonStep
  BY <1>2 DEF DaemonStep, ReconcileCapture, ReconcileStable, InsertCheckpoint,
              RetirePrime, SetPrime, FreezeCapture, FreezeEnd, PrepareRefuse,
              PrepareDecide, PrepareRow, PrepareStage, SetFile, SetRow, Reclaim,
              Authorize, ExchangeGuard, FsyncExchange, FinishCandidate,
              FinishPublish, FinishSettle, FinishOffline, FinishSibling,
              FinishReceipt, Refresh, RecoverOne, RecoverReceipt,
              RecoverReceipts, RecoveryEnd
<1>3. CASE WatcherDeliver \/ Agents \/ Environment \/ Failures \/ Start
  BY <1>3 DEF WatcherDeliver, Agents, Finalizing, FailedStart, Finalized,
              Environment, ExternalWrite, PolicyChange, Failures, ExchangeFails,
              FsyncExchange, Refresh, StorageFault, Crash, Start
<1>4. CASE UNCHANGED vars
  BY <1>4 DEF vars
<1>5. QED BY <1>1, <1>2, <1>3, <1>4 DEF Next

(* Only two write the database row of a transaction. *)
LEMMA FewRows ==
  ASSUME [Next]_vars, ~PrepareRow, ~SetRow
  PROVE  row' = row
<1>1. CASE Requests
  BY <1>1 DEF Requests, StatusReconcile, BeginFork, Revalidate, BeginPrepare,
              BeginCommit, BeginAbort
<1>2. CASE DaemonStep
  BY <1>2 DEF DaemonStep, ReconcileCapture, ReconcileStable, InsertCheckpoint,
              RetirePrime, SetPrime, FreezeCapture, FreezeEnd, PrepareRefuse,
              PrepareDecide, PrepareStage, SetFile, Reclaim, Authorize,
              ExchangeGuard, Exchange, FsyncExchange, FinishCandidate,
              FinishPublish, FinishSettle, FinishOffline, FinishSibling,
              FinishReceipt, Refresh, RecoverOne, RecoverReceipt,
              RecoverReceipts, RecoveryEnd
<1>3. CASE WatcherDeliver \/ Agents \/ Environment \/ Failures \/ Start
  BY <1>3 DEF WatcherDeliver, Agents, Finalizing, FailedStart, Finalized,
              Environment, ExternalWrite, PolicyChange, Failures, ExchangeFails,
              FsyncExchange, Refresh, StorageFault, Crash, PowerLoss, Start
<1>4. CASE UNCHANGED vars
  BY <1>4 DEF vars
<1>5. QED BY <1>1, <1>2, <1>3, <1>4 DEF Next

(* Only one changes PRIME. *)
LEMMA FewPublish ==
  ASSUME [Next]_vars, ~SetPrime
  PROVE  UNCHANGED <<prime, primeGen>>
<1>1. CASE Requests
  BY <1>1 DEF Requests, StatusReconcile, BeginFork, Revalidate, BeginPrepare,
              BeginCommit, BeginAbort
<1>2. CASE DaemonStep
  BY <1>2 DEF DaemonStep, ReconcileCapture, ReconcileStable, InsertCheckpoint,
              RetirePrime, FreezeCapture, FreezeEnd, PrepareRefuse,
              PrepareDecide, PrepareRow, PrepareStage, SetFile, SetRow, Reclaim,
              Authorize, ExchangeGuard, Exchange, FsyncExchange, FinishCandidate,
              FinishPublish, FinishSettle, FinishOffline, FinishSibling,
              FinishReceipt, Refresh, RecoverOne, RecoverReceipt,
              RecoverReceipts, RecoveryEnd
<1>3. CASE WatcherDeliver \/ Agents \/ Environment \/ Failures \/ Start
  BY <1>3 DEF WatcherDeliver, Agents, Finalizing, FailedStart, Finalized,
              Environment, ExternalWrite, PolicyChange, Failures, ExchangeFails,
              FsyncExchange, Refresh, StorageFault, Crash, PowerLoss, Start
<1>4. CASE UNCHANGED vars
  BY <1>4 DEF vars
<1>5. QED BY <1>1, <1>2, <1>3, <1>4 DEF Next

(* The exchange, the receipt and the move of PRIME are steps of a commit,  *)
(* of a recovery or of a reconcile, none of which a serving daemon takes   *)
(* while a transaction is quarantined.                                     *)
LEMMA MovingState ==
  ASSUME IInv, pc \in {"exchange", "receipt", "setprime"}
  PROVE  /\ mode \in {"serve", "recover"}
         /\ mode = "serve" => bad = {}
         /\ pc # "setprime" => op.tx \in Tx
<1>1. /\ op.kind \in {"status", "fork", "prepare", "commit", "recover"}
      /\ pc # "setprime" => op.tx \in Tx
  BY DEF IInv, ControlOK, KindsAt, Steps, PrimeSteps
<1>2. QED BY <1>1 DEF IInv, ControlOK, TypeOK

(* The exchange of t comes when no other waits for its receipt, and t      *)
(* never was live before.                                                  *)
LEMMA ExchangeState ==
  ASSUME IInv, pc = "exchange"
  PROVE  /\ mode = "serve" /\ bad = {} /\ op.tx \in Tx
         /\ file[op.tx] = "AUTHORIZED" /\ row[op.tx] = "AUTHORIZED"
         /\ slot[op.tx] = op.tx /\ ~Recorded(op.tx) /\ op.tx \notin lost
         /\ \A u \in Tx : ~Pending(u)
<1>1. /\ op.kind = "commit" /\ op.tx \in Tx
  BY DEF IInv, ControlOK, KindsAt, Steps, PrimeSteps
<1>2. mode = "serve" /\ bad = {}
  BY <1>1, MovingState DEF IInv, ControlOK
<1>3. /\ file[op.tx] = "AUTHORIZED" /\ row[op.tx] = "AUTHORIZED"
      /\ slot[op.tx] = op.tx /\ op.tx \notin lost
  BY <1>1 DEF IInv, PhasesOK, PhaseOK
<1>4. ~Recorded(op.tx)
  BY <1>1, <1>3 DEF IInv, RecordsOK, RecordOK
<1>5. \A u \in Tx : ~Pending(u)
  BY <1>2 DEF IInv, UnrecordedAttended, Attended, FinishSteps
<1>6. QED BY <1>1, <1>2, <1>3, <1>4, <1>5

(* A power loss undoes an exchange that no other followed; below it is a   *)
(* generation that is recorded.                                            *)
LEMMA UndoState ==
  ASSUME IInv, live \in loose
  PROVE  /\ live \in Tx /\ live \notin lost /\ RecordOK(live)
         /\ slot[live] # live
         /\ slot[live] \in Tx => Recorded(slot[live])
<1>1. live \in Tx /\ RecordOK(live)
  BY DEF IInv, TypeOK, RecordsOK
<1>2. live \notin lost /\ slot[live] # live
  BY <1>1 DEF RecordOK, Exchanged
<1>3. PICK n, g : n = Len(receipts) /\ g = slot[live]
  OBVIOUS
<1>4. n \in Nat
  BY <1>3 DEF IInv, TypeOK
<1>5. \E m \in 0..n : LeftLive(m, g)
  <2>1. CASE Recorded(live)
    <3>1. PICK k \in 1..n : receipts[k] = live
      BY <1>3, <2>1, ReceiptIndex DEF IInv
    <3>2. LeftLive(k - 1, g) /\ k - 1 \in 0..n
      BY <1>2, <1>3, <1>4, <3>1 DEF IInv, ChainOK
    <3>3. QED BY <3>2
  <2>2. CASE ~Recorded(live)
    BY <1>1, <1>3, <1>4, <2>2 DEF IInv, ChainOK, Settlement
  <2>3. QED BY <2>1, <2>2
<1>6. QED BY <1>1, <1>2, <1>3, <1>5, LeftIsRecorded DEF IInv

(* Reality moves only by the exchange of a transaction that both records   *)
(* call AUTHORIZED, with nothing quarantined, or back, when a power loss   *)
(* undoes an exchange no fsync has followed, to a generation that is       *)
(* recorded: whatever else crashes, fails or interleaves.                  *)
THEOREM MovesAreAuthorized == Spec => RealityMovesOnlyAuthorized
<1>1. IInv /\ [Next]_vars => [live' # live => AuthorizedMove]_vars
  <2> SUFFICES ASSUME IInv, [Next]_vars, live' # live PROVE AuthorizedMove
    OBVIOUS
  <2>1. CASE Exchange
    BY <2>1, ExchangeState DEF Exchange, AuthorizedMove
  <2>2. CASE PowerLoss
    <3>1. /\ mode = "down" /\ live \in loose /\ live' = slot[live]
          /\ slot' = [slot EXCEPT ![live] = live]
      BY <2>2 DEF PowerLoss
    <3>2. slot'[live] = live
      BY <3>1, UndoState DEF IInv, TypeOK
    <3>3. QED BY <3>1, <3>2, UndoState DEF AuthorizedMove
  <2>3. CASE FinishReceipt
    BY <2>3 DEF FinishReceipt
  <2>4. QED BY <2>1, <2>2, <2>3, FewMove
<1>2. QED BY <1>1, Invariance, PTL DEF Spec, RealityMovesOnlyAuthorized

(* A serving daemon with a quarantined transaction changes neither         *)
(* reality, nor PRIME, nor the receipts, until a restart settles it.       *)
THEOREM QuarantineFreezes == Spec => QuarantineFreezesReality
<1>1. IInv /\ [Next]_vars => [FrozenWhileQuarantined]_vars
  <2> SUFFICES ASSUME IInv, [Next]_vars, mode = "serve", mode' = "serve",
                      bad # {}
               PROVE  UNCHANGED <<live, prime, primeGen, receipts>>
    BY DEF FrozenWhileQuarantined
  <2>1. pc \notin {"exchange", "receipt", "setprime"}
    BY MovingState
  <2>2. ~Exchange /\ ~PowerLoss /\ ~FinishReceipt /\ ~SetPrime
    BY <2>1 DEF Exchange, PowerLoss, FinishReceipt, SetPrime
  <2>3. QED BY <2>2, FewMove, FewPublish
<1>2. QED BY <1>1, Invariance, PTL DEF Spec, QuarantineFreezesReality

-----------------------------------------------------------------------------
(* The refinement mapping's history, while nothing waits for its receipt   *)
(* and while something does.                                               *)
LEMMA NothingWaits ==
  /\ (\A u \in Tx : ~Pending(u)) => Exchanges = receipts
  /\ (\A u \in Tx : ~Pending(u)') => Exchanges' = receipts'
  BY DEF Exchanges

LEMMA OneWaits ==
  ASSUME NEW t \in Tx
  PROVE  /\ Pending(t) /\ (\A u \in Tx : Pending(u) => u = t)
              => Exchanges = Append(receipts, t)
         /\ Pending(t)' /\ (\A u \in Tx : Pending(u)' => u = t)
              => Exchanges' = Append(receipts', t)
<1>1. ASSUME Pending(t), \A u \in Tx : Pending(u) => u = t
      PROVE  Exchanges = Append(receipts, t)
  <2>1. (CHOOSE u \in Tx : Pending(u)) = t
    BY <1>1
  <2>2. QED BY <1>1, <2>1 DEF Exchanges
<1>2. ASSUME Pending(t)', \A u \in Tx : Pending(u)' => u = t
      PROVE  Exchanges' = Append(receipts', t)
  <2>1. (CHOOSE u \in Tx : Pending(u)') = t
    BY <1>2
  <2>2. QED BY <1>2, <2>1 DEF Exchanges
<1>3. QED BY <1>1, <1>2

(* The history is that of the log, with at most one move to be recorded. *)
LEMMA HistoryType ==
  ASSUME IInv
  PROVE  /\ Exchanges \in Seq(Tx) /\ receipts \in Seq(Tx)
         /\ \/ Exchanges = receipts /\ \A u \in Tx : ~Pending(u)
            \/ \E t \in Tx : Pending(t) /\ Exchanges = Append(receipts, t)
<1>1. receipts \in Seq(Tx)
  BY DEF IInv, TypeOK
<1>2. CASE \A u \in Tx : ~Pending(u)
  BY <1>1, <1>2, NothingWaits
<1>3. ASSUME NEW t \in Tx, Pending(t)
      PROVE  Exchanges = Append(receipts, t)
  BY <1>3, OneWaits DEF IInv, PendingOK
<1>4. QED BY <1>1, <1>2, <1>3

(* The same waits if neither a row becomes COMMITTED nor live or the       *)
(* receipts change.                                                        *)
LEMMA WaitingStays ==
  ASSUME IInv, [Next]_vars, ~Exchange, ~PowerLoss, ~FinishReceipt
  PROVE  Exchanges' = Exchanges
<1>1. UNCHANGED <<live, receipts>>
  BY FewMove
<1>2. \A u \in Tx : Pending(u)' <=> Pending(u)
  <2>1. CASE PrepareRow
    <3>1. /\ pc = "row" /\ row' = [row EXCEPT ![op.tx] = file[op.tx]]
      BY <2>1 DEF PrepareRow
    <3>2. op.tx \in Tx /\ file[op.tx] \in {"PREPARED", "DENIED"} /\ row[op.tx] = Absent
      BY <3>1 DEF IInv, ControlOK, Steps, PrimeSteps, PhasesOK, PhaseOK
    <3>3. QED
      BY <1>1, <3>1, <3>2, CollapseConstants DEF Pending, Recorded, IInv, TypeOK, TxStates
  <2>2. CASE SetRow
    <3>1. /\ pc = "setrow" /\ row' = [row EXCEPT ![op.tx] = op.goal]
      BY <2>2 DEF SetRow
    <3>2. /\ op.tx \in Tx /\ row[op.tx] # "COMMITTED"
          /\ op.goal = "COMMITTED" => live = op.tx
      BY <3>1 DEF IInv, ControlOK, Steps, PrimeSteps, PhasesOK, PhaseOK
    <3>3. QED BY <1>1, <3>1, <3>2 DEF Pending, Recorded, IInv, TypeOK
  <2>3. CASE ~PrepareRow /\ ~SetRow
    BY <1>1, <2>3, FewRows DEF Pending, Recorded
  <2>4. QED BY <2>1, <2>2, <2>3
<1>3. QED BY <1>1, <1>2 DEF Exchanges

(* An exchange is a move of the log. *)
LEMMA ExchangeMoves ==
  ASSUME IInv, IInv', Exchange
  PROVE  Log!Next
<1>0. PICK t : t = op.tx
  OBVIOUS
<1>1. /\ pc = "exchange" /\ live' = t /\ loose' = loose \cup {t}
      /\ UNCHANGED <<lost, row, receipts>>
  BY <1>0 DEF Exchange
<1>2. t \in Tx /\ ~Recorded(t) /\ t \notin lost /\ \A u \in Tx : ~Pending(u)
  BY <1>0, <1>1, ExchangeState
<1>3. Exchanges = receipts
  BY <1>2, NothingWaits
<1>4. Exchanges' = Append(receipts, t)
  <2>1. Pending(t)' /\ \A u \in Tx : Pending(u)' => u = t
    BY <1>1, <1>2 DEF Pending, Recorded
  <2>2. QED BY <1>1, <1>2, <2>1, OneWaits
<1>5. Range(Append(receipts, t)) = Range(receipts) \cup {t}
  BY <1>2, RangeAppend DEF IInv, TypeOK
<1>6. (lost \cap Range(Exchanges))' = lost \cap Range(Exchanges)
  BY <1>1, <1>2, <1>3, <1>4, <1>5
<1>7. t \notin Range(Exchanges)
  BY <1>2, <1>3 DEF Recorded
<1>8. Log!Move(t)
  BY <1>1, <1>3, <1>4, <1>6, <1>7 DEF Log!Move, Log!Range, Range
<1>9. QED BY <1>2, <1>8 DEF Log!Next

(* A power loss undoes the last move that no other power loss undid. *)
LEMMA PowerLossLoses ==
  ASSUME IInv, PowerLoss
  PROVE  Log!Next
<1>0. PICK t, n : t = live /\ n = Len(receipts)
  OBVIOUS
<1>1. /\ t \in loose /\ loose' = loose \ {t} /\ lost' = lost \cup {t}
      /\ live' = slot[t] /\ UNCHANGED <<row, receipts>>
  BY <1>0 DEF PowerLoss
<1>2. /\ t \in Tx /\ t \notin lost /\ RecordOK(t) /\ live' # t
      /\ live' \in Tx => Recorded(live')
  BY <1>0, <1>1, UndoState
<1>3. receipts \in Seq(Tx) /\ n \in Nat /\ \A i \in 1..n : receipts[i] \in Tx
  BY <1>0 DEF IInv, TypeOK
<1>4. \A u \in Tx : Pending(u)' <=> Pending(u) /\ (u # t \/ row[t] = "COMMITTED")
  BY <1>0, <1>1, <1>2 DEF Pending, Recorded
<1>5. \A u \in Tx : Pending(u) /\ u # t => u \in lost
  BY <1>0 DEF Pending, IInv, RecordsOK, RecordOK
<1>6. CASE Recorded(t) \/ row[t] = "COMMITTED"
  <2>1. \A u \in Tx : Pending(u)' <=> Pending(u)
    BY <1>4, <1>6 DEF Pending
  <2>2. Exchanges' = Exchanges
    BY <1>1, <2>1 DEF Exchanges
  <2>3. PICK k \in 1..Len(Exchanges) :
          Exchanges[k] = t /\ \A j \in (k + 1)..Len(Exchanges) : Exchanges[j] \in lost
    <3>1. CASE Recorded(t)
      <4>1. PICK k \in 1..n : /\ t = receipts[k]
                             /\ \A j \in (k + 1)..n : receipts[j] \in lost
        <5>1. Settlement = t /\ t # Genesis
          BY <1>0, <1>2, <3>1, CollapseConstants DEF Settlement
        <5>2. QED BY <1>0, <5>1 DEF IInv, ChainOK, LeftLive
      <4>2. CASE Exchanges = receipts
        BY <1>0, <4>1, <4>2
      <4>3. ASSUME NEW u \in Tx, Pending(u), Exchanges = Append(receipts, u)
            PROVE  /\ k \in 1..Len(Exchanges) /\ Exchanges[k] = t
                   /\ \A j \in (k + 1)..Len(Exchanges) : Exchanges[j] \in lost
        <5>1. u \in lost
          BY <1>5, <3>1, <4>3 DEF Pending
        <5>2. /\ Len(Exchanges) = n + 1 /\ Exchanges[n + 1] = u
              /\ \A i \in 1..n : Exchanges[i] = receipts[i]
          BY <1>0, <1>3, <4>3
        <5>3. QED BY <1>3, <4>1, <5>1, <5>2
      <4>4. QED BY <4>2, <4>3, HistoryType
    <3>2. CASE ~Recorded(t)
      <4>1. Exchanges = Append(receipts, t)
        BY <1>0, <1>2, <3>2, OneWaits DEF Pending, IInv, PendingOK
      <4>2. Len(Exchanges) = n + 1 /\ Exchanges[n + 1] = t
        BY <1>0, <1>2, <1>3, <4>1
      <4>3. QED BY <1>3, <4>2
    <3>3. QED BY <3>1, <3>2
  <2>4. t \in Range(Exchanges)
    BY <2>3, HistoryType DEF Range
  <2>5. (lost \cap Range(Exchanges))' = (lost \cap Range(Exchanges)) \cup {t}
    BY <1>1, <2>2, <2>4
  <2>6. \A j \in (k + 1)..Len(Exchanges) : Exchanges[j] \in lost \cap Range(Exchanges)
    BY <2>3, HistoryType DEF Range
  <2>7. Log!Lose
    BY <1>1, <1>2, <2>2, <2>3, <2>5, <2>6 DEF Log!Lose
  <2>8. QED BY <2>7 DEF Log!Next
<1>7. CASE ~Recorded(t) /\ row[t] # "COMMITTED"
  <2>1. Pending(t) /\ \A u \in Tx : Pending(u) => u = t
    BY <1>0, <1>2, <1>7 DEF Pending, IInv, PendingOK
  <2>2. Exchanges = Append(receipts, t) /\ Exchanges' = receipts
    BY <1>1, <1>2, <1>4, <1>7, <2>1, OneWaits, NothingWaits
  <2>3. /\ Len(Exchanges) = n + 1 /\ Exchanges[n + 1] = t
        /\ SubSeq(Exchanges, 1, n) = receipts
    BY <1>0, <1>2, <1>3, <2>2
  <2>4. Log!Last(Exchanges) = t /\ Log!Front(Exchanges) = receipts
    BY <1>3, <2>3 DEF Log!Last, Log!Front
  <2>5. Range(Append(receipts, t)) = Range(receipts) \cup {t} /\ t \notin Range(receipts)
    BY <1>2, <1>3, <1>7, RangeAppend DEF Recorded
  <2>6. (lost \cap Range(Exchanges))' = lost \cap Range(Exchanges)
    BY <1>1, <1>2, <2>2, <2>5
  <2>7. Log!Undo
    BY <1>0, <1>1, <1>3, <2>2, <2>3, <2>4, <2>6 DEF Log!Undo
  <2>8. QED BY <2>7 DEF Log!Next
<1>8. QED BY <1>6, <1>7

(* A receipt records the move that waits for it. *)
LEMMA ReceiptRecords ==
  ASSUME IInv, FinishReceipt
  PROVE  Log!Next
<1>0. PICK t, n : t = op.tx /\ n = Len(receipts)
  OBVIOUS
<1>1. /\ pc = "receipt" /\ UNCHANGED <<live, loose, lost, row>>
      /\ receipts' = IF Recorded(t) THEN receipts ELSE Append(receipts, t)
  BY <1>0 DEF FinishReceipt
<1>2. t \in Tx /\ row[t] = "COMMITTED" /\ ~Recorded(t)
  BY <1>0, <1>1, MovingState DEF IInv, PhasesOK, PhaseOK
<1>3. Pending(t) /\ \A u \in Tx : Pending(u) => u = t
  BY <1>2 DEF Pending, IInv, PendingOK
<1>4. receipts' = Append(receipts, t) /\ Exchanges = Append(receipts, t)
  BY <1>1, <1>2, <1>3, OneWaits
<1>5. Range(receipts') = Range(receipts) \cup {t}
  BY <1>2, <1>4, RangeAppend DEF IInv, TypeOK
<1>6. \A u \in Tx : ~Pending(u)'
  BY <1>1, <1>3, <1>5 DEF Pending, Recorded
<1>7. Exchanges' = Exchanges
  BY <1>4, <1>6, NothingWaits
<1>8. n \in Nat /\ Len(Exchanges) = n + 1 /\ Len(receipts') = n + 1
  BY <1>0, <1>2, <1>4 DEF IInv, TypeOK
<1>9. Log!Record
  BY <1>0, <1>1, <1>7, <1>8 DEF Log!Record
<1>10. QED BY <1>9 DEF Log!Next

(* Every step is a step of the log, or leaves it alone. *)
LEMMA LogStep ==
  ASSUME IInv, [Next]_vars
  PROVE  [Log!Next]_(Log!logVars)
<1>1. CASE Exchange
  BY <1>1, ExchangeMoves, InvariantStep
<1>2. CASE PowerLoss
  BY <1>2, PowerLossLoses
<1>3. CASE FinishReceipt
  BY <1>3, ReceiptRecords
<1>4. CASE ~Exchange /\ ~PowerLoss /\ ~FinishReceipt
  <2>1. UNCHANGED <<lost, receipts>> /\ Exchanges' = Exchanges
    BY <1>4, FewMove, WaitingStays
  <2>2. CASE loose' = loose
    BY <2>1, <2>2 DEF Log!logVars
  <2>3. CASE loose' # loose
    <3>1. loose' = {}
      BY <1>4, <2>3, FewSync
    <3>2. Log!Sync
      BY <2>1, <3>1 DEF Log!Sync
    <3>3. QED BY <3>2 DEF Log!Next
  <2>4. QED BY <2>2, <2>3
<1>5. QED BY <1>1, <1>2, <1>3, <1>4

(* The collapse protocol, with its crashes, its failing fsyncs and its     *)
(* power losses, implements the log of reality: moves are recorded one at  *)
(* a time, in order, and only one that was not durable, with none standing *)
(* after it, can be undone.                                                *)
THEOREM ImplementsRealityLog == Spec => RefinesRealityLog
<1>1. Init => Log!Init
  <2> SUFFICES ASSUME Init PROVE Log!Init
    OBVIOUS
  <2>1. /\ live \notin Tx /\ receipts = <<>> /\ loose = {} /\ lost = {}
        /\ \A t \in Tx : row[t] = Absent
    BY CollapseConstants DEF Init
  <2>2. \A t \in Tx : ~Pending(t)
    BY <2>1, CollapseConstants DEF Pending, TxStates
  <2>3. Exchanges = <<>>
    BY <2>1, <2>2, NothingWaits
  <2>4. QED BY <2>1, <2>3 DEF Log!Init
<1>2. IInv /\ [Next]_vars => [Log!Next]_(Log!logVars)
  BY LogStep
<1>3. QED BY <1>1, <1>2, Invariance, PTL DEF Spec, RefinesRealityLog, Log!Spec
=============================================================================
