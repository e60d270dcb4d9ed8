---------------------------- MODULE RealityProofs ----------------------------
(***************************************************************************)
(* What a collapse does to the trees, proved from the invariant Faithful   *)
(* of CollapseInvariant on top of IInv.                                    *)
(***************************************************************************)
EXTENDS CollapseProofs, KernelProofs

USE DEF diskVars, txVars, worldVars, primeVars, watchVars, envVars, histVars,
        Consistent

(* How the daemon comes to the steps that Faithful speaks of. *)
LEMMA Arrivals ==
  ASSUME TypeOK, [Next]_vars, pc' # pc
  PROVE  /\ pc' = "insert"    => ReconcileStable \/ FinishPublish
         /\ pc' = "retire"    => InsertCheckpoint \/ FinishPublish
         /\ pc' = "setprime"  => RetirePrime
         /\ pc' = "siblings"  => FinishCandidate
         /\ pc' = "authorize" => \E t \in Tx : BeginCommit(t)
         /\ pc' = "setrow"    => SetFile
         /\ pc' = "guard"     => SetRow
         /\ pc' = "exchange"  => ExchangeGuard
<1>1. CASE Requests
  BY <1>1 DEF Requests, StatusReconcile, BeginFork, Revalidate, BeginPrepare,
              BeginCommit, BeginAbort
<1>2. CASE DaemonStep
  BY <1>2 DEF DaemonStep, ReconcileCapture, ReconcileStable, InsertCheckpoint,
              RetirePrime, SetPrime, FreezeCapture, FreezeEnd, PrepareRefuse,
              PrepareDecide, PrepareRow, PrepareStage, SetFile, SetRow, Reclaim,
              Authorize, ExchangeGuard, Exchange, FsyncExchange, FinishCandidate,
              FinishPublish, FinishSettle, FinishOffline, FinishSibling,
              FinishReceipt, Refresh, RecoverOne, RecoverReceipt,
              RecoverReceipts, RecoveryEnd, Goto, Leave, AfterReconcile, Raise, Assign
<1>3. CASE WatcherDeliver \/ Agents \/ Environment \/ Failures \/ Start
  BY <1>3 DEF WatcherDeliver, Agents, Finalizing, FailedStart, Finalized,
              Environment, ExternalWrite, PolicyChange, Failures, ExchangeFails,
              FsyncExchange, Refresh, StorageFault, Crash, PowerLoss, Start, Goto, Leave, Raise, Assign
<1>4. CASE UNCHANGED vars
  BY <1>4 DEF vars
<1>5. QED BY <1>1, <1>2, <1>3, <1>4 DEF Next

(* Who writes to worlds. *)
LEMMA WorldWriters ==
  ASSUME [Next]_vars, ~InsertCheckpoint, ~RetirePrime, ~FreezeEnd, ~Agents,
         ~FinishCandidate, ~(\E w \in World : FinishSibling(w)), ~RecoveryEnd
  PROVE  UNCHANGED <<state, content, base>>
<1>1. CASE Requests
  BY <1>1 DEF Requests, StatusReconcile, BeginFork, Revalidate, BeginPrepare,
              BeginCommit, BeginAbort, Serving
<1>2. CASE DaemonStep
  BY <1>2 DEF DaemonStep, ReconcileCapture, ReconcileStable, InsertCheckpoint,
              RetirePrime, SetPrime, FreezeCapture, FreezeEnd, PrepareRefuse,
              PrepareDecide, PrepareRow, PrepareStage, SetFile, SetRow, Reclaim,
              Authorize, ExchangeGuard, Exchange, FsyncExchange, FinishCandidate,
              FinishPublish, FinishSettle, FinishOffline, FinishSibling,
              FinishReceipt, Refresh, RecoverOne, RecoverReceipt,
              RecoverReceipts, RecoveryEnd
<1>3. CASE WatcherDeliver \/ Agents \/ Environment \/ Failures \/ Start
  BY <1>3 DEF WatcherDeliver, Agents, Finalizing, FailedStart, Finalized,
              Environment, ExternalWrite, PolicyChange, Failures, ExchangeFails,
              FsyncExchange, Refresh, StorageFault, Crash, PowerLoss, Start
<1>4. CASE UNCHANGED vars
  BY <1>4 DEF vars
<1>5. QED BY <1>1, <1>2, <1>3, <1>4 DEF Next

(* Who writes to prepared records. *)
LEMMA RecordWriters ==
  ASSUME [Next]_vars, ~Authorize,
         ~(\E t \in Tx, passed \in BOOLEAN : PrepareStage(t, passed))
  PROVE  UNCHANGED rec
<1>1. CASE Requests
  BY <1>1 DEF Requests, StatusReconcile, BeginFork, Revalidate, BeginPrepare,
              BeginCommit, BeginAbort, Serving
<1>2. CASE DaemonStep
  BY <1>2 DEF DaemonStep, ReconcileCapture, ReconcileStable, InsertCheckpoint,
              RetirePrime, SetPrime, FreezeCapture, FreezeEnd, PrepareRefuse,
              PrepareDecide, PrepareRow, PrepareStage, SetFile, SetRow, Reclaim,
              Authorize, ExchangeGuard, Exchange, FsyncExchange, FinishCandidate,
              FinishPublish, FinishSettle, FinishOffline, FinishSibling,
              FinishReceipt, Refresh, RecoverOne, RecoverReceipt,
              RecoverReceipts, RecoveryEnd
<1>3. CASE WatcherDeliver \/ Agents \/ Environment \/ Failures \/ Start
  BY <1>3 DEF WatcherDeliver, Agents, Finalizing, FailedStart, Finalized,
              Environment, ExternalWrite, PolicyChange, Failures, ExchangeFails,
              FsyncExchange, Refresh, StorageFault, Crash, PowerLoss, Start
<1>4. CASE UNCHANGED vars
  BY <1>4 DEF vars
<1>5. QED BY <1>1, <1>2, <1>3, <1>4 DEF Next

(* A request that stays where it is keeps what it holds. *)
LEMMA Stays ==
  ASSUME [Next]_vars, pc' = pc, pc \notin {"idle", "recover"},
         ~(\E w \in World : FinishSibling(w))
  PROVE  UNCHANGED op
<1>1. CASE Requests
  BY <1>1 DEF Requests, StatusReconcile, BeginFork, Revalidate, BeginPrepare,
              BeginCommit, BeginAbort, Serving, Goto, Leave, AfterReconcile, Raise, Assign, FallibleSteps
<1>2. CASE DaemonStep
  BY <1>2 DEF DaemonStep, ReconcileCapture, ReconcileStable, InsertCheckpoint,
              RetirePrime, SetPrime, FreezeCapture, FreezeEnd, PrepareRefuse,
              PrepareDecide, PrepareRow, PrepareStage, SetFile, SetRow, Reclaim,
              Authorize, ExchangeGuard, Exchange, FsyncExchange, FinishCandidate,
              FinishPublish, FinishSettle, FinishOffline, FinishSibling,
              FinishReceipt, Refresh, RecoverOne, RecoverReceipt,
              RecoverReceipts, RecoveryEnd, Goto, Leave, AfterReconcile, Raise, Assign, FallibleSteps
<1>3. CASE WatcherDeliver \/ Agents \/ Environment \/ Failures \/ Start
  BY <1>3 DEF WatcherDeliver, Agents, Finalizing, FailedStart, Finalized,
              Environment, ExternalWrite, PolicyChange, Failures, ExchangeFails,
              FsyncExchange, Refresh, StorageFault, Crash, PowerLoss, Start, Goto, Leave, AfterReconcile, Raise, Assign, FallibleSteps
<1>4. CASE UNCHANGED vars
  BY <1>4 DEF vars
<1>5. QED BY <1>1, <1>2, <1>3, <1>4 DEF Next

(* A step of the daemon keeps whose request it is, or ends it. *)
LEMMA SameKind ==
  ASSUME TypeOK, DaemonStep
  PROVE  \/ op' = NoOp
         \/ op'.kind = op.kind /\ op'.cand = op.cand
<1>1. op \in Op
  BY DEF TypeOK
<1>2. CASE \E t \in Tx : RecoverOne(t)
  <2> PICK t \in Tx : RecoverOne(t)
    BY <1>2
  <2> DEFINE rest == [op EXCEPT !.queue = @ \ {t}, !.tx = t]
  <2>1. \/ op' = rest
        \/ op' = [rest EXCEPT !.moved = (tree[t] # rec[t].staged)]
        \/ op' = [rest EXCEPT !.goal = "ABORTED"]
    BY DEF RecoverOne
  <2>2. QED BY <1>1, <2>1 DEF Op
<1>3. CASE \E t \in Tx : RecoverReceipt(t)
  <2> PICK t \in Tx : RecoverReceipt(t)
    BY <1>3
  <2>1. op' = [op EXCEPT !.queue = @ \ {t}, !.tx = t,
                         !.moved = (tree[t] # rec[t].staged)]
    BY DEF RecoverReceipt
  <2>2. QED BY <1>1, <2>1 DEF Op
<1> USE DEF TypeOK, Op
<1>4. CASE \/ \E r \in Recon : ReconcileCapture(r)
           \/ ReconcileStable \/ InsertCheckpoint \/ RetirePrime \/ SetPrime
  BY <1>4 DEF ReconcileCapture, ReconcileStable, InsertCheckpoint, RetirePrime,
              SetPrime, Goto, Raise
<1>5. CASE \/ FreezeCapture \/ FreezeEnd \/ PrepareRefuse \/ PrepareDecide
           \/ PrepareRow
           \/ \E t \in Tx, passed \in BOOLEAN : PrepareStage(t, passed)
  BY <1>5 DEF FreezeCapture, FreezeEnd, PrepareRefuse, PrepareDecide, PrepareRow,
              PrepareStage, Goto
<1>6. CASE SetFile \/ SetRow \/ Reclaim \/ ExchangeGuard \/ Exchange
           \/ \E ok \in BOOLEAN : FsyncExchange(ok)
  BY <1>6 DEF SetFile, SetRow, Reclaim, ExchangeGuard, Exchange, FsyncExchange,
              Goto, Assign
<1>7. CASE Authorize
  BY <1>7 DEF Authorize
<1>8. CASE FinishCandidate \/ FinishPublish \/ FinishSettle \/ FinishOffline
           \/ (\E w \in World : FinishSibling(w)) \/ FinishReceipt
  BY <1>8 DEF FinishCandidate, FinishPublish, FinishSettle, FinishOffline,
              FinishSibling, FinishReceipt, Goto, Raise, Assign
<1>9. CASE Refresh(TRUE) \/ RecoverReceipts \/ RecoveryEnd
  BY <1>9 DEF Refresh, RecoverReceipts, RecoveryEnd, Goto
<1>10. QED
  BY <1>2, <1>3, <1>4, <1>5, <1>6, <1>7, <1>8, <1>9 DEF DaemonStep

(* A fork under way is the one that began. *)
LEMMA ForkArrival ==
  ASSUME TypeOK, [Next]_vars, op'.kind = "fork"
  PROVE  \/ op.kind = "fork" /\ op'.cand = op.cand
         \/ \E c \in Cand : BeginFork(c)
<1>1. CASE Requests
  <2>1. CASE StatusReconcile \/ \E c \in Cand : BeginPrepare(c)
    BY <2>1, NoOpType DEF StatusReconcile, BeginPrepare, Op
  <2>2. CASE \E t \in Tx : BeginCommit(t) \/ BeginAbort(t)
    BY <2>2, NoOpType DEF BeginCommit, BeginAbort, Op
  <2>3. CASE \E c \in Cand : Revalidate(c)
    BY <2>3 DEF Revalidate
  <2>4. QED BY <1>1, <2>1, <2>2, <2>3 DEF Requests
<1>2. CASE DaemonStep
  BY <1>2, SameKind, NoOpFields
<1>3. CASE WatcherDeliver \/ Agents \/ Environment
  BY <1>3 DEF WatcherDeliver, Agents, Finalizing, FailedStart, Finalized,
              Environment, ExternalWrite, PolicyChange
<1>4. CASE Failures \/ Start
  <2>1. \/ op' = NoOp \/ op'.kind = "recover"
        \/ op'.kind = op.kind /\ op'.cand = op.cand
    BY <1>4, NoOpType DEF Failures, ExchangeFails, FsyncExchange, Refresh, StorageFault, Crash,
              PowerLoss, Start, Goto, Raise, Assign, TypeOK, Op
  <2>2. QED BY <2>1, NoOpFields
<1>5. CASE UNCHANGED vars
  BY <1>5 DEF vars
<1>6. QED BY <1>1, <1>2, <1>3, <1>4, <1>5 DEF Next

-----------------------------------------------------------------------------
(* The worlds.                                                             *)

(* The states of a world and what is no state of one. *)
LEMMA StateNames ==
  /\ Absent \notin WorldStates
  /\ \A c \in Cand : c \in World
  /\ \A t \in Tx : t \in World /\ t \notin Cand
  /\ \A r \in Recon : r \in World /\ r \notin Cand
  BY CollapseConstants DEF World, Mapping

(* A fork that freezes has an id nobody has. *)
LEMMA FreezesFresh ==
  ASSUME IInv, WorldsOK, FreezeEnd
  PROVE  op.cand \in Cand /\ state[op.cand] = Absent
<1>1. pc = "frozen"
  BY DEF FreezeEnd
<1>2. op.kind = "fork"
  BY <1>1 DEF IInv, ControlOK, KindsAt
<1>3. QED BY <1>2 DEF IInv, ControlOK, WorldsOK

(* The tree of a world that ended, and the base it was forked from, never  *)
(* change again.                                                           *)
LEMMA SettledStays ==
  ASSUME IInv, WorldsOK, [Next]_vars, NEW w \in World, Settled(w)
  PROVE  Settled(w)' /\ content'[w] = content[w] /\ (w \in Cand => base'[w] = base[w])
<1> USE StateNames DEF Settled, WorldStates, IInv, TypeOK
<1>1. CASE InsertCheckpoint
  BY <1>1 DEF InsertCheckpoint
<1>2. CASE RetirePrime
  BY <1>2 DEF RetirePrime
<1>3. CASE FreezeEnd
  BY <1>3, FreezesFresh DEF FreezeEnd
<1>4. CASE Agents
  BY <1>4 DEF Agents, Finalizing, FailedStart, Finalized
<1>5. CASE FinishCandidate
  BY <1>5 DEF FinishCandidate
<1>6. CASE \E v \in World : FinishSibling(v)
  BY <1>6 DEF FinishSibling
<1>7. CASE RecoveryEnd
  BY <1>7 DEF RecoveryEnd
<1>8. QED BY <1>1, <1>2, <1>3, <1>4, <1>5, <1>6, <1>7, WorldWriters

(* An id stays free until a fork takes it. *)
LEMMA AbsentStays ==
  ASSUME IInv, WorldsOK, [Next]_vars, NEW c \in Cand, state[c] = Absent, ~FreezeEnd
  PROVE  state'[c] = Absent
<1> USE StateNames DEF WorldStates, IInv, TypeOK
<1>1. CASE InsertCheckpoint
  BY <1>1 DEF InsertCheckpoint, WorldsOK
<1>2. CASE RetirePrime
  BY <1>2 DEF RetirePrime
<1>4. CASE Agents
  BY <1>4 DEF Agents, Finalizing, FailedStart, Finalized
<1>5. CASE FinishCandidate
  BY <1>5 DEF FinishCandidate
<1>6. CASE \E v \in World : FinishSibling(v)
  BY <1>6 DEF FinishSibling, WorldsOK, Retirable
<1>7. CASE RecoveryEnd
  BY <1>7 DEF RecoveryEnd
<1>8. QED BY <1>1, <1>2, <1>4, <1>5, <1>6, <1>7, WorldWriters

(* The transaction that a finish works on has a candidate. *)
LEMMA FinishCandidateKnown ==
  ASSUME IInv, pc = "siblings"
  PROVE  /\ op.tx \in Tx /\ rec[op.tx].cand \in Cand
<1>1. op.tx \in Tx
  BY DEF IInv, ControlOK, Steps, PrimeSteps
<1>2. file[op.tx] # Absent
  BY <1>1, CollapseConstants
     DEF IInv, PhasesOK, PhaseOK, Undone, RecordsOK, RecordOK, TxStates
<1>3. QED BY <1>1, <1>2 DEF IInv, RecordsOK, RecordOK

(* A step keeps the facts about the worlds. *)
LEMMA WorldsStep ==
  ASSUME IInv, WorldsOK, [Next]_vars
  PROVE  WorldsOK'
<1> USE StateNames
<1>1. Settled(prime)'
  <2>1. CASE SetPrime
    <3>1. op.world \in World /\ Settled(op.world) /\ prime' = op.world
      BY <2>1 DEF SetPrime, WorldsOK, IInv, TypeOK, Op
    <3>2. QED BY <3>1, SettledStays DEF Settled
  <2>2. CASE prime' = prime
    <3>1. prime \in World /\ Settled(prime)
      BY DEF WorldsOK, IInv, TypeOK
    <3>2. QED BY <2>2, <3>1, SettledStays DEF Settled
  <2>3. QED BY <2>1, <2>2, FewPublish
<1>2. ASSUME NEW w \in World \ Cand PROVE state'[w] = Absent \/ Settled(w)'
  <2>1. CASE Settled(w)
    BY <2>1, SettledStays
  <2>2. CASE state[w] = Absent
    <3> USE <2>2 DEF WorldStates, IInv, TypeOK
    <3>1. CASE InsertCheckpoint
      BY <3>1 DEF InsertCheckpoint, Settled
    <3>2. CASE RetirePrime
      BY <3>2 DEF RetirePrime
    <3>3. CASE FreezeEnd
      BY <3>3, FreezesFresh DEF FreezeEnd
    <3>4. CASE Agents
      BY <3>4 DEF Agents, Finalizing, FailedStart, Finalized
    <3>5. CASE FinishCandidate
      BY <3>5 DEF FinishCandidate
    <3>6. CASE \E v \in World : FinishSibling(v)
      BY <3>6 DEF FinishSibling, WorldsOK, Retirable
    <3>7. CASE RecoveryEnd
      BY <3>7 DEF RecoveryEnd
    <3>8. QED BY <3>1, <3>2, <3>3, <3>4, <3>5, <3>6, <3>7, WorldWriters
  <2>3. QED BY <2>1, <2>2 DEF WorldsOK
<1>3. ASSUME NEW t \in Tx, rec'[t].cand # Absent PROVE Settled(rec[t].cand)'
  <2>1. CASE rec'[t].cand = rec[t].cand
    <3>1. rec[t].cand \in World /\ Settled(rec[t].cand)
      BY <1>3, <2>1 DEF WorldsOK, IInv, TypeOK, Record, Maybe
    <3>2. QED BY <2>1, <3>1, SettledStays DEF Settled
  <2>2. CASE Authorize
    <3>1. rec'[t].cand = rec[t].cand
      BY <2>2 DEF Authorize, IInv, TypeOK, Record
    <3>2. QED BY <3>1, <2>1
  <2>3. CASE \E u \in Tx, passed \in BOOLEAN : PrepareStage(u, passed)
    <3>1. PICK u \in Tx, passed \in BOOLEAN : PrepareStage(u, passed)
      BY <2>3
    <3>2. rec'[t].cand = rec[t].cand
          \/ (rec'[t].cand = op.cand /\ state[op.cand] = "VALID" /\ pc = "prepare")
      BY <3>1 DEF PrepareStage, IInv, TypeOK
    <3>3. pc = "prepare" => op.cand \in World
      BY DEF IInv, ControlOK, KindsAt
    <3>4. QED BY <2>1, <3>2, <3>3, SettledStays DEF Settled, WorldStates
  <2>4. QED BY <2>1, <2>2, <2>3, RecordWriters
<1>4. ASSUME op'.kind = "fork" PROVE state'[op'.cand] = Absent
  <2>1. PICK c \in Cand : c = op'.cand /\ state[c] = Absent /\ ~FreezeEnd
    <3>1. CASE op.kind = "fork" /\ op'.cand = op.cand
      <4>1. ~FreezeEnd
        BY <1>4, NoOpFields DEF FreezeEnd, Goto
      <4>2. QED BY <3>1, <4>1 DEF WorldsOK, IInv, ControlOK
    <3>2. CASE \E c \in Cand : BeginFork(c)
      BY <3>2, NoOpType DEF BeginFork, Serving, FreezeEnd, Op
    <3>3. QED BY <1>4, <3>1, <3>2, ForkArrival DEF IInv
  <2>2. QED BY <2>1, AbsentStays
<1>5. ASSUME pc' = "insert" PROVE op'.world \notin Cand
  <2>1. CASE pc = "insert"
    BY <1>5, <2>1, Stays DEF WorldsOK, FinishSibling
  <2>2. CASE ReconcileStable
    BY <1>5, <2>2 DEF ReconcileStable, Goto, IInv, ControlOK, PrimeSteps
  <2>3. CASE FinishPublish
    <3>1. pc = "siblings"
      BY <2>3 DEF FinishPublish
    <3>2. op.tx \in Tx
      BY <3>1, FinishCandidateKnown
    <3>3. op'.world = op.tx
      BY <1>5, <2>3 DEF FinishPublish, IInv, TypeOK, Op
    <3>4. QED BY <3>2, <3>3
  <2>4. QED BY <1>5, <2>1, <2>2, <2>3, Arrivals DEF IInv
<1>6. ASSUME pc' \in {"retire", "setprime"} PROVE Settled(op.world)'
  <2>1. CASE op'.world = op.world /\ Settled(op.world)
    BY <2>1, SettledStays DEF IInv, TypeOK, Op, Settled
  <2>2. CASE pc \in {"retire", "setprime"} /\ pc' = pc
    BY <2>1, <2>2, Stays DEF WorldsOK, FinishSibling
  <2>3. CASE RetirePrime
    BY <2>1, <2>3 DEF RetirePrime, WorldsOK
  <2>4. CASE InsertCheckpoint
    <3>1. op' = op /\ op.world \in World \ Cand
      BY <1>6, <2>4 DEF InsertCheckpoint, Goto, Raise, Leave, WorldsOK, IInv, TypeOK, Op
    <3>2. CASE Settled(op.world)
      BY <2>1, <3>1, <3>2
    <3>3. CASE state[op.world] = Absent
      <4>1. ~Raise
        BY <1>6 DEF Raise, Goto, Leave
      <4>2. state'[op.world] = "VALID"
        BY <2>4, <3>1, <3>3, <4>1 DEF InsertCheckpoint, IInv, TypeOK
      <4>3. QED BY <3>1, <4>2 DEF Settled, WorldStates
    <3>4. QED BY <3>1, <3>2, <3>3 DEF WorldsOK
  <2>5. CASE FinishPublish
    <3>1. pc = "siblings"
      BY <2>5 DEF FinishPublish
    <3>2. op'.world = rec[op.tx].cand /\ UNCHANGED <<state>>
      BY <1>6, <2>5 DEF FinishPublish, IInv, TypeOK, Op
    <3>3. op.tx \in Tx /\ rec[op.tx].cand \in Cand
      BY <3>1, FinishCandidateKnown
    <3>4. QED BY <3>2, <3>3, CollapseConstants DEF WorldsOK, Settled
  <2>6. QED BY <1>6, <2>2, <2>3, <2>4, <2>5, Arrivals DEF IInv
<1>7. ASSUME pc' = "siblings", NEW w \in op'.todo PROVE state'[w] \in Retirable
  <2>1. CASE FinishCandidate
    <3>1. ~Raise
      BY <1>7 DEF Raise, Goto, Leave
    <3>2. op'.todo = Rivals(rec[op.tx].cand)
          /\ state' = [state EXCEPT ![rec[op.tx].cand] = "COLLAPSED"]
      BY <2>1, <3>1 DEF FinishCandidate, IInv, TypeOK, Op
    <3>3. QED BY <1>7, <3>2 DEF Rivals, Retirable, IInv, TypeOK
  <2>2. CASE pc = "siblings" /\ \E v \in World : FinishSibling(v)
    BY <1>7, <2>2 DEF FinishSibling, WorldsOK, IInv, TypeOK, Op
  <2>3. CASE pc = "siblings" /\ ~(\E v \in World : FinishSibling(v))
    <3>1. op' = op
      BY <1>7, <2>3, Stays
    <3>2. w \in World /\ state[w] \in Retirable
      BY <1>7, <2>3, <3>1 DEF WorldsOK, IInv, TypeOK, Op
    <3>3. CASE Agents
      BY <3>2, <3>3 DEF Agents, Finalizing, FailedStart, Finalized, Retirable, IInv, TypeOK
    <3>4. CASE ~Agents
      <4>1. UNCHANGED <<state, content, base>>
        BY <2>3, <3>4, WorldWriters
           DEF InsertCheckpoint, RetirePrime, FreezeEnd, FinishCandidate, RecoveryEnd
      <4>2. QED BY <3>2, <4>1
    <3>5. QED BY <3>3, <3>4
  <2>4. QED BY <1>7, <2>1, <2>2, <2>3, Arrivals DEF IInv
<1>8. QED BY <1>1, <1>2, <1>3, <1>4, <1>5, <1>6, <1>7 DEF WorldsOK, Settled

-----------------------------------------------------------------------------
(* The merges.                                                             *)

(* Who moves mappings and who writes trees. *)
LEMMA DiskWriters ==
  ASSUME [Next]_vars, ~(\E t \in Tx, passed \in BOOLEAN : PrepareStage(t, passed))
  PROVE  /\ Reclaim \/ Exchange \/ StorageFault \/ PowerLoss \/ UNCHANGED slot
         /\ UNCHANGED tree
            \/ \E p \in Path, v \in Edit \cup {Genesis} : ExternalWrite(p, v)
<1>1. CASE Requests
  BY <1>1 DEF Requests, StatusReconcile, BeginFork, Revalidate, BeginPrepare,
              BeginCommit, BeginAbort
<1>2. CASE DaemonStep
  BY <1>2 DEF DaemonStep, ReconcileCapture, ReconcileStable, InsertCheckpoint,
              RetirePrime, SetPrime, FreezeCapture, FreezeEnd, PrepareRefuse,
              PrepareDecide, PrepareRow, SetFile, SetRow, Reclaim,
              Authorize, ExchangeGuard, Exchange, FsyncExchange, FinishCandidate,
              FinishPublish, FinishSettle, FinishOffline, FinishSibling,
              FinishReceipt, Refresh, RecoverOne, RecoverReceipt,
              RecoverReceipts, RecoveryEnd
<1>3. CASE WatcherDeliver \/ Agents \/ Environment \/ Failures \/ Start
  BY <1>3 DEF WatcherDeliver, Agents, Finalizing, FailedStart, Finalized,
              Environment, ExternalWrite, PolicyChange, Failures, ExchangeFails,
              FsyncExchange, Refresh, StorageFault, Crash, PowerLoss, Start
<1>4. CASE UNCHANGED vars
  BY <1>4 DEF vars
<1>5. QED BY <1>1, <1>2, <1>3, <1>4 DEF Next

(* A prepared record is written once; the authorization only adds to it.   *)
LEMMA RecordStays ==
  ASSUME TypeOK, [Next]_vars, NEW t \in Tx,
         ~(\E passed \in BOOLEAN : PrepareStage(t, passed))
  PROVE  /\ rec'[t].cand = rec[t].cand /\ rec'[t].conflict = rec[t].conflict
         /\ rec'[t].before = rec[t].before /\ rec'[t].staged = rec[t].staged
         /\ rec'[t].primary = rec[t].primary /\ rec'[t].second = rec[t].second
         /\ (Authorize /\ op.tx = t) \/ rec'[t].authorized = rec[t].authorized
<1>1. CASE Authorize
  BY <1>1 DEF Authorize, TypeOK, Record
<1>2. CASE \E u \in Tx, passed \in BOOLEAN : PrepareStage(u, passed)
  <2>1. PICK u \in Tx, passed \in BOOLEAN : PrepareStage(u, passed)
    BY <1>2
  <2>2. u # t /\ \E r : rec' = [rec EXCEPT ![u] = r]
    BY <2>1 DEF PrepareStage
  <2>3. rec'[t] = rec[t]
    BY <2>2 DEF TypeOK
  <2>4. QED BY <2>3
<1>3. QED BY <1>1, <1>2, RecordWriters

(* The steps that move a mapping: those of the transaction under way, and  *)
(* a power loss; an exchange, or its undoing, finds a mapping there.       *)
LEMMA MappingMoves ==
  ASSUME IInv, [Next]_vars, NEW t \in Tx, slot'[t] # slot[t]
  PROVE  \/ \E passed \in BOOLEAN : PrepareStage(t, passed)
         \/ op.tx = t /\ (Reclaim \/ (StorageFault /\ pc = "staged")) /\ slot'[t] = Absent
         \/ op.tx = t /\ Exchange /\ slot[t] = t /\ slot'[t] = live
         \/ PowerLoss /\ live = t /\ Exchanged(t) /\ slot'[t] = t
<1> USE DEF IInv, TypeOK
<1>1. CASE \E u \in Tx, passed \in BOOLEAN : PrepareStage(u, passed)
  BY <1>1 DEF PrepareStage
<1>2. CASE Reclaim
  <2>1. slot' = IF live = op.tx THEN slot ELSE [slot EXCEPT ![op.tx] = Absent]
    BY <1>2 DEF Reclaim
  <2>2. QED BY <1>2, <2>1
<1>3. CASE StorageFault
  <2>1. slot' = IF pc = "staged" THEN [slot EXCEPT ![op.tx] = Absent] ELSE slot
    BY <1>3 DEF StorageFault
  <2>2. QED BY <1>3, <2>1
<1>4. CASE Exchange
  BY <1>4, ExchangeState DEF Exchange
<1>5. CASE PowerLoss
  <2>1. live = t /\ slot'[t] = t
    BY <1>5 DEF PowerLoss
  <2>2. QED BY <1>5, <2>1 DEF RecordsOK, RecordOK
<1>6. QED BY <1>1, <1>2, <1>3, <1>4, <1>5, DiskWriters

(* A merge without conflict takes a path PRIME changed from PRIME. *)
LEMMA MergeKeepsForeign ==
  ASSUME NEW c, NEW current, ~Conflict(c, current), NEW p \in Path,
         current[p] # base[c][p]
  PROVE  Merge(c, current)[p] = current[p]
  BY DEF Conflict, Merge

(* A step keeps the facts about the merges. *)
LEMMA MergesStep ==
  ASSUME IInv, WorldsOK, MergesOK, [Next]_vars
  PROVE  MergesOK'
<1> SUFFICES ASSUME NEW t \in Tx
             PROVE  IF rec'[t].conflict THEN slot'[t] = Absent
                    ELSE rec'[t].cand # Absent => KeepsForeign(t)'
  BY DEF MergesOK
<1>1. CASE \E passed \in BOOLEAN : PrepareStage(t, passed)
  <2>1. PICK passed \in BOOLEAN : PrepareStage(t, passed)
    BY <1>1
  <2> DEFINE c == op.cand
  <2>2. /\ rec'[t].cand = c /\ rec'[t].before = tree[live] /\ base' = base
        /\ rec'[t].staged = Merge(c, tree[live])
        /\ rec'[t].conflict = Conflict(c, tree[live])
        /\ slot'[t] = IF Conflict(c, tree[live]) THEN Absent ELSE t
    BY <2>1 DEF PrepareStage, IInv, TypeOK
  <2>3. ~Conflict(c, tree[live]) => KeepsForeign(t)'
    BY <2>2, MergeKeepsForeign DEF KeepsForeign
  <2>4. QED BY <2>2, <2>3
<1>2. CASE ~(\E passed \in BOOLEAN : PrepareStage(t, passed))
  <2>1. /\ rec'[t].cand = rec[t].cand /\ rec'[t].conflict = rec[t].conflict
        /\ rec'[t].before = rec[t].before /\ rec'[t].staged = rec[t].staged
    BY <1>2, RecordStays DEF IInv
  <2>2. CASE rec[t].conflict
    <3>1. slot[t] = Absent /\ ~Exchanged(t) /\ slot[t] # t
      BY <2>2, CollapseConstants DEF MergesOK, Exchanged, World, Mapping
    <3>2. slot'[t] = Absent
      BY <1>2, <3>1, MappingMoves
    <3>3. QED BY <2>1, <2>2, <3>2
  <2>3. CASE ~rec[t].conflict
    <3>1. ASSUME rec[t].cand # Absent PROVE KeepsForeign(t)'
      <4>1. rec[t].cand \in Cand /\ rec[t].cand \in World /\ Settled(rec[t].cand)
        BY <3>1, StateNames DEF WorldsOK, IInv, TypeOK, Record, Maybe
      <4>2. base'[rec[t].cand] = base[rec[t].cand]
        BY <4>1, SettledStays
      <4>3. KeepsForeign(t)
        BY <2>3, <3>1 DEF MergesOK
      <4>4. QED BY <2>1, <4>2, <4>3 DEF KeepsForeign
    <3>2. QED BY <2>1, <2>3, <3>1
  <2>4. QED BY <2>2, <2>3
<1>3. QED BY <1>1, <1>2

-----------------------------------------------------------------------------
(* The decisions.                                                          *)

(* What an authorization by the kernel says of transaction t. *)
LEMMA Decided ==
  ASSUME NEW t \in Tx, Decide(Request(t, "COMMIT")) = "AUTHORIZED"
  PROVE  /\ rec[t].before = content[prime]
         /\ watched = live
         /\ op.gen # Absent /\ op.gen = Generation
         /\ rec[t].primary = req
         /\ content[rec[t].cand] = rec[t].staged \/ rec[t].second = req
<1> DEFINE q == Request(t, "COMMIT")
<1>1. /\ q.phase = "COMMIT" /\ q.mode = "CANDIDATE_EVALUATION"
      /\ q.conflicts = IF rec[t].conflict THEN "FOUND" ELSE "NONE_FOUND"
      /\ q.foreignWrites = IF rec[t].before = content[prime] THEN "NONE_FOUND"
                                                             ELSE "FOUND"
  BY DEF Request
<1>2. /\ q.registeredWatchSet = live /\ q.watchedSet = watched
      /\ q.generationBefore = op.gen /\ q.generationAfter = Generation
      /\ q.currentRequirement = req /\ q.evaluatedRequirement = rec[t].primary
  BY DEF Request
<1>3. /\ q.expectedStagedRoot = IF rec[t].conflict THEN Absent ELSE rec[t].staged
      /\ q.actualStagedRoot = IF rec[t].conflict THEN Absent ELSE tree[t]
      /\ q.stagedContentRoot = IF rec[t].conflict THEN Absent ELSE tree[t]
      /\ q.testedRoot = content[rec[t].cand]
      /\ q.stagedEvaluatedRequirement = rec[t].second
  BY DEF Request
<1> HIDE DEF q
<1>4. AllHold(q)
  BY <1>1, AuthorizedIffAllHold DEF WellFormed, Measurements, q
<1>5. rec[t].before = content[prime] /\ ~rec[t].conflict
  BY <1>1, <1>4 DEF AllHold
<1>6. watched = live /\ op.gen # Absent /\ op.gen = Generation
  BY <1>2, <1>4 DEF AllHold, Same
<1>7. rec[t].primary = req
  BY <1>1, <1>2, <1>4 DEF AllHold, EvidenceHolds, Same
<1>8. rec[t].staged = tree[t]
  BY <1>1, <1>3, <1>4, <1>5 DEF AllHold, StagedRootHolds, Same
<1>9. content[rec[t].cand] = rec[t].staged \/ rec[t].second = req
  BY <1>2, <1>3, <1>4, <1>5, <1>8
     DEF AllHold, EvidenceHolds, Covered, PrimaryCovers, StagedCovers, Same
<1>10. QED BY <1>5, <1>6, <1>7, <1>9

(* Who writes the two records of a transaction. *)
LEMMA StateWriters ==
  ASSUME [Next]_vars
  PROVE  /\ PrepareDecide \/ SetFile \/ UNCHANGED file
         /\ PrepareRow \/ SetRow \/ UNCHANGED row
<1>1. CASE Requests
  BY <1>1 DEF Requests, StatusReconcile, BeginFork, Revalidate, BeginPrepare,
              BeginCommit, BeginAbort
<1>2. CASE DaemonStep
  BY <1>2 DEF DaemonStep, ReconcileCapture, ReconcileStable, InsertCheckpoint,
              RetirePrime, SetPrime, FreezeCapture, FreezeEnd, PrepareRefuse,
              PrepareDecide, PrepareRow, PrepareStage, SetFile, SetRow, Reclaim,
              Authorize, ExchangeGuard, Exchange, FsyncExchange, FinishCandidate,
              FinishPublish, FinishSettle, FinishOffline, FinishSibling,
              FinishReceipt, Refresh, RecoverOne, RecoverReceipt,
              RecoverReceipts, RecoveryEnd
<1>3. CASE WatcherDeliver \/ Agents \/ Environment \/ Failures \/ Start
  BY <1>3 DEF WatcherDeliver, Agents, Finalizing, FailedStart, Finalized,
              Environment, ExternalWrite, PolicyChange, Failures, ExchangeFails,
              FsyncExchange, Refresh, StorageFault, Crash, PowerLoss, Start
<1>4. CASE UNCHANGED vars
  BY <1>4 DEF vars
<1>5. QED BY <1>1, <1>2, <1>3, <1>4 DEF Next

(* Who sets a goal. *)
LEMMA GoalArrival ==
  ASSUME IInv, [Next]_vars, pc' = "setfile", pc # "setfile"
  PROVE  Authorize \/ op'.goal # "AUTHORIZED"
<1> USE DEF IInv, TypeOK, Op
<1>1. CASE Requests
  BY <1>1, NoOpType DEF Requests, StatusReconcile, BeginFork, Revalidate,
              BeginPrepare, BeginCommit, BeginAbort
<1>2. CASE FinishSettle
  <2>1. op.tx \in Tx /\ (live = op.tx \/ file[op.tx] = "COMMITTED")
    BY <1>2 DEF FinishSettle, ControlOK, Steps, PrimeSteps, PhasesOK, PhaseOK, Undone
  <2>2. file[op.tx] # "PREPARED"
    BY <2>1 DEF RecordsOK, RecordOK
  <2>3. QED BY <1>2, <2>2 DEF FinishSettle, Assign
<1>3. CASE ExchangeGuard \/ ExchangeFails
  BY <1>3 DEF ExchangeGuard, ExchangeFails, Assign
<1>4. CASE \E t \in Tx : RecoverOne(t)
  BY <1>4 DEF RecoverOne
<1>5. CASE /\ DaemonStep /\ ~FinishSettle /\ ~ExchangeGuard /\ ~Authorize
           /\ ~\E t \in Tx : RecoverOne(t)
  BY <1>5 DEF DaemonStep, ReconcileCapture, ReconcileStable, InsertCheckpoint,
              RetirePrime, SetPrime, FreezeCapture, FreezeEnd, PrepareRefuse,
              PrepareDecide, PrepareRow, PrepareStage, SetFile, SetRow, Reclaim,
              Exchange, FsyncExchange, FinishCandidate, FinishPublish,
              FinishOffline, FinishSibling, FinishReceipt, Refresh,
              RecoverReceipt, RecoverReceipts, RecoveryEnd,
              Goto, Leave, AfterReconcile, Raise
<1>6. CASE WatcherDeliver \/ Agents \/ Environment \/ Start
  BY <1>6 DEF WatcherDeliver, Agents, Finalizing, FailedStart, Finalized,
              Environment, ExternalWrite, PolicyChange, Start
<1>7. CASE Failures /\ ~ExchangeFails
  BY <1>7 DEF Failures, FsyncExchange, Refresh, StorageFault, Crash, PowerLoss, Goto,
              Leave, Raise
<1>8. CASE UNCHANGED vars
  BY <1>8 DEF vars
<1>9. QED BY <1>1, <1>2, <1>3, <1>4, <1>5, <1>6, <1>7, <1>8 DEF Next, Failures

(* The kernel's decision is the only way to an authorization. *)
LEMMA AuthorizingArrives ==
  ASSUME IInv, [Next]_vars, NEW t \in Tx, Authorizing(t)', ~Authorizing(t)
  PROVE  /\ Authorize /\ op.tx = t /\ op'.goal = "AUTHORIZED"
<1> USE DEF IInv, TypeOK
<1>1. file'[t] \notin {"AUTHORIZED", "COMMITTED"}
  <2>1. CASE PrepareDecide
    BY <2>1 DEF PrepareDecide, Authorizing
  <2>2. CASE SetFile
    <3>1. pc = "setfile" /\ op.tx \in Tx
      BY <2>2 DEF SetFile, ControlOK, Steps, PrimeSteps
    <3>2. op.tx = t => op.goal \notin {"AUTHORIZED", "COMMITTED"}
      BY <3>1 DEF PhasesOK, PhaseOK, Authorizing
    <3>3. QED BY <2>2, <3>1, <3>2 DEF SetFile, Authorizing
  <2>3. QED BY <2>1, <2>2, StateWriters DEF Authorizing
<1>2. op'.tx = t /\ pc' = "setfile" /\ op'.goal = "AUTHORIZED"
  BY <1>1 DEF Authorizing
<1>3. pc # "setfile"
  BY <1>2, Stays DEF Authorizing, FinishSibling
<1>4. Authorize
  BY <1>2, <1>3, GoalArrival
<1>5. op'.tx = op.tx
  BY <1>4 DEF Authorize, Op
<1>6. QED BY <1>2, <1>4, <1>5

(* What the decision rests on holds of t from then on. *)
LEMMA DecisionsStep ==
  ASSUME IInv, WorldsOK, DecisionsOK, [Next]_vars
  PROVE  DecisionsOK'
<1> SUFFICES ASSUME NEW t \in Tx, Authorizing(t)'
             PROVE  Tested(t)' /\ Remembered(rec[t].before)'
  BY DEF DecisionsOK
<1>1. CASE Authorizing(t)
  <2>1. file[t] \in {"PREPARED", "AUTHORIZED", "COMMITTED"}
    BY <1>1 DEF Authorizing, IInv, PhasesOK, PhaseOK
  <2>2. /\ file[t] # Absent
        /\ ~(\E passed \in BOOLEAN : PrepareStage(t, passed))
        /\ ~(Authorize /\ op.tx = t)
    <3>1. file[t] # Absent
      BY <2>1, CollapseConstants DEF TxStates
    <3>2. pc = "authorize" => op.tx # t
      BY <1>1 DEF Authorizing, IInv, PhasesOK, PhaseOK
    <3>3. QED BY <3>1, <3>2 DEF Authorize, PrepareStage
  <2>3. /\ rec'[t].cand = rec[t].cand /\ rec'[t].staged = rec[t].staged
        /\ rec'[t].before = rec[t].before
        /\ rec'[t].primary = rec[t].primary /\ rec'[t].second = rec[t].second
        /\ rec'[t].authorized = rec[t].authorized
    BY <2>2, RecordStays DEF IInv
  <2>4. rec[t].cand \in Cand
    BY <2>2 DEF IInv, RecordsOK, RecordOK
  <2>5. content'[rec[t].cand] = content[rec[t].cand]
    <3>1. rec[t].cand \in World /\ Settled(rec[t].cand)
      BY <2>4, StateNames, CollapseConstants DEF WorldsOK
    <3>2. QED BY <3>1, SettledStays
  <2>6. Tested(t)'
    BY <1>1, <2>3, <2>5 DEF DecisionsOK, Tested
  <2>7. PICK w \in World : Settled(w) /\ content[w] = rec[t].before
    BY <1>1 DEF DecisionsOK, Remembered
  <2>8. Settled(w)' /\ content'[w] = content[w]
    BY <2>7, SettledStays
  <2>9. Remembered(rec[t].before)'
    BY <2>3, <2>7, <2>8 DEF Remembered, Settled
  <2>10. QED BY <2>6, <2>9
<1>2. CASE ~Authorizing(t)
  <2>1. Authorize /\ op.tx = t /\ op'.goal = "AUTHORIZED"
    BY <1>2, AuthorizingArrives
  <2>2. pc = "authorize" /\ op.goal = "DENIED"
    BY <2>1 DEF Authorize, IInv, PhasesOK, PhaseOK
  <2>3. /\ Decide(Request(t, "COMMIT")) = "AUTHORIZED"
        /\ rec' = [rec EXCEPT ![t].authorized = req]
    BY <2>1, <2>2 DEF Authorize, IInv, TypeOK, Op
  <2>4. UNCHANGED <<state, content, prime>>
    BY <2>1 DEF Authorize
  <2>5. /\ rec'[t].cand = rec[t].cand /\ rec'[t].staged = rec[t].staged
        /\ rec'[t].before = rec[t].before /\ rec'[t].authorized = req
        /\ rec'[t].primary = rec[t].primary /\ rec'[t].second = rec[t].second
    BY <2>3 DEF IInv, TypeOK, Record
  <2>6. Tested(t)'
    BY <2>3, <2>4, <2>5, Decided DEF Tested
  <2>7. prime \in World /\ Settled(prime) /\ content[prime] = rec[t].before
    BY <2>3, Decided DEF WorldsOK, IInv, TypeOK
  <2>8. Remembered(rec[t].before)'
    BY <2>4, <2>5, <2>7 DEF Remembered, Settled
  <2>9. QED BY <2>6, <2>8
<1>3. QED BY <1>1, <1>2

-----------------------------------------------------------------------------
(* The generations.                                                        *)

(* While the daemon stays at a step, only the watcher's thread and other   *)
(* programs change the live tree or what the watcher knows of it.          *)
LEMMA Bystanders ==
  ASSUME IInv, [Next]_vars, pc' = pc, pc \notin {"idle", "recover", "siblings"}
  PROVE  \/ WatcherDeliver
         \/ \E p \in Path, v \in Edit \cup {Genesis} : ExternalWrite(p, v)
         \/ UNCHANGED <<live, tree, watchVars, rec, late, op>>
<1>1. CASE Requests
  BY <1>1 DEF Requests, StatusReconcile, BeginFork, Revalidate, BeginPrepare,
              BeginCommit, BeginAbort, Serving
<1>2. CASE DaemonStep
  BY <1>2 DEF DaemonStep, ReconcileCapture, ReconcileStable, InsertCheckpoint,
              RetirePrime, SetPrime, FreezeCapture, FreezeEnd, PrepareRefuse,
              PrepareDecide, PrepareRow, PrepareStage, SetFile, SetRow, Reclaim,
              Authorize, ExchangeGuard, Exchange, FsyncExchange, FinishCandidate,
              FinishPublish, FinishSettle, FinishOffline, FinishSibling,
              FinishReceipt, Refresh, RecoverOne, RecoverReceipt,
              RecoverReceipts, RecoveryEnd, Goto, Leave, AfterReconcile, Raise, Assign
<1>3. CASE WatcherDeliver \/ Agents \/ Environment \/ Start
  BY <1>3 DEF Agents, Finalizing, FailedStart, Finalized, Environment,
              PolicyChange, Start
<1>4. CASE Failures
  BY <1>4 DEF Failures, ExchangeFails, FsyncExchange, Refresh, StorageFault, Crash, PowerLoss,
              Goto, Leave, Raise, Assign, FallibleSteps, IInv, ControlOK
<1>5. CASE UNCHANGED vars
  BY <1>5 DEF vars
<1>6. QED BY <1>1, <1>2, <1>3, <1>4, <1>5 DEF Next

(* A generation that has not moved since the commit took it: nothing is    *)
(* queued, and the watcher sees the live tree.                             *)
LEMMA UnmovedIsQuiet ==
  ASSUME IInv, GenerationOK, Deciding, op.gen # Absent, op.gen = Generation,
         watched = live
  PROVE  Quiet /\ Generation = Drained /\ Drained = wgen
<1>1. Generation = Drained
  BY DEF Generation
<1>2. op.gen \in Nat /\ wgen \in Nat /\ op.gen <= wgen /\ pend \in BOOLEAN
  BY DEF IInv, TypeOK, Op, Maybe, GenerationOK
<1>3. ~pend
  BY <1>1, <1>2 DEF Drained
<1>4. QED BY <1>1, <1>3 DEF Drained, Quiet

(* What GenerationOK says of a commit that stays where it is. *)
LEMMA GenerationStays ==
  ASSUME IInv, GenerationOK, [Next]_vars, pc' = pc,
         Deciding \/ pc = "exchange"
  PROVE  GenerationOK'
<1>1. pc \notin {"idle", "recover", "siblings", "fsync"}
  BY DEF Deciding
<1>2. CASE UNCHANGED <<live, tree, watchVars, rec, late, op>>
  BY <1>2 DEF GenerationOK, Deciding, Quiet
<1>3. CASE WatcherDeliver
  <2>1. /\ pend /\ wgen' = wgen + 1
        /\ UNCHANGED <<live, tree, rec, op, late, watched>>
    BY <1>3 DEF WatcherDeliver, Drain, Consume, Drained
  <2>2. Deciding => /\ op.gen # Absent => op.gen <= wgen'
                    /\ op.gen # wgen'
                    /\ pc # "authorize" => watched = live
    <3>1. op.gen # Absent => op.gen \in Nat
      BY DEF IInv, TypeOK, Op, Maybe
    <3>2. wgen \in Nat /\ wgen' \in Nat /\ Absent \notin Nat
      BY <2>1, CollapseConstants DEF IInv, TypeOK
    <3>3. QED BY <2>1, <3>1, <3>2 DEF GenerationOK
  <2>3. QED BY <2>1, <2>2 DEF GenerationOK, Deciding, Quiet
<1>4. CASE \E p \in Path, v \in Edit \cup {Genesis} : ExternalWrite(p, v)
  <2>1. /\ pend' = (pend \/ watched = live)
        /\ late' = IF pc = "exchange" THEN late \cup {op.tx} ELSE late
        /\ UNCHANGED <<live, rec, op, watched, wgen>>
    BY <1>4 DEF ExternalWrite
  <2>2. QED BY <2>1 DEF GenerationOK, Deciding, Quiet
<1>5. QED BY <1>1, <1>2, <1>3, <1>4, Bystanders

(* A step keeps the facts about the generations. *)
LEMMA GenerationStep ==
  ASSUME IInv, GenerationOK, [Next]_vars
  PROVE  GenerationOK'
<1> SUFFICES ASSUME (Deciding \/ pc = "exchange")' PROVE GenerationOK'
  BY DEF GenerationOK
<1>1. CASE pc' = pc /\ (Deciding \/ pc = "exchange")
  BY <1>1, GenerationStays
<1>2. CASE pc' = "authorize" /\ pc' # pc
  <2>1. PICK t \in Tx : BeginCommit(t)
    BY <1>2, Arrivals DEF IInv
  <2>2. /\ op'.gen = Generation /\ op'.tx = t /\ tree[live] = rec[t].before
        /\ wgen' = Drained /\ UNCHANGED <<live, tree, rec>>
    BY <1>2, <2>1, NoOpType DEF BeginCommit, Drain, Consume, Op
  <2>3. op'.gen # Absent => op'.gen <= wgen'
    BY <2>2 DEF Generation, Drained, IInv, TypeOK
  <2>4. QED BY <1>2, <2>2, <2>3 DEF GenerationOK
<1>3. CASE pc' = "setfile" /\ op'.goal = "AUTHORIZED" /\ pc' # pc
  <2>1. Authorize
    BY <1>3, GoalArrival
  <2>2. /\ pc = "authorize" /\ op.goal = "DENIED" /\ op.tx \in Tx /\ Deciding
    BY <2>1 DEF Authorize, IInv, ControlOK, PhasesOK, PhaseOK, Steps, PrimeSteps,
                Deciding
  <2>3. /\ Decide(Request(op.tx, "COMMIT")) = "AUTHORIZED"
        /\ op'.gen = Generation /\ op'.tx = op.tx
        /\ rec' = [rec EXCEPT ![op.tx].authorized = req]
    BY <1>3, <2>1, <2>2 DEF Authorize, IInv, TypeOK, Op
  <2>4. wgen' = Drained /\ watched' = watched /\ UNCHANGED <<live, tree>>
    BY <2>1 DEF Authorize, Drain, Consume
  <2>5. watched = live /\ op.gen # Absent /\ op.gen = Generation
    BY <2>2, <2>3, Decided
  <2>6. Quiet /\ Generation = Drained /\ Drained = wgen
    BY <2>2, <2>5, UnmovedIsQuiet
  <2>7. tree[live] = rec[op.tx].before
    BY <2>2, <2>6 DEF GenerationOK
  <2>8. rec'[op.tx].before = rec[op.tx].before
    BY <2>2, <2>3 DEF IInv, TypeOK, Record
  <2>9. op'.gen <= wgen'
    BY <2>3, <2>4, <2>6 DEF IInv, TypeOK
  <2>10. QED BY <1>3, <2>3, <2>4, <2>5, <2>7, <2>8, <2>9 DEF GenerationOK
<1>4. CASE pc' = "setrow" /\ op'.goal = "AUTHORIZED" /\ pc' # pc
  <2>1. SetFile
    BY <1>4, Arrivals DEF IInv
  <2>2. pc = "setfile" /\ UNCHANGED <<live, tree, watched, wgen, pend, rec, op>>
    BY <2>1 DEF SetFile
  <2>3. Deciding
    BY <1>4, <2>2 DEF Deciding
  <2>4. QED BY <1>4, <2>2, <2>3 DEF GenerationOK, Quiet
<1>5. CASE pc' = "guard" /\ pc' # pc
  <2>1. SetRow
    BY <1>5, Arrivals DEF IInv
  <2>2. /\ pc = "setrow" /\ op.goal = "AUTHORIZED"
        /\ UNCHANGED <<live, tree, watched, wgen, pend, rec, op>>
    BY <1>5, <2>1 DEF SetRow
  <2>3. Deciding
    BY <2>2 DEF Deciding
  <2>4. QED BY <1>5, <2>2, <2>3 DEF GenerationOK, Quiet
<1>6. CASE pc' = "exchange" /\ pc' # pc
  <2>1. ExchangeGuard
    BY <1>6, Arrivals DEF IInv
  <2>2. /\ pc = "guard" /\ Generation # Absent /\ Generation = op.gen
        /\ UNCHANGED <<live, tree, rec, op>>
    BY <1>6, <2>1 DEF ExchangeGuard, Assign
  <2>3. Deciding /\ watched = live
    BY <2>2 DEF Deciding, GenerationOK
  <2>4. Quiet
    BY <2>2, <2>3, UnmovedIsQuiet
  <2>5. tree[live] = rec[op.tx].before
    BY <2>3, <2>4 DEF GenerationOK
  <2>6. QED BY <1>6, <2>2, <2>5 DEF GenerationOK, Deciding
<1>7. pc' = pc => Deciding \/ pc = "exchange"
  <2>1. CASE pc' = pc /\ pc \in {"authorize", "guard", "exchange"}
    BY <2>1 DEF Deciding
  <2>2. CASE pc' = pc /\ pc \in {"setfile", "setrow"} /\ op'.goal = "AUTHORIZED"
    <3>1. op' = op
      BY <2>2, Stays DEF FinishSibling
    <3>2. QED BY <2>2, <3>1 DEF Deciding
  <2>3. QED BY <2>1, <2>2 DEF Deciding
<1>8. QED BY <1>1, <1>2, <1>3, <1>4, <1>5, <1>6, <1>7 DEF Deciding

-----------------------------------------------------------------------------
(* The displaced trees.                                                    *)

(* What an exchange displaced is the registered generation or a recorded   *)
(* one, and is not live again.                                             *)
LEMMA DisplacedIsPast ==
  ASSUME IInv, NEW t \in Tx, Exchanged(t)
  PROVE  /\ slot[t] \in Mapping /\ slot[t] # live
         /\ slot[t] = Genesis \/ (slot[t] \in Tx /\ Recorded(slot[t]))
<1>0. PICK n, g : n = Len(receipts) /\ g = slot[t]
  OBVIOUS
<1>1. /\ receipts \in Seq(Tx) /\ n \in Nat /\ \A i \in 1..n : receipts[i] \in Tx
      /\ g \in Mapping /\ Genesis \notin Tx
  BY <1>0, CollapseConstants DEF IInv, TypeOK, Exchanged, Maybe
<1>2. t \notin lost
  BY DEF IInv, RecordsOK, RecordOK
<1>3. ASSUME NEW m \in 0..n, LeftLive(m, g)
      PROVE  g = Genesis \/ (g \in Tx /\ Recorded(g))
  BY <1>0, <1>1, <1>3, LeftIsRecorded DEF IInv, Mapping
<1>4. CASE Recorded(t)
  <2>1. PICK i \in 1..n : receipts[i] = t
    BY <1>0, <1>4, ReceiptIndex DEF IInv
  <2>2. LeftLive(i - 1, g) /\ i - 1 \in 0..n
    BY <1>0, <1>1, <1>2, <2>1 DEF IInv, ChainOK
  <2>3. g = Genesis \/ (g \in Tx /\ Recorded(g))
    BY <1>3, <2>2
  <2>4. ASSUME g = live PROVE FALSE
    <3>1. LeftLive(n, g)
      BY <1>0, <1>1, <2>3, <2>4 DEF IInv, ChainOK, Settlement
    <3>2. PICK m \in 1..n : g = receipts[m] /\ \A j \in (m + 1)..n : receipts[j] \in lost
      BY <1>2, <2>1, <3>1 DEF LeftLive
    <3>3. i <= m
      BY <1>1, <1>2, <2>1, <3>2
    <3>4. PICK k \in 1..(i - 1) : g = receipts[k]
      BY <1>1, <2>2, <3>2 DEF LeftLive
    <3>5. k = m
      <4>1. k \in 1..n /\ m \in 1..n /\ receipts[k] = receipts[m]
        BY <1>1, <2>1, <3>2, <3>4
      <4>2. QED BY <1>0, <4>1 DEF IInv, ChainOK, ReceiptsDistinct
    <3>6. QED BY <1>1, <3>3, <3>4, <3>5
  <2>5. QED BY <1>0, <1>1, <2>3, <2>4
<1>5. CASE ~Recorded(t)
  <2>1. live = t
    BY <1>5 DEF IInv, RecordsOK, RecordOK
  <2>2. LeftLive(n, g) /\ n \in 0..n
    BY <1>0, <1>1, <1>5, <2>1 DEF IInv, ChainOK, Settlement
  <2>3. g # live
    BY <1>0, <2>1 DEF Exchanged
  <2>4. QED BY <1>0, <1>1, <1>3, <2>2, <2>3
<1>6. QED BY <1>4, <1>5

(* A write after the guard is never forgotten. *)
LEMMA LateGrows ==
  ASSUME [Next]_vars
  PROVE  late \subseteq late'
<1>1. CASE Requests
  BY <1>1 DEF Requests, StatusReconcile, BeginFork, Revalidate, BeginPrepare,
              BeginCommit, BeginAbort
<1>2. CASE DaemonStep
  BY <1>2 DEF DaemonStep, ReconcileCapture, ReconcileStable, InsertCheckpoint,
              RetirePrime, SetPrime, FreezeCapture, FreezeEnd, PrepareRefuse,
              PrepareDecide, PrepareRow, PrepareStage, SetFile, SetRow, Reclaim,
              Authorize, ExchangeGuard, Exchange, FsyncExchange, FinishCandidate,
              FinishPublish, FinishSettle, FinishOffline, FinishSibling,
              FinishReceipt, Refresh, RecoverOne, RecoverReceipt,
              RecoverReceipts, RecoveryEnd
<1>3. CASE WatcherDeliver \/ Agents \/ Environment \/ Failures \/ Start
  BY <1>3 DEF WatcherDeliver, Agents, Finalizing, FailedStart, Finalized,
              Environment, ExternalWrite, PolicyChange, Failures, ExchangeFails,
              FsyncExchange, Refresh, StorageFault, Crash, PowerLoss, Start
<1>4. CASE UNCHANGED vars
  BY <1>4 DEF vars
<1>5. QED BY <1>1, <1>2, <1>3, <1>4 DEF Next

(* Nobody writes to a tree that was displaced. *)
LEMMA PastTreesStay ==
  ASSUME IInv, [Next]_vars, NEW t \in Tx, Exchanged(t)
  PROVE  tree'[slot[t]] = tree[slot[t]]
<1>1. /\ slot[t] \in Mapping /\ slot[t] # live
      /\ slot[t] = Genesis \/ (slot[t] \in Tx /\ Recorded(slot[t]))
  BY DisplacedIsPast
<1>2. CASE \E p \in Path, v \in Edit \cup {Genesis} : ExternalWrite(p, v)
  BY <1>1, <1>2 DEF ExternalWrite, IInv, TypeOK
<1>3. CASE \E u \in Tx, passed \in BOOLEAN : PrepareStage(u, passed)
  <2>1. PICK u \in Tx, passed \in BOOLEAN : PrepareStage(u, passed)
    BY <1>3
  <2>2. file[u] = Absent /\ tree' = [tree EXCEPT ![u] = Merge(op.cand, tree[live])]
    BY <2>1 DEF PrepareStage
  <2>3. u # slot[t]
    BY <1>1, <2>2, CollapseConstants DEF IInv, RecordsOK, RecordOK, TxStates
  <2>4. QED BY <1>1, <2>2, <2>3 DEF IInv, TypeOK
<1>4. QED BY <1>2, <1>3, DiskWriters

(* A step keeps the facts about the displaced trees. *)
LEMMA DisplacedStep ==
  ASSUME IInv, GenerationOK, DisplacedOK, [Next]_vars
  PROVE  DisplacedOK'
<1> SUFFICES ASSUME NEW t \in Tx, Exchanged(t)', t \notin late'
             PROVE  tree'[slot'[t]] = rec'[t].before
  BY DEF DisplacedOK
<1>1. t \notin late
  BY LateGrows
<1>2. CASE slot'[t] = slot[t]
  <2>1. Exchanged(t)
    BY <1>2 DEF Exchanged
  <2>2. ~(\E passed \in BOOLEAN : PrepareStage(t, passed))
    BY <2>1 DEF PrepareStage, Exchanged
  <2>3. rec'[t].before = rec[t].before
    BY <2>2, RecordStays DEF IInv
  <2>4. QED BY <1>1, <1>2, <2>1, <2>3, PastTreesStay DEF DisplacedOK
<1>3. CASE slot'[t] # slot[t]
  <2>1. ~(\E passed \in BOOLEAN : PrepareStage(t, passed))
    BY DEF PrepareStage, Exchanged, IInv, TypeOK
  <2>2. op.tx = t /\ Exchange /\ slot'[t] = live
    BY <1>3, <2>1, MappingMoves DEF Exchanged
  <2>3. pc = "exchange" /\ UNCHANGED <<tree, rec>>
    BY <2>2 DEF Exchange
  <2>4. QED BY <1>1, <2>2, <2>3 DEF GenerationOK
<1>4. QED BY <1>2, <1>3

-----------------------------------------------------------------------------
(* The initial state satisfies the whole invariant. *)
LEMMA FaithfulInit ==
  ASSUME Init
  PROVE  JInv
<1>1. IInv
  BY InvariantInit
<1>2. /\ op = NoOp /\ pc = "idle" /\ prime = Genesis /\ receipts = <<>>
      /\ slot = [t \in Tx |-> Absent] /\ file = [t \in Tx |-> Absent]
      /\ rec = [t \in Tx |-> NoRecord]
      /\ state = [w \in World |-> IF w = Genesis THEN "VALID" ELSE Absent]
  BY DEF Init
<1>3. WorldsOK
  <2>1. Genesis \in World /\ NoRecord.cand = Absent
    BY DEF World, Mapping, NoRecord
  <2>2. QED BY <1>2, <2>1, NoOpFields, StateNames DEF WorldsOK, Settled, WorldStates
<1>4. MergesOK
  BY <1>2 DEF MergesOK, NoRecord
<1>5. DecisionsOK
  BY <1>2, CollapseConstants DEF DecisionsOK, Authorizing, TxStates
<1>6. GenerationOK
  BY <1>2 DEF GenerationOK, Deciding
<1>7. DisplacedOK
  BY <1>2 DEF DisplacedOK, Exchanged
<1>8. QED BY <1>1, <1>3, <1>4, <1>5, <1>6, <1>7 DEF JInv, Faithful

(* The whole invariant holds in every reachable state. *)
THEOREM FaithfulInvariance == Spec => []JInv
<1>1. Init => JInv
  BY FaithfulInit
<1>2. JInv /\ [Next]_vars => JInv'
  BY InvariantStep, WorldsStep, MergesStep, DecisionsStep, GenerationStep,
     DisplacedStep DEF JInv, Faithful
<1>3. QED BY <1>1, <1>2, PTL DEF Spec

(* No exchange displaces a reality nobody recorded: whatever programs      *)
(* write, the watcher misses or the daemon loses in a crash, the tree that *)
(* left `live` is the tree the merge started from and one a world records, *)
(* unless it was written to between the guard and the exchange             *)
(* (transaction.py commit).                                                *)
THEOREM RealityIsNeverLost == Spec => []NoLostReality
<1>1. JInv => NoLostReality
  <2> SUFFICES ASSUME JInv, NEW t \in Tx, Exchanged(t), t \notin late
               PROVE  /\ tree[slot[t]] = rec[t].before
                      /\ \E w \in World : state[w] # Absent /\ content[w] = rec[t].before
    BY DEF NoLostReality
  <2>1. tree[slot[t]] = rec[t].before
    BY DEF JInv, Faithful, DisplacedOK
  <2>2. Authorizing(t)
    BY DEF JInv, IInv, RecordsOK, RecordOK, Authorizing
  <2>3. QED BY <2>1, <2>2 DEF JInv, Faithful, DecisionsOK, Remembered, Settled
<1>2. QED BY <1>1, FaithfulInvariance, PTL

(* What goes live was examined, byte for byte, under the requirement in    *)
(* force when it was authorized: by the candidate's own evidence or by the *)
(* evaluation of the staged merge (transaction.py _authorize, _decide).    *)
THEOREM OnlyTestedGoesLive == Spec => []NothingUntestedGoesLive
<1>1. JInv => NothingUntestedGoesLive
  BY DEF JInv, Faithful, DecisionsOK, Authorizing, Tested, NothingUntestedGoesLive
<1>2. QED BY <1>1, FaithfulInvariance, PTL

(* A collapse takes back nothing that other programs wrote to PRIME after  *)
(* the candidate was forked (transaction.py prepare, Delta.merge).         *)
THEOREM ForeignEditsAreKept == Spec => []CollapseKeepsForeignEdits
<1>1. JInv => CollapseKeepsForeignEdits
  <2> SUFFICES ASSUME JInv, NEW t \in Tx, Exchanged(t) PROVE KeepsForeign(t)
    BY DEF CollapseKeepsForeignEdits, KeepsForeign
  <2>1. ~rec[t].conflict
    BY DEF JInv, Faithful, MergesOK, Exchanged
  <2>2. rec[t].cand # Absent
    BY CollapseConstants
       DEF JInv, IInv, RecordsOK, RecordOK, TxStates, World
  <2>3. QED BY <2>1, <2>2 DEF JInv, Faithful, MergesOK
<1>2. QED BY <1>1, FaithfulInvariance, PTL

(* A world moves along the kernel's lifecycle. *)
LEMMA WorldMoves ==
  ASSUME JInv, [Next]_vars, NEW w \in World, state'[w] # state[w], state[w] # Absent
  PROVE  Allowed(state[w], state'[w])
<1> USE StateNames DEF JInv, IInv, TypeOK, Allowed, WorldSuccessors
<1>1. CASE InsertCheckpoint
  BY <1>1 DEF InsertCheckpoint
<1>2. CASE RetirePrime
  BY <1>2 DEF RetirePrime
<1>3. CASE FreezeEnd
  BY <1>3, FreezesFresh DEF FreezeEnd, Faithful
<1>4. CASE Agents
  BY <1>4, CollapseConstants DEF Agents, Finalizing, FailedStart, Finalized
<1>5. CASE FinishCandidate
  BY <1>5 DEF FinishCandidate
<1>6. CASE \E v \in World : FinishSibling(v)
  BY <1>6 DEF FinishSibling, Faithful, WorldsOK, Retirable
<1>7. CASE RecoveryEnd
  BY <1>7 DEF RecoveryEnd
<1>8. QED BY <1>1, <1>2, <1>3, <1>4, <1>5, <1>6, <1>7, WorldWriters

(* The record of a transaction moves along the kernel's lifecycle, and its *)
(* row takes the record's state.                                           *)
LEMMA TransactionMoves ==
  ASSUME IInv, [Next]_vars, NEW t \in Tx
  PROVE  /\ file'[t] # file[t] /\ file[t] # Absent => TransactionAllowed(file[t], file'[t])
         /\ row'[t] # row[t] => row'[t] = file[t]
<1> USE DEF IInv, TypeOK
<1>1. pc \in {"staged", "row", "setfile", "setrow"} => op.tx \in Tx /\ PhaseOK(op.tx)
  BY DEF ControlOK, Steps, PrimeSteps, PhasesOK
<1>2. ASSUME file'[t] # file[t], file[t] # Absent
      PROVE  TransactionAllowed(file[t], file'[t])
  <2>1. CASE PrepareDecide
    BY <1>1, <1>2, <2>1 DEF PrepareDecide, PhaseOK
  <2>2. CASE SetFile
    <3>1. op.tx = t /\ pc = "setfile" /\ file'[t] = op.goal
      BY <1>2, <2>2 DEF SetFile
    <3>2. QED BY <1>1, <3>1 DEF PhaseOK, TransactionAllowed, TxSuccessors
  <2>3. QED BY <1>2, <2>1, <2>2, StateWriters
<1>3. ASSUME row'[t] # row[t] PROVE row'[t] = file[t]
  <2>1. CASE PrepareRow
    BY <1>3, <2>1 DEF PrepareRow
  <2>2. CASE SetRow
    <3>1. op.tx = t /\ pc = "setrow" /\ row'[t] = op.goal
      BY <1>3, <2>2 DEF SetRow
    <3>2. QED BY <1>1, <3>1 DEF PhaseOK
  <2>3. QED BY <1>3, <2>1, <2>2, StateWriters
<1>4. QED BY <1>2, <1>3

(* Worlds and transactions move only along the kernel's lifecycles, the    *)
(* database row never ahead of the JSON record, through every crash, fault *)
(* and replay (controller.py, store.py, transaction.py _set_state).        *)
THEOREM LifecyclesAreFollowed == Spec => LifecyclesFollowKernel
<1>1. JInv /\ [Next]_vars => [KernelMove]_vars
  BY WorldMoves, TransactionMoves DEF JInv, KernelMove
<1>2. QED BY <1>1, FaithfulInvariance, PTL DEF Spec, LifecyclesFollowKernel

-----------------------------------------------------------------------------
(* The lineage.                                                            *)

(* How the daemon comes to the steps of a finish. *)
LEMMA FinishArrivals ==
  ASSUME TypeOK, [Next]_vars, pc' # pc
  PROVE  /\ pc' = "fsync"     => Exchange
         /\ pc' = "candidate" => \/ \E ok \in BOOLEAN : FsyncExchange(ok)
                                 \/ \E t \in Tx : RecoverOne(t) \/ RecoverReceipt(t)
         /\ pc' = "settle"    => FinishPublish \/ SetPrime \/ SetRow
         /\ pc' = "offline"   => FinishSettle \/ SetRow
         /\ pc' = "receipt"   => FinishOffline
<1>1. CASE Requests
  BY <1>1 DEF Requests, StatusReconcile, BeginFork, Revalidate, BeginPrepare,
              BeginCommit, BeginAbort
<1>2. CASE DaemonStep
  BY <1>2 DEF DaemonStep, ReconcileCapture, ReconcileStable, InsertCheckpoint,
              RetirePrime, SetPrime, FreezeCapture, FreezeEnd, PrepareRefuse,
              PrepareDecide, PrepareRow, PrepareStage, SetFile, SetRow, Reclaim,
              Authorize, ExchangeGuard, Exchange, FsyncExchange, FinishCandidate,
              FinishPublish, FinishSettle, FinishOffline, FinishSibling,
              FinishReceipt, Refresh, RecoverOne, RecoverReceipt,
              RecoverReceipts, RecoveryEnd, Goto, Leave, AfterReconcile, Raise, Assign
<1>3. CASE WatcherDeliver \/ Agents \/ Environment \/ Failures \/ Start
  BY <1>3 DEF WatcherDeliver, Agents, Finalizing, FailedStart, Finalized,
              Environment, ExternalWrite, PolicyChange, Failures, ExchangeFails,
              FsyncExchange, Refresh, StorageFault, Crash, PowerLoss, Start, Goto, Leave, Raise, Assign
<1>4. CASE UNCHANGED vars
  BY <1>4 DEF vars
<1>5. QED BY <1>1, <1>2, <1>3, <1>4 DEF Next

(* Only a finish sets out to record COMMITTED. *)
LEMMA CommittedArrival ==
  ASSUME IInv, [Next]_vars, pc' = "setfile", pc # "setfile"
  PROVE  FinishSettle \/ op'.goal # "COMMITTED"
<1> USE DEF IInv, TypeOK, Op
<1>1. CASE Requests
  BY <1>1, NoOpType DEF Requests, StatusReconcile, BeginFork, Revalidate,
              BeginPrepare, BeginCommit, BeginAbort
<1>2. CASE Authorize
  <2>1. op.goal = "DENIED"
    BY <1>2 DEF Authorize, ControlOK, Steps, PrimeSteps, PhasesOK, PhaseOK
  <2>2. QED BY <1>2, <2>1 DEF Authorize
<1>3. CASE ExchangeGuard \/ ExchangeFails
  BY <1>3 DEF ExchangeGuard, ExchangeFails, Assign
<1>4. CASE \E t \in Tx : RecoverOne(t)
  BY <1>4 DEF RecoverOne
<1>5. CASE /\ DaemonStep /\ ~FinishSettle /\ ~ExchangeGuard /\ ~Authorize
           /\ ~\E t \in Tx : RecoverOne(t)
  BY <1>5 DEF DaemonStep, ReconcileCapture, ReconcileStable, InsertCheckpoint,
              RetirePrime, SetPrime, FreezeCapture, FreezeEnd, PrepareRefuse,
              PrepareDecide, PrepareRow, PrepareStage, SetFile, SetRow, Reclaim,
              Exchange, FsyncExchange, FinishCandidate, FinishPublish,
              FinishOffline, FinishSibling, FinishReceipt, Refresh,
              RecoverReceipt, RecoverReceipts, RecoveryEnd,
              Goto, Leave, AfterReconcile, Raise
<1>6. CASE WatcherDeliver \/ Agents \/ Environment \/ Start
  BY <1>6 DEF WatcherDeliver, Agents, Finalizing, FailedStart, Finalized,
              Environment, ExternalWrite, PolicyChange, Start
<1>7. CASE Failures /\ ~ExchangeFails
  BY <1>7 DEF Failures, FsyncExchange, Refresh, StorageFault, Crash, PowerLoss, Goto,
              Leave, Raise
<1>8. CASE UNCHANGED vars
  BY <1>8 DEF vars
<1>9. QED BY <1>1, <1>2, <1>3, <1>4, <1>5, <1>6, <1>7, <1>8 DEF Next, Failures

(* Who gives a world a parent. *)
LEMMA ParentWriters ==
  ASSUME [Next]_vars, ~InsertCheckpoint, ~FreezeEnd
  PROVE  UNCHANGED parent
<1>1. CASE Requests
  BY <1>1 DEF Requests, StatusReconcile, BeginFork, Revalidate, BeginPrepare,
              BeginCommit, BeginAbort
<1>2. CASE DaemonStep
  BY <1>2 DEF DaemonStep, ReconcileCapture, ReconcileStable, InsertCheckpoint,
              RetirePrime, SetPrime, FreezeCapture, FreezeEnd, PrepareRefuse,
              PrepareDecide, PrepareRow, PrepareStage, SetFile, SetRow, Reclaim,
              Authorize, ExchangeGuard, Exchange, FsyncExchange, FinishCandidate,
              FinishPublish, FinishSettle, FinishOffline, FinishSibling,
              FinishReceipt, Refresh, RecoverOne, RecoverReceipt,
              RecoverReceipts, RecoveryEnd
<1>3. CASE WatcherDeliver \/ Agents \/ Environment \/ Failures \/ Start
  BY <1>3 DEF WatcherDeliver, Agents, Finalizing, FailedStart, Finalized,
              Environment, ExternalWrite, PolicyChange, Failures, ExchangeFails,
              FsyncExchange, Refresh, StorageFault, Crash, PowerLoss, Start
<1>4. CASE UNCHANGED vars
  BY <1>4 DEF vars
<1>5. QED BY <1>1, <1>2, <1>3, <1>4 DEF Next

(* A world is never forgotten and keeps its parent; a new one is made on   *)
(* PRIME.                                                                  *)
LEMMA KnownStays ==
  ASSUME IInv, WorldsOK, [Next]_vars, NEW w \in World
  PROVE  /\ Known(w) => Known(w)' /\ parent'[w] = parent[w]
         /\ ~Known(w) /\ Known(w)' =>
              /\ (InsertCheckpoint /\ w = op.world) \/ (FreezeEnd /\ w \in Cand)
              /\ parent'[w] = prime /\ UNCHANGED prime
         /\ ~Known(w) /\ ~Known(w)' => parent'[w] = parent[w]
<1> USE StateNames DEF Known, WorldStates, IInv, TypeOK
<1>1. CASE InsertCheckpoint
  <2>1. UNCHANGED prime /\ op.world \in World /\ "VALID" # Absent
    BY <1>1 DEF InsertCheckpoint, Op
  <2>2. CASE UNCHANGED <<state, parent>>
    BY <2>2
  <2>3. CASE /\ state[op.world] = Absent /\ state' = [state EXCEPT ![op.world] = "VALID"]
             /\ parent' = [parent EXCEPT ![op.world] = prime]
    <3>1. CASE w = op.world
      BY <1>1, <2>1, <2>3, <3>1
    <3>2. CASE w # op.world
      BY <2>3, <3>2
    <3>3. QED BY <3>1, <3>2
  <2>4. CASE Unpublishable(op.world, Published)
    BY <1>1, <2>2, <2>4 DEF InsertCheckpoint
  <2>5. CASE ~Unpublishable(op.world, Published) /\ state[op.world] # Absent
    BY <1>1, <2>2, <2>5 DEF InsertCheckpoint
  <2>6. CASE ~Unpublishable(op.world, Published) /\ state[op.world] = Absent
    BY <1>1, <2>3, <2>6 DEF InsertCheckpoint
  <2>7. QED BY <2>4, <2>5, <2>6
<1>2. CASE RetirePrime
  BY <1>2 DEF RetirePrime
<1>3. CASE FreezeEnd
  BY <1>3, FreezesFresh DEF FreezeEnd
<1>4. CASE Agents
  <2>1. UNCHANGED parent
    BY <1>4 DEF Agents, Finalizing, FailedStart, Finalized
  <2>2. \E c \in World, s \in WorldStates :
          state[c] # Absent /\ state' = [state EXCEPT ![c] = s]
    BY <1>4, CollapseConstants DEF Agents, Finalizing, FailedStart, Finalized
  <2>3. QED BY <2>1, <2>2
<1>5. CASE FinishCandidate
  BY <1>5 DEF FinishCandidate
<1>6. CASE \E v \in World : FinishSibling(v)
  BY <1>6 DEF FinishSibling, WorldsOK, Retirable
<1>7. CASE RecoveryEnd
  BY <1>7 DEF RecoveryEnd
<1>8. QED BY <1>1, <1>2, <1>3, <1>4, <1>5, <1>6, <1>7, WorldWriters, ParentWriters

(* The id of a transaction is taken by its own checkpoint only. *)
LEMMA CheckpointMaker ==
  ASSUME IInv, WorldsOK, [Next]_vars, NEW t \in Tx, ~Known(t), Known(t)',
         op.tx \in Tx => PublishingOK(op.tx)
  PROVE  InsertCheckpoint /\ pc = "insert" /\ op.tx = t /\ op.world = t
<1>1. InsertCheckpoint /\ t = op.world /\ pc = "insert"
  BY KnownStays, StateNames DEF InsertCheckpoint
<1>2. op.tx \in Tx
  BY <1>1, CollapseConstants DEF IInv, TypeOK, Op, Maybe, ControlOK
<1>3. QED BY <1>1, <1>2 DEF PublishingOK

(* A transaction with a record keeps its candidate and its staged tree,    *)
(* the candidate its parent and its tree.                                  *)
LEMMA RecordedDataStays ==
  ASSUME JInv, [Next]_vars, NEW t \in Tx, file[t] # Absent
  PROVE  /\ rec[t].cand \in Cand /\ Settled(rec[t].cand)
         /\ rec'[t].cand = rec[t].cand /\ rec'[t].staged = rec[t].staged
         /\ parent'[rec[t].cand] = parent[rec[t].cand]
         /\ content'[rec[t].cand] = content[rec[t].cand]
<1> USE DEF JInv, Faithful
<1>1. rec[t].cand \in Cand
  BY DEF IInv, RecordsOK, RecordOK
<1>2. Settled(rec[t].cand) /\ rec[t].cand \in World
  BY <1>1, StateNames, CollapseConstants DEF WorldsOK, World
<1>3. rec'[t].cand = rec[t].cand /\ rec'[t].staged = rec[t].staged
  BY RecordStays DEF PrepareStage, IInv
<1>4. parent'[rec[t].cand] = parent[rec[t].cand]
  BY <1>2, KnownStays DEF Known, Settled
<1>5. QED BY <1>1, <1>2, <1>3, <1>4, SettledStays

(* So the candidate is adopted, or not, until PRIME moves. *)
LEMMA AdoptsStays ==
  ASSUME JInv, [Next]_vars, NEW t \in Tx, file[t] # Absent, ~SetPrime
  PROVE  Adopts(t)' <=> Adopts(t)
  BY RecordedDataStays, FewPublish DEF Adopts

(* The world a transaction is known by keeps its tree; only the insertion  *)
(* of its own checkpoint gives it another.                                 *)
LEMMA PublishedStays ==
  ASSUME JInv, [Next]_vars, NEW t \in Tx, file[t] # Absent, Known(t) \/ ~Known(t)'
  PROVE  /\ PublishedWorld(t)' = PublishedWorld(t)
         /\ PublishedWorld(t) \in World
         /\ content'[PublishedWorld(t)] = content[PublishedWorld(t)]
         /\ rec'[t].staged = rec[t].staged
<1> USE DEF JInv, Faithful
<1>1. t \in World \ Cand /\ (Known(t) => Known(t)')
  BY StateNames, KnownStays
<1>2. Known(t) => Settled(t) /\ content'[t] = content[t]
  BY <1>1, SettledStays DEF WorldsOK, Known
<1>3. QED BY <1>1, <1>2, RecordedDataStays, StateNames DEF PublishedWorld, Known

(* What was exchanged without a receipt is the only thing the daemon works *)
(* on, so PRIME is not moved to anything else.                             *)
LEMMA UnrecordedIsAlone ==
  ASSUME IInv, NEW t \in Tx, Exchanged(t), ~Recorded(t), pc = "setprime"
  PROVE  op.tx = t
<1>1. live = t
  BY DEF IInv, RecordsOK, RecordOK
<1>2. CASE op.tx \in Tx
  BY <1>1, <1>2 DEF IInv, PhasesOK, PhaseOK
<1>3. CASE op.tx = Absent
  <2>1. op.kind \in {"status", "fork", "prepare"}
    BY <1>3 DEF IInv, ControlOK, KindsAt
  <2>2. mode = "serve" /\ bad = {}
    BY <2>1, MovingState DEF IInv, ControlOK
  <2>3. QED BY <1>1, <1>3, <2>2, CollapseConstants
            DEF IInv, UnrecordedAttended, Pending, Attended, World, Mapping
<1>4. QED BY <1>2, <1>3 DEF IInv, TypeOK, Op, Maybe

(* Who has a receipt, is live or made PRIME has a record, and was          *)
(* exchanged; only a power loss undoes it.                                 *)
LEMMA FinishedFacts ==
  ASSUME IInv, NEW t \in Tx
  PROVE  /\ Recorded(t) => row[t] = "COMMITTED"
         /\ live = t => Exchanged(t)
         /\ primeGen = t => Exchanged(t) \/ t \in lost
         /\ Recorded(t) \/ live = t \/ primeGen = t => file[t] # Absent
         /\ Exchanged(t) => t \notin lost
  BY CollapseConstants DEF IInv, RecordsOK, RecordOK, TxStates

(* Only the end of a finish writes a receipt. *)
LEMMA ReceiptsGrow ==
  ASSUME IInv, [Next]_vars, NEW t \in Tx
  PROVE  /\ Recorded(t) => Recorded(t)'
         /\ Recorded(t)' /\ ~Recorded(t) => FinishReceipt /\ op.tx = t
<1>1. CASE UNCHANGED receipts
  BY <1>1 DEF Recorded
<1>2. CASE FinishReceipt /\ ~Recorded(op.tx)
  <2>1. receipts \in Seq(Tx) /\ receipts' = Append(receipts, op.tx) /\ op.tx \in Tx
    BY <1>2, MovingState DEF FinishReceipt, IInv, TypeOK
  <2>2. /\ Len(receipts) \in Nat /\ Len(receipts') = Len(receipts) + 1
        /\ \A i \in 1..Len(receipts) : receipts'[i] = receipts[i]
        /\ receipts'[Len(receipts) + 1] = op.tx
        /\ DOMAIN receipts = 1..Len(receipts)
        /\ DOMAIN receipts' = 1..Len(receipts')
    BY <2>1
  <2>3. Recorded(t) => Recorded(t)'
    BY <2>2 DEF Recorded, Range
  <2>4. Recorded(t)' => t = op.tx \/ Recorded(t)
    BY <2>2 DEF Recorded, Range
  <2>5. QED BY <1>2, <2>3, <2>4
<1>3. QED BY <1>1, <1>2, FewMove DEF FinishReceipt, Exchange, PowerLoss

-----------------------------------------------------------------------------
(* The parents of known worlds are known. *)
LEMMA ParentsStep ==
  ASSUME IInv, WorldsOK, [Next]_vars,
         \A v \in World : Known(v) /\ parent[v] # Absent => Known(parent[v]),
         NEW w \in World, Known(w)', parent'[w] # Absent
  PROVE  Known(parent[w])'
<1>1. parent[w] \in Maybe(World) /\ parent'[w] \in Maybe(World) /\ prime \in World
  <2>1. IInv'
    BY InvariantStep
  <2>2. QED BY <2>1 DEF IInv, TypeOK
<1>2. CASE Known(w)
  BY <1>1, <1>2, KnownStays DEF Maybe
<1>3. CASE ~Known(w)
  <2>1. parent'[w] = prime /\ Known(prime)
    BY <1>3, KnownStays DEF WorldsOK, Settled, Known
  <2>2. QED BY <1>1, <2>1, KnownStays
<1>4. QED BY <1>2, <1>3

(* PRIME's lineage only grows. *)
LEMMA LineageGrows ==
  ASSUME IInv, WorldsOK, LineageOK, [Next]_vars
  PROVE  Lineage \subseteq Lineage'
<1> SUFFICES ASSUME NEW w \in Lineage, NEW S \in SUBSET World, prime' \in S,
                    \A v \in S : parent'[v] \in S \cup {Absent}
             PROVE  w \in S
  BY DEF Lineage
<1> DEFINE T == {v \in S : Known(v)}
<1>1. prime \in World /\ Known(prime) /\ prime # Absent
  BY CollapseConstants DEF IInv, TypeOK, WorldsOK, Settled, Known
<1>2. prime \in S
  <2>1. CASE SetPrime
    <3>1. prime' = op.world /\ (op.world = prime \/ parent[op.world] = prime)
      BY <2>1 DEF SetPrime, LineageOK
    <3>2. UNCHANGED parent
      BY <2>1 DEF SetPrime
    <3>3. QED BY <1>1, <3>1, <3>2
  <2>2. QED BY <2>1, FewPublish
<1>3. ASSUME NEW v \in T PROVE parent[v] \in T \cup {Absent}
  <2>1. v \in World /\ Known(v) /\ parent[v] = parent'[v]
    BY KnownStays
  <2>2. QED BY <2>1 DEF LineageOK
<1>4. T \in SUBSET World /\ prime \in T
  BY <1>1, <1>2
<1>5. w \in T
  <2> HIDE DEF T
  <2> QED BY <1>3, <1>4 DEF Lineage
<1>6. QED BY <1>5

(* The transaction that is being finished has a record, and is live while  *)
(* it is published.                                                        *)
LEMMA FinishingFacts ==
  ASSUME IInv, op.tx \in Tx,
         pc \in {"insert", "retire", "setprime", "candidate", "siblings", "settle",
                 "offline", "receipt"}
  PROVE  /\ file[op.tx] # Absent
         /\ pc \in {"insert", "retire", "setprime"} => live = op.tx
<1>1. /\ live = op.tx \/ primeGen = op.tx
      /\ pc \in {"insert", "retire", "setprime"} => live = op.tx
  BY DEF IInv, PhasesOK, PhaseOK, Undone
<1>2. QED BY <1>1, FinishedFacts

(* A checkpoint that is published has PRIME for its parent, and is the     *)
(* tree that was staged.                                                   *)
LEMMA Inserted ==
  ASSUME IInv, WorldsOK, InsertCheckpoint, pc' = "retire"
  PROVE  /\ op' = op /\ op.world \in World
         /\ Known(op.world)' /\ parent'[op.world] = prime
         /\ content'[op.world] = Published
         /\ UNCHANGED <<prime, primeGen, rec>>
<1> USE StateNames DEF IInv, TypeOK, Op, WorldStates, Known
<1>1. ~Unpublishable(op.world, Published)
  BY DEF InsertCheckpoint, Raise, Goto, Leave
<1>2. op' = op /\ UNCHANGED <<prime, primeGen, rec>> /\ op.world \in World
  BY <1>1 DEF InsertCheckpoint, Goto
<1>3. CASE state[op.world] # Absent
  <2>1. UNCHANGED <<state, parent, content>>
    BY <1>1, <1>3 DEF InsertCheckpoint
  <2>2. QED BY <1>1, <1>2, <1>3, <2>1 DEF Unpublishable
<1>4. CASE state[op.world] = Absent
  BY <1>1, <1>2, <1>4 DEF InsertCheckpoint
<1>5. QED BY <1>3, <1>4

(* The world about to be made PRIME is PRIME or its child. *)
LEMMA ChildStep ==
  ASSUME IInv, WorldsOK, LineageOK, [Next]_vars, pc' \in {"retire", "setprime"}
  PROVE  op'.world = prime' \/ parent'[op'.world] = prime'
<1>1. CASE pc' = pc
  <2>1. UNCHANGED op
    BY <1>1, Stays DEF FinishSibling
  <2>2. op.world \in World /\ Known(op.world)
    BY <1>1 DEF IInv, TypeOK, Op, WorldsOK, Settled, Known
  <2>3. UNCHANGED prime
    BY <1>1, FewPublish DEF SetPrime, Goto, AfterReconcile
  <2>4. QED BY <1>1, <2>1, <2>2, <2>3, KnownStays DEF LineageOK
<1>2. CASE pc' # pc /\ RetirePrime
  BY <1>2 DEF RetirePrime, LineageOK
<1>3. CASE pc' # pc /\ InsertCheckpoint /\ pc' = "retire"
  BY <1>3, Inserted
<1>4. CASE pc' # pc /\ FinishPublish /\ pc' = "retire"
  BY <1>4, FinishCandidateKnown DEF FinishPublish, Adopts, IInv, TypeOK, Op
<1>5. QED BY <1>1, <1>2, <1>3, <1>4, Arrivals DEF IInv

(* What is known of a publication while its step waits. *)
LEMMA PublishingWaits ==
  ASSUME JInv, LineageOK, [Next]_vars, pc' = pc, NEW t \in Tx, op'.tx = t,
         pc \notin {"idle", "recover"}
  PROVE  PublishingOK(t)'
<1> USE DEF JInv, Faithful
<1>1. /\ op.tx = t
      /\ pc # "siblings" => op' = op
  <2>1. CASE \E w \in World : FinishSibling(w)
    BY <2>1 DEF FinishSibling, IInv, TypeOK, Op
  <2>2. QED BY <2>1, Stays
<1>2. PublishingOK(t) /\ t \in Tx /\ t \in World /\ t \notin Cand
  BY <1>1, StateNames DEF LineageOK
<1>3. UNCHANGED <<prime, primeGen>>
  BY FewPublish DEF SetPrime, Goto, AfterReconcile
<1>4. ~Recorded(t) => ~Recorded(t)'
  BY <1>2, ReceiptsGrow DEF FinishReceipt, Goto, Leave
<1>5. Known(t) \/ ~Known(t)' \/ pc = "insert"
  BY <1>2, CheckpointMaker DEF LineageOK
<1>6. pc = "fsync" => ~Known(t)'
  BY <1>2, <1>5 DEF PublishingOK
<1>7. pc = "insert" => op'.world = t /\ ~Adopts(t)'
  BY <1>1, <1>2, FinishingFacts, AdoptsStays DEF PublishingOK, SetPrime
<1>8. pc \in {"retire", "setprime"} =>
        op'.world = PublishedWorld(t)' /\ content'[op'.world] = rec'[t].staged
  BY <1>1, <1>2, <1>5, FinishingFacts, PublishedStays DEF PublishingOK
<1>9. QED BY <1>1, <1>2, <1>3, <1>4, <1>6, <1>7, <1>8 DEF PublishingOK

(* The daemon comes to finish only what has no receipt. *)
LEMMA FinishingArrives ==
  ASSUME JInv, LineageOK, [Next]_vars, pc' # pc, NEW t \in Tx, op'.tx = t,
         pc' \in {"candidate", "siblings", "insert", "retire", "setprime", "settle",
                  "offline", "receipt"}
  PROVE  ~Recorded(t)' /\ UNCHANGED receipts
<1> USE DEF JInv, IInv, TypeOK, Op
<1>1. UNCHANGED receipts
  BY FewMove DEF Exchange, PowerLoss, FinishReceipt, Goto, Leave
<1>2. CASE /\ op'.tx = op.tx
           /\ pc \in {"candidate", "siblings", "insert", "retire", "setprime",
                      "settle", "offline", "receipt"}
  BY <1>1, <1>2 DEF LineageOK, PublishingOK, Recorded
<1>3. CASE \E ok \in BOOLEAN : FsyncExchange(ok)
  <2>1. pc = "fsync" /\ op' = op
    BY <1>3 DEF FsyncExchange
  <2>2. ~Recorded(t)
    BY <2>1 DEF PhasesOK, PhaseOK
  <2>3. QED BY <1>1, <2>2 DEF Recorded
<1>4. CASE \E u \in Tx : RecoverOne(u)
  <2> PICK u \in Tx : RecoverOne(u)
    BY <1>4
  <2>1. u = t /\ t \in op.queue /\ op.stage = 1
    BY DEF RecoverOne
  <2>2. row[t] # "COMMITTED"
    BY <2>1 DEF QueueOK
  <2>3. QED BY <1>1, <2>1, <2>2, FinishedFacts DEF Recorded
<1>5. CASE \E u \in Tx : RecoverReceipt(u)
  <2> PICK u \in Tx : RecoverReceipt(u)
    BY <1>5
  <2>1. u = t /\ t \in op.queue /\ op.stage = 2
    BY DEF RecoverReceipt
  <2>2. ~Recorded(t)
    BY <2>1 DEF QueueOK
  <2>3. QED BY <1>1, <2>1, <2>2 DEF Recorded
<1>6. CASE SetRow
  <2>1. op.tx \in Tx /\ pc = "setrow" /\ op'.tx = op.tx
    BY <1>6 DEF SetRow, ControlOK, Steps, PrimeSteps
  <2>2. row[op.tx] # "COMMITTED"
    BY <2>1 DEF PhasesOK, PhaseOK
  <2>3. QED BY <1>1, <2>1, <2>2, FinishedFacts DEF Recorded
<1>7. CASE ReconcileStable
  BY <1>7, CollapseConstants DEF ReconcileStable, Goto, ControlOK, PrimeSteps, World, Mapping
<1>8. CASE FinishCandidate \/ FinishPublish \/ FinishSettle \/ FinishOffline \/ RetirePrime
  BY <1>2, <1>8 DEF FinishCandidate, FinishPublish, FinishSettle, FinishOffline, RetirePrime,
                    Raise, Goto, Leave, Assign
<1>9. CASE InsertCheckpoint \/ SetPrime
  BY <1>2, <1>9 DEF InsertCheckpoint, SetPrime, Raise, Goto, Leave, AfterReconcile
<1>10. QED BY <1>3, <1>4, <1>5, <1>6, <1>7, <1>8, <1>9, Arrivals, FinishArrivals

(* What is known of a publication when the daemon comes to its step. *)
LEMMA PublishingArrives ==
  ASSUME JInv, LineageOK, [Next]_vars, pc' # pc, NEW t \in Tx, op'.tx = t
  PROVE  PublishingOK(t)'
<1> USE DEF JInv, Faithful, IInv, TypeOK, Op
<1>1. t \in World /\ t \notin Cand
  BY StateNames
<1>2. ASSUME pc' = "fsync" PROVE ~Known(t)'
  <2>1. Exchange /\ pc = "exchange" /\ op.tx = t /\ UNCHANGED state
    BY <1>2, FinishArrivals DEF Exchange
  <2>2. ~Exchanged(t) /\ ~Recorded(t) /\ t \notin lost
    BY <2>1, ExchangeState DEF Exchanged
  <2>3. ~Known(t)
    BY <2>2, FinishedFacts DEF LineageOK, CheckpointOK
  <2>4. QED BY <2>1, <2>3 DEF Known
<1>3. pc' \in {"candidate", "siblings", "insert", "retire", "setprime", "settle",
               "offline", "receipt"} => ~Recorded(t)'
  BY FinishingArrives
<1>4. ASSUME pc' \in {"insert", "retire", "setprime"}, FinishPublish
      PROVE  /\ primeGen' # t
             /\ pc' = "insert" => op'.world = t /\ ~Adopts(t)'
             /\ pc' \in {"retire", "setprime"} =>
                  op'.world = PublishedWorld(t)' /\ content'[op'.world] = rec'[t].staged
  <2>1. /\ pc = "siblings" /\ op.tx = t /\ primeGen # t
        /\ op'.world = IF Adopts(t) THEN rec[t].cand ELSE t
        /\ pc' = IF Adopts(t) THEN "retire" ELSE "insert"
        /\ UNCHANGED <<rec, state, parent, content, prime, primeGen>>
    BY <1>4 DEF FinishPublish
  <2>2. ~Recorded(t)
    BY <2>1 DEF LineageOK, PublishingOK
  <2>3. Adopts(t) => ~Known(t)
    <3>1. live = t
      BY <2>1 DEF PhasesOK, PhaseOK, Undone
    <3>2. t \notin lost
      BY <3>1, FinishedFacts
    <3>3. QED BY <2>1, <2>2, <3>2 DEF LineageOK, CheckpointOK
  <2>4. Adopts(t)' <=> Adopts(t)
    BY <2>1 DEF Adopts
  <2>5. QED BY <2>1, <2>3, <2>4 DEF PublishedWorld, Known, Adopts
<1>5. ASSUME pc' = "retire", InsertCheckpoint
      PROVE  /\ primeGen' # t
             /\ op'.world = PublishedWorld(t)' /\ content'[op'.world] = rec'[t].staged
  <2>1. /\ pc = "insert" /\ op.tx = t /\ op' = op /\ Known(op.world)'
        /\ content'[op.world] = Published
        /\ UNCHANGED <<prime, primeGen, rec>>
    BY <1>5, Inserted DEF InsertCheckpoint
  <2>2. primeGen # t /\ op.world = t /\ Published = rec[t].staged
    BY <2>1, CollapseConstants DEF LineageOK, PublishingOK, Published, World, Mapping
  <2>3. QED BY <2>1, <2>2 DEF PublishedWorld, Known
<1>6. ASSUME pc' = "setprime"
      PROVE  /\ primeGen' # t
             /\ op'.world = PublishedWorld(t)' /\ content'[op'.world] = rec'[t].staged
  <2>1. /\ RetirePrime /\ pc = "retire" /\ op.tx = t
        /\ UNCHANGED <<op, prime, primeGen, rec, content>>
    BY <1>6, Arrivals DEF RetirePrime
  <2>2. Known(t) \/ ~Known(t)'
    BY <2>1, CheckpointMaker DEF LineageOK
  <2>3. PublishedWorld(t)' = PublishedWorld(t)
    BY <2>1, <2>2, FinishingFacts, PublishedStays
  <2>4. QED BY <2>1, <2>3 DEF LineageOK, PublishingOK
<1>7. ~(pc' = "insert" /\ ReconcileStable)
  BY CollapseConstants DEF ReconcileStable, Goto, ControlOK, PrimeSteps, World, Mapping
<1>8. /\ pc' \in {"insert", "retire", "setprime"} => primeGen' # t
      /\ pc' = "insert" => op'.world = t /\ ~Adopts(t)'
      /\ pc' \in {"retire", "setprime"} =>
           op'.world = PublishedWorld(t)' /\ content'[op'.world] = rec'[t].staged
  BY <1>4, <1>5, <1>6, <1>7, Arrivals
<1>9. ASSUME \/ pc' \in {"settle", "offline", "receipt"}
             \/ pc' \in {"setfile", "setrow"} /\ op'.goal = "COMMITTED"
      PROVE  primeGen' = t
  <2>1. CASE FinishPublish
    BY <1>9, <2>1 DEF FinishPublish
  <2>2. CASE SetPrime
    BY <1>9, <2>2, CollapseConstants DEF SetPrime, Goto, World, Mapping
  <2>3. CASE FinishSettle \/ FinishOffline
    BY <2>3 DEF FinishSettle, FinishOffline, LineageOK, PublishingOK, Assign
  <2>4. CASE SetRow
    <3>1. pc = "setrow" /\ op.tx = t /\ UNCHANGED <<op, primeGen>>
      BY <2>4 DEF SetRow
    <3>2. op.goal = "AUTHORIZED" => live # t
      BY <3>1 DEF PhasesOK, PhaseOK, RecordsOK, RecordOK, Exchanged
    <3>3. op.goal = "COMMITTED"
      BY <1>9, <2>4, <3>1, <3>2 DEF SetRow
    <3>4. QED BY <3>1, <3>3 DEF LineageOK, PublishingOK
  <2>5. CASE SetFile
    BY <1>9, <2>5 DEF SetFile, LineageOK, PublishingOK
  <2>6. QED BY <1>9, <2>1, <2>2, <2>3, <2>4, <2>5, Arrivals, FinishArrivals,
               CommittedArrival
<1>10. QED BY <1>2, <1>3, <1>8, <1>9 DEF PublishingOK

(* Each step of a publication finds what it relies on. *)
LEMMA PublishingStep ==
  ASSUME JInv, LineageOK, [Next]_vars, NEW t \in Tx, op'.tx = t
  PROVE  PublishingOK(t)'
<1>1. CASE pc' = pc /\ pc \in {"idle", "recover"}
  BY <1>1 DEF PublishingOK
<1>2. QED BY <1>1, PublishingWaits, PublishingArrives

(* PRIME stays the world its transaction is known by. *)
LEMMA PrimeWorldStep ==
  ASSUME JInv, LineageOK, [Next]_vars, NEW t \in Tx, primeGen' = t
  PROVE  prime' = PublishedWorld(t)' /\ content'[prime'] = rec'[t].staged
<1> USE DEF JInv, Faithful
<1>1. CASE SetPrime
  <2>1. /\ pc = "setprime" /\ prime' = op.world
        /\ primeGen' = IF op.tx = Absent THEN op.world ELSE op.tx
        /\ UNCHANGED <<state, content, rec>>
    BY <1>1 DEF SetPrime
  <2>2. op.tx = t
    BY <2>1, CollapseConstants DEF IInv, ControlOK
  <2>3. QED BY <2>1, <2>2 DEF LineageOK, PublishingOK, PublishedWorld
<1>2. CASE ~SetPrime
  <2>1. primeGen = t /\ prime' = prime
    BY <1>2, FewPublish
  <2>2. Known(t) \/ ~Known(t)'
    BY <2>1, CheckpointMaker DEF LineageOK, PublishingOK
  <2>3. file[t] # Absent
    BY <2>1, FinishedFacts
  <2>4. QED BY <2>1, <2>2, <2>3, PublishedStays DEF LineageOK, CheckpointOK
<1>3. QED BY <1>1, <1>2

(* What a power loss undid is never forgotten. *)
LEMMA LostGrows ==
  ASSUME [Next]_vars
  PROVE  lost \subseteq lost'
  BY FewMove DEF Exchange, PowerLoss, FinishReceipt

(* A checkpoint of a transaction is found again until its finish ends, or  *)
(* a power loss undoes its exchange.                                       *)
LEMMA CheckpointStep ==
  ASSUME JInv, LineageOK, [Next]_vars, NEW t \in Tx, Known(t)'
  PROVE  \/ Recorded(t)' \/ primeGen' = t \/ t \in lost'
         \/ live' = t /\ ~Adopts(t)'
<1> USE DEF JInv, Faithful
<1>1. CASE ~Known(t)
  <2>1. InsertCheckpoint /\ pc = "insert" /\ op.tx = t
    BY <1>1, CheckpointMaker DEF LineageOK
  <2>2. live = t /\ file[t] # Absent /\ ~Adopts(t)
    BY <2>1, FinishingFacts DEF LineageOK, PublishingOK
  <2>3. live' = live /\ ~SetPrime
    BY <2>1 DEF InsertCheckpoint, SetPrime
  <2>4. QED BY <2>2, <2>3, AdoptsStays
<1>2. CASE Recorded(t)
  BY <1>2, ReceiptsGrow
<1>3. CASE t \in lost
  BY <1>3, LostGrows
<1>4. CASE Known(t) /\ ~Recorded(t) /\ t \notin lost
  <2>1. primeGen = t \/ (live = t /\ ~Adopts(t))
    BY <1>4 DEF LineageOK, CheckpointOK
  <2>2. Exchanged(t) /\ file[t] # Absent
    BY <1>4, <2>1, FinishedFacts
  <2>3. CASE SetPrime
    <3>1. op.tx = t
      BY <1>4, <2>2, <2>3, UnrecordedIsAlone DEF SetPrime
    <3>2. QED BY <2>3, <3>1, CollapseConstants DEF SetPrime, World, Mapping
  <2>4. CASE ~SetPrime /\ primeGen = t
    BY <2>4, FewPublish
  <2>5. CASE ~SetPrime /\ live = t /\ ~Adopts(t)
    <3>1. ~Exchange
      BY <1>4, <2>5, ExchangeState DEF Exchange, Pending
    <3>2. CASE PowerLoss
      BY <2>5, <3>2 DEF PowerLoss
    <3>3. CASE ~PowerLoss
      <4>1. live' = live
        BY <3>1, <3>3, FewMove DEF FinishReceipt
      <4>2. QED BY <2>2, <2>5, <4>1, AdoptsStays
    <3>4. QED BY <3>2, <3>3
  <2>6. QED BY <2>1, <2>3, <2>4, <2>5
<1>5. QED BY <1>1, <1>2, <1>3, <1>4

(* What a receipt speaks of stays in the lineage, with the tree it had. *)
LEMMA RecordedLineageStep ==
  ASSUME JInv, LineageOK, [Next]_vars, NEW t \in Tx, Recorded(t)'
  PROVE  PublishedWorld(t)' \in Lineage' /\ content'[PublishedWorld(t)'] = rec'[t].staged
<1> USE DEF JInv, Faithful
<1>1. CASE ~Recorded(t)
  <2>1. FinishReceipt /\ op.tx = t /\ pc = "receipt"
    BY <1>1, ReceiptsGrow DEF FinishReceipt
  <2>2. primeGen' = t
    BY <2>1 DEF FinishReceipt, LineageOK, PublishingOK
  <2>3. prime' = PublishedWorld(t)' /\ content'[prime'] = rec'[t].staged
    BY <2>2, PrimeWorldStep
  <2>4. prime' \in World
    BY InvariantStep DEF IInv, TypeOK
  <2>5. prime' \in Lineage'
    BY <2>4 DEF Lineage
  <2>6. QED BY <2>3, <2>5
<1>2. CASE Recorded(t)
  <2>1. PublishedWorld(t) \in Lineage /\ content[PublishedWorld(t)] = rec[t].staged
    BY <1>2 DEF LineageOK, RecordedInLineage
  <2>2. file[t] # Absent
    BY <1>2, FinishedFacts
  <2>3. Known(t) \/ ~Known(t)'
    BY <1>2, CheckpointMaker DEF LineageOK, PublishingOK
  <2>4. QED BY <2>1, <2>2, <2>3, PublishedStays, LineageGrows
<1>3. QED BY <1>1, <1>2

(* A step keeps the facts about the lineage. *)
LEMMA LineageStep ==
  ASSUME JInv, LineageOK, [Next]_vars
  PROVE  LineageOK'
<1>1. \A w \in World : Known(w)' /\ parent'[w] # Absent => Known(parent[w])'
  BY ParentsStep DEF JInv, Faithful, LineageOK
<1>2. pc' \in {"retire", "setprime"} => op'.world = prime' \/ parent'[op'.world] = prime'
  BY ChildStep DEF JInv, Faithful
<1>3. \A t \in Tx : op'.tx = t => PublishingOK(t)'
  BY PublishingStep
<1>4. \A t \in Tx : CheckpointOK(t)'
  BY PrimeWorldStep, CheckpointStep DEF CheckpointOK
<1>5. RecordedInLineage'
  BY RecordedLineageStep DEF RecordedInLineage
<1>6. QED BY <1>1, <1>2, <1>3, <1>4, <1>5 DEF LineageOK

(* The facts about the lineage hold in every reachable state. *)
THEOREM LineageInvariance == Spec => []LineageOK
<1>1. Init => LineageOK
  <2> SUFFICES ASSUME Init PROVE LineageOK
    OBVIOUS
  <2>1. /\ pc = "idle" /\ op = NoOp /\ receipts = <<>> /\ primeGen = Genesis
        /\ state = [w \in World |-> IF w = Genesis THEN "VALID" ELSE Absent]
        /\ parent = [w \in World |-> Absent]
    BY DEF Init
  <2>2. \A t \in Tx : t # Genesis /\ t \in World /\ ~Known(t) /\ ~Recorded(t)
    BY <2>1, CollapseConstants DEF World, Mapping, Known, Recorded, Range
  <2>3. op.tx \notin Tx
    BY <2>1, NoOpFields, CollapseConstants DEF World, Mapping
  <2>4. QED BY <2>1, <2>2, <2>3 DEF LineageOK, CheckpointOK, RecordedInLineage
<1>2. JInv /\ LineageOK /\ [Next]_vars => LineageOK'
  BY LineageStep
<1>3. QED BY <1>1, <1>2, FaithfulInvariance, PTL DEF Spec

(* A receipt never speaks of a reality that PRIME does not descend from:   *)
(* the world a recorded collapse published, its own checkpoint or the      *)
(* candidate it adopted, is PRIME or an ancestor of PRIME and still holds  *)
(* the staged tree, whatever was replayed, quarantined or reconciled since *)
(* (prime.py publish_checkpoint, transaction.py _finish_committed).   *)
THEOREM RecordedAreInLineage == Spec => []RecordedInLineage
<1>1. LineageOK => RecordedInLineage
  BY DEF LineageOK
<1>2. QED BY <1>1, LineageInvariance, PTL
=============================================================================
