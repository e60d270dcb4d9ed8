----------------------------- MODULE PartsProofs -----------------------------
(***************************************************************************)
(* The parts that work on state of their own, as in MCParts: the safety    *)
(* properties of each, proved from an inductive invariant for every value  *)
(* of its constants.                                                       *)
(***************************************************************************)
EXTENDS Relocation, PrivateEvaluator, Chains, Prune, Roots, Watcher, FunctionTheorems,
        FiniteSetTheorems, TLAPS

-----------------------------------------------------------------------------
(* Relocation.                                                             *)

(* A copy that a plan accepted: it is the account's own, it does not lead  *)
(* into an old store that is at its place, and no later plan finds what    *)
(* this one did not.                                                       *)
Accepted ==
  /\ ownsCopy /\ (Leads => oldStore = "hollow")
  /\ \A p \in strays : ClassifyMention(p) # "refused"
  /\ ~WalkRefuses

Rewriting == {"commit", "records", "live", "tx", "verify", "relocated"}

(* What the checks before the canary leave of the ways to share is an old  *)
(* store that this account can see or that has gone; what the canary       *)
(* leaves is one that has gone.                                            *)
RelocationInv ==
  /\ lock \in {"free", "relocate", "daemon"}
  /\ {dbRows, records, liveLinks, txLinks} \subseteq {"old", "new"}
  /\ view \in Views /\ inOld \subseteq Retained
  /\ attested \cap inOld = {} /\ exempt \cap inOld = {}
  /\ oldStore \in {"seen", "hidden", "hollow"}
  /\ oldStore = "hidden" /\ Leads /\ view # "fuse" => ~ownsCopy
  /\ reloc \in {"idle", "canary", "plan"} \cup Rewriting
  /\ reloc = "canary" => ownsCopy /\ (Leads => oldStore # "hidden")
  /\ reloc = "plan" => ownsCopy /\ (Leads => oldStore = "hollow")
  /\ reloc \in Rewriting \/ dbRows = "new" => Accepted
  /\ reloc \in Rewriting \ {"commit"} => dbRows = "new"
  /\ reloc \in Rewriting \ {"commit", "records"} => records = "new"
  /\ records = "new" => dbRows = "new"
  /\ liveLinks = "new" => records = "new"
  /\ lock = "daemon" => liveLinks = "new"
  /\ reloc = "relocated" => Retained \ exempt \subseteq inCopy
  /\ "store" \in touched => oldStore = "hollow" /\ ownsCopy
  /\ "canary" \in touched => reloc = "canary"

(* The staged copy satisfies it. *)
LEMMA RelocationInvInit ==
  RelocationInit => RelocationInv
  BY DEF RelocationInit, RelocationInv, Rewriting

(* A plan that does not refuse accepts the copy, and exempts no world that *)
(* the old store had.                                                      *)
LEMMA PlanAccepts ==
  ASSUME RelocationInv, reloc = "plan", ~PlanRefuses
  PROVE  Accepted /\ Absent \cap inOld = {}
<1>1. ownsCopy /\ (Leads => oldStore = "hollow")
  BY DEF RelocationInv
<1>2. \A p \in strays : ClassifyMention(p) # "refused"
  BY DEF PlanRefuses, ScanRefuses, Mentions
<1>3. Absent \cap inOld = {}
  BY DEF Absent, AbsentOnEvidence, RelocationInv
<1>4. QED BY <1>1, <1>2, <1>3 DEF Accepted, PlanRefuses

(* Every step preserves it. *)
LEMMA RelocationInvStep ==
  ASSUME RelocationInv, [RelocationNext]_relocationVars
  PROVE  RelocationInv'
<1> USE DEF RelocationInv, Rewriting, Leads, placeVars, copyVars, relocationVars
<1>1. CASE Start
  BY <1>1 DEF Start, MountedView, Accepted, WalkRefuses
<1>2. CASE Plan
  <2>1. CASE PlanRefuses
    BY <1>2, <2>1 DEF Plan, Refuse, Accepted, WalkRefuses
  <2>2. CASE ~PlanRefuses
    <3>1. Accepted /\ Absent \cap inOld = {}
      BY <1>2, <2>2, PlanAccepts DEF Plan
    <3>2. Accepted'
      BY <1>2, <3>1 DEF Plan, Accepted, WalkRefuses
    <3>3. QED BY <1>2, <2>2, <3>1, <3>2 DEF Plan
  <2>3. QED BY <2>1, <2>2
<1>3. CASE Commit
  BY <1>3 DEF Commit, Writes, Accepted, WalkRefuses
<1>4. CASE Records
  BY <1>4 DEF Records, Writes, Accepted, WalkRefuses
<1>5. CASE LiveLinks
  BY <1>5 DEF LiveLinks, Writes, Accepted, WalkRefuses
<1>6. CASE TxLinks
  BY <1>6 DEF TxLinks, Writes, Accepted, WalkRefuses
<1>7. CASE Verify
  BY <1>7 DEF Verify, Verified, Refuse, Accepted, WalkRefuses
<1>8. CASE Dies
  BY <1>8 DEF Dies, Accepted, WalkRefuses
<1>9. CASE \E w \in Retained : CopyLoses(w)
  <2>1. /\ reloc = "idle" /\ lock = "free"
        /\ UNCHANGED <<placeVars, strays, blemishes, inOld, oldStore, attested, busy,
                       view, ownsCopy, lock, reloc, exempt, touched, deaths>>
    BY <1>9 DEF CopyLoses
  <2>2. Accepted' <=> Accepted
    BY <2>1 DEF Accepted, WalkRefuses
  <2>3. QED BY <2>1, <2>2
<1>10. CASE OldStoreGoes
  BY <1>10 DEF OldStoreGoes, Accepted, WalkRefuses
<1>11. CASE DaemonStarts
  BY <1>11 DEF DaemonStarts, StoreLocated, Accepted, WalkRefuses
<1>12. CASE DaemonStops
  BY <1>12 DEF DaemonStops, Accepted, WalkRefuses
<1>13. CASE Canary
  BY <1>13 DEF Canary, CanaryAppears, Visible, Accepted, WalkRefuses
<1>14. CASE UNCHANGED relocationVars
  BY <1>14 DEF Accepted, WalkRefuses
<1>15. QED
  BY <1>1, <1>2, <1>3, <1>4, <1>5, <1>6, <1>7, <1>8, <1>9, <1>10, <1>11, <1>12,
     <1>13, <1>14 DEF RelocationNext

(* It holds of every relocation, wherever runs of it died. *)
THEOREM RelocationInvariance == RelocationSpec => []RelocationInv
<1>1. RelocationInv /\ [RelocationNext]_relocationVars => RelocationInv'
  BY RelocationInvStep
<1>2. QED BY <1>1, RelocationInvInit, PTL DEF RelocationSpec

(* A daemon that passes assert_store_location reads nothing that names the *)
(* old store, though only PRIME's payload and the live links are checked   *)
(* (relocate.py, _run; controller.py, assert_store_location).              *)
THEOREM ServedIsWhole == RelocationSpec => []ServedStoreIsWhole
<1>1. RelocationInv => ServedStoreIsWhole
  BY DEF RelocationInv, ServedStoreIsWhole
<1>2. QED BY <1>1, RelocationInvariance, PTL

(* A relocation that reports success has every payload the old store had,  *)
(* whatever the copy lacked and whoever attested what (relocate.py,        *)
(* _payloads_absent, _verify).                                             *)
THEOREM RelocationLosesNothing == RelocationSpec => []NothingLost
<1>1. RelocationInv => NothingLost
  BY DEF RelocationInv, NothingLost
<1>2. QED BY <1>1, RelocationInvariance, PTL

(* While the old store is at its place, no way in which a copy may lead    *)
(* into it gets past the checks that precede the lock, for an account that *)
(* sees it and for one that does not, and a run that ends leaves no canary *)
(* there; once it has gone, only its owner's runs reach its bytes          *)
(* (relocate.py, __init__, _refuse_mounted_views,                          *)
(* _refuse_views_of_the_old_store).                                        *)
THEOREM OldStoreIsUntouched == RelocationSpec => []OldStoreUntouched
<1>1. RelocationInv => OldStoreUntouched
  BY DEF RelocationInv, OldStoreUntouched
<1>2. QED BY <1>1, RelocationInvariance, PTL

(* What a run that died left is accepted by the next run's plan            *)
(* (relocate.py, _map).                                                    *)
THEOREM RelocationCanBeRepeated == RelocationSpec => CanBeRepeated
<1>1. RelocationInv /\ [RelocationNext]_relocationVars =>
        [Plan /\ dbRows = "new" /\ Retained \subseteq inCopy /\ ~busy => reloc' = "commit"]_relocationVars
  <2> SUFFICES ASSUME RelocationInv, Plan, dbRows = "new", Retained \subseteq inCopy, ~busy
               PROVE  ~PlanRefuses
    BY DEF Plan
  <2>1. Accepted
    BY DEF RelocationInv
  <2>2. ~ScanRefuses
    BY <2>1 DEF ScanRefuses, Mentions, Accepted, ClassifyMention
  <2>3. ~WalkRefuses /\ ownsCopy /\ Lost = {}
    BY <2>1 DEF Accepted, Lost
  <2>4. \A place \in {dbRows, records, liveLinks, txLinks} : Maps(place)
    BY DEF RelocationInv, Maps
  <2>5. QED BY <2>2, <2>3, <2>4 DEF PlanRefuses
<1>2. QED BY <1>1, RelocationInvariance, PTL DEF RelocationSpec, CanBeRepeated
-----------------------------------------------------------------------------
(* The private evaluator.                                                  *)

(* A candidate whose thread is over is in the evidence or has left an      *)
(* error; a handle is closed only when its thread is over; and a run that  *)
(* completed had no error and nothing under way.                           *)
SessionsInv ==
  /\ session \in [Handles -> {"none", "launching", "running", "exited", "over",
                              "unbound", "failed"}]
  /\ errors \in BOOLEAN
  /\ worker = "active" => examinerOp[1] = "worker"
  /\ phase # "refused" => \A h \in Handles :
       /\ session[h] \in {"unbound", "failed"} => errors
       /\ session[h] = "over" => h \in evidenced
       /\ h \in closed => session[h] \in {"over", "unbound", "failed"}
  /\ phase = "complete" => /\ ~errors /\ Quiescent /\ lease # "open"
                           /\ \A h \in Handles : session[h] # "none" => h \in closed

(* Output nobody has collected is in the view of a lease that is dirty,    *)
(* which is open, and is not copied while a candidate may write.           *)
CaseInv ==
  /\ caseDirty \in BOOLEAN
  /\ outputs \ delivered \subseteq caseView
  /\ ~caseDirty => outputs \subseteq delivered
  /\ lease # "open" => caseHandles = {} /\ ~caseDirty
  /\ caseHandles # {} => caseDirty
  /\ workerOp[1] = "copyOut" => caseHandles = {} /\ workerOp[2] = caseView
  /\ workerOp[1] = "copyIn" => caseHandles = {} /\ ~caseDirty

(* The bootstrap satisfies both. *)
LEMMA EvaluatorInvInit ==
  EvaluatorInit => SessionsInv /\ CaseInv
<1> SUFFICES ASSUME EvaluatorInit PROVE SessionsInv /\ CaseInv
  OBVIOUS
<1>1. SessionsInv
  BY DEF EvaluatorInit, SessionsInv
<1>2. workerOp[1] = "free"
  BY DEF EvaluatorInit
<1>3. CaseInv
  BY <1>2 DEF EvaluatorInit, CaseInv
<1>4. QED BY <1>1, <1>3

(* In a run that completed no candidate is under way. *)
LEMMA CompleteIsOver ==
  ASSUME SessionsInv, phase = "complete", NEW h \in Handles
  PROVE  session[h] \in {"none", "over"}
  BY DEF SessionsInv

(* Every step preserves what is said of the sessions. *)
LEMMA SessionsStep ==
  ASSUME SessionsInv, [EvaluatorNext]_evaluatorVars
  PROVE  SessionsInv'
<1> USE DEF SessionsInv, caseVars, sessionVars, historyVars, evaluatorVars, Quiescent
<1>1. ASSUME NEW h \in Handles, StartIsolated(h) PROVE SessionsInv'
  BY <1>1 DEF StartIsolated, ExaminerAsks
<1>2. ASSUME NEW h \in Handles, CaseStart(h) PROVE SessionsInv'
  BY <1>2 DEF CaseStart, WorkerAsks, WorkerRefused
<1>3. ASSUME NEW h \in Handles, StartAnswered(h) PROVE SessionsInv'
  <2>1. phase # "complete"
    BY <1>3 DEF StartAnswered
  <2>2. errors' = errors \/ errors'
    BY <1>3 DEF StartAnswered, ExaminerRefused, WorkerRefused
  <2>3. worker' = "active" => examinerOp'[1] = "worker"
    BY <1>3 DEF StartAnswered
  <2>4. UNCHANGED <<phase, session, closed, evidenced>> /\ errors' \in BOOLEAN
    BY <1>3 DEF StartAnswered, ExaminerRefused, WorkerRefused
  <2>5. QED BY <2>1, <2>2, <2>3, <2>4
<1>4. ASSUME NEW h \in Handles, Boundary(h) PROVE SessionsInv'
  BY <1>4, CompleteIsOver DEF Boundary
<1>5. ASSUME NEW h \in Handles, CandidateWrites(h) \/ CandidateEnds(h) PROVE SessionsInv'
  <2>1. CASE CandidateWrites(h)
    BY <2>1 DEF CandidateWrites
  <2>2. CASE CandidateEnds(h)
    BY <2>2, CompleteIsOver DEF CandidateEnds
  <2>3. QED BY <1>5, <2>1, <2>2
<1>6. ASSUME NEW h \in Handles, ThreadEnds(h) PROVE SessionsInv'
  <2>1. phase # "complete"
    BY <1>6, CompleteIsOver DEF ThreadEnds
  <2>2. CASE session' = [session EXCEPT ![h] = "over"] /\ evidenced' = evidenced \cup {h} /\ UNCHANGED errors
    BY <1>6, <2>1, <2>2 DEF ThreadEnds
  <2>3. CASE session' = [session EXCEPT ![h] = "failed"] /\ errors' = TRUE /\ UNCHANGED evidenced
    BY <1>6, <2>1, <2>3 DEF ThreadEnds
  <2>4. QED BY <1>6, <2>2, <2>3 DEF ThreadEnds
<1>7. ASSUME NEW h \in Handles, SessionRequest(h) PROVE SessionsInv'
  <2>1. phase = "examined"
    BY <1>7 DEF SessionRequest, ExaminerAsks, WorkerAsks
  <2>2. (session' = session /\ errors') \/ (Kill(h) /\ errors' = errors)
    BY <1>7 DEF SessionRequest, ExaminerRefused, WorkerRefused
  <2>3. worker = "active" => examinerOp'[1] = "worker"
    BY <1>7 DEF SessionRequest, ExaminerAsks
  <2>4. UNCHANGED <<phase, worker, closed, evidenced>>
    BY <1>7 DEF SessionRequest
  <2>5. CASE session' = session /\ errors'
    BY <2>1, <2>3, <2>4, <2>5
  <2>6. CASE Kill(h) /\ errors' = errors
    BY <2>1, <2>3, <2>4, <2>6 DEF Kill
  <2>7. QED BY <2>2, <2>5, <2>6
<1>8. ASSUME NEW h \in Handles, Teardown(h) PROVE SessionsInv'
  BY <1>8 DEF Teardown, ExaminerAsks, WorkerAsks, Kill
<1>9. ASSUME NEW h \in Handles, TeardownEnds(h) PROVE SessionsInv'
  <2>1. phase # "complete" /\ phase' = phase
    BY <1>9 DEF TeardownEnds, TeardownAnswered
  <2>2. \/ Joined(h) /\ closed' = closed \cup {h} /\ errors' = errors
        \/ closed' = closed /\ errors'
    BY <1>9 DEF TeardownEnds, TeardownAnswered, ExaminerRefused, WorkerRefused
  <2>3. worker' = "active" => examinerOp'[1] = "worker"
    BY <1>9 DEF TeardownEnds, TeardownAnswered
  <2>4. QED BY <1>9, <2>1, <2>2, <2>3 DEF TeardownEnds, Joined
<1>10. CASE WorkerStarts \/ WorkerWrites \/ WorkerEnds
  <2>1. CASE WorkerStarts
    BY <2>1 DEF WorkerStarts, ExaminerAsks
  <2>2. CASE WorkerWrites
    BY <2>2 DEF WorkerWrites
  <2>3. CASE WorkerEnds
    <3>1. phase # "complete" /\ worker' = "over" /\ UNCHANGED <<phase, sessionVars>>
      BY <2>3 DEF WorkerEnds
    <3>2. errors' = errors \/ errors' = TRUE
      BY <2>3 DEF WorkerEnds, ExaminerRefused
    <3>3. QED BY <3>1, <3>2
  <2>4. QED BY <1>10, <2>1, <2>2, <2>3
<1>11. CASE OpenCase \/ CopyOut \/ SyncIn \/ CloseCase
  BY <1>11 DEF OpenCase, CopyOut, SyncIn, CloseCase, WorkerAsks, WorkerRefused
<1>12. CASE CopyOutEnds \/ SyncInEnds
  BY <1>12 DEF CopyOutEnds, SyncInEnds, WorkerRefused
<1>13. CASE ExaminerEnds \/ DeadlinePasses
  BY <1>13 DEF ExaminerEnds, DeadlinePasses
<1>14. CASE Settle
  BY <1>14 DEF Settle
<1>15. CASE UNCHANGED evaluatorVars
  BY <1>15
<1>16. QED
  BY <1>1, <1>2, <1>3, <1>4, <1>5, <1>6, <1>7, <1>8, <1>9, <1>10, <1>11, <1>12,
     <1>13, <1>14, <1>15 DEF EvaluatorNext

(* Every step preserves what is said of the case. *)
LEMMA CaseStep ==
  ASSUME CaseInv, [EvaluatorNext]_evaluatorVars
  PROVE  CaseInv'
<1> USE DEF CaseInv, caseVars, sessionVars, historyVars, evaluatorVars
<1>1. ASSUME NEW h \in Handles,
             StartIsolated(h) \/ Boundary(h) \/ CandidateEnds(h) \/ ThreadEnds(h)
      PROVE  CaseInv'
  BY <1>1 DEF StartIsolated, Boundary, CandidateEnds, ThreadEnds
<1>2. ASSUME NEW h \in Handles, CaseStart(h) PROVE CaseInv'
  <2>1. lease = "open" /\ UNCHANGED <<lease, caseView, outputs, delivered>>
    BY <1>2 DEF CaseStart
  <2>2. workerOp'[1] \in {"start", "stopped"}
    BY <1>2 DEF CaseStart, WorkerRefused
  <2>3. UNCHANGED <<caseHandles, caseDirty>> \/ caseDirty' = TRUE
    BY <1>2 DEF CaseStart
  <2>4. QED BY <2>1, <2>2, <2>3
<1>3. ASSUME NEW h \in Handles, StartAnswered(h) PROVE CaseInv'
  BY <1>3 DEF StartAnswered, ExaminerRefused, WorkerRefused
<1>4. ASSUME NEW h \in Handles, CandidateWrites(h) PROVE CaseInv'
  BY <1>4 DEF CandidateWrites
<1>5. ASSUME NEW h \in Handles, SessionRequest(h) \/ Teardown(h) PROVE CaseInv'
  BY <1>5 DEF SessionRequest, Teardown, ExaminerAsks, WorkerAsks, ExaminerRefused, WorkerRefused
<1>6. ASSUME NEW h \in Handles, TeardownEnds(h) PROVE CaseInv'
  BY <1>6 DEF TeardownEnds, TeardownAnswered, ExaminerRefused, WorkerRefused
<1>7. CASE WorkerStarts \/ WorkerWrites \/ WorkerEnds
  BY <1>7 DEF WorkerStarts, WorkerWrites, WorkerEnds
<1>8. CASE OpenCase \/ CloseCase
  BY <1>8 DEF OpenCase, CloseCase, WorkerAsks, WorkerRefused
<1>9. CASE CopyOut \/ SyncIn
  <2>1. CASE CopyOut
    BY <2>1 DEF CopyOut, CopyOutReady, WorkerRefused
  <2>2. CASE SyncIn
    BY <2>2 DEF SyncIn, WorkerRefused
  <2>3. QED BY <1>9, <2>1, <2>2
<1>10. CASE CopyOutEnds \/ SyncInEnds
  <2>1. workerOp'[1] \in {"free", "stopped"}
    BY <1>10 DEF CopyOutEnds, SyncInEnds, WorkerRefused
  <2>2. CASE CopyOutEnds
    <3>1. UNCHANGED <<lease, caseView, caseHandles, outputs>> /\ caseHandles = {}
      BY <2>2 DEF CopyOutEnds
    <3>2. \/ caseDirty' = FALSE /\ delivered' = delivered \cup caseView
          \/ UNCHANGED <<caseDirty, delivered>>
      BY <2>2 DEF CopyOutEnds
    <3>3. CASE caseDirty' = FALSE /\ delivered' = delivered \cup caseView
      <4>1. outputs' \subseteq delivered'
        BY <3>1, <3>3
      <4>2. QED BY <2>1, <3>1, <3>3, <4>1
    <3>4. CASE UNCHANGED <<caseDirty, delivered>>
      BY <2>1, <3>1, <3>4
    <3>5. QED BY <3>2, <3>3, <3>4
  <2>3. CASE SyncInEnds
    <3>1. UNCHANGED <<lease, caseDirty, caseHandles, outputs, delivered>> /\ ~caseDirty
      BY <2>3 DEF SyncInEnds
    <3>2. QED BY <2>1, <3>1
  <2>4. QED BY <1>10, <2>2, <2>3
<1>11. CASE ExaminerEnds \/ DeadlinePasses \/ Settle
  BY <1>11 DEF ExaminerEnds, DeadlinePasses, Settle
<1>12. CASE UNCHANGED evaluatorVars
  BY <1>12
<1>13. QED
  BY <1>1, <1>2, <1>3, <1>4, <1>5, <1>6, <1>7, <1>8, <1>9, <1>10, <1>11, <1>12
     DEF EvaluatorNext

(* Both hold in every reachable state of an evaluation. *)
THEOREM EvaluatorInvariance == EvaluatorSpec => [](SessionsInv /\ CaseInv)
<1>1. SessionsInv /\ CaseInv /\ [EvaluatorNext]_evaluatorVars => (SessionsInv /\ CaseInv)'
  BY SessionsStep, CaseStep
<1>2. QED BY <1>1, EvaluatorInvInit, PTL DEF EvaluatorSpec

(* A run that completes left nothing behind: every candidate it started    *)
(* has ended, was torn down and is in the boundary evidence, however       *)
(* signals, teardowns, deadlines and ends raced (private_evaluator.py,     *)
(* _bootstrap, execute, session_request).                                  *)
THEOREM CompleteRunsAreWhole == EvaluatorSpec => []CompleteRunIsWhole
<1>1. SessionsInv => CompleteRunIsWhole
  BY CompleteIsOver DEF CompleteRunIsWhole, SessionsInv
<1>2. QED BY <1>1, EvaluatorInvariance, PTL

(* A run that completes has given the worker all that candidates wrote in  *)
(* its case (private_evaluator.py, copy_out_case, sync_in_case,            *)
(* close_case).                                                            *)
THEOREM OutputsAreDelivered == EvaluatorSpec => []NoOutputLost
<1>1. SessionsInv /\ CaseInv => NoOutputLost
  BY DEF NoOutputLost, SessionsInv, CaseInv
<1>2. QED BY <1>1, EvaluatorInvariance, PTL

-----------------------------------------------------------------------------
(* The chains.                                                             *)

(* A table of rows, whatever a row holds. *)
IsTable(table) == \E S : table \in Seq(S)

(* What an insert does to a table. *)
LEMMA InsertedRow ==
  ASSUME NEW table, IsTable(table), NEW row
  PROVE  /\ Len(table) \in Nat /\ DOMAIN table = 1..Len(table)
         /\ IsTable(Append(table, row))
         /\ Len(Append(table, row)) = Len(table) + 1
         /\ DOMAIN Append(table, row) = 1..(Len(table) + 1)
         /\ \A i \in 1..Len(table) : Append(table, row)[i] = table[i]
         /\ Append(table, row)[Len(table) + 1] = row
<1>1. PICK S : table \in Seq(S)
  BY DEF IsTable
<1>2. table \in Seq(S \cup {row})
  BY <1>1
<1>3. Append(table, row) \in Seq(S \cup {row})
  BY <1>2
<1>4. IsTable(Append(table, row))
  BY <1>3 DEF IsTable
<1>5. QED BY <1>2, <1>3, <1>4

(* What a backfill does to a table. *)
LEMMA AppendedRows ==
  ASSUME NEW table, IsTable(table), NEW n \in Nat, NEW U, NEW new \in [1..n -> U]
  PROVE  /\ IsTable(table \o new) /\ Len(table \o new) = Len(table) + n
         /\ \A i \in 1..Len(table) : (table \o new)[i] = table[i]
         /\ \A i \in 1..n : (table \o new)[Len(table) + i] = new[i]
<1>1. PICK S : table \in Seq(S)
  BY DEF IsTable
<1> DEFINE T == S \cup U
<1>2. table \in Seq(T)
  BY <1>1
<1>3. new \in Seq(T) /\ Len(new) = n
  <2>1. new \in [1..n -> T]
    OBVIOUS
  <2>2. QED BY <2>1
<1>4. table \o new \in Seq(T) /\ Len(table \o new) = Len(table) + n
  BY <1>2, <1>3
<1>5. /\ \A i \in 1..Len(table) : (table \o new)[i] = table[i]
      /\ \A i \in 1..n : (table \o new)[Len(table) + i] = new[i]
  BY <1>2, <1>3
<1>6. IsTable(table \o new)
  BY <1>4 DEF IsTable
<1>7. QED BY <1>4, <1>5, <1>6

(* The first rows of a table. *)
LEMMA FirstRows ==
  ASSUME NEW table, IsTable(table), NEW n \in 0..Len(table)
  PROVE  /\ Len(SubSeq(table, 1, n)) = n
         /\ SubSeq(table, 1, n) = [i \in 1..n |-> table[i]]
<1>1. PICK S : table \in Seq(S)
  BY DEF IsTable
<1>2. QED BY <1>1

(* A table whose rows verify still does with a row that is linked to its   *)
(* last one and has its file.                                              *)
LEMMA LinkedRow ==
  ASSUME NEW table, IsTable(table), NEW files, RowsVerify(table, files), NEW row,
         row.chain = ChainLink(LastChain(table), row.root),
         <<row.chain, row.root>> \in files
  PROVE  RowsVerify(Append(table, row), files)
<1> DEFINE more == Append(table, row)
           previous(i) == IF i = 1 THEN Genesis ELSE more[i - 1].chain
<1> SUFFICES ASSUME NEW i \in DOMAIN more
             PROVE  /\ more[i].chain = ChainLink(previous(i), more[i].root)
                    /\ <<more[i].chain, more[i].root>> \in files
  BY DEF RowsVerify
<1>1. CASE i \in 1..Len(table)
  <2>1. more[i] = table[i] /\ (i # 1 => more[i - 1] = table[i - 1])
    BY <1>1, InsertedRow
  <2>2. QED BY <1>1, <2>1, InsertedRow DEF RowsVerify
<1>2. CASE i = Len(table) + 1
  <2>1. more[i] = row
    BY <1>2, InsertedRow
  <2>2. CASE table = <<>>
    BY <1>2, <2>1, <2>2 DEF LastChain
  <2>3. CASE table # <<>>
    <3>1. Len(table) # 0
      BY <2>3 DEF IsTable
    <3>2. i # 1 /\ more[i - 1] = table[Len(table)]
      BY <1>2, <3>1, InsertedRow
    <3>3. QED BY <2>1, <2>3, <3>2 DEF LastChain, Last
  <2>4. QED BY <2>2, <2>3
<1>3. QED BY <1>1, <1>2, InsertedRow

(* At most one thread is in the store's lock, on the chain that is stored, *)
(* and has written its event's file.                                       *)
EventsInv ==
  /\ IsTable(eventRows) /\ RowsVerify(eventRows, eventFiles)
  /\ writer = [t \in Writers |-> writer[t]]
  /\ \A t \in Writers : writer[t] # <<"idle">> =>
       /\ writer[t][1] = "read" /\ writer[t][2] = LastChain(eventRows)
       /\ <<ChainLink(writer[t][2], writer[t][3]), writer[t][3]>> \in eventFiles
       /\ \A u \in Writers : u # t => writer[u] = <<"idle">>

(* Rows are numbered by their receipts, and the one under way is the next. *)
ReceiptsInv ==
  /\ IsTable(receiptRows) /\ RowsVerify(receiptRows, receiptFiles)
  /\ \A i \in 1..Len(receiptRows) : receiptRows[i].id = i
  /\ commit \in {"none", "built", "filed", "stored", "ledger"} /\ daemonUp \in BOOLEAN
  /\ ~daemonUp => commit = "none"
  /\ commit \in {"built", "filed"} => building.id = Len(receiptRows) + 1
  /\ commit = "filed" =>
       <<ChainLink(LastChain(receiptRows), building), building>> \in receiptFiles

(* An entry names its place and a receipt of its own that is stored; the   *)
(* receipt the commit is about to anchor has none; the copy is a prefix.   *)
LedgerInv ==
  /\ IsTable(ledger) /\ IsTable(export)
  /\ \A i \in 1..Len(ledger) :
       /\ ledger[i][1] = i - 1 /\ ledger[i][3] = i - 1
       /\ ledger[i][2] \in 1..Len(receiptRows)
  /\ \A i, j \in 1..Len(ledger) : ledger[i][2] = ledger[j][2] => i = j
  /\ commit = "stored" => /\ building.id = Len(receiptRows) /\ Len(receiptRows) # 0
                          /\ \A i \in 1..Len(ledger) : ledger[i][2] # Len(receiptRows)
  /\ Len(export) <= Len(ledger)
  /\ \A i \in 1..Len(export) : export[i] = ledger[i]

(* An empty store satisfies all three. *)
LEMMA ChainsInvInit ==
  ChainsInit => EventsInv /\ ReceiptsInv /\ LedgerInv
<1> SUFFICES ASSUME ChainsInit PROVE EventsInv /\ ReceiptsInv /\ LedgerInv
  OBVIOUS
<1>1. IsTable(<<>>) /\ \A files : RowsVerify(<<>>, files)
  BY DEF IsTable, RowsVerify
<1>2. EventsInv
  BY <1>1 DEF ChainsInit, EventsInv
<1>3. ReceiptsInv
  BY <1>1 DEF ChainsInit, ReceiptsInv
<1>4. LedgerInv
  BY <1>1 DEF ChainsInit, LedgerInv
<1>5. QED BY <1>2, <1>3, <1>4

(* A new file breaks no row. *)
LEMMA MoreFiles ==
  ASSUME NEW table, NEW files, NEW more, RowsVerify(table, files), files \subseteq more
  PROVE  RowsVerify(table, more)
  BY DEF RowsVerify

(* Threads keep the causal chain, one at a time. *)
LEMMA EventsStep ==
  ASSUME EventsInv, [ChainsNext]_chainsVars
  PROVE  EventsInv'
<1>1. ASSUME NEW t \in Writers, AppendEvent(t) PROVE EventsInv'
  <2>1. /\ \A u \in Writers : writer[u] = <<"idle">>
        /\ writer' = [writer EXCEPT ![t] = <<"read", LastChain(eventRows), nextRoot>>]
        /\ eventFiles' = eventFiles \cup {<<ChainLink(LastChain(eventRows), nextRoot), nextRoot>>}
        /\ eventRows' = eventRows
    BY <1>1 DEF AppendEvent, Enter, InSection
  <2>2. RowsVerify(eventRows', eventFiles')
    BY <2>1, MoreFiles DEF EventsInv
  <2>3. \A u \in Writers : u # t => writer'[u] = <<"idle">>
    BY <2>1 DEF EventsInv
  <2>4. writer'[t] = <<"read", LastChain(eventRows), nextRoot>>
    BY <2>1 DEF EventsInv
  <2>5. IsTable(eventRows)' /\ (writer = [u \in Writers |-> writer[u]])'
    BY <2>1 DEF EventsInv
  <2>6. QED BY <2>1, <2>2, <2>3, <2>4, <2>5 DEF EventsInv
<1>2. ASSUME NEW t \in Writers, InsertEvent(t) PROVE EventsInv'
  <2> DEFINE row == [previous |-> writer[t][2], root |-> writer[t][3],
                     chain |-> ChainLink(writer[t][2], writer[t][3])]
  <2>1. /\ writer[t][1] = "read" /\ eventRows' = Append(eventRows, row)
        /\ writer' = [writer EXCEPT ![t] = <<"idle">>] /\ eventFiles' = eventFiles
    BY <1>2 DEF InsertEvent
  <2>2. writer[t] # <<"idle">>
    BY <2>1
  <2>3. /\ row.chain = ChainLink(LastChain(eventRows), row.root)
        /\ <<row.chain, row.root>> \in eventFiles
    BY <2>2 DEF EventsInv
  <2>4. IsTable(eventRows)' /\ RowsVerify(eventRows, eventFiles)'
    BY <2>1, <2>3, InsertedRow, LinkedRow DEF EventsInv
  <2>5. \A u \in Writers : writer'[u] = <<"idle">>
    BY <2>1, <2>2 DEF EventsInv
  <2>6. (writer = [u \in Writers |-> writer[u]])'
    BY <2>1 DEF EventsInv
  <2>7. QED BY <2>4, <2>5, <2>6 DEF EventsInv
<1>3. CASE DaemonKilled
  BY <1>3 DEF DaemonKilled, EventsInv
<1>4. CASE BuildReceipt \/ FileReceipt \/ InsertReceipt \/ AnchorReceipt \/ ExportLedger \/ StoreOpens
  <2>1. UNCHANGED eventVars
    BY <1>4 DEF BuildReceipt, FileReceipt, InsertReceipt, AnchorReceipt, ExportLedger, StoreOpens
  <2>2. QED BY <2>1 DEF EventsInv, eventVars
<1>5. CASE UNCHANGED chainsVars
  BY <1>5 DEF EventsInv, chainsVars, eventVars
<1>6. QED BY <1>1, <1>2, <1>3, <1>4, <1>5 DEF ChainsNext

(* The commit keeps the receipt chain. *)
LEMMA ReceiptsStep ==
  ASSUME ReceiptsInv, [ChainsNext]_chainsVars
  PROVE  ReceiptsInv'
<1>1. CASE BuildReceipt
  BY <1>1 DEF BuildReceipt, ReceiptsInv
<1>2. CASE FileReceipt
  <2>1. RowsVerify(receiptRows, receiptFiles)'
    BY <1>2, MoreFiles DEF FileReceipt, ReceiptsInv
  <2>2. QED BY <1>2, <2>1 DEF FileReceipt, ReceiptsInv
<1>3. CASE InsertReceipt
  <2> DEFINE row == [id |-> building.id, root |-> building,
                     chain |-> ChainLink(LastChain(receiptRows), building)]
  <2>1. receiptRows' = Append(receiptRows, row) /\ receiptFiles' = receiptFiles
    BY <1>3 DEF InsertReceipt
  <2>2. IsTable(receiptRows)' /\ RowsVerify(receiptRows, receiptFiles)'
    BY <1>3, <2>1, InsertedRow, LinkedRow DEF InsertReceipt, ReceiptsInv
  <2>3. \A i \in 1..Len(receiptRows') : receiptRows'[i].id = i
    <3>1. Len(receiptRows') = Len(receiptRows) + 1 /\ Len(receiptRows) \in Nat
      BY <2>1, InsertedRow DEF ReceiptsInv
    <3>2. \A i \in 1..Len(receiptRows) : receiptRows'[i] = receiptRows[i]
      BY <2>1, InsertedRow DEF ReceiptsInv
    <3>3. receiptRows'[Len(receiptRows) + 1].id = Len(receiptRows) + 1
      BY <1>3, <2>1, InsertedRow DEF InsertReceipt, ReceiptsInv
    <3>4. QED BY <3>1, <3>2, <3>3 DEF ReceiptsInv
  <2>4. QED BY <1>3, <2>2, <2>3 DEF InsertReceipt, ReceiptsInv
<1>4. CASE AnchorReceipt \/ ExportLedger \/ DaemonKilled \/ StoreOpens
  BY <1>4 DEF AnchorReceipt, ExportLedger, DaemonKilled, StoreOpens, ReceiptsInv, receiptVars
<1>5. CASE \E t \in Writers : AppendEvent(t) \/ InsertEvent(t)
  <2>1. UNCHANGED <<receiptVars, daemonUp>>
    BY <1>5 DEF AppendEvent, InsertEvent
  <2>2. QED BY <2>1 DEF ReceiptsInv, receiptVars
<1>6. CASE UNCHANGED chainsVars
  BY <1>6 DEF ReceiptsInv, chainsVars, receiptVars
<1>7. QED BY <1>1, <1>2, <1>3, <1>4, <1>5, <1>6 DEF ChainsNext

(* Entries and the external copy stay honest. *)
LEMMA LedgerStep ==
  ASSUME ReceiptsInv, LedgerInv, [ChainsNext]_chainsVars
  PROVE  LedgerInv'
<1>0. Len(receiptRows) \in Nat /\ Len(ledger) \in Nat /\ Len(export) \in Nat
  BY InsertedRow DEF ReceiptsInv, LedgerInv
<1>1. CASE BuildReceipt \/ FileReceipt
  BY <1>1 DEF BuildReceipt, FileReceipt, LedgerInv
<1>2. CASE InsertReceipt
  <2>1. Len(receiptRows') = Len(receiptRows) + 1
    BY <1>2, InsertedRow DEF InsertReceipt, ReceiptsInv
  <2>2. UNCHANGED <<ledger, export, building>> /\ building.id = Len(receiptRows) + 1
    BY <1>2 DEF InsertReceipt, ReceiptsInv
  <2>3. \A i \in 1..Len(ledger) : ledger[i][2] \in 1..Len(receiptRows)
    BY DEF LedgerInv
  <2>4. \A i \in 1..Len(ledger) : ledger[i][2] \in 1..Len(receiptRows') /\ ledger[i][2] # Len(receiptRows')
    BY <1>0, <2>1, <2>3
  <2>5. QED BY <1>0, <2>1, <2>2, <2>4 DEF LedgerInv
<1>3. CASE AnchorReceipt
  <2>1. UNCHANGED <<export, receiptRows>> /\ commit' \in {"none", "ledger"}
    BY <1>3 DEF AnchorReceipt
  <2>2. CASE ledger' = ledger
    BY <2>1, <2>2 DEF LedgerInv
  <2>3. CASE ledger' = Append(ledger, Entry(building.id))
    <3>1. Entry(building.id) = <<Len(ledger), Len(receiptRows), Len(ledger)>>
      <4>1. HeadOf(ledger) = Len(ledger)
        BY DEF HeadOf
      <4>2. QED BY <1>3, <4>1 DEF AnchorReceipt, Entry, LedgerInv
    <3>2. /\ IsTable(ledger') /\ Len(ledger') = Len(ledger) + 1
          /\ \A i \in 1..Len(ledger) : ledger'[i] = ledger[i]
          /\ ledger'[Len(ledger) + 1] = <<Len(ledger), Len(receiptRows), Len(ledger)>>
      BY <2>3, <3>1, InsertedRow DEF LedgerInv
    <3>3. Len(receiptRows) # 0 /\ \A i \in 1..Len(ledger) : ledger[i][2] # Len(receiptRows)
      BY <1>3 DEF AnchorReceipt, LedgerInv
    <3>4. \A i \in 1..Len(ledger') : i \in 1..Len(ledger) \/ i = Len(ledger) + 1
      BY <1>0, <3>2
    <3>5. \A i \in 1..Len(ledger') :
            /\ ledger'[i][1] = i - 1 /\ ledger'[i][3] = i - 1
            /\ ledger'[i][2] \in 1..Len(receiptRows)
      BY <1>0, <3>2, <3>3, <3>4 DEF LedgerInv
    <3>6. \A i, j \in 1..Len(ledger') : ledger'[i][2] = ledger'[j][2] => i = j
      BY <1>0, <3>2, <3>3, <3>4 DEF LedgerInv
    <3>7. /\ Len(export') <= Len(ledger')
          /\ \A i \in 1..Len(export') : export'[i] = ledger'[i]
      BY <1>0, <2>1, <3>2 DEF LedgerInv
    <3>8. QED BY <2>1, <3>2, <3>5, <3>6, <3>7 DEF LedgerInv
  <2>4. QED BY <1>3, <2>2, <2>3 DEF AnchorReceipt
<1>4. CASE ExportLedger
  BY <1>4, <1>0 DEF ExportLedger, LedgerInv
<1>5. CASE DaemonKilled
  BY <1>5 DEF DaemonKilled, LedgerInv
<1>6. CASE StoreOpens
  <2> DEFINE Backfilled(n, row) ==
               ledger \o [i \in 1..n |-> <<Len(ledger) + i - 1, receiptRows[row[i]].id, HeadOf(ledger) + i - 1>>]
  <2>0. PICK n \in 0..Len(receiptRows) : \E row \in [1..n -> Unanchored] :
          InChainOrder(row) /\ ledger' = Backfilled(n, row) /\ export' \in {export, ledger'}
    BY <1>6 DEF StoreOpens
  <2>1. PICK row \in [1..n -> Unanchored] :
          InChainOrder(row) /\ ledger' = Backfilled(n, row) /\ export' \in {export, ledger'}
    BY <2>0
  <2> DEFINE new == [i \in 1..n |-> <<Len(ledger) + i - 1, receiptRows[row[i]].id, HeadOf(ledger) + i - 1>>]
  <2>2. commit = "none" /\ UNCHANGED <<commit, receiptRows, building>>
    BY <1>6 DEF StoreOpens, ReceiptsInv, receiptVars
  <2>3. n \in Nat /\ HeadOf(ledger) = Len(ledger)
    BY <1>0 DEF HeadOf
  <2>4. \A i \in 1..n : /\ row[i] \in 1..Len(receiptRows) /\ receiptRows[row[i]].id = row[i]
                        /\ row[i] \notin Anchored
    <3>1. DOMAIN receiptRows = 1..Len(receiptRows)
      BY InsertedRow DEF ReceiptsInv
    <3>2. \A i \in 1..n : row[i] \in Unanchored
      BY <2>1
    <3>3. QED BY <3>1, <3>2 DEF Unanchored, ReceiptsInv
  <2>5. \A i \in 1..n : new[i] = <<Len(ledger) + i - 1, row[i], Len(ledger) + i - 1>>
    BY <2>3, <2>4
  <2>6. ledger' = ledger \o new
    BY <2>1
  <2>61. \E U : new \in [1..n -> U]
    <3>1. new \in [1..n -> {new[i] : i \in 1..n}]
      OBVIOUS
    <3>2. QED BY <3>1
  <2> HIDE DEF new
  <2>7. /\ IsTable(ledger') /\ Len(ledger') = Len(ledger) + n
        /\ \A i \in 1..Len(ledger) : ledger'[i] = ledger[i]
        /\ \A i \in 1..n : ledger'[Len(ledger) + i] = <<Len(ledger) + i - 1, row[i], Len(ledger) + i - 1>>
    <3>1. IsTable(ledger) /\ n \in Nat
      BY <2>3 DEF LedgerInv
    <3>2. PICK U : new \in [1..n -> U]
      BY <2>61
    <3>3. IsTable(ledger \o new)
      BY <3>1, <3>2, AppendedRows, Zenon
    <3>4. /\ Len(ledger \o new) = Len(ledger) + n
          /\ \A i \in 1..Len(ledger) : (ledger \o new)[i] = ledger[i]
          /\ \A i \in 1..n : (ledger \o new)[Len(ledger) + i] = new[i]
      BY <3>1, <3>2, AppendedRows, SMT
    <3>5. QED BY <2>5, <2>6, <3>3, <3>4
  <2>8. \A i \in 1..Len(ledger') :
          i \in 1..Len(ledger) \/ (i - Len(ledger) \in 1..n /\ Len(ledger) + (i - Len(ledger)) = i)
    BY <1>0, <2>3, <2>7
  <2>9. \A i \in 1..Len(ledger') : i \notin 1..Len(ledger) =>
          i - Len(ledger) \in 1..n /\ ledger'[i] = <<i - 1, row[i - Len(ledger)], i - 1>>
    <3> SUFFICES ASSUME NEW i \in 1..Len(ledger'), i \notin 1..Len(ledger)
                 PROVE  i - Len(ledger) \in 1..n /\ ledger'[i] = <<i - 1, row[i - Len(ledger)], i - 1>>
      OBVIOUS
    <3>1. /\ i - Len(ledger) \in 1..n /\ Len(ledger) + (i - Len(ledger)) = i
          /\ Len(ledger) + (i - Len(ledger)) - 1 = i - 1
      BY <1>0, <2>3, <2>8
    <3>2. ledger'[Len(ledger) + (i - Len(ledger))] =
            <<Len(ledger) + (i - Len(ledger)) - 1, row[i - Len(ledger)], Len(ledger) + (i - Len(ledger)) - 1>>
      BY <2>7, <3>1
    <3>3. QED BY <3>1, <3>2
  <2>10. \A i \in 1..n : \A j \in 1..Len(ledger) : ledger[j][2] # row[i]
    <3>1. DOMAIN ledger = 1..Len(ledger)
      BY InsertedRow DEF LedgerInv
    <3>2. QED BY <2>4, <3>1 DEF Anchored
  <2>11. \A i, j \in 1..n : row[i] = row[j] => i = j
    <3>1. \A i, j \in 1..n : i < j => row[i] < row[j]
      BY <2>1 DEF InChainOrder
    <3>2. \A i \in 1..n : row[i] \in Int
      BY <1>0, <2>4
    <3>3. QED BY <2>3, <3>1, <3>2
  <2>12. \A i \in 1..Len(ledger') :
          /\ ledger'[i][1] = i - 1 /\ ledger'[i][3] = i - 1
          /\ ledger'[i][2] \in 1..Len(receiptRows)
    <3> TAKE i \in 1..Len(ledger')
    <3>1. CASE i \in 1..Len(ledger)
      BY <2>7, <3>1 DEF LedgerInv
    <3>2. CASE i \notin 1..Len(ledger)
      BY <2>4, <2>9, <3>2
    <3>3. QED BY <3>1, <3>2
  <2>13. ASSUME NEW i \in 1..Len(ledger'), NEW j \in 1..Len(ledger'),
                ledger'[i][2] = ledger'[j][2]
         PROVE  i = j
    <3>1. CASE i \in 1..Len(ledger) /\ j \in 1..Len(ledger)
      BY <2>7, <2>13, <3>1 DEF LedgerInv
    <3>2. CASE i \notin 1..Len(ledger) /\ j \notin 1..Len(ledger)
      <4>1. row[i - Len(ledger)] = row[j - Len(ledger)]
        BY <2>9, <2>13, <3>2
      <4>2. i - Len(ledger) = j - Len(ledger)
        BY <2>9, <2>11, <3>2, <4>1
      <4>3. i \in Int /\ j \in Int
        OBVIOUS
      <4>4. QED BY <1>0, <4>2, <4>3
    <3>3. CASE i \in 1..Len(ledger) /\ j \notin 1..Len(ledger)
      <4>1. ledger[i][2] = row[j - Len(ledger)] /\ j - Len(ledger) \in 1..n
        BY <2>7, <2>9, <2>13, <3>3
      <4>2. QED BY <2>10, <3>3, <4>1
    <3>4. CASE i \notin 1..Len(ledger) /\ j \in 1..Len(ledger)
      <4>1. ledger[j][2] = row[i - Len(ledger)] /\ i - Len(ledger) \in 1..n
        BY <2>7, <2>9, <2>13, <3>4
      <4>2. QED BY <2>10, <3>4, <4>1
    <3>5. QED BY <3>1, <3>2, <3>3, <3>4
  <2>14. /\ IsTable(export') /\ Len(export') <= Len(ledger')
         /\ \A i \in 1..Len(export') : export'[i] = ledger'[i]
    <3>1. CASE export' = export
      BY <1>0, <2>3, <2>7, <3>1 DEF LedgerInv
    <3>2. CASE export' = ledger'
      BY <1>0, <2>3, <2>7, <3>2
    <3>3. QED BY <2>1, <3>1, <3>2
  <2>15. QED BY <2>2, <2>7, <2>12, <2>13, <2>14 DEF LedgerInv
<1>7. CASE \E t \in Writers : AppendEvent(t) \/ InsertEvent(t)
  <2>1. UNCHANGED <<receiptVars, ledger, export>>
    BY <1>7 DEF AppendEvent, InsertEvent
  <2>2. QED BY <2>1 DEF LedgerInv, receiptVars
<1>8. CASE UNCHANGED chainsVars
  BY <1>8 DEF LedgerInv, chainsVars, receiptVars
<1>9. QED BY <1>1, <1>2, <1>3, <1>4, <1>5, <1>6, <1>7, <1>8 DEF ChainsNext

(* All three hold in every reachable state of the store. *)
THEOREM ChainsInvariance == ChainsSpec => [](EventsInv /\ ReceiptsInv /\ LedgerInv)
<1>1. EventsInv /\ ReceiptsInv /\ LedgerInv /\ [ChainsNext]_chainsVars
        => (EventsInv /\ ReceiptsInv /\ LedgerInv)'
  BY EventsStep, ReceiptsStep, LedgerStep
<1>2. QED BY <1>1, ChainsInvInit, PTL DEF ChainsSpec

(* Any number of threads may append, and the daemon may be killed between  *)
(* any two steps: both chains and the ledger verify (store.py,             *)
(* append_causal_event, append_receipt, verify_chains; anchor.py, verify). *)
THEOREM StoredChainsVerify == ChainsSpec => []ChainsVerify
<1>1. EventsInv /\ ReceiptsInv /\ LedgerInv => ChainsVerify
  <2> SUFFICES ASSUME EventsInv, ReceiptsInv, LedgerInv PROVE ChainsVerify
    OBVIOUS
  <2>1. LedgerVerifies
    <3>0. Len(ledger) \in Nat /\ DOMAIN ledger = 1..Len(ledger)
      BY InsertedRow DEF LedgerInv
    <3> SUFFICES ASSUME NEW i \in 1..Len(ledger)
                 PROVE  ledger[i][1] = i - 1 /\ ledger[i][3] = HeadOf(SubSeq(ledger, 1, i - 1))
      BY <3>0 DEF LedgerVerifies
    <3>1. Len(SubSeq(ledger, 1, i - 1)) = i - 1
      BY <3>0, FirstRows DEF LedgerInv
    <3>2. HeadOf(SubSeq(ledger, 1, i - 1)) = i - 1
      BY <3>1 DEF HeadOf
    <3>3. QED BY <3>2 DEF LedgerInv
  <2>2. QED BY <2>1 DEF EventsInv, ReceiptsInv, ChainsVerify
<1>2. QED BY <1>1, ChainsInvariance, PTL

(* The external copy is a prefix of the ledger, and a receipt is anchored  *)
(* once at most and only when it is stored, whichever appends, exports and *)
(* backfills failed or were cut short (anchor.py, append, backfill,        *)
(* export; transaction.py, _finish_committed).                             *)
THEOREM AnchorsStayHonest == ChainsSpec => []AnchorsAreHonest
<1>1. ReceiptsInv /\ LedgerInv => AnchorsAreHonest
  <2> SUFFICES ASSUME ReceiptsInv, LedgerInv PROVE AnchorsAreHonest
    OBVIOUS
  <2>1. IsPrefix(export, ledger)
    <3>1. Len(export) \in 0..Len(export) /\ Len(export) \in 0..Len(ledger)
      BY InsertedRow DEF LedgerInv
    <3>2. /\ SubSeq(export, 1, Len(export)) = [i \in 1..Len(export) |-> export[i]]
          /\ SubSeq(ledger, 1, Len(export)) = [i \in 1..Len(export) |-> ledger[i]]
      BY <3>1, FirstRows DEF LedgerInv
    <3>3. QED BY <3>2 DEF IsPrefix, LedgerInv
  <2>2. Anchored \subseteq {receiptRows[i].id : i \in DOMAIN receiptRows}
    <3>1. DOMAIN receiptRows = 1..Len(receiptRows)
      BY InsertedRow DEF ReceiptsInv
    <3>2. DOMAIN ledger = 1..Len(ledger)
      BY InsertedRow DEF LedgerInv
    <3>3. \A i \in 1..Len(ledger) : ledger[i][2] \in 1..Len(receiptRows)
      BY DEF LedgerInv
    <3>4. \A r \in 1..Len(receiptRows) : r = receiptRows[r].id
      BY DEF ReceiptsInv
    <3>5. QED BY <3>1, <3>2, <3>3, <3>4 DEF Anchored
  <2>3. DOMAIN ledger = 1..Len(ledger)
    BY InsertedRow DEF LedgerInv
  <2>4. QED BY <2>1, <2>2, <2>3 DEF LedgerInv, AnchorsAreHonest
<1>2. QED BY <1>1, ChainsInvariance, PTL

-----------------------------------------------------------------------------
(* Prune.                                                                  *)

(* What the two properties speak of: the worlds somebody still needs.      *)
Living(w) ==
  /\ w \in Protected \cup jobActive \/ fate[w] \in {"MUTABLE", "VALID"}
  /\ fate[w] # "unborn"

Checkpoints == {Checkpoint(w) : w \in Worlds}

(* Of whom a directory is: a payload of one world, a checkpoint of several.*)
DirsInv ==
  /\ fate \in [Worlds -> {"unborn", "MUTABLE", "VALID"} \cup Prunable]
  /\ basePayload \in [Worlds -> PayloadDirs]
  /\ disk \in [PayloadDirs -> {"none", "whole", "partial", "gone"}]
  /\ \A w \in Worlds : basePayload[w] \in {Payload(w)} \cup Checkpoints
  /\ \A w \in Forked : basePayload[w] \in Checkpoints
  /\ \A w \in Worlds : fate[w] = "MUTABLE" => w \in Forked
  /\ \A w \in Worlds : fate[w] = "unborn" => disk[Payload(w)] = "none"

(* PRIME, what it was made from, and a prepared collapse are of worlds     *)
(* that were made.                                                         *)
PrimeInv ==
  /\ parent \in [Worlds -> Worlds \cup {0}]
  /\ primeWorld \in Worlds /\ fate[primeWorld] # "unborn"
  /\ parent[primeWorld] # 0 => fate[parent[primeWorld]] # "unborn"
  /\ openTransaction # 0 => openTransaction \in Worlds /\ fate[openTransaction] = "VALID"

(* A plan is of worlds nobody needs, and what it has left to remove is of  *)
(* no world outside it.                                                    *)
PlanInv ==
  /\ pruning \in Seq(Worlds)
  /\ \A i \in 1..Len(pruning) : pruning[i] \in candidates \cup pruned
  /\ candidates \subseteq Worlds /\ pruned \subseteq Worlds
  /\ pruning = <<>> => candidates = {} /\ todo = {}
  /\ \A w \in candidates \cup pruned : ~Living(w) /\ fate[w] # "unborn"
  /\ todo \subseteq PayloadDirs
  /\ \A d \in todo : \A w \in Worlds :
       /\ fate[w] # "unborn" /\ w \notin candidates \cup pruned => d \notin ReferencedBy(w)
       /\ d = Payload(w) => w = Head(pruning)

(* What was begun is recorded, or is being removed now.                    *)
BegunInv ==
  \A w \in Worlds : disk[Payload(w)] \in {"partial", "gone"} =>
    w \in pruned \cup interrupted \/ (pruning # <<>> /\ w = Head(pruning))

PruneInv == DirsInv /\ PrimeInv /\ PlanInv /\ BegunInv /\ LivingPayloadsKept

(* The three kinds of directories and their owners are apart.              *)
LEMMA DirectoriesApart ==
  ASSUME NEW v \in Worlds, NEW w \in Worlds
  PROVE  /\ Payload(w) \in PayloadDirs /\ Overlay(w) \in PayloadDirs /\ Checkpoint(w) \in PayloadDirs
         /\ Payload(v) = Payload(w) => v = w
         /\ Overlay(v) # Payload(w) /\ Checkpoint(v) # Payload(w) /\ Overlay(v) # Checkpoint(w)
  BY DEF PayloadDirs, Payload, Overlay, Checkpoint

LEMMA CheckpointsApart ==
  ASSUME NEW c \in Checkpoints, NEW w \in Worlds
  PROVE  c \in PayloadDirs /\ c # Payload(w) /\ c # Overlay(w)
  BY DirectoriesApart DEF Checkpoints

(* An overlay is what no world is read from.                               *)
LEMMA OverlaysAreNotRead ==
  ASSUME DirsInv, NEW v \in Worlds, NEW w \in Worlds
  PROVE  Overlay(v) \notin ReferencedBy(w)
  BY DirectoriesApart, CheckpointsApart DEF DirsInv, ReferencedBy

(* A payload is read by its own world only.                                *)
LEMMA PayloadsAreOwn ==
  ASSUME DirsInv, NEW v \in Worlds, NEW w \in Worlds, Payload(v) \in ReferencedBy(w)
  PROVE  v = w
  BY DirectoriesApart, CheckpointsApart DEF DirsInv, ReferencedBy

LEMMA PruneBegins == PruneInit => PruneInv
<1> SUFFICES ASSUME PruneInit PROVE PruneInv
  OBVIOUS
<1>1. DirsInv
  BY PruneConstants, DirectoriesApart DEF PruneInit, DirsInv, Checkpoints
<1>2. PrimeInv
  BY PruneConstants DEF PruneInit, PrimeInv
<1>3. PlanInv
  BY PruneConstants DEF PruneInit, PlanInv
<1>4. BegunInv
  BY PruneConstants, DirectoriesApart DEF PruneInit, BegunInv
<1>5. LivingPayloadsKept
  BY PruneConstants, DirectoriesApart DEF PruneInit, LivingPayloadsKept, Protected
<1> QED BY <1>1, <1>2, <1>3, <1>4, <1>5 DEF PruneInv

LEMMA PruneAtFork ==
  ASSUME PruneInv, NEW w \in Forked, ForkWorld(w)
  PROVE  PruneInv'
<1> w \in Worlds
  BY PruneConstants
<1> USE DEF PruneInv
<1>0. PICK c \in {Checkpoint(w)} \cup {basePayload[v] : v \in {v \in Worlds : v = w - 1 /\ fate[v] = "MUTABLE"}} :
        /\ basePayload' = [basePayload EXCEPT ![w] = c]
        /\ disk' = [disk EXCEPT ![c] = "whole", ![Overlay(w)] = "whole"]
  BY DEF ForkWorld
<1>1. c \in Checkpoints
  BY <1>0 DEF DirsInv, Checkpoints
<1>2. c \in PayloadDirs /\ Overlay(w) \in PayloadDirs /\ c # Overlay(w)
  BY <1>1, DirectoriesApart, CheckpointsApart
<1>3. \A v \in Worlds : disk'[Payload(v)] = disk[Payload(v)]
  BY <1>0, <1>1, <1>2, DirectoriesApart, CheckpointsApart DEF DirsInv
<1>4. \A d \in PayloadDirs : disk[d] = "whole" => disk'[d] = "whole"
  BY <1>0, <1>2 DEF DirsInv
<1>5. disk'[c] = "whole"
  BY <1>0, <1>2 DEF DirsInv
<1>6. /\ fate[w] = "unborn" /\ fate' = [fate EXCEPT ![w] = "MUTABLE"] /\ pruning = <<>> /\ pruning' = <<>>
      /\ parent' = [parent EXCEPT ![w] = primeWorld] /\ UNCHANGED <<primeWorld, openTransaction>>
      /\ UNCHANGED <<pruned, candidates, todo, interrupted>> /\ jobActive' = jobActive \cup {w}
      /\ candidates = {} /\ todo = {}
  BY DEF ForkWorld, LockFree, PlanInv
<1>7. \A v \in Worlds \ {w} : fate'[v] = fate[v] /\ basePayload'[v] = basePayload[v] /\ (Living(v)' => Living(v))
  BY <1>0, <1>6 DEF Living, DirsInv, PrimeInv, Protected
<1>8. fate'[w] = "MUTABLE" /\ basePayload'[w] = c
  BY <1>0, <1>6 DEF DirsInv
<1>9. DirsInv'
  <2>1. fate' \in [Worlds -> {"unborn", "MUTABLE", "VALID"} \cup Prunable]
    BY <1>6 DEF DirsInv
  <2>2. /\ basePayload' \in [Worlds -> PayloadDirs]
        /\ disk' \in [PayloadDirs -> {"none", "whole", "partial", "gone"}]
    BY <1>0, <1>2 DEF DirsInv
  <2>3. \A v \in Worlds : basePayload'[v] \in {Payload(v)} \cup Checkpoints
    BY <1>1, <1>7, <1>8 DEF DirsInv
  <2>4. \A v \in Forked : basePayload'[v] \in Checkpoints
    BY PruneConstants, <1>1, <1>7, <1>8 DEF DirsInv
  <2>5. \A v \in Worlds : fate'[v] = "MUTABLE" => v \in Forked
    BY <1>7 DEF DirsInv
  <2>6. \A v \in Worlds : fate'[v] = "unborn" => disk'[Payload(v)] = "none"
    BY <1>3, <1>7, <1>8 DEF DirsInv
  <2> QED BY <2>1, <2>2, <2>3, <2>4, <2>5, <2>6 DEF DirsInv
<1>10. PrimeInv'
  BY <1>6, <1>7 DEF PrimeInv, DirsInv
<1>11. PlanInv'
  BY <1>6, <1>7 DEF PlanInv
<1>12. BegunInv'
  BY <1>6, <1>3 DEF BegunInv
<1>13. LivingPayloadsKept'
  <2> SUFFICES ASSUME NEW v \in Worlds, Living(v)'
               PROVE  disk'[basePayload'[v]] = "whole" /\ disk'[Payload(v)] \in {"none", "whole"}
    BY DEF LivingPayloadsKept, Living
  <2>1. CASE v = w
    BY <2>1, <1>3, <1>5, <1>6, <1>8 DEF DirsInv
  <2>2. CASE v # w
    BY <2>2, <1>3, <1>4, <1>7 DEF LivingPayloadsKept, Living, DirsInv
  <2> QED BY <2>1, <2>2
<1> QED BY <1>9, <1>10, <1>11, <1>12, <1>13

LEMMA PruneAtWorldEnd ==
  ASSUME PruneInv, NEW w \in Forked, NEW s \in {"VALID", "DEGRADED", "DEAD"}, WorldEnds(w, s)
  PROVE  PruneInv'
<1> w \in Worlds
  BY PruneConstants
<1> USE DEF PruneInv
<1>0. PICK d \in {"none", "whole"} : disk' = [disk EXCEPT ![Payload(w)] = d]
  BY DEF WorldEnds
<1>1. /\ fate[w] = "MUTABLE" /\ fate' = [fate EXCEPT ![w] = s]
      /\ UNCHANGED <<basePayload, parent, primeWorld, jobActive, openTransaction>>
      /\ UNCHANGED <<pruned, pruning, candidates, todo, interrupted>>
  BY DEF WorldEnds
<1>2. Payload(w) \in PayloadDirs
  BY DirectoriesApart
<1>3. disk'[Payload(w)] \in {"none", "whole"} /\ \A x \in PayloadDirs \ {Payload(w)} : disk'[x] = disk[x]
  BY <1>0, <1>2 DEF DirsInv
<1>4. \A v \in Worlds \ {w} : Payload(v) # Payload(w) /\ disk'[Payload(v)] = disk[Payload(v)] /\ fate'[v] = fate[v]
  BY <1>1, <1>3, DirectoriesApart DEF DirsInv
<1>5. \A v \in Worlds : basePayload[v] # Payload(w)
  BY DirectoriesApart, CheckpointsApart DEF DirsInv
<1>6. fate'[w] = s /\ Living(w)
  BY <1>1 DEF DirsInv, Living
<1>7. \A v \in Worlds : (Living(v)' => Living(v)) /\ (fate'[v] = "unborn" <=> fate[v] = "unborn")
  BY <1>1, <1>4, <1>6 DEF Living, Protected, DirsInv
<1>8. DirsInv'
  <2>1. fate' \in [Worlds -> {"unborn", "MUTABLE", "VALID"} \cup Prunable]
    BY <1>1 DEF DirsInv, Prunable
  <2>2. disk' \in [PayloadDirs -> {"none", "whole", "partial", "gone"}]
    BY <1>0, <1>2 DEF DirsInv
  <2>3. \A v \in Worlds : fate'[v] = "MUTABLE" => v \in Forked
    BY <1>4 DEF DirsInv
  <2>4. \A v \in Worlds : fate'[v] = "unborn" => disk'[Payload(v)] = "none"
    BY <1>4, <1>6 DEF DirsInv
  <2> QED BY <2>1, <2>2, <2>3, <2>4, <1>1 DEF DirsInv
<1>9. PrimeInv'
  BY <1>1, <1>4, <1>7 DEF PrimeInv, DirsInv
<1>10. PlanInv'
  BY <1>1, <1>7 DEF PlanInv, ReferencedBy
<1>11. BegunInv'
  BY <1>1, <1>3, <1>4 DEF BegunInv
<1>12. LivingPayloadsKept'
  <2> SUFFICES ASSUME NEW v \in Worlds, Living(v)'
               PROVE  disk'[basePayload'[v]] = "whole" /\ disk'[Payload(v)] \in {"none", "whole"}
    BY DEF LivingPayloadsKept, Living
  <2>1. Living(v) /\ basePayload' = basePayload /\ disk'[basePayload[v]] = disk[basePayload[v]]
    BY <1>1, <1>3, <1>5, <1>7 DEF DirsInv
  <2> QED BY <2>1, <1>3, <1>4 DEF LivingPayloadsKept, Living
<1> QED BY <1>8, <1>9, <1>10, <1>11, <1>12

(* Steps that change neither worlds nor directories nor the plan, and make *)
(* no world needed that was not.                                           *)
LEMMA PruneAtJobEnd ==
  ASSUME PruneInv, NEW w \in Forked, JobEnds(w)
  PROVE  PruneInv'
<1> USE DEF PruneInv
<1>1. /\ UNCHANGED <<fate, basePayload, parent, primeWorld, openTransaction, disk>>
      /\ UNCHANGED <<pruned, pruning, candidates, todo, interrupted>> /\ jobActive' = jobActive \ {w}
  BY DEF JobEnds
<1>2. \A v \in Worlds : Living(v)' => Living(v)
  BY <1>1 DEF Living, Protected
<1>3. DirsInv' /\ PrimeInv' /\ BegunInv'
  BY <1>1 DEF DirsInv, PrimeInv, BegunInv
<1>4. PlanInv'
  BY <1>1, <1>2 DEF PlanInv, ReferencedBy
<1>5. LivingPayloadsKept'
  BY <1>1, <1>2 DEF LivingPayloadsKept, Living
<1> QED BY <1>3, <1>4, <1>5

LEMMA PruneAtTransaction ==
  ASSUME PruneInv, (\E w \in Forked : PrepareCollapse(w)) \/ AbortCollapse
  PROVE  PruneInv'
<1> USE DEF PruneInv
<1>1. /\ UNCHANGED <<fate, basePayload, parent, primeWorld, jobActive, disk>>
      /\ UNCHANGED <<pruned, pruning, candidates, todo, interrupted>>
      /\ openTransaction' # 0 => openTransaction' \in Worlds /\ fate[openTransaction'] = "VALID"
  BY PruneConstants DEF PrepareCollapse, AbortCollapse
<1>2. \A v \in Worlds : Living(v)' <=> Living(v)
  BY <1>1 DEF Living, Protected
<1>3. DirsInv' /\ PrimeInv' /\ BegunInv'
  BY <1>1 DEF DirsInv, PrimeInv, BegunInv
<1>4. PlanInv'
  BY <1>1, <1>2 DEF PlanInv, ReferencedBy
<1>5. LivingPayloadsKept'
  BY <1>1, <1>2 DEF LivingPayloadsKept, Living
<1> QED BY <1>3, <1>4, <1>5

(* The world that becomes PRIME was valid, the one before it was PRIME:    *)
(* both were living, and nobody else begins to be.                         *)
LEMMA PruneAtCommit ==
  ASSUME PruneInv, NEW w \in Forked, CommitCollapse(w)
  PROVE  PruneInv'
<1> USE DEF PruneInv
<1> w \in Worlds /\ w # 0
  BY PruneConstants
<1>1. /\ pruning = <<>> /\ openTransaction = w /\ openTransaction' = 0 /\ fate[w] = "VALID"
      /\ candidates = {} /\ todo = {}
      /\ UNCHANGED <<jobActive, pruned, pruning, candidates, todo, interrupted>>
  BY DEF CommitCollapse, LockFree, PrimeInv, PlanInv
<1>2. /\ Archived(w) \in [Worlds -> {"unborn", "MUTABLE", "VALID"} \cup Prunable]
      /\ \A v \in Worlds : \/ Archived(w)[v] = fate[v]
                           \/ fate[v] # "unborn" /\ Archived(w)[v] \in {"ARCHIVED", "COLLAPSED"}
      /\ Archived(w)[w] = "COLLAPSED"
  BY <1>1 DEF Archived, Siblings, DirsInv, PrimeInv, Prunable
<1>3. Living(w) /\ Living(primeWorld) /\ primeWorld # 0
  BY <1>1, PruneConstants DEF Living, Protected, PrimeInv
<1>4. CASE /\ parent[w] = primeWorld /\ primeWorld' = w /\ fate' = Archived(w)
           /\ UNCHANGED <<parent, finished, basePayload, disk>>
  <2>1. \A v \in Worlds : fate'[v] = "unborn" <=> fate[v] = "unborn"
    BY <1>2, <1>4
  <2>2. \A v \in Worlds : Living(v)' => Living(v)
    BY <1>1, <1>2, <1>3, <1>4, <2>1 DEF Living, Protected
  <2>3. DirsInv'
    BY <1>2, <1>4, <2>1 DEF DirsInv
  <2>4. PrimeInv'
    BY <1>1, <1>4, <2>1 DEF PrimeInv
  <2>5. PlanInv'
    BY <1>1, <2>1, <2>2 DEF PlanInv
  <2>6. BegunInv'
    BY <1>1, <1>4 DEF BegunInv
  <2>7. LivingPayloadsKept'
    BY <1>4, <2>2 DEF LivingPayloadsKept, Living
  <2> QED BY <2>3, <2>4, <2>5, <2>6, <2>7
<1>5. ASSUME NEW c \in Worlds \ Forked, parent[w] # primeWorld, fate[c] = "unborn", primeWorld' = c,
             fate' = [Archived(w) EXCEPT ![c] = "VALID"], parent' = [parent EXCEPT ![c] = primeWorld],
             basePayload' = [basePayload EXCEPT ![c] = Payload(c)],
             disk' = [disk EXCEPT ![Payload(c)] = "whole"]
      PROVE  PruneInv'
  <2>1. fate'[c] = "VALID" /\ \A v \in Worlds \ {c} : fate'[v] = Archived(w)[v]
    BY <1>2, <1>5
  <2>2. \A v \in Worlds : v # c => (fate'[v] = "unborn" <=> fate[v] = "unborn")
    BY <1>2, <2>1
  <2>3. parent'[c] = primeWorld /\ parent' \in [Worlds -> Worlds \cup {0}] /\ c # primeWorld
    BY <1>5 DEF PrimeInv
  <2>4. \A v \in Worlds \ {c} : Living(v)' => Living(v)
    BY <1>1, <1>2, <1>3, <1>5, <2>1, <2>2, <2>3 DEF Living, Protected
  <2>5. Payload(c) \in PayloadDirs
    BY DirectoriesApart
  <2>6. disk'[Payload(c)] = "whole" /\ \A d \in PayloadDirs \ {Payload(c)} : disk'[d] = disk[d]
    BY <1>5, <2>5 DEF DirsInv
  <2>7. \A v \in Worlds \ {c} : /\ Payload(v) # Payload(c) /\ disk'[Payload(v)] = disk[Payload(v)]
                                /\ basePayload'[v] = basePayload[v] /\ basePayload[v] # Payload(c)
    BY <1>5, <2>6, DirectoriesApart, CheckpointsApart DEF DirsInv
  <2>8. basePayload'[c] = Payload(c)
    BY <1>5 DEF DirsInv
  <2>9. DirsInv'
    <3>1. fate' \in [Worlds -> {"unborn", "MUTABLE", "VALID"} \cup Prunable]
      BY <1>2, <1>5
    <3>2. /\ basePayload' \in [Worlds -> PayloadDirs]
          /\ disk' \in [PayloadDirs -> {"none", "whole", "partial", "gone"}]
      BY <1>5, <2>5 DEF DirsInv
    <3>3. \A v \in Worlds : basePayload'[v] \in {Payload(v)} \cup Checkpoints
      BY <2>7, <2>8 DEF DirsInv
    <3>4. \A v \in Forked : basePayload'[v] \in Checkpoints
      BY PruneConstants, <2>7 DEF DirsInv
    <3>5. \A v \in Worlds : fate'[v] = "MUTABLE" => v \in Forked
      BY <1>2, <2>1 DEF DirsInv
    <3>6. \A v \in Worlds : fate'[v] = "unborn" => disk'[Payload(v)] = "none"
      BY <2>1, <2>2, <2>7 DEF DirsInv
    <3> QED BY <3>1, <3>2, <3>3, <3>4, <3>5, <3>6 DEF DirsInv
  <2>10. PrimeInv'
    BY <1>1, <1>5, <2>1, <2>2, <2>3 DEF PrimeInv
  <2>11. PlanInv'
    BY <1>1, <1>5, <2>2, <2>4 DEF PlanInv
  <2>12. BegunInv'
    BY <1>1, <2>6, <2>7 DEF BegunInv
  <2>13. LivingPayloadsKept'
    <3> SUFFICES ASSUME NEW v \in Worlds, Living(v)'
                 PROVE  disk'[basePayload'[v]] = "whole" /\ disk'[Payload(v)] \in {"none", "whole"}
      BY DEF LivingPayloadsKept, Living
    <3>1. CASE v = c
      BY <3>1, <2>6, <2>8
    <3>2. CASE v # c
      <4>1. Living(v) /\ disk[basePayload[v]] = disk'[basePayload'[v]]
        BY <3>2, <2>4, <2>6, <2>7 DEF DirsInv
      <4> QED BY <4>1, <3>2, <2>7 DEF LivingPayloadsKept, Living
    <3> QED BY <3>1, <3>2
  <2> QED BY <2>9, <2>10, <2>11, <2>12, <2>13
<1> QED BY <1>4, <1>5 DEF CommitCollapse

(* What a plan may list next.                                              *)
LEMMA OfferedIsUnread ==
  ASSUME DirsInv, NEW e \in Worlds, NEW cands \in SUBSET Worlds, NEW todos,
         todos = OfferedWith(e, cands) \/ todos = {Overlay(e)}
  PROVE  /\ todos \subseteq PayloadDirs
         /\ \A d \in todos : \A w \in Worlds :
              /\ fate[w] # "unborn" /\ w \notin cands \cup pruned => d \notin ReferencedBy(w)
              /\ d = Payload(w) => w = e
<1>1. Overlay(e) \in PayloadDirs /\ \A w \in Worlds : Overlay(e) # Payload(w)
  BY DirectoriesApart
<1>2. \A d \in todos : \/ d = Overlay(e)
                       \/ d \in PayloadDirs /\ d \in ReferencedBy(e) /\ d \notin Referenced(cands)
  BY DEF OfferedWith, There
<1> SUFFICES ASSUME NEW d \in todos, NEW w \in Worlds
             PROVE  /\ d \in PayloadDirs
                    /\ fate[w] # "unborn" /\ w \notin cands \cup pruned => d \notin ReferencedBy(w)
                    /\ d = Payload(w) => w = e
  BY <1>1, <1>2
<1>3. CASE d = Overlay(e)
  BY <1>1, <1>3, OverlaysAreNotRead
<1>4. CASE d \in PayloadDirs /\ d \in ReferencedBy(e) /\ d \notin Referenced(cands)
  <2>1. d = Payload(w) => w = e
    BY <1>4, PayloadsAreOwn
  <2>2. fate[w] # "unborn" /\ w \notin cands \cup pruned => d \notin ReferencedBy(w)
    BY <1>4 DEF Referenced, KeepsOf
  <2> QED BY <2>1, <2>2, <1>4
<1> QED BY <1>2, <1>3, <1>4

LEMMA OrdersAreSequences ==
  ASSUME NEW ws \in SUBSET Worlds, NEW order \in OldestFirst(ws)
  PROVE  order \in Seq(ws)
<1>1. IsFiniteSet(ws)
  BY PruneConstants, FS_Subset
<1>2. Cardinality(ws) \in Nat
  BY <1>1, FS_CardinalityType
<1>3. order \in [1..Cardinality(ws) -> ws]
  BY DEF OldestFirst
<1> QED BY <1>2, <1>3

LEMMA PruneAtPlan ==
  ASSUME PruneInv, NEW keep \in 0..1, PrunePlan(keep)
  PROVE  PruneInv'
<1> USE DEF PruneInv
<1> DEFINE cands == {w \in Candidates : Cardinality({v \in Candidates : Position(v) > Position(w)}) >= keep}
<1>0. PICK worlds \in OldestFirst({w \in cands : OfferedWith(w, cands) # {}}), left \in OldestFirst(Leftovers) :
        /\ worlds \o left # <<>> /\ pruning' = worlds \o left /\ candidates' = cands
        /\ todo' = IF (worlds \o left)[1] \in cands THEN OfferedWith((worlds \o left)[1], cands)
                   ELSE {Overlay((worlds \o left)[1])}
  BY DEF PrunePlan
<1>1. /\ UNCHANGED <<fate, basePayload, parent, primeWorld, jobActive, openTransaction, disk, pruned, interrupted>>
      /\ pruning = <<>>
  BY DEF PrunePlan, worldVars, LockFree
<1>2. /\ cands \subseteq Worlds /\ Leftovers \subseteq pruned
      /\ \A w \in cands : ~Living(w) /\ fate[w] # "unborn"
  BY DEF Candidates, Leftovers, Living, Prunable
<1> HIDE DEF cands
<1>3. worlds \in Seq(cands \cup pruned) /\ left \in Seq(cands \cup pruned) /\ pruned \subseteq Worlds
  <2>1. {w \in cands : OfferedWith(w, cands) # {}} \in SUBSET Worlds /\ Leftovers \in SUBSET Worlds
    BY <1>2 DEF PlanInv
  <2>2. worlds \in Seq({w \in cands : OfferedWith(w, cands) # {}}) /\ left \in Seq(Leftovers)
    BY <2>1, OrdersAreSequences
  <2>3. pruned \subseteq Worlds
    BY DEF PlanInv
  <2>4. worlds \in Seq(cands \cup pruned)
    BY <2>2
  <2>5. left \in Seq(cands \cup pruned)
    BY <2>2, <1>2
  <2> QED BY <2>3, <2>4, <2>5
<1>4. /\ pruning' \in Seq(Worlds) /\ pruning' # <<>>
      /\ \A i \in 1..Len(pruning') : pruning'[i] \in candidates' \cup pruned
      /\ Head(pruning') = pruning'[1] /\ pruning'[1] \in Worlds
  <2>1. worlds \o left \in Seq(cands \cup pruned) /\ worlds \o left # <<>>
    BY <1>0, <1>3
  <2>2. pruning' \in Seq(cands \cup pruned) /\ pruning' # <<>> /\ candidates' = cands
    BY <2>1, <1>0
  <2>3. cands \cup pruned \subseteq Worlds
    BY <1>2, <1>3
  <2> QED BY <2>2, <2>3
<1>5. \A v \in Worlds : Living(v)' <=> Living(v)
  BY <1>1 DEF Living, Protected
<1>6. DirsInv' /\ PrimeInv'
  BY <1>1 DEF DirsInv, PrimeInv
<1>7. BegunInv'
  BY <1>1 DEF BegunInv
<1>8. LivingPayloadsKept'
  BY <1>1, <1>5 DEF LivingPayloadsKept, Living
<1>9. PlanInv'
  <2>1. todo' = OfferedWith(pruning'[1], cands) \/ todo' = {Overlay(pruning'[1])}
    BY <1>0
  <2>2. /\ todo' \subseteq PayloadDirs
        /\ \A d \in todo' : \A w \in Worlds :
             /\ fate[w] # "unborn" /\ w \notin cands \cup pruned => d \notin ReferencedBy(w)
             /\ d = Payload(w) => w = pruning'[1]
    BY <2>1, <1>2, <1>4, OfferedIsUnread
  <2>3. candidates' = cands /\ pruned' = pruned /\ fate' = fate /\ \A w \in Worlds : ReferencedBy(w)' = ReferencedBy(w)
    BY <1>0, <1>1 DEF ReferencedBy
  <2>4. \A w \in (candidates \cup pruned)' : ~Living(w)' /\ fate'[w] # "unborn"
    BY <2>3, <1>1, <1>2, <1>3, <1>5 DEF PlanInv
  <2> QED BY <2>2, <2>3, <2>4, <1>2, <1>3, <1>4 DEF PlanInv
<1> QED BY <1>6, <1>7, <1>8, <1>9

LEMMA PruneAtRemoval ==
  ASSUME PruneInv, NEW d \in todo, RemoveTree(d)
  PROVE  PruneInv'
<1> USE DEF PruneInv
<1>1. /\ UNCHANGED <<fate, basePayload, parent, primeWorld, jobActive, openTransaction>>
      /\ UNCHANGED <<pruned, pruning, candidates, interrupted>> /\ todo' = todo \ {d}
      /\ \E now \in {"gone", "whole", "partial"} : disk' = [disk EXCEPT ![d] = now]
  BY DEF RemoveTree, worldVars
<1>2. d \in PayloadDirs /\ pruning # <<>>
  BY DEF PlanInv
<1>3. /\ disk' \in [PayloadDirs -> {"none", "whole", "partial", "gone"}]
      /\ \A x \in PayloadDirs \ {d} : disk'[x] = disk[x]
  BY <1>1, <1>2 DEF DirsInv
<1>4. \A v \in Worlds : d = Payload(v) => v = Head(pruning) /\ fate[v] # "unborn"
  <2>1. Head(pruning) \in candidates \cup pruned
    BY <1>2 DEF PlanInv
  <2> QED BY <2>1 DEF PlanInv
<1>5. \A v \in Worlds : Living(v)' <=> Living(v)
  BY <1>1 DEF Living, Protected
<1>6. DirsInv'
  <2>1. \A v \in Worlds : fate'[v] = "unborn" => disk'[Payload(v)] = "none"
    BY <1>1, <1>3, <1>4, DirectoriesApart DEF DirsInv
  <2> QED BY <2>1, <1>1, <1>3 DEF DirsInv
<1>7. PrimeInv'
  BY <1>1 DEF PrimeInv
<1>8. PlanInv'
  BY <1>1, <1>2, <1>5 DEF PlanInv, ReferencedBy
<1>9. BegunInv'
  BY <1>1, <1>2, <1>3, <1>4, DirectoriesApart DEF BegunInv
<1>10. LivingPayloadsKept'
  <2> SUFFICES ASSUME NEW v \in Worlds, Living(v)'
               PROVE  disk'[basePayload'[v]] = "whole" /\ disk'[Payload(v)] \in {"none", "whole"}
    BY DEF LivingPayloadsKept, Living
  <2>1. Living(v) /\ d # Payload(v) /\ d # basePayload[v]
    BY <1>5 DEF PlanInv, ReferencedBy, Living
  <2>2. disk'[basePayload[v]] = disk[basePayload[v]] /\ disk'[Payload(v)] = disk[Payload(v)]
    BY <2>1, <1>3, DirectoriesApart DEF DirsInv
  <2> QED BY <2>1, <2>2, <1>1 DEF LivingPayloadsKept, Living
<1> QED BY <1>6, <1>7, <1>8, <1>9, <1>10

LEMMA PruneAtRecord ==
  ASSUME PruneInv, PruneRecord
  PROVE  PruneInv'
<1> USE DEF PruneInv
<1> DEFINE w == Head(pruning)  rest == Tail(pruning)
<1>1. /\ UNCHANGED <<fate, basePayload, parent, primeWorld, jobActive, openTransaction, disk, interrupted>>
      /\ pruning # <<>> /\ pruning' = rest
      /\ pruned' = IF StaysRetained(w) THEN pruned ELSE pruned \cup {w}
      /\ candidates' = IF rest = <<>> THEN {} ELSE candidates
      /\ todo' = IF rest = <<>> THEN {}
                 ELSE IF rest[1] \in candidates THEN OfferedWith(rest[1], candidates)
                 ELSE {Overlay(rest[1])}
  BY DEF PruneRecord, worldVars
<1>2. w \in candidates \cup pruned /\ w \in Worlds
  BY <1>1 DEF PlanInv
<1>3. /\ rest \in Seq(Worlds) /\ \A i \in 1..Len(rest) : rest[i] \in candidates \cup pruned
      /\ rest # <<>> => Head(rest) = rest[1] /\ rest[1] \in Worlds
  BY <1>1 DEF PlanInv
<1>4. pruned \subseteq pruned' /\ pruned' \subseteq pruned \cup {w} /\ candidates' \subseteq candidates
  BY <1>1
<1> HIDE DEF w, rest
<1>5. \A v \in Worlds : Living(v)' <=> Living(v)
  BY <1>1 DEF Living, Protected
<1>6. DirsInv' /\ PrimeInv'
  BY <1>1 DEF DirsInv, PrimeInv
<1>7. BegunInv'
  <2>1. disk[Payload(w)] \in {"partial", "gone"} => w \in pruned'
    BY <1>1 DEF StaysRetained
  <2> QED BY <2>1, <1>1, <1>4 DEF BegunInv, w
<1>8. LivingPayloadsKept'
  BY <1>1, <1>5 DEF LivingPayloadsKept, Living
<1>9. \A v \in Worlds : ReferencedBy(v)' = ReferencedBy(v)
  BY <1>1 DEF ReferencedBy
<1>10. /\ candidates' \subseteq Worlds /\ pruned' \subseteq Worlds
       /\ \A v \in (candidates \cup pruned)' : ~Living(v)' /\ fate'[v] # "unborn"
  <2>1. \A v \in candidates \cup pruned : v \in Worlds /\ ~Living(v) /\ fate[v] # "unborn"
    BY DEF PlanInv
  <2>2. (candidates \cup pruned)' \subseteq candidates \cup pruned
    BY <1>2, <1>4
  <2> QED BY <2>1, <2>2, <1>1, <1>5
<1>11. CASE rest = <<>>
  <2>1. pruning' = <<>> /\ todo' = {} /\ candidates' = {} /\ Len(pruning') = 0
    BY <1>1, <1>11
  <2> QED BY <2>1, <1>6, <1>7, <1>8, <1>10 DEF PlanInv
<1>12. CASE rest # <<>>
  <2>1. todo' = OfferedWith(rest[1], candidates) \/ todo' = {Overlay(rest[1])}
    BY <1>1, <1>12
  <2>2. candidates' = candidates /\ candidates \in SUBSET Worlds /\ pruning' = rest /\ fate' = fate
    BY <1>1, <1>12 DEF PlanInv
  <2>3. /\ todo' \subseteq PayloadDirs
        /\ \A d \in todo' : \A v \in Worlds :
             /\ fate[v] # "unborn" /\ v \notin candidates \cup pruned => d \notin ReferencedBy(v)
             /\ d = Payload(v) => v = rest[1]
    BY <2>1, <2>2, <1>3, <1>12, OfferedIsUnread
  <2>4. \A d \in todo' : \A v \in Worlds :
          /\ fate'[v] # "unborn" /\ v \notin (candidates \cup pruned)' => d \notin ReferencedBy(v)'
          /\ d = Payload(v) => v = Head(pruning')
    BY <2>2, <2>3, <1>3, <1>4, <1>9, <1>12
  <2>5. pruning' \in Seq(Worlds) /\ pruning' # <<>> /\ \A i \in 1..Len(pruning') : pruning'[i] \in (candidates \cup pruned)'
    BY <2>2, <1>3, <1>4, <1>12
  <2>6. PlanInv'
    BY <2>3, <2>4, <2>5, <1>10 DEF PlanInv
  <2> QED BY <2>6, <1>6, <1>7, <1>8
<1> QED BY <1>11, <1>12

LEMMA PruneAtKill ==
  ASSUME PruneInv, PruneKilled
  PROVE  PruneInv'
<1> USE DEF PruneInv
<1>1. /\ UNCHANGED <<fate, basePayload, parent, primeWorld, jobActive, openTransaction, disk, pruned>>
      /\ pruning' = <<>> /\ todo' = {} /\ candidates' = {} /\ interrupted' = interrupted \cup {Head(pruning)}
  BY DEF PruneKilled, worldVars
<1>2. \A v \in Worlds : Living(v)' <=> Living(v)
  BY <1>1 DEF Living, Protected
<1>3. DirsInv' /\ PrimeInv' /\ BegunInv'
  BY <1>1 DEF DirsInv, PrimeInv, BegunInv
<1>4. PlanInv'
  BY <1>1, <1>2 DEF PlanInv
<1>5. LivingPayloadsKept'
  BY <1>1, <1>2 DEF LivingPayloadsKept, Living
<1> QED BY <1>3, <1>4, <1>5

LEMMA PruneRests ==
  ASSUME PruneInv, UNCHANGED pruneVars
  PROVE  PruneInv'
<1>1. /\ UNCHANGED <<fate, basePayload, parent, primeWorld, jobActive, openTransaction, disk>>
      /\ UNCHANGED <<pruned, pruning, candidates, todo, interrupted>>
  BY DEF pruneVars, worldVars
<1>2. \A v \in Worlds : Living(v)' <=> Living(v)
  BY <1>1 DEF Living, Protected
<1>3. DirsInv' /\ PrimeInv' /\ BegunInv'
  BY <1>1 DEF PruneInv, DirsInv, PrimeInv, BegunInv
<1>4. PlanInv'
  BY <1>1, <1>2 DEF PruneInv, PlanInv, ReferencedBy
<1>5. LivingPayloadsKept'
  BY <1>1, <1>2 DEF PruneInv, LivingPayloadsKept, Living
<1> QED BY <1>3, <1>4, <1>5 DEF PruneInv

(* Whatever is pruned, fails to be removed or is cut short: PRIME, what it *)
(* was made from, the worlds that are not over and the prepared collapse   *)
(* are in no plan, and no directory of a plan is one of theirs (prune.py,  *)
(* plan and apply).                                                        *)
THEOREM PruneInvariance == PruneSpec => []PruneInv
<1>1. PruneInv /\ [PruneNext]_pruneVars => PruneInv'
  <2> SUFFICES ASSUME PruneInv, [PruneNext]_pruneVars PROVE PruneInv'
    OBVIOUS
  <2>1. ASSUME NEW w \in Forked, ForkWorld(w) \/ JobEnds(w) \/ CommitCollapse(w) PROVE PruneInv'
    BY <2>1, PruneAtFork, PruneAtJobEnd, PruneAtCommit
  <2>2. ASSUME NEW w \in Forked, NEW s \in {"VALID", "DEGRADED", "DEAD"}, WorldEnds(w, s) PROVE PruneInv'
    BY <2>2, PruneAtWorldEnd
  <2>3. ASSUME (\E w \in Forked : PrepareCollapse(w)) \/ AbortCollapse PROVE PruneInv'
    BY <2>3, PruneAtTransaction
  <2>4. ASSUME NEW keep \in 0..1, PrunePlan(keep) PROVE PruneInv'
    BY <2>4, PruneAtPlan
  <2>5. ASSUME NEW d \in todo, RemoveTree(d) PROVE PruneInv'
    BY <2>5, PruneAtRemoval
  <2>6. CASE PruneRecord
    BY <2>6, PruneAtRecord
  <2>7. CASE PruneKilled
    BY <2>7, PruneAtKill
  <2>8. CASE UNCHANGED pruneVars
    BY <2>8, PruneRests
  <2> QED BY <2>1, <2>2, <2>3, <2>4, <2>5, <2>6, <2>7, <2>8 DEF PruneNext
<1> QED BY PruneBegins, <1>1, PTL DEF PruneSpec

(* A prune never touches what a living world is read from (prune.py:       *)
(* "Never pruned").                                                        *)
THEOREM PruneKeepsTheLiving == PruneSpec => []LivingPayloadsKept
<1>1. PruneInv => LivingPayloadsKept
  BY DEF PruneInv
<1> QED BY <1>1, PruneInvariance, PTL

(* A world whose payload a prune began to remove is recorded as pruned,    *)
(* unless a kill came between (prune.py, apply).                           *)
THEOREM PruningIsRecorded == PruneSpec => []PrunedIsRecorded
<1>1. PruneInv => PrunedIsRecorded
  <2> SUFFICES ASSUME PruneInv, NEW w \in Worlds, disk[Payload(w)] \in {"partial", "gone"},
                      w \notin pruned \cup interrupted
               PROVE  \E i \in DOMAIN pruning : pruning[i] = w
    BY DEF PrunedIsRecorded
  <2>1. pruning # <<>> /\ w = Head(pruning) /\ pruning \in Seq(Worlds)
    BY DEF PruneInv, BegunInv, PlanInv
  <2>2. 1 \in DOMAIN pruning /\ pruning[1] = w
    BY <2>1
  <2> QED BY <2>2
<1> QED BY <1>1, PruneInvariance, PTL

-----------------------------------------------------------------------------
(* Registration and removal of roots.                                      *)

RootsTypes ==
  /\ gens \in 0..MaxGens /\ edits \in Nat \ {0}
  /\ at \in [Roots -> -1..edits] /\ stage \in [Roots -> -1..edits]
  /\ live \in [Roots -> 0..gens] /\ pay \in [Gens -> [Roots -> 0..edits]]
  /\ rows \subseteq Roots /\ primary \in Roots \cup {NoRoot} /\ recorded \subseteq 1..gens
  /\ precious \subseteq Roots \X (1..edits)
  /\ \A g \in Gens : g > gens => \A r \in Roots : pay[g][r] = 0

RegisterSteps == {"move", "live", "link", "rows", "capture", "insert", "prime", "active",
                  "unrow", "back", "moveback", "discard"}
Exchanged     == {"row", "primary", "insert", "prime", "active", "unstage", "unrow", "unswap"}
RemoveSteps   == {"stage", "check", "drop", "swap", "unlive"} \cup Exchanged

RequestInv ==
  /\ op \in [kind : {"none", "register", "remove"}, step : {"none"} \cup RegisterSteps \cup RemoveSteps,
             roots : Seq(Roots), i : Nat, gen : 0..gens, val : Nat, was : BOOLEAN,
             prev : Roots \cup {NoRoot}, primary : Roots \cup {NoRoot}]
  /\ op.kind = "none" => op = NoOp
  /\ op.kind = "register" =>
       /\ op.step \in RegisterSteps /\ op.gen # 0 /\ op.i \in 1..Len(op.roots)
       /\ \A j, k \in 1..Len(op.roots) : op.roots[j] = op.roots[k] => j = k
  /\ op.kind = "remove" => op.step \in RemoveSteps /\ op.i = 1 /\ Len(op.roots) = 1

(* A registration: what it took is in its generation until it is moved     *)
(* back, what it has not come to stands where it stood.                    *)
RegisterInv ==
  op.kind = "register" => \A j \in 1..Len(op.roots) :
    /\ stage[op.roots[j]] <= 0
    /\ j < op.i \/ (j = op.i /\ op.step \notin {"move", "discard"}) => pay[op.gen][op.roots[j]] # 0
    /\ /\ op.step \in {"move", "live", "link"}
       /\ j > op.i \/ (j = op.i /\ op.step = "move")
       => at[op.roots[j]] > 0 /\ pay[op.gen][op.roots[j]] = 0

(* A removal: the store has what was copied out, or the operator wrote     *)
(* since, and the link is on one side of the exchange or the other.        *)
RemovalInv ==
  op.kind = "remove" =>
    /\ op.val \in 1..edits
    /\ live[Root] # 0 /\ live[Root] # op.gen /\ pay[live[Root]][Root] # 0
    /\ op.gen # 0 => pay[op.gen][Root] = 0
    /\ <<Root, op.val>> \in precious => pay[live[Root]][Root] = op.val
    /\ op.step \in {"stage", "check", "drop", "swap"} => at[Root] = Link
    /\ op.step \in {"stage", "check", "drop"} => op.gen \notin recorded
    /\ op.step \in {"check", "swap"} => stage[Root] = op.val
    /\ op.step \in Exchanged => stage[Root] = Link
    /\ op.step = "unlive" => stage[Root] = 0

(* What else a request's generation holds are copies of what is live.      *)
CopiesInv ==
  op.kind # "none" /\ op.gen # 0 => \A q \in Roots \ Range(op.roots) :
    /\ live[q] # op.gen
    /\ pay[op.gen][q] # 0 =>
         live[q] # 0 /\ (<<q, pay[op.gen][q]>> \in precious => pay[live[q]][q] = pay[op.gen][q])

(* So is what an earlier removal left staged.                              *)
StagedInv ==
  \A r \in Roots : stage[r] > 0 =>
    at[r] = Link /\ live[r] # 0 /\ (<<r, stage[r]>> \in precious => pay[live[r]][r] = stage[r])

(* Where no directory stands at the path, the store has something of it.   *)
TracedInv == \A r \in Roots : at[r] > 0 \/ live[r] # 0 \/ \E g \in Gens : pay[g][r] # 0

RootsInv ==
  RootsTypes /\ RequestInv /\ RegisterInv /\ RemovalInv /\ CopiesInv /\ StagedInv /\ TracedInv /\ NoContentLost

(* The mark of the primary root along a request.                           *)
MarkInv ==
  /\ op.kind # "remove" \/ op.step \notin {"primary", "unrow"} => rows = {} \/ primary \in rows
  /\ op.kind = "register" =>
       /\ op.primary \in Range(op.roots) \cup {NoRoot}
       /\ rows \ Range(op.roots) # {} => op.prev \in rows \ Range(op.roots)
       /\ op.step \in {"move", "live", "link", "rows"} =>
            rows \cap Range(op.roots) = {} /\ (op.primary = NoRoot => rows # {})
  /\ op.kind = "remove" =>
       /\ ~op.was => primary \in rows
       /\ op.step \in {"stage", "check", "drop", "swap", "row"} => Root \in rows /\ (op.was <=> primary = Root)
       /\ op.step \in {"unrow", "unswap"} => faults # 0

PrimaryInv == kills \in Nat /\ faults \in Nat /\ (kills = 0 /\ faults <= 1 => MarkInv)

(* What the types say of one root and one generation.                      *)
LEMMA OneRoot ==
  ASSUME RootsTypes, NEW r \in Roots
  PROVE  /\ at[r] \in -1..edits /\ stage[r] \in -1..edits /\ edits \in Nat /\ gens \in Nat
         /\ live[r] \in 0..gens /\ (live[r] # 0 => live[r] \in Gens)
         /\ \A g \in Gens : pay[g][r] \in 0..edits
<1>1. edits \in Nat /\ gens \in 0..MaxGens /\ live \in [Roots -> 0..gens]
  BY DEF RootsTypes
<1>2. live[r] \in 0..gens /\ (live[r] # 0 => live[r] \in Gens) /\ gens \in Nat
  BY <1>1, RootsConstants DEF Gens
<1>3. at[r] \in -1..edits /\ stage[r] \in -1..edits /\ \A g \in Gens : pay[g][r] \in 0..edits
  BY DEF RootsTypes
<1> QED BY <1>1, <1>2, <1>3

LEMMA OneGeneration ==
  ASSUME RootsTypes, RequestInv
  PROVE  op.gen \in 0..gens /\ (op.gen # 0 => op.gen \in Gens)
<1>1. op.gen \in 0..gens
  BY DEF RequestInv
<1>2. gens \in 0..MaxGens
  BY DEF RootsTypes
<1> QED BY <1>1, <1>2, RootsConstants DEF Gens

LEMMA LaterGenerations ==
  ASSUME RootsTypes, RequestInv, NEW g \in Gens, g > gens
  PROVE  g # op.gen /\ \A r \in Roots : pay[g][r] = 0
<1>1. op.gen \in 0..gens /\ gens \in Int /\ g \in Int
  BY OneGeneration DEF RootsTypes, Gens
<1>2. g # op.gen
  BY <1>1
<1> QED BY <1>2 DEF RootsTypes

(* A request that goes on, one that ends, and what a step leaves alone.    *)
SameRequest == op'.kind = op.kind /\ op'.roots = op.roots /\ op'.gen = op.gen /\ op'.val = op.val

LEMMA RequestGoesOn ==
  ASSUME RequestInv, gens' = gens, NEW t, op' = [op EXCEPT !.step = t],
         (op.kind = "register" /\ t \in RegisterSteps) \/ (op.kind = "remove" /\ t \in RemoveSteps)
  PROVE  RequestInv' /\ SameRequest /\ op'.step = t /\ op'.i = op.i /\ Root' = Root
BY DEF RequestInv, SameRequest, RegisterSteps, RemoveSteps, Exchanged, Root

LEMMA RequestEnds ==
  ASSUME RootsInv, gens' = gens, op' = NoOp
  PROVE  RequestInv' /\ RegisterInv' /\ RemovalInv' /\ CopiesInv'
<1>1. RequestInv'
  BY DEF RootsInv, RootsTypes, RequestInv, NoOp
<1> QED BY <1>1 DEF NoOp, RegisterInv, RemovalInv, CopiesInv

LEMMA RequestRoots ==
  ASSUME RequestInv, op.kind # "none"
  PROVE  /\ Root \in Roots /\ Root \in Range(op.roots) /\ op.i \in 1..Len(op.roots)
         /\ \A j \in 1..Len(op.roots) : op.roots[j] \in Roots /\ op.roots[j] \in Range(op.roots)
         /\ \A r \in Range(op.roots) : \E j \in 1..Len(op.roots) : r = op.roots[j]
         /\ op.kind = "remove" => Range(op.roots) = {Root}
<1>1. op.roots \in Seq(Roots) /\ op.i \in 1..Len(op.roots)
  BY DEF RequestInv
<1>2. DOMAIN op.roots = 1..Len(op.roots) /\ \A j \in 1..Len(op.roots) : op.roots[j] \in Roots
  BY <1>1
<1>3. Range(op.roots) = {op.roots[j] : j \in 1..Len(op.roots)}
  BY <1>2 DEF Range
<1>4. op.kind = "remove" => op.i = 1 /\ Len(op.roots) = 1
  BY DEF RequestInv
<1>5. op.kind = "remove" => Range(op.roots) = {Root}
  BY <1>1, <1>3, <1>4 DEF Root
<1> QED BY <1>1, <1>2, <1>3, <1>5 DEF Root

(* A step that leaves directories and links as they are.                   *)
places == <<at, stage, kept, live, pay, gens, edits, precious>>
TablesTyped == rows \subseteq Roots /\ primary \in Roots \cup {NoRoot} /\ recorded \subseteq 1..gens

LEMMA QuietStep ==
  ASSUME RootsInv, UNCHANGED places, TablesTyped',
         op' = NoOp \/ SameRequest
  PROVE  RootsTypes' /\ CopiesInv' /\ StagedInv' /\ TracedInv' /\ NoContentLost'
<1> USE DEF RootsInv, places
<1>1. RootsTypes' /\ StagedInv' /\ TracedInv' /\ NoContentLost'
  BY DEF RootsTypes, TablesTyped, StagedInv, TracedInv, NoContentLost, Gens
<1>2. CopiesInv'
  BY DEF CopiesInv, SameRequest, NoOp
<1> QED BY <1>1, <1>2

LEMMA QuietEnd ==
  ASSUME RootsInv, UNCHANGED places, TablesTyped', op' = NoOp
  PROVE  RootsInv'
BY QuietStep, RequestEnds DEF RootsInv, places

(* A registration that goes on without touching a directory, and a removal.*)
LEMMA QuietRegistration ==
  ASSUME RootsInv, UNCHANGED places, TablesTyped',
         op.kind = "register", op.step \notin {"move", "discard"},
         NEW t \in RegisterSteps \ {"move", "live", "link"},
         op' = [op EXCEPT !.step = t]
  PROVE  RootsInv'
<1> USE DEF RootsInv
<1>0. gens' = gens /\ t \in RegisterSteps
  BY DEF places
<1>1. RequestInv' /\ SameRequest /\ op'.step = t /\ op'.i = op.i
  BY <1>0, RequestGoesOn
<1>2. RegisterInv'
  BY <1>1 DEF RegisterInv, SameRequest, places
<1>3. RemovalInv'
  BY <1>1 DEF RemovalInv, SameRequest
<1> QED BY <1>1, <1>2, <1>3, QuietStep

LEMMA QuietRemoval ==
  ASSUME RootsInv, UNCHANGED places, TablesTyped',
         op.kind = "remove", NEW t \in RemoveSteps, op' = [op EXCEPT !.step = t],
         \/ op.step \in Exchanged /\ t \in Exchanged
         \/ op.step = "check" /\ t = "swap"
         \/ op.step \in {"stage", "check"} /\ t = "drop" /\ recorded' = recorded
  PROVE  RootsInv'
<1> USE DEF RootsInv
<1>1. RequestInv' /\ SameRequest /\ op'.step = t /\ Root' = Root /\ gens' = gens
  BY RequestGoesOn DEF places
<1>2. RegisterInv'
  BY <1>1 DEF RegisterInv, SameRequest
<1>3. RemovalInv'
  BY <1>1 DEF RemovalInv, SameRequest, places, Exchanged
<1> QED BY <1>1, <1>2, <1>3, QuietStep

LEMMA RootsBegin == RootsInit => RootsInv
<1> SUFFICES ASSUME RootsInit PROVE RootsInv
  OBVIOUS
<1>1. RootsTypes
  BY RootsConstants DEF RootsInit, RootsTypes, Gens
<1>2. RequestInv
  BY DEF RootsInit, RequestInv, NoOp
<1>3. RegisterInv /\ RemovalInv /\ CopiesInv
  BY DEF RootsInit, NoOp, RegisterInv, RemovalInv, CopiesInv
<1>4. StagedInv /\ TracedInv /\ NoContentLost
  BY DEF RootsInit, StagedInv, TracedInv, NoContentLost
<1> QED BY <1>1, <1>2, <1>3, <1>4 DEF RootsInv

(* The operator writes: what is replaced is precious no longer, and what   *)
(* is new is no copy of anything.                                          *)
LEMMA RootsAtEdit ==
  ASSUME RootsInv, NEW r \in Roots, Edit(r)
  PROVE  RootsInv'
<1> USE DEF RootsInv
<1> DEFINE old == IF at[r] = Link THEN Source(r) ELSE at[r]
<1>1. /\ edits' = edits + 1 /\ edits \in Nat \ {0} /\ precious' = (precious \ {<<r, old>>}) \cup {<<r, edits + 1>>}
      /\ UNCHANGED <<stage, kept, live, rows, primary, prime, recorded, op, gens>>
      /\ at[r] # 0 /\ (at[r] = Link => Routed(r))
  BY DEF Edit, RootsTypes, tableVars, limitVars
<1>2. RequestInv' /\ SameRequest /\ op'.step = op.step /\ op'.i = op.i /\ Root' = Root
  BY <1>1 DEF RequestInv, SameRequest, Root
<1>3. CASE at[r] = Link
  <2>1. pay' = [pay EXCEPT ![live[r]][r] = edits + 1] /\ at' = at
    BY <1>1, <1>3 DEF Edit
  <2>2. live[r] \in Gens /\ old = pay[live[r]][r] /\ pay[live[r]][r] # 0
    BY RootsConstants, <1>1, <1>3 DEF Routed, Source, RootsTypes, Gens
  <2> HIDE DEF old
  <2>3. /\ pay' \in [Gens -> [Roots -> 0..edits']] /\ pay'[live[r]][r] = edits + 1
        /\ \A g \in Gens, q \in Roots : g # live[r] \/ q # r => pay'[g][q] = pay[g][q]
    BY <1>1, <2>1, <2>2 DEF RootsTypes
  <2>4. RootsTypes'
    <3>1. at' \in [Roots -> -1..edits'] /\ stage' \in [Roots -> -1..edits']
      BY <1>1, <2>1 DEF RootsTypes
    <3>2. precious' \subseteq Roots \X (1..edits')
      BY <1>1 DEF RootsTypes
    <3>3. \A g \in Gens : g > gens' => \A q \in Roots : pay'[g][q] = 0
      BY <1>1, <2>2, <2>3 DEF RootsTypes, Gens
    <3> QED BY <3>1, <3>2, <3>3, <1>1, <2>3 DEF RootsTypes
  <2>5. RegisterInv'
    <3> SUFFICES ASSUME op.kind = "register"  PROVE RegisterInv'
      BY <1>2 DEF RegisterInv, SameRequest
    <3>1. \A q \in Roots : pay[op.gen][q] # 0 => pay'[op.gen][q] # 0
      <4>1. op.gen \in Gens
        BY OneGeneration DEF RequestInv
      <4>2. \A q \in Roots : pay'[op.gen][q] = pay[op.gen][q] \/ pay'[op.gen][q] = edits + 1
        BY <4>1, <2>2, <2>3
      <4> QED BY <4>2, <1>1
    <3>2. \A q \in Roots : at[q] > 0 => pay'[op.gen][q] = pay[op.gen][q]
      BY OneGeneration, <1>3, <2>3 DEF RequestInv, Link
    <3>3. \A j \in 1..Len(op.roots) : op.roots[j] \in Roots
      BY RequestRoots
    <3> QED BY <3>1, <3>2, <3>3, <1>1, <1>2, <2>1 DEF RegisterInv, SameRequest
  <2>6. RemovalInv'
    <3> SUFFICES ASSUME op.kind = "remove"  PROVE RemovalInv'
      BY <1>2 DEF RemovalInv, SameRequest
    <3>1. Root \in Roots /\ live[Root] \in Gens
      BY OneRoot, OneGeneration, RequestRoots DEF RemovalInv
    <3>2. pay'[live[Root]][Root] # 0
      BY <3>1, <1>1, <2>3 DEF RemovalInv
    <3>3. <<Root, op.val>> \in precious' => pay'[live[Root]][Root] = op.val
      BY <3>1, <1>1, <2>2, <2>3 DEF RemovalInv
    <3>4. op.gen # 0 => pay'[op.gen][Root] = 0
      BY <3>1, <2>2, <2>3, OneGeneration DEF RemovalInv
    <3> QED BY <3>2, <3>3, <3>4, <1>1, <1>2, <2>1 DEF RemovalInv, SameRequest
  <2>7. CopiesInv'
    <3> SUFFICES ASSUME op.kind # "none", op.gen # 0, NEW q \in Roots \ Range(op.roots)
                 PROVE  /\ live[q] # op.gen
                        /\ pay'[op.gen][q] # 0 =>
                             live[q] # 0 /\ (<<q, pay'[op.gen][q]>> \in precious' => pay'[live[q]][q] = pay'[op.gen][q])
      BY <1>1, <1>2 DEF CopiesInv, SameRequest
    <3>1. op.gen \in Gens /\ live[q] # op.gen
      BY OneRoot, OneGeneration DEF CopiesInv, RequestInv
    <3>2. pay'[op.gen][q] = pay[op.gen][q] /\ pay[op.gen][q] \in 0..edits
      BY <3>1, <2>3 DEF RootsTypes
    <3>3. ASSUME pay[op.gen][q] # 0, <<q, pay[op.gen][q]>> \in precious'
          PROVE  pay'[live[q]][q] = pay[op.gen][q]
      BY OneRoot, OneGeneration, <3>1, <3>2, <3>3, <1>1, <2>2, <2>3 DEF CopiesInv
    <3> QED BY <3>1, <3>2, <3>3 DEF CopiesInv
  <2>8. StagedInv'
    <3> SUFFICES ASSUME NEW q \in Roots, stage[q] > 0
                 PROVE  at'[q] = Link /\ live[q] # 0 /\ (<<q, stage[q]>> \in precious' => pay'[live[q]][q] = stage[q])
      BY <1>1 DEF StagedInv
    <3>1. at[q] = Link /\ live[q] # 0 /\ (<<q, stage[q]>> \in precious => pay[live[q]][q] = stage[q])
      BY DEF StagedInv
    <3>2. live[q] \in Gens /\ stage[q] \in -1..edits
      BY <3>1, OneRoot
    <3> QED BY <3>1, <3>2, <1>1, <2>1, <2>2, <2>3
  <2>9. TracedInv'
    BY <1>1, <2>1, <2>2, <2>3 DEF TracedInv, RootsTypes
  <2>10. NoContentLost'
    <3> SUFFICES ASSUME NEW x \in precious'
                 PROVE  (\/ at[x[1]] = x[2] \/ stage[x[1]] = x[2] \/ x \in kept
                         \/ \E g \in Gens : pay[g][x[1]] = x[2])'
      BY DEF NoContentLost
    <3>1. CASE x = <<r, edits + 1>>
      BY <3>1, <2>2, <2>3
    <3>2. CASE x \in precious /\ x # <<r, old>>
      <4>1. x[1] \in Roots /\ x = <<x[1], x[2]>> /\ (x[1] = r => x[2] # old)
        BY <3>2 DEF RootsTypes
      <4>2. \A g \in Gens : pay[g][x[1]] = x[2] => pay'[g][x[1]] = x[2]
        BY <4>1, <2>2, <2>3
      <4> QED BY <4>2, <3>2, <1>1, <2>1 DEF NoContentLost
    <3> QED BY <3>1, <3>2, <1>1
  <2> QED BY <1>2, <2>4, <2>5, <2>6, <2>7, <2>8, <2>9, <2>10
<1>4. CASE at[r] # Link
  <2>1. pay' = pay /\ at' = [at EXCEPT ![r] = edits + 1] /\ old = at[r] /\ at[r] > 0
    BY <1>1, <1>4 DEF Edit, RootsTypes, Link
  <2> HIDE DEF old
  <2>2. /\ at'[r] = edits + 1 /\ \A q \in Roots \ {r} : at'[q] = at[q]
        /\ at' \in [Roots -> -1..edits'] /\ stage' \in [Roots -> -1..edits']
        /\ pay' \in [Gens -> [Roots -> 0..edits']]
    BY <1>1, <2>1 DEF RootsTypes
  <2>3. \A q \in Roots, v \in 0..edits : <<q, v>> \in precious' => <<q, v>> \in precious
    BY <1>1
  <2>4. RootsTypes'
    <3>1. precious' \subseteq Roots \X (1..edits')
      BY <1>1 DEF RootsTypes
    <3> QED BY <3>1, <1>1, <2>1, <2>2 DEF RootsTypes
  <2>5. RegisterInv'
    <3>1. \A q \in Roots : at[q] > 0 => at'[q] > 0
      BY <1>1, <2>2
    <3> QED BY <3>1, <1>1, <1>2, <2>1, RequestRoots DEF RegisterInv, SameRequest
  <2>6. RemovalInv'
    <3> SUFFICES ASSUME op.kind = "remove"  PROVE RemovalInv'
      BY <1>2 DEF RemovalInv, SameRequest
    <3>1. Root \in Roots /\ op.val \in 1..edits
      BY RequestRoots DEF RemovalInv
    <3>2. at[Root] = Link => at'[Root] = Link
      BY <3>1, <1>4, <2>2
    <3> QED BY <3>1, <3>2, <2>3, <1>1, <1>2, <2>1 DEF RemovalInv, SameRequest
  <2>7. CopiesInv'
    <3> SUFFICES ASSUME op.kind # "none", op.gen # 0, NEW q \in Roots \ Range(op.roots),
                        pay[op.gen][q] # 0, <<q, pay[op.gen][q]>> \in precious'
                 PROVE  <<q, pay[op.gen][q]>> \in precious
      BY <1>1, <1>2, <2>1 DEF CopiesInv, SameRequest
    <3>1. op.gen \in Gens
      BY OneRoot, OneGeneration DEF RequestInv
    <3> QED BY <3>1, <2>3 DEF RootsTypes
  <2>8. StagedInv'
    BY <1>1, <1>4, <2>1, <2>2, <2>3 DEF StagedInv, RootsTypes
  <2>9. TracedInv'
    BY <1>1, <2>1, <2>2 DEF TracedInv
  <2>10. NoContentLost'
    <3> SUFFICES ASSUME NEW x \in precious'
                 PROVE  (\/ at[x[1]] = x[2] \/ stage[x[1]] = x[2] \/ x \in kept
                         \/ \E g \in Gens : pay[g][x[1]] = x[2])'
      BY DEF NoContentLost
    <3>1. CASE x = <<r, edits + 1>>
      BY <3>1, <2>2
    <3>2. CASE x \in precious /\ x # <<r, old>>
      <4>1. x[1] \in Roots /\ x = <<x[1], x[2]>> /\ (x[1] = r => x[2] # at[r])
        BY <3>2, <2>1 DEF RootsTypes
      <4> QED BY <4>1, <3>2, <1>1, <2>1, <2>2 DEF NoContentLost
    <3> QED BY <3>1, <3>2, <1>1
  <2> QED BY <1>2, <2>4, <2>5, <2>6, <2>7, <2>8, <2>9, <2>10
<1> QED BY <1>3, <1>4

LEMMA RootsAtRecreate ==
  ASSUME RootsInv, NEW r \in Roots, Recreate(r)
  PROVE  RootsInv'
<1> USE DEF RootsInv
<1>1. /\ edits' = edits + 1 /\ edits \in Nat \ {0} /\ precious' = precious \cup {<<r, edits + 1>>}
      /\ UNCHANGED <<stage, kept, live, pay, rows, primary, prime, recorded, op, gens>>
      /\ at[r] = 0 /\ at' = [at EXCEPT ![r] = edits + 1]
  BY DEF Recreate, RootsTypes, tableVars, limitVars
<1>2. RequestInv' /\ SameRequest /\ op'.step = op.step /\ op'.i = op.i /\ Root' = Root
  BY <1>1 DEF RequestInv, SameRequest, Root
<1>3. /\ at'[r] = edits + 1 /\ \A q \in Roots \ {r} : at'[q] = at[q]
      /\ at' \in [Roots -> -1..edits'] /\ stage' \in [Roots -> -1..edits']
      /\ pay' \in [Gens -> [Roots -> 0..edits']]
  BY <1>1 DEF RootsTypes
<1>4. \A q \in Roots, v \in 0..edits : <<q, v>> \in precious' => <<q, v>> \in precious
  BY <1>1
<1>5. RootsTypes'
  <2>1. precious' \subseteq Roots \X (1..edits')
    BY <1>1 DEF RootsTypes
  <2> QED BY <2>1, <1>1, <1>3 DEF RootsTypes
<1>6. RegisterInv'
  <2>1. \A q \in Roots : at[q] > 0 => at'[q] > 0
    BY <1>1, <1>3
  <2> QED BY <2>1, <1>1, <1>2, RequestRoots DEF RegisterInv, SameRequest
<1>7. RemovalInv'
  <2> SUFFICES ASSUME op.kind = "remove"  PROVE RemovalInv'
    BY <1>2 DEF RemovalInv, SameRequest
  <2>1. Root \in Roots /\ op.val \in 1..edits
    BY RequestRoots DEF RemovalInv
  <2>2. at[Root] = Link => at'[Root] = Link
    BY <2>1, <1>1, <1>3 DEF Link
  <2> QED BY <2>1, <2>2, <1>1, <1>2, <1>4 DEF RemovalInv, SameRequest
<1>8. CopiesInv'
  <2> SUFFICES ASSUME op.kind # "none", op.gen # 0, NEW q \in Roots \ Range(op.roots),
                      pay[op.gen][q] # 0, <<q, pay[op.gen][q]>> \in precious'
               PROVE  <<q, pay[op.gen][q]>> \in precious
    BY <1>1, <1>2 DEF CopiesInv, SameRequest
  <2>1. op.gen \in Gens
    BY OneRoot, OneGeneration DEF RequestInv
  <2> QED BY <2>1, <1>4 DEF RootsTypes
<1>9. StagedInv'
  BY <1>1, <1>3, <1>4 DEF StagedInv, RootsTypes, Link
<1>10. TracedInv'
  BY <1>1, <1>3 DEF TracedInv
<1>11. NoContentLost'
  <2> SUFFICES ASSUME NEW x \in precious'
               PROVE  (\/ at[x[1]] = x[2] \/ stage[x[1]] = x[2] \/ x \in kept
                       \/ \E g \in Gens : pay[g][x[1]] = x[2])'
    BY DEF NoContentLost
  <2>1. CASE x = <<r, edits + 1>>
    BY <2>1, <1>3
  <2>2. CASE x \in precious
    <3>1. x[1] \in Roots /\ x[2] \in 1..edits
      BY <2>2 DEF RootsTypes
    <3> QED BY <3>1, <2>2, <1>1, <1>3 DEF NoContentLost
  <2> QED BY <2>1, <2>2, <1>1
<1> QED BY <1>2, <1>5, <1>6, <1>7, <1>8, <1>9, <1>10, <1>11

LEMMA OrdersOfRoots ==
  ASSUME NEW s \in Orders
  PROVE  /\ s \in Seq(Roots) /\ 1 \in 1..Len(s) /\ DOMAIN s = 1..Len(s)
         /\ \A j \in 1..Len(s) : s[j] \in Roots
         /\ \A j, k \in 1..Len(s) : s[j] = s[k] => j = k
<1>1. Cardinality(Roots) \in Nat
  BY RootsConstants, FS_CardinalityType
<1>2. PICK n \in 1..Cardinality(Roots) : s \in [1..n -> Roots]
  BY DEF Orders
<1>3. IsInjective(s)
  BY DEF Orders
<1>4. n \in Nat /\ n >= 1
  BY <1>1, <1>2
<1>5. s \in Seq(Roots) /\ Len(s) = n /\ DOMAIN s = 1..n
  BY <1>2, <1>4
<1> QED BY <1>2, <1>3, <1>4, <1>5 DEF IsInjective

LEMMA RootsAtRegister ==
  ASSUME RootsInv, NEW s \in Orders, NEW p \in Roots \cup {NoRoot}, Register(s, p)
  PROVE  RootsInv'
<1> USE DEF RootsInv
<1>1. /\ UNCHANGED <<at, stage, kept, live, pay, rows, primary, recorded, edits, precious>>
      /\ gens < MaxGens /\ gens' = gens + 1
  BY DEF Register, diskVars, tableVars
<1>2. /\ s \in Seq(Roots) /\ 1 \in 1..Len(s) /\ DOMAIN s = 1..Len(s)
      /\ \A j \in 1..Len(s) : s[j] \in Roots
      /\ \A j, k \in 1..Len(s) : s[j] = s[k] => j = k
  BY OrdersOfRoots
<1>3. \A j \in 1..Len(s) : at[s[j]] > 0
  BY <1>2 DEF Register
<1>4. PICK m \in Roots \cup {NoRoot} :
        op' = [kind |-> "register", step |-> "move", roots |-> s, i |-> 1, gen |-> gens + 1,
               val |-> 0, was |-> FALSE, prev |-> primary, primary |-> m]
  <2>1. (IF p = NoRoot /\ rows = {} THEN s[1] ELSE p) \in Roots \cup {NoRoot}
    BY <1>2
  <2> QED BY <2>1 DEF Register, NoOp
<1>5. gens \in Nat /\ gens' \in 0..MaxGens
  BY <1>1, RootsConstants DEF RootsTypes
<1>6. RootsTypes'
  <2>1. live' \in [Roots -> 0..gens'] /\ recorded' \subseteq 1..gens'
    BY <1>1, <1>5 DEF RootsTypes
  <2>2. \A g \in Gens : g > gens' => \A r \in Roots : pay'[g][r] = 0
    BY <1>1, <1>5 DEF RootsTypes, Gens
  <2> QED BY <1>1, <1>5, <2>1, <2>2 DEF RootsTypes
<1>7. RequestInv'
  <2>1. gens + 1 \in 0..gens' /\ gens + 1 # 0 /\ primary \in Roots \cup {NoRoot}
    BY <1>1, <1>5 DEF RootsTypes
  <2> QED BY <2>1, <1>2, <1>4 DEF RequestInv, RegisterSteps
<1>8. RegisterInv'
  <2>1. \A j \in 1..Len(s) : stage[s[j]] <= 0
    <3> TAKE j \in 1..Len(s)
    <3>1. s[j] \in Roots /\ at[s[j]] > 0
      BY <1>2, <1>3
    <3>2. stage[s[j]] \in Int /\ at[s[j]] # Link
      BY <3>1, OneRoot DEF Link
    <3>3. ~(stage[s[j]] > 0)
      BY <3>1, <3>2 DEF StagedInv
    <3> QED BY <3>2, <3>3
  <2>2. \A q \in Roots : pay[gens + 1][q] = 0
    BY <1>5, <1>1 DEF RootsTypes, Gens
  <2> QED BY <2>1, <2>2, <1>1, <1>2, <1>3, <1>4 DEF RegisterInv
<1>9. RemovalInv'
  BY <1>4 DEF RemovalInv
<1>10. CopiesInv'
  <2>1. \A q \in Roots : live[q] # gens + 1 /\ pay[gens + 1][q] = 0
    BY <1>5, <1>1, OneRoot DEF RootsTypes, Gens
  <2> QED BY <2>1, <1>1, <1>4 DEF CopiesInv
<1>11. StagedInv' /\ TracedInv' /\ NoContentLost'
  BY <1>1 DEF StagedInv, TracedInv, NoContentLost
<1> QED BY <1>6, <1>7, <1>8, <1>9, <1>10, <1>11

(* The steps of a registration work on the directory they have come to.    *)
LEMMA Registering ==
  ASSUME RootsInv, op.kind = "register"
  PROVE  /\ Root \in Roots /\ op.gen \in Gens /\ op.i \in 1..Len(op.roots) /\ stage[Root] <= 0
         /\ \A j \in 1..Len(op.roots) : op.roots[j] \in Roots /\ (op.roots[j] = Root => j = op.i)
         /\ \A q \in Roots \ Range(op.roots) : q # Root /\ live[q] # op.gen
<1> USE DEF RootsInv
<1>1. /\ Root \in Range(op.roots) /\ op.i \in 1..Len(op.roots) /\ Root \in Roots
      /\ \A j \in 1..Len(op.roots) : op.roots[j] \in Roots
  BY RequestRoots
<1>2. op.gen \in Gens /\ op.gen # 0
  BY OneGeneration DEF RequestInv
<1>3. stage[Root] <= 0
  BY <1>1 DEF RegisterInv, Root
<1>4. \A j \in 1..Len(op.roots) : op.roots[j] = Root => j = op.i
  BY <1>1 DEF RequestInv, Root
<1> QED BY <1>1, <1>2, <1>3, <1>4 DEF CopiesInv

LEMMA RootsAtMove ==
  ASSUME RootsInv, Move
  PROVE  RootsInv'
<1> USE DEF RootsInv
<1>1. /\ op.kind = "register" /\ op.step = "move" /\ op' = [op EXCEPT !.step = "live"]
      /\ pay' = [pay EXCEPT ![op.gen][Root] = at[Root]] /\ at' = [at EXCEPT ![Root] = 0]
      /\ UNCHANGED <<stage, kept, live, rows, primary, recorded, gens, edits, precious>>
  BY DEF Move, On, Go, tableVars, limitVars
<1>2. RequestInv' /\ SameRequest /\ op'.step = "live" /\ op'.i = op.i
  BY <1>1, RequestGoesOn DEF RegisterSteps
<1>3. /\ Root \in Roots /\ op.gen \in Gens /\ op.i \in 1..Len(op.roots) /\ stage[Root] <= 0
      /\ \A j \in 1..Len(op.roots) : op.roots[j] \in Roots /\ (op.roots[j] = Root => j = op.i)
      /\ \A q \in Roots \ Range(op.roots) : q # Root /\ live[q] # op.gen
  BY <1>1, Registering
<1>4. at[Root] > 0 /\ at[Root] \in 1..edits
  <2>1. at[Root] > 0
    BY <1>1, <1>3 DEF RegisterInv, Root
  <2> QED BY <2>1, <1>3, OneRoot
<1>5. /\ pay' \in [Gens -> [Roots -> 0..edits]] /\ pay'[op.gen][Root] = at[Root]
      /\ \A g \in Gens, q \in Roots : g # op.gen \/ q # Root => pay'[g][q] = pay[g][q]
  BY <1>1, <1>3, <1>4 DEF RootsTypes
<1>6. at' \in [Roots -> -1..edits] /\ at'[Root] = 0 /\ \A q \in Roots \ {Root} : at'[q] = at[q]
  BY <1>1, <1>3 DEF RootsTypes
<1>7. pay[op.gen][Root] = 0
  BY <1>1, <1>3 DEF RegisterInv, Root
<1>8. RootsTypes'
  <2>1. \A g \in Gens : g > gens => \A q \in Roots : pay'[g][q] = 0
    BY <1>5, LaterGenerations
  <2> QED BY <2>1, <1>1, <1>5, <1>6 DEF RootsTypes
<1>9. RegisterInv'
  <2> SUFFICES ASSUME NEW j \in 1..Len(op.roots)
               PROVE  /\ stage[op.roots[j]] <= 0
                      /\ j < op.i \/ j = op.i => pay'[op.gen][op.roots[j]] # 0
                      /\ j > op.i => at'[op.roots[j]] > 0 /\ pay'[op.gen][op.roots[j]] = 0
    BY <1>1, <1>2 DEF RegisterInv, SameRequest
  <2>1. CASE j = op.i
    BY <2>1, <1>1, <1>3, <1>4, <1>5 DEF Root
  <2>2. CASE j # op.i
    BY <2>2, <1>1, <1>3, <1>5, <1>6 DEF RegisterInv
  <2> QED BY <2>1, <2>2
<1>10. RemovalInv'
  BY <1>1, <1>2 DEF RemovalInv, SameRequest
<1>11. CopiesInv'
  <2> SUFFICES ASSUME NEW q \in Roots \ Range(op.roots), pay'[op.gen][q] # 0
               PROVE  live[q] # 0 /\ (<<q, pay'[op.gen][q]>> \in precious => pay'[live[q]][q] = pay'[op.gen][q])
    BY <1>1, <1>2, <1>3 DEF CopiesInv, SameRequest
  <2>1. pay'[op.gen][q] = pay[op.gen][q]
    BY <1>3, <1>5
  <2>2. live[q] # 0 /\ (<<q, pay[op.gen][q]>> \in precious => pay[live[q]][q] = pay[op.gen][q])
    BY <1>1, <1>3, <2>1 DEF CopiesInv, RequestInv
  <2> QED BY <2>1, <2>2, <1>3, <1>5, OneRoot
<1>12. StagedInv'
  <2> SUFFICES ASSUME NEW q \in Roots, stage[q] > 0
               PROVE  at'[q] = Link /\ live[q] # 0 /\ (<<q, stage[q]>> \in precious => pay'[live[q]][q] = stage[q])
    BY <1>1 DEF StagedInv
  <2>0. q # Root
    <3>1. stage[Root] <= 0
      BY <1>3
    <3>2. stage[q] \in Int
      BY DEF RootsTypes
    <3>3. QED BY <3>1, <3>2
  <2>1. at[q] = Link /\ live[q] # 0 /\ (<<q, stage[q]>> \in precious => pay[live[q]][q] = stage[q]) /\ q # Root
    BY <2>0 DEF StagedInv
  <2>2. live[q] \in Gens
    BY <2>1, OneRoot
  <2> QED BY <2>1, <2>2, <1>5, <1>6
<1>13. TracedInv'
  BY <1>1, <1>3, <1>4, <1>5, <1>6 DEF TracedInv
<1>14. NoContentLost'
  <2> SUFFICES ASSUME NEW x \in precious
               PROVE  (\/ at[x[1]] = x[2] \/ stage[x[1]] = x[2] \/ x \in kept
                       \/ \E g \in Gens : pay[g][x[1]] = x[2])'
    BY <1>1 DEF NoContentLost
  <2>1. x[1] \in Roots /\ x[2] \in 1..edits
    BY DEF RootsTypes
  <2>2. at[x[1]] = x[2] \/ stage[x[1]] = x[2] \/ x \in kept \/ \E g \in Gens : pay[g][x[1]] = x[2]
    BY DEF NoContentLost
  <2>3. \A g \in Gens : pay[g][x[1]] = x[2] => pay'[g][x[1]] = x[2]
    BY <2>1, <1>5, <1>7
  <2>4. CASE x[1] = Root
    BY <2>1, <2>2, <2>3, <2>4, <1>1, <1>3, <1>5
  <2>5. CASE x[1] # Root
    BY <2>1, <2>2, <2>3, <2>5, <1>1, <1>6
  <2> QED BY <2>4, <2>5
<1> QED BY <1>2, <1>8, <1>9, <1>10, <1>11, <1>12, <1>13, <1>14

LEMMA RootsAtLinkLive ==
  ASSUME RootsInv, LinkLive
  PROVE  RootsInv'
<1> USE DEF RootsInv
<1>1. /\ op.kind = "register" /\ op.step = "live"
      /\ UNCHANGED <<at, stage, kept, pay, rows, primary, recorded, gens, edits, precious>>
  BY DEF LinkLive, On, tableVars, limitVars
<1>2. CASE live[Root] = 0
  <2>1. live' = [live EXCEPT ![Root] = op.gen] /\ op' = [op EXCEPT !.step = "link"]
    BY <1>2 DEF LinkLive, Go
  <2>2. RequestInv' /\ SameRequest /\ op'.step = "link" /\ op'.i = op.i
    BY <1>1, <2>1, RequestGoesOn DEF RegisterSteps
  <2>3. Root \in Roots /\ stage[Root] <= 0 /\ \A q \in Roots \ Range(op.roots) : q # Root
    BY <1>1, Registering
  <2>4. /\ live' \in [Roots -> 0..gens] /\ live'[Root] = op.gen /\ op.gen # 0
        /\ \A q \in Roots \ {Root} : live'[q] = live[q]
    BY <1>1, <2>1, <2>3, OneGeneration DEF RootsTypes, RequestInv
  <2>5. RootsTypes'
    BY <1>1, <2>4 DEF RootsTypes
  <2>6. RegisterInv'
    BY <1>1, <2>2 DEF RegisterInv, SameRequest
  <2>7. RemovalInv'
    BY <1>1, <2>2 DEF RemovalInv, SameRequest
  <2>8. CopiesInv'
    BY <1>1, <2>2, <2>3, <2>4 DEF CopiesInv, SameRequest
  <2>9. StagedInv'
    BY <1>1, <2>3, <2>4 DEF StagedInv, RootsTypes
  <2>10. TracedInv' /\ NoContentLost'
    BY <1>1, <2>3, <2>4 DEF TracedInv, NoContentLost
  <2> QED BY <2>2, <2>5, <2>6, <2>7, <2>8, <2>9, <2>10
<1>3. CASE live[Root] # 0
  <2>1. live' = live /\ op' = [op EXCEPT !.step = "back"]
    BY <1>3 DEF LinkLive, Go
  <2>2. UNCHANGED places /\ TablesTyped'
    BY <1>1, <2>1 DEF places, TablesTyped, RootsTypes
  <2> QED BY <1>1, <2>1, <2>2, QuietRegistration DEF RegisterSteps
<1> QED BY <1>2, <1>3

LEMMA RootsAtLinkPath ==
  ASSUME RootsInv, LinkPath
  PROVE  RootsInv'
<1> USE DEF RootsInv
<1>1. /\ op.kind = "register" /\ op.step = "link"
      /\ UNCHANGED <<stage, kept, live, pay, rows, primary, recorded, gens, edits, precious>>
  BY DEF LinkPath, On, tableVars, limitVars
<1>2. CASE at[Root] = 0
  <2>1. /\ at' = [at EXCEPT ![Root] = Link]
        /\ op' = IF op.i < Len(op.roots) THEN [op EXCEPT !.step = "move", !.i = @ + 1]
                 ELSE [op EXCEPT !.step = "rows"]
    BY <1>2 DEF LinkPath
  <2>2. /\ Root \in Roots /\ stage[Root] <= 0 /\ op.i \in 1..Len(op.roots)
        /\ \A j \in 1..Len(op.roots) : op.roots[j] \in Roots /\ (op.roots[j] = Root => j = op.i)
    BY <1>1, Registering
  <2>3. /\ RequestInv' /\ SameRequest
        /\ \/ op.i < Len(op.roots) /\ op'.step = "move" /\ op'.i = op.i + 1
           \/ op'.step = "rows" /\ op'.i = op.i
    <3>1. CASE op.i < Len(op.roots)
      <4>1. op' = [op EXCEPT !.step = "move", !.i = @ + 1] /\ op.i + 1 \in 1..Len(op.roots)
        BY <3>1, <2>1, <2>2
      <4>2. /\ SameRequest /\ op'.step = "move" /\ op'.i = op.i + 1
            /\ op'.was = op.was /\ op'.prev = op.prev /\ op'.primary = op.primary
            /\ op' = [kind |-> op'.kind, step |-> op'.step, roots |-> op'.roots, i |-> op'.i, gen |-> op'.gen,
                      val |-> op'.val, was |-> op'.was, prev |-> op'.prev, primary |-> op'.primary]
        BY <4>1 DEF RequestInv, SameRequest
      <4>3. op.i + 1 \in Nat /\ "move" \in RegisterSteps
        BY <2>2 DEF RegisterSteps
      <4>4. RequestInv'
        BY <4>1, <4>2, <4>3, <1>1 DEF RequestInv, SameRequest
      <4> QED BY <3>1, <4>2, <4>4
    <3>2. CASE ~(op.i < Len(op.roots))
      BY <3>2, <2>1, <1>1, RequestGoesOn DEF RegisterSteps
    <3> QED BY <3>1, <3>2
  <2>4. at' \in [Roots -> -1..edits] /\ at'[Root] = Link /\ \A q \in Roots \ {Root} : at'[q] = at[q]
    BY <2>1, <2>2 DEF RootsTypes, Link
  <2>5. RootsTypes'
    BY <1>1, <2>4 DEF RootsTypes
  <2>6. RegisterInv'
    <3> SUFFICES ASSUME NEW j \in 1..Len(op.roots)
                 PROVE  /\ stage[op.roots[j]] <= 0
                        /\ j < op'.i \/ (j = op'.i /\ op'.step = "rows") => pay[op.gen][op.roots[j]] # 0
                        /\ op'.step = "move" /\ (j > op'.i \/ j = op'.i) =>
                             at'[op.roots[j]] > 0 /\ pay[op.gen][op.roots[j]] = 0
      BY <1>1, <2>3 DEF RegisterInv, SameRequest
    <3>1. stage[op.roots[j]] <= 0 /\ (j < op.i \/ j = op.i => pay[op.gen][op.roots[j]] # 0)
      BY <1>1 DEF RegisterInv
    <3>2. j > op.i => at'[op.roots[j]] > 0 /\ pay[op.gen][op.roots[j]] = 0
      BY <1>1, <2>2, <2>4 DEF RegisterInv
    <3> QED BY <3>1, <3>2, <2>2, <2>3
  <2>7. RemovalInv' /\ CopiesInv'
    BY <1>1, <2>3 DEF RemovalInv, CopiesInv, SameRequest
  <2>8. StagedInv'
    BY <1>1, <2>2, <2>4 DEF StagedInv, RootsTypes
  <2>9. TracedInv'
    BY <1>1, <1>2, <2>2, <2>4 DEF TracedInv
  <2>10. NoContentLost'
    <3> SUFFICES ASSUME NEW x \in precious, at[x[1]] = x[2]  PROVE at'[x[1]] = x[2]
      BY <1>1 DEF NoContentLost
    <3>1. x[1] \in Roots /\ x[2] # 0
      BY DEF RootsTypes
    <3> QED BY <3>1, <1>2, <2>4
  <2> QED BY <2>3, <2>5, <2>6, <2>7, <2>8, <2>9, <2>10
<1>3. CASE at[Root] # 0
  <2>1. at' = at /\ op' = [op EXCEPT !.step = "back"]
    BY <1>3 DEF LinkPath, Go
  <2>2. UNCHANGED places /\ TablesTyped'
    BY <1>1, <2>1 DEF places, TablesTyped, RootsTypes
  <2> QED BY <1>1, <2>1, <2>2, QuietRegistration DEF RegisterSteps
<1> QED BY <1>2, <1>3

LEMMA RootsAtCapture ==
  ASSUME RootsInv, CaptureAll
  PROVE  RootsInv'
<1> USE DEF RootsInv
<1>1. /\ op.kind = "register" /\ op.step = "capture"
      /\ UNCHANGED <<at, stage, kept, live, rows, primary, recorded, gens, edits, precious>>
  BY DEF CaptureAll, On, tableVars, limitVars
<1>2. CASE \A r \in rows : Routed(r)
  <2>1. pay' = Copied(op.gen, rows) /\ op' = [op EXCEPT !.step = "insert"]
    BY <1>2 DEF CaptureAll, Go
  <2>2. RequestInv' /\ SameRequest /\ op'.step = "insert" /\ op'.i = op.i
    BY <1>1, <2>1, RequestGoesOn DEF RegisterSteps
  <2>3. /\ op.gen \in Gens /\ op.gen # 0 /\ \A j \in 1..Len(op.roots) : op.roots[j] \in Roots
        /\ \A q \in Roots \ Range(op.roots) : live[q] # op.gen
    BY <1>1, Registering DEF RequestInv
  <2>4. \A r \in rows : r \in Roots /\ live[r] \in Gens /\ live[r] # 0 /\ Source(r) = pay[live[r]][r] /\ Source(r) \in 0..edits
    BY <1>2, OneRoot DEF RootsTypes, Routed, Source
  <2>5. /\ \A g \in Gens \ {op.gen} : pay'[g] = pay[g]
        /\ pay'[op.gen] = [r \in Roots |-> IF r \in rows /\ pay[op.gen][r] = 0 THEN Source(r) ELSE pay[op.gen][r]]
    BY <2>1, <2>3 DEF Copied, RootsTypes
  <2>6. pay' \in [Gens -> [Roots -> 0..edits]]
    <3>1. pay'[op.gen] \in [Roots -> 0..edits]
      BY <2>3, <2>4, <2>5, OneRoot
    <3>2. pay' = [pay EXCEPT ![op.gen] = pay'[op.gen]]
      BY <2>1, <2>3, <2>5 DEF Copied, RootsTypes
    <3> QED BY <3>1, <3>2, <2>3 DEF RootsTypes
  <2>7. /\ \A g \in Gens, r \in Roots : pay[g][r] # 0 => pay'[g][r] = pay[g][r]
        /\ \A g \in Gens, r \in Roots : g # op.gen => pay'[g][r] = pay[g][r]
        /\ \A r \in Roots : pay'[op.gen][r] # pay[op.gen][r] => r \in rows /\ pay'[op.gen][r] = pay[live[r]][r]
    BY <2>3, <2>4, <2>5
  <2>8. RootsTypes'
    <3>2. \A g \in Gens : g > gens => \A q \in Roots : pay'[g][q] = 0
      BY <2>7, LaterGenerations
    <3> QED BY <3>2, <1>1, <2>6 DEF RootsTypes
  <2>9. RegisterInv'
    BY <1>1, <2>2, <2>3, <2>7 DEF RegisterInv, SameRequest
  <2>10. RemovalInv'
    BY <1>1, <2>2 DEF RemovalInv, SameRequest
  <2>11. CopiesInv'
    <3> SUFFICES ASSUME NEW q \in Roots \ Range(op.roots), pay'[op.gen][q] # 0
                 PROVE  live[q] # 0 /\ (<<q, pay'[op.gen][q]>> \in precious => pay'[live[q]][q] = pay'[op.gen][q])
      BY <1>1, <2>2, <2>3 DEF CopiesInv, SameRequest
    <3>1. live[q] # op.gen /\ (live[q] # 0 => live[q] \in Gens /\ pay'[live[q]][q] = pay[live[q]][q])
      BY <2>3, <2>7, OneRoot
    <3>2. CASE pay'[op.gen][q] # pay[op.gen][q]
      BY <3>1, <3>2, <2>4, <2>7
    <3>3. CASE pay'[op.gen][q] = pay[op.gen][q]
      BY <3>1, <3>3, <1>1, <2>3 DEF CopiesInv
    <3> QED BY <3>2, <3>3
  <2>12. StagedInv'
    <3> SUFFICES ASSUME NEW q \in Roots, stage[q] > 0
                 PROVE  at[q] = Link /\ live[q] # 0 /\ (<<q, stage[q]>> \in precious => pay'[live[q]][q] = stage[q])
      BY <1>1 DEF StagedInv
    <3>1. at[q] = Link /\ live[q] # 0 /\ (<<q, stage[q]>> \in precious => pay[live[q]][q] = stage[q])
      BY DEF StagedInv
    <3>2. live[q] \in Gens /\ stage[q] # 0
      BY <3>1, OneRoot
    <3> QED BY <3>1, <3>2, <2>7
  <2>13. TracedInv'
    BY <1>1, <2>7 DEF TracedInv
  <2>14. NoContentLost'
    <3> SUFFICES ASSUME NEW x \in precious, NEW g \in Gens, pay[g][x[1]] = x[2]  PROVE pay'[g][x[1]] = x[2]
      BY <1>1 DEF NoContentLost
    <3>1. x[1] \in Roots /\ x[2] # 0
      BY DEF RootsTypes
    <3> QED BY <3>1, <2>7
  <2> QED BY <2>2, <2>8, <2>9, <2>10, <2>11, <2>12, <2>13, <2>14
<1>3. CASE ~(\A r \in rows : Routed(r))
  <2>1. pay' = pay /\ op' = [op EXCEPT !.step = "unrow"]
    BY <1>3 DEF CaptureAll, Go
  <2>2. UNCHANGED places /\ TablesTyped'
    BY <1>1, <2>1 DEF places, TablesTyped, RootsTypes
  <2> QED BY <1>1, <2>1, <2>2, QuietRegistration DEF RegisterSteps
<1> QED BY <1>2, <1>3

LEMMA RootsAtUnlink ==
  ASSUME RootsInv, Unlink
  PROVE  RootsInv'
<1> USE DEF RootsInv
<1>1. /\ op.kind = "register" /\ op.step = "back" /\ op' = [op EXCEPT !.step = "moveback"]
      /\ at' = [at EXCEPT ![Root] = IF @ = Link THEN 0 ELSE @]
      /\ live' = [live EXCEPT ![Root] = IF @ = op.gen THEN 0 ELSE @]
      /\ UNCHANGED <<stage, kept, pay, rows, primary, recorded, gens, edits, precious>>
  BY DEF Unlink, On, Go, tableVars, limitVars
<1>2. RequestInv' /\ SameRequest /\ op'.step = "moveback" /\ op'.i = op.i
  BY <1>1, RequestGoesOn DEF RegisterSteps
<1>3. /\ Root \in Roots /\ op.gen \in Gens /\ op.i \in 1..Len(op.roots) /\ stage[Root] <= 0
      /\ \A q \in Roots \ Range(op.roots) : q # Root /\ live[q] # op.gen
  BY <1>1, Registering
<1>4. /\ at' \in [Roots -> -1..edits] /\ live' \in [Roots -> 0..gens]
      /\ at'[Root] = at[Root] \/ at[Root] = Link
      /\ \A q \in Roots \ {Root} : at'[q] = at[q] /\ live'[q] = live[q]
  BY <1>1, <1>3 DEF RootsTypes
<1>5. pay[op.gen][Root] # 0
  BY <1>1, <1>3 DEF RegisterInv, Root
<1>6. RootsTypes'
  BY <1>1, <1>4 DEF RootsTypes
<1>7. RegisterInv'
  BY <1>1, <1>2 DEF RegisterInv, SameRequest
<1>8. RemovalInv'
  BY <1>1, <1>2 DEF RemovalInv, SameRequest
<1>9. CopiesInv'
  BY <1>1, <1>2, <1>3, <1>4 DEF CopiesInv, SameRequest
<1>10. StagedInv'
  <2>1. \A q \in Roots : stage[q] > 0 => q # Root
    BY <1>3, OneRoot
  <2> QED BY <2>1, <1>1, <1>4 DEF StagedInv
<1>11. TracedInv'
  <2> SUFFICES ASSUME NEW r \in Roots  PROVE at'[r] > 0 \/ live'[r] # 0 \/ \E g \in Gens : pay[g][r] # 0
    BY <1>1 DEF TracedInv
  <2>1. CASE r = Root
    BY <2>1, <1>3, <1>5
  <2>2. CASE r # Root
    BY <2>2, <1>4 DEF TracedInv
  <2> QED BY <2>1, <2>2
<1>12. NoContentLost'
  <2> SUFFICES ASSUME NEW x \in precious, at[x[1]] = x[2]  PROVE at'[x[1]] = x[2]
    BY <1>1 DEF NoContentLost
  <2>1. x[1] \in Roots /\ x[2] # Link
    BY DEF RootsTypes, Link
  <2> QED BY <2>1, <1>4
<1> QED BY <1>2, <1>6, <1>7, <1>8, <1>9, <1>10, <1>11, <1>12

LEMMA RootsAtMoveBack ==
  ASSUME RootsInv, MoveBack
  PROVE  RootsInv'
<1> USE DEF RootsInv
<1>1. /\ op.kind = "register" /\ op.step = "moveback"
      /\ op' = IF op.i > 1 THEN [op EXCEPT !.step = "back", !.i = @ - 1] ELSE [op EXCEPT !.step = "discard"]
      /\ UNCHANGED <<stage, kept, live, rows, primary, recorded, gens, edits, precious>>
  BY DEF MoveBack, On, tableVars, limitVars
<1>2. /\ Root \in Roots /\ op.gen \in Gens /\ op.i \in 1..Len(op.roots) /\ stage[Root] <= 0
      /\ \A j \in 1..Len(op.roots) : op.roots[j] \in Roots /\ (op.roots[j] = Root => j = op.i)
      /\ \A q \in Roots \ Range(op.roots) : q # Root /\ live[q] # op.gen
  BY <1>1, Registering
<1>3. /\ RequestInv' /\ SameRequest
      /\ \/ op'.step = "back" /\ op'.i = op.i - 1
         \/ op'.step = "discard" /\ op'.i = op.i /\ ~(op.i > 1)
  <2>1. CASE op.i > 1
    <3>1. op' = [op EXCEPT !.step = "back", !.i = @ - 1] /\ op.i - 1 \in 1..Len(op.roots)
      BY <2>1, <1>1, <1>2
    <3>2. /\ SameRequest /\ op'.step = "back" /\ op'.i = op.i - 1
          /\ op'.was = op.was /\ op'.prev = op.prev /\ op'.primary = op.primary
          /\ op' = [kind |-> op'.kind, step |-> op'.step, roots |-> op'.roots, i |-> op'.i, gen |-> op'.gen,
                    val |-> op'.val, was |-> op'.was, prev |-> op'.prev, primary |-> op'.primary]
      BY <3>1 DEF RequestInv, SameRequest
    <3>3. op.i - 1 \in Nat /\ "back" \in RegisterSteps
      BY <3>1 DEF RegisterSteps
    <3>4. RequestInv'
      BY <3>1, <3>2, <3>3, <1>1 DEF RequestInv, SameRequest
    <3> QED BY <3>2, <3>4
  <2>2. CASE ~(op.i > 1)
    BY <2>2, <1>1, RequestGoesOn DEF RegisterSteps
  <2> QED BY <2>1, <2>2
<1>4. \/ at' = at /\ pay' = pay
      \/ /\ at[Root] = 0 /\ pay[op.gen][Root] # 0
         /\ at' = [at EXCEPT ![Root] = pay[op.gen][Root]]
         /\ pay' = [pay EXCEPT ![op.gen][Root] = 0]
  BY DEF MoveBack
<1>0. pay[op.gen][Root] \in 0..edits
  BY <1>2, OneRoot
<1>5. /\ at' \in [Roots -> -1..edits] /\ pay' \in [Gens -> [Roots -> 0..edits]]
      /\ \A q \in Roots \ {Root} : at'[q] = at[q]
      /\ \A g \in Gens, q \in Roots : g # op.gen \/ q # Root => pay'[g][q] = pay[g][q]
  <2>1. CASE at' = at /\ pay' = pay
    BY <2>1 DEF RootsTypes
  <2>2. CASE at' = [at EXCEPT ![Root] = pay[op.gen][Root]] /\ pay' = [pay EXCEPT ![op.gen][Root] = 0]
    BY <2>2, <1>0, <1>2 DEF RootsTypes
  <2> QED BY <2>1, <2>2, <1>4
<1>6. \/ at'[Root] = at[Root] /\ pay'[op.gen][Root] = pay[op.gen][Root]
      \/ at[Root] = 0 /\ at'[Root] = pay[op.gen][Root] /\ at'[Root] > 0
  <2>1. CASE at' = at /\ pay' = pay
    BY <2>1
  <2>2. CASE at[Root] = 0 /\ pay[op.gen][Root] # 0 /\ at' = [at EXCEPT ![Root] = pay[op.gen][Root]]
    BY <2>2, <1>0, <1>2 DEF RootsTypes
  <2> QED BY <2>1, <2>2, <1>4
<1>7. RootsTypes'
  <2>1. \A g \in Gens : g > gens => \A q \in Roots : pay'[g][q] = 0
    BY <1>5, LaterGenerations
  <2> QED BY <2>1, <1>1, <1>5 DEF RootsTypes
<1>8. RegisterInv'
  <2> SUFFICES ASSUME NEW j \in 1..Len(op.roots)
               PROVE  /\ stage[op.roots[j]] <= 0
                      /\ j < op'.i \/ (j = op'.i /\ op'.step # "discard") => pay'[op.gen][op.roots[j]] # 0
    BY <1>1, <1>3 DEF RegisterInv, SameRequest
  <2>1. stage[op.roots[j]] <= 0 /\ (j < op.i => pay[op.gen][op.roots[j]] # 0)
    BY <1>1 DEF RegisterInv
  <2>2. j < op.i => pay'[op.gen][op.roots[j]] = pay[op.gen][op.roots[j]]
    BY <1>2, <1>5
  <2> QED BY <2>1, <2>2, <1>2, <1>3
<1>9. RemovalInv'
  BY <1>1, <1>3 DEF RemovalInv, SameRequest
<1>10. CopiesInv'
  <2> SUFFICES ASSUME NEW q \in Roots \ Range(op.roots), pay'[op.gen][q] # 0
               PROVE  live[q] # 0 /\ (<<q, pay'[op.gen][q]>> \in precious => pay'[live[q]][q] = pay'[op.gen][q])
    BY <1>1, <1>2, <1>3 DEF CopiesInv, SameRequest
  <2>1. pay'[op.gen][q] = pay[op.gen][q]
    BY <1>2, <1>5
  <2>2. live[q] # 0 /\ (<<q, pay[op.gen][q]>> \in precious => pay[live[q]][q] = pay[op.gen][q])
    BY <1>1, <1>2, <2>1 DEF CopiesInv, RequestInv
  <2> QED BY <2>1, <2>2, <1>2, <1>5, OneRoot
<1>11. StagedInv'
  <2> SUFFICES ASSUME NEW q \in Roots, stage[q] > 0
               PROVE  at'[q] = Link /\ live[q] # 0 /\ (<<q, stage[q]>> \in precious => pay'[live[q]][q] = stage[q])
    BY <1>1 DEF StagedInv
  <2>0. q # Root
    <3>1. stage[Root] <= 0
      BY <1>2
    <3>2. stage[q] \in Int
      BY DEF RootsTypes
    <3>3. QED BY <3>1, <3>2
  <2>1. at[q] = Link /\ live[q] # 0 /\ (<<q, stage[q]>> \in precious => pay[live[q]][q] = stage[q]) /\ q # Root
    BY <2>0 DEF StagedInv
  <2>2. live[q] \in Gens
    BY <2>1, OneRoot
  <2> QED BY <2>1, <2>2, <1>5
<1>12. TracedInv'
  <2> SUFFICES ASSUME NEW r \in Roots  PROVE at'[r] > 0 \/ live[r] # 0 \/ \E g \in Gens : pay'[g][r] # 0
    BY <1>1 DEF TracedInv
  <2>1. at[r] > 0 \/ live[r] # 0 \/ \E g \in Gens : pay[g][r] # 0
    BY DEF TracedInv
  <2>2. CASE r # Root
    BY <2>1, <2>2, <1>5
  <2>3. CASE r = Root
    <3>1. CASE at'[Root] > 0
      BY <3>1, <2>3
    <3>2. CASE at'[Root] = at[Root] /\ pay'[op.gen][Root] = pay[op.gen][Root]
      <4>1. \A g \in Gens : pay'[g][Root] = pay[g][Root]
        BY <3>2, <1>2, <1>5
      <4> QED BY <4>1, <3>2, <2>1, <2>3
    <3> QED BY <3>1, <3>2, <1>6
  <2> QED BY <2>2, <2>3
<1>13. NoContentLost'
  <2> SUFFICES ASSUME NEW x \in precious
               PROVE  (\/ at[x[1]] = x[2] \/ stage[x[1]] = x[2] \/ x \in kept
                       \/ \E g \in Gens : pay[g][x[1]] = x[2])'
    BY <1>1 DEF NoContentLost
  <2>1. x[1] \in Roots /\ x[2] # 0
    BY DEF RootsTypes
  <2>2. at[x[1]] = x[2] \/ stage[x[1]] = x[2] \/ x \in kept \/ \E g \in Gens : pay[g][x[1]] = x[2]
    BY DEF NoContentLost
  <2>3. at[x[1]] = x[2] => at'[x[1]] = x[2]
    BY <2>1, <1>5, <1>6
  <2>4. \A g \in Gens : pay[g][x[1]] = x[2] => pay'[g][x[1]] = x[2] \/ at'[x[1]] = x[2]
    BY <2>1, <1>2, <1>5, <1>6
  <2> QED BY <2>2, <2>3, <2>4, <1>1
<1> QED BY <1>3, <1>7, <1>8, <1>9, <1>10, <1>11, <1>12, <1>13

(* A generation that holds nothing of the request's own roots can go: what *)
(* else is in it are copies.                                               *)
LEMMA DiscardLosesNothing ==
  ASSUME RootsInv, op.kind # "none", op.gen # 0, \A r \in Range(op.roots) : pay[op.gen][r] = 0
  PROVE  /\ Discarded(op.gen) \in [Gens -> [Roots -> 0..edits]]
         /\ \A g \in Gens : g > gens => \A r \in Roots : Discarded(op.gen)[g][r] = 0
         /\ \A g \in Gens \ {op.gen}, r \in Roots : Discarded(op.gen)[g][r] = pay[g][r]
         /\ \A r \in Roots : live[r] # 0 \/ ((\E g \in Gens : pay[g][r] # 0) => \E g \in Gens : Discarded(op.gen)[g][r] # 0)
         /\ \A x \in precious : (\E g \in Gens : pay[g][x[1]] = x[2]) => \E g \in Gens : Discarded(op.gen)[g][x[1]] = x[2]
<1> USE DEF RootsInv
<1>1. op.gen \in Gens
  BY OneGeneration
<1>2. /\ Discarded(op.gen) \in [Gens -> [Roots -> 0..edits]]
      /\ \A g \in Gens \ {op.gen}, r \in Roots : Discarded(op.gen)[g][r] = pay[g][r]
      /\ \A r \in Roots : Discarded(op.gen)[op.gen][r] = 0
  BY <1>1 DEF Discarded, RootsTypes
<1> HIDE DEF Discarded
<1>3. \A g \in Gens : g > gens => \A r \in Roots : Discarded(op.gen)[g][r] = 0
  BY <1>2, LaterGenerations
<1>4. \A r \in Roots : pay[op.gen][r] # 0 => r \notin Range(op.roots) /\ live[r] # 0 /\ live[r] # op.gen
  BY DEF CopiesInv
<1>5. ASSUME NEW r \in Roots, live[r] = 0, NEW g \in Gens, pay[g][r] # 0
      PROVE  \E h \in Gens : Discarded(op.gen)[h][r] # 0
  BY <1>2, <1>4, <1>5
<1>6. ASSUME NEW x \in precious, NEW g \in Gens, pay[g][x[1]] = x[2]
      PROVE  \E h \in Gens : Discarded(op.gen)[h][x[1]] = x[2]
  <2>1. x[1] \in Roots /\ x[2] # 0 /\ x = <<x[1], x[2]>>
    BY DEF RootsTypes
  <2>2. CASE g # op.gen
    BY <2>1, <2>2, <1>2, <1>6
  <2>3. CASE g = op.gen
    <3>1. live[x[1]] # 0 /\ live[x[1]] # op.gen /\ pay[live[x[1]]][x[1]] = x[2]
      BY <2>1, <2>3, <1>4, <1>6 DEF CopiesInv
    <3>2. live[x[1]] \in Gens
      BY <2>1, <3>1, OneRoot
    <3> QED BY <2>1, <3>1, <3>2, <1>2
  <2> QED BY <2>2, <2>3
<1> QED BY <1>2, <1>3, <1>5, <1>6

LEMMA RootsAtDiscard ==
  ASSUME RootsInv, DiscardRegistration
  PROVE  RootsInv'
<1> USE DEF RootsInv
<1>1. /\ op.kind = "register" /\ op' = NoOp
      /\ UNCHANGED <<at, stage, kept, live, rows, primary, recorded, gens, edits, precious>>
  BY DEF DiscardRegistration, On, tableVars, limitVars
<1>2. CASE NoneStranded
  <2>1. pay' = Discarded(op.gen)
    BY <1>2 DEF DiscardRegistration
  <2>2. op.gen # 0 /\ \A r \in Range(op.roots) : pay[op.gen][r] = 0
    BY <1>1, <1>2, RequestRoots DEF NoneStranded, RequestInv
  <2>3. RootsTypes' /\ TracedInv'
    BY <1>1, <2>1, <2>2, DiscardLosesNothing DEF RootsTypes, TracedInv
  <2>4. StagedInv'
    <3> SUFFICES ASSUME NEW q \in Roots, stage[q] > 0
                 PROVE  at[q] = Link /\ live[q] # 0 /\ (<<q, stage[q]>> \in precious => pay'[live[q]][q] = stage[q])
      BY <1>1 DEF StagedInv
    <3>1. at[q] = Link /\ live[q] # 0 /\ (<<q, stage[q]>> \in precious => pay[live[q]][q] = stage[q])
      BY DEF StagedInv
    <3>2. q \notin Range(op.roots)
      <4>1. stage[q] \in Int /\ ~(stage[q] <= 0)
        BY OneRoot
      <4>2. \A j \in 1..Len(op.roots) : stage[op.roots[j]] <= 0
        BY <1>1 DEF RegisterInv
      <4> QED BY <4>1, <4>2, <1>1, RequestRoots
    <3>3. live[q] # op.gen /\ live[q] \in Gens
      BY <1>1, <2>2, <3>1, <3>2, OneRoot DEF CopiesInv
    <3> QED BY <1>1, <2>1, <2>2, <3>1, <3>3, DiscardLosesNothing
  <2>5. NoContentLost'
    <3>1. \A x \in precious : (\E g \in Gens : pay[g][x[1]] = x[2]) => \E g \in Gens : pay'[g][x[1]] = x[2]
      BY <1>1, <2>1, <2>2, DiscardLosesNothing
    <3> QED BY <3>1, <1>1 DEF NoContentLost
  <2> QED BY <1>1, <2>3, <2>4, <2>5, RequestEnds
<1>3. CASE ~NoneStranded
  <2>1. UNCHANGED places /\ TablesTyped'
    BY <1>1, <1>3 DEF DiscardRegistration, places, TablesTyped, RootsTypes
  <2> QED BY <2>1, <1>1, QuietEnd
<1> QED BY <1>2, <1>3

LEMMA RootsAtRemoveRoot ==
  ASSUME RootsInv, NEW r \in Roots, RemoveRoot(r)
  PROVE  RootsInv'
<1> USE DEF RootsInv
<1> DEFINE rest == rows \ {r}
           fresh == IF rest = {} THEN 0 ELSE gens + 1
<1>1. /\ UNCHANGED <<at, stage, kept, live, rows, primary, recorded, edits, precious>>
      /\ op = NoOp /\ r \in rows /\ at[r] = Link /\ live[r] # 0 /\ pay[live[r]][r] # 0
      /\ \A q \in rest : Routed(q)
      /\ rest # {} => gens < MaxGens
      /\ op' = [kind |-> "remove", step |-> "stage", roots |-> <<r>>, i |-> 1, gen |-> fresh, val |-> pay[live[r]][r],
                was |-> (primary = r), prev |-> NoRoot, primary |-> NoRoot]
      /\ IF rest = {} THEN UNCHANGED <<gens, pay>> ELSE gens' = gens + 1 /\ pay' = Copied(gens + 1, rest)
  BY DEF RemoveRoot, Routed, Source, NoOp, tableVars
<1>2. /\ live[r] \in Gens /\ pay[live[r]][r] \in 1..edits /\ gens \in Nat /\ live[r] \in 0..gens
      /\ \A q \in rest : q \in Roots /\ live[q] # 0 /\ live[q] \in Gens
  BY <1>1, OneRoot DEF RootsTypes, Routed
<1>3. /\ gens' \in 0..MaxGens /\ gens' >= gens /\ fresh \in 0..gens' /\ live[r] # fresh
      /\ (fresh # 0 => fresh \in Gens /\ fresh = gens + 1 /\ gens' = gens + 1)
  <2>1. CASE rest = {}
    BY <1>1, <1>2, <2>1 DEF RootsTypes
  <2>2. CASE rest # {}
    <3>1. gens < MaxGens /\ gens' = gens + 1 /\ fresh = gens + 1
      BY <1>1, <2>2
    <3> QED BY <3>1, <1>2, RootsConstants DEF Gens
  <2> QED BY <2>1, <2>2
<1>4. /\ pay' \in [Gens -> [Roots -> 0..edits]]
      /\ \A g \in Gens, q \in Roots : g # fresh => pay'[g][q] = pay[g][q]
      /\ fresh # 0 => \A q \in Roots : pay[fresh][q] = 0
      /\ fresh # 0 => pay'[fresh][r] = 0
      /\ fresh # 0 => \A q \in Roots : pay'[fresh][q] # 0 => q \in rest /\ pay'[fresh][q] = pay[live[q]][q]
  <2>1. CASE rest = {}
    BY <1>1, <2>1 DEF RootsTypes
  <2>2. CASE rest # {}
    <3>1. fresh = gens + 1 /\ fresh \in Gens /\ pay' = Copied(fresh, rest)
      BY <1>1, <1>2, <1>3, <2>2
    <3>2. \A q \in Roots : pay[fresh][q] = 0
      <4>1. fresh > gens
        BY <3>1, <1>2
      <4> QED BY <3>1, <4>1 DEF RootsTypes
    <3>3. pay' = [pay EXCEPT ![fresh] = [q \in Roots |-> IF q \in rest THEN pay[live[q]][q] ELSE 0]]
      BY <3>1, <3>2 DEF Copied, Source, RootsTypes
    <3>4. [q \in Roots |-> IF q \in rest THEN pay[live[q]][q] ELSE 0] \in [Roots -> 0..edits]
      BY <1>2, OneRoot
    <3>5. /\ pay'[fresh] = [q \in Roots |-> IF q \in rest THEN pay[live[q]][q] ELSE 0]
          /\ \A g \in Gens : g # fresh => pay'[g] = pay[g]
          /\ pay' \in [Gens -> [Roots -> 0..edits]]
      BY <3>1, <3>3, <3>4 DEF RootsTypes
    <3> QED BY <3>1, <3>2, <3>5
  <2> QED BY <2>1, <2>2
<1> HIDE DEF fresh
<1>5. RootsTypes'
  <2>1. live' \in [Roots -> 0..gens'] /\ recorded' \subseteq 1..gens'
    BY <1>1, <1>2, <1>3 DEF RootsTypes
  <2>2. \A g \in Gens : g > gens' => \A q \in Roots : pay'[g][q] = 0
    <3> SUFFICES ASSUME NEW g \in Gens, g > gens', NEW q \in Roots  PROVE pay'[g][q] = 0
      OBVIOUS
    <3>1. g # fresh /\ g > gens
      BY <1>2, <1>3 DEF Gens
    <3> QED BY <3>1, <1>4 DEF RootsTypes
  <2> QED BY <2>1, <2>2, <1>1, <1>3, <1>4 DEF RootsTypes
<1>6. RequestInv'
  <2>1. <<r>> \in Seq(Roots) /\ Len(<<r>>) = 1 /\ pay[live[r]][r] \in Nat
    BY <1>2, OneRoot
  <2> QED BY <2>1, <1>1, <1>3 DEF RequestInv, RemoveSteps
<1>7. op'.kind = "remove" /\ op'.step = "stage" /\ op'.roots = <<r>> /\ op'.i = 1 /\ op'.gen = fresh
      /\ op'.val = pay[live[r]][r] /\ Root' = r
  BY <1>1 DEF Root
<1>8. RegisterInv'
  BY <1>7 DEF RegisterInv
<1>9. RemovalInv'
  <2>1. pay'[live[r]][r] = pay[live[r]][r]
    BY <1>2, <1>3, <1>4
  <2>2. fresh \notin recorded
    BY <1>2, <1>3 DEF RootsTypes
  <2> QED BY <2>1, <2>2, <1>1, <1>2, <1>3, <1>4, <1>7 DEF RemovalInv, Exchanged
<1>10. CopiesInv'
  <2> SUFFICES ASSUME fresh # 0, NEW q \in Roots \ Range(<<r>>)
               PROVE  live[q] # fresh /\ (pay'[fresh][q] # 0 => live[q] # 0 /\ pay'[live[q]][q] = pay'[fresh][q])
    BY <1>1, <1>7 DEF CopiesInv
  <2>1. live[q] # fresh
    BY <1>2, <1>3, OneRoot
  <2> QED BY <2>1, <1>2, <1>4
<1>11. StagedInv'
  <2> SUFFICES ASSUME NEW q \in Roots, stage[q] > 0
               PROVE  at[q] = Link /\ live[q] # 0 /\ (<<q, stage[q]>> \in precious => pay'[live[q]][q] = stage[q])
    BY <1>1 DEF StagedInv
  <2>1. live[q] # 0
    BY DEF StagedInv
  <2>2. live[q] \in Gens /\ live[q] # fresh
    BY <2>1, <1>2, <1>3, OneRoot
  <2> QED BY <2>2, <1>4 DEF StagedInv
<1>12. \A g \in Gens, q \in Roots : pay[g][q] # 0 => pay'[g][q] = pay[g][q]
  BY <1>4 DEF Gens
<1>13. TracedInv'
  BY <1>1, <1>12 DEF TracedInv
<1>14. NoContentLost'
  <2> SUFFICES ASSUME NEW x \in precious, NEW g \in Gens, pay[g][x[1]] = x[2]  PROVE pay'[g][x[1]] = x[2]
    BY <1>1 DEF NoContentLost
  <2>1. x[1] \in Roots /\ x[2] # 0
    BY DEF RootsTypes
  <2> QED BY <2>1, <1>12
<1> QED BY <1>5, <1>6, <1>8, <1>9, <1>10, <1>11, <1>13, <1>14

LEMMA Removing ==
  ASSUME RootsInv, op.kind = "remove"
  PROVE  /\ Root \in Roots /\ Range(op.roots) = {Root} /\ op.val \in 1..edits
         /\ live[Root] # 0 /\ live[Root] # op.gen /\ live[Root] \in Gens /\ pay[live[Root]][Root] # 0
         /\ op.gen # 0 => \A q \in Range(op.roots) : pay[op.gen][q] = 0
         /\ op.gen # 0 => \A q \in Roots : live[q] # op.gen
         /\ <<Root, op.val>> \in precious => pay[live[Root]][Root] = op.val
<1> USE DEF RootsInv
<1>1. Root \in Roots /\ Range(op.roots) = {Root}
  BY RequestRoots
<1> QED BY <1>1, OneRoot DEF RemovalInv, CopiesInv

LEMMA RootsAtMaterialize ==
  ASSUME RootsInv, Materialize
  PROVE  RootsInv'
<1> USE DEF RootsInv
<1>1. /\ op.kind = "remove" /\ op.step = "stage" /\ op' = [op EXCEPT !.step = "check"]
      /\ stage' = [stage EXCEPT ![Root] = op.val]
      /\ UNCHANGED <<at, kept, live, pay, rows, primary, recorded, gens, edits, precious>>
  BY DEF Materialize, On, Go, tableVars, limitVars
<1>2. RequestInv' /\ SameRequest /\ op'.step = "check" /\ Root' = Root
  BY <1>1, RequestGoesOn DEF RemoveSteps
<1>3. /\ Root \in Roots /\ op.val \in 1..edits /\ live[Root] # 0 /\ live[Root] \in Gens /\ at[Root] = Link
      /\ <<Root, op.val>> \in precious => pay[live[Root]][Root] = op.val
  BY <1>1, Removing DEF RemovalInv
<1>4. /\ stage' \in [Roots -> -1..edits] /\ stage'[Root] = op.val
      /\ \A q \in Roots \ {Root} : stage'[q] = stage[q]
  BY <1>1, <1>3 DEF RootsTypes
<1>5. RootsTypes'
  BY <1>1, <1>4 DEF RootsTypes
<1>6. RegisterInv'
  BY <1>1, <1>2 DEF RegisterInv, SameRequest
<1>7. RemovalInv'
  BY <1>1, <1>2, <1>4 DEF RemovalInv, SameRequest, Exchanged
<1>8. CopiesInv'
  BY <1>1, <1>2 DEF CopiesInv, SameRequest
<1>9. StagedInv'
  BY <1>1, <1>3, <1>4 DEF StagedInv
<1>10. TracedInv'
  BY <1>1 DEF TracedInv
<1>11. NoContentLost'
  <2> SUFFICES ASSUME NEW x \in precious, stage[x[1]] = x[2], x[1] = Root
               PROVE  \E g \in Gens : pay[g][x[1]] = x[2]
    <3>1. \A x \in precious : x[1] \in Roots
      BY DEF RootsTypes
    <3> QED BY <3>1, <1>1, <1>4 DEF NoContentLost
  <2>1. x = <<Root, stage[Root]>> /\ stage[Root] > 0
    BY DEF RootsTypes
  <2> QED BY <2>1, <1>3 DEF StagedInv
<1> QED BY <1>2, <1>5, <1>6, <1>7, <1>8, <1>9, <1>10, <1>11

LEMMA RootsAtDrop ==
  ASSUME RootsInv, Drop
  PROVE  RootsInv'
<1> USE DEF RootsInv
<1>1. /\ op.kind = "remove" /\ op.step = "drop" /\ op' = NoOp /\ stage' = [stage EXCEPT ![Root] = 0]
      /\ pay' = IF op.gen = 0 THEN pay ELSE Discarded(op.gen)
      /\ UNCHANGED <<at, kept, live, rows, primary, recorded, gens, edits, precious>>
  BY DEF Drop, On, tableVars, limitVars
<1>2. /\ Root \in Roots /\ live[Root] # 0 /\ live[Root] \in Gens
      /\ op.gen # 0 => \A q \in Range(op.roots) : pay[op.gen][q] = 0
      /\ op.gen # 0 => \A q \in Roots : live[q] # op.gen
  BY <1>1, Removing
<1>3. /\ stage' \in [Roots -> -1..edits] /\ stage'[Root] = 0 /\ \A q \in Roots \ {Root} : stage'[q] = stage[q]
  BY <1>1, <1>2 DEF RootsTypes
<1>4. /\ pay' \in [Gens -> [Roots -> 0..edits]]
      /\ \A g \in Gens : g > gens => \A q \in Roots : pay'[g][q] = 0
      /\ \A q \in Roots : live[q] # 0 => pay'[live[q]][q] = pay[live[q]][q]
      /\ \A q \in Roots : live[q] # 0 \/ ((\E g \in Gens : pay[g][q] # 0) => \E g \in Gens : pay'[g][q] # 0)
      /\ \A x \in precious : (\E g \in Gens : pay[g][x[1]] = x[2]) => \E g \in Gens : pay'[g][x[1]] = x[2]
  <2>1. CASE op.gen = 0
    BY <1>1, <2>1 DEF RootsTypes
  <2>2. CASE op.gen # 0
    BY <1>1, <1>2, <2>2, DiscardLosesNothing, OneRoot
  <2> QED BY <2>1, <2>2
<1>5. RootsTypes'
  BY <1>1, <1>3, <1>4 DEF RootsTypes
<1>6. StagedInv'
  BY <1>1, <1>3, <1>4 DEF StagedInv
<1>7. TracedInv'
  BY <1>1, <1>4 DEF TracedInv
<1>8. NoContentLost'
  <2> SUFFICES ASSUME NEW x \in precious, stage[x[1]] = x[2], x[1] = Root
               PROVE  \E g \in Gens : pay[g][x[1]] = x[2]
    <3>1. \A x \in precious : x[1] \in Roots
      BY DEF RootsTypes
    <3> QED BY <3>1, <1>1, <1>3, <1>4 DEF NoContentLost
  <2>1. x = <<Root, stage[Root]>> /\ stage[Root] > 0
    BY DEF RootsTypes
  <2> QED BY <2>1, <1>2 DEF StagedInv
<1> QED BY <1>1, <1>5, <1>6, <1>7, <1>8, RequestEnds

LEMMA RootsAtSwap ==
  ASSUME RootsInv, SwapOut
  PROVE  RootsInv'
<1> USE DEF RootsInv
<1>1. /\ op.kind = "remove" /\ op.step = "swap" /\ op' = [op EXCEPT !.step = "row"]
      /\ at' = [at EXCEPT ![Root] = stage[Root]] /\ stage' = [stage EXCEPT ![Root] = at[Root]]
      /\ UNCHANGED <<kept, live, pay, rows, primary, recorded, gens, edits, precious>>
  BY DEF SwapOut, Swapped, On, Go, tableVars, limitVars
<1>2. RequestInv' /\ SameRequest /\ op'.step = "row" /\ Root' = Root
  BY <1>1, RequestGoesOn DEF RemoveSteps, Exchanged
<1>3. Root \in Roots /\ op.val \in 1..edits /\ at[Root] = Link /\ stage[Root] = op.val
  BY <1>1, Removing DEF RemovalInv
<1>4. /\ stage' \in [Roots -> -1..edits] /\ stage'[Root] = Link /\ \A q \in Roots \ {Root} : stage'[q] = stage[q]
      /\ at' \in [Roots -> -1..edits] /\ at'[Root] = op.val /\ \A q \in Roots \ {Root} : at'[q] = at[q]
  BY <1>1, <1>3 DEF RootsTypes
<1>5. RootsTypes'
  BY <1>1, <1>4 DEF RootsTypes
<1>6. RegisterInv'
  BY <1>1, <1>2 DEF RegisterInv, SameRequest
<1>7. RemovalInv'
  BY <1>1, <1>2, <1>4 DEF RemovalInv, SameRequest, Exchanged
<1>8. CopiesInv'
  BY <1>1, <1>2 DEF CopiesInv, SameRequest
<1>9. StagedInv'
  BY <1>1, <1>3, <1>4 DEF StagedInv, Link
<1>10. TracedInv'
  BY <1>1, <1>3, <1>4 DEF TracedInv
<1>11. NoContentLost'
  <2>1. \A x \in precious : x[1] \in Roots /\ x[2] # Link
    BY DEF RootsTypes, Link
  <2> QED BY <2>1, <1>1, <1>3, <1>4 DEF NoContentLost
<1> QED BY <1>2, <1>5, <1>6, <1>7, <1>8, <1>9, <1>10, <1>11

LEMMA RootsAtUnstage ==
  ASSUME RootsInv, Unstage
  PROVE  RootsInv'
<1> USE DEF RootsInv
<1>1. /\ op.kind = "remove" /\ op.step = "unstage" /\ op' = [op EXCEPT !.step = "unlive"]
      /\ stage' = [stage EXCEPT ![Root] = 0]
      /\ UNCHANGED <<at, kept, live, pay, rows, primary, recorded, gens, edits, precious>>
  BY DEF Unstage, On, Go, tableVars, limitVars
<1>2. RequestInv' /\ SameRequest /\ op'.step = "unlive" /\ Root' = Root
  BY <1>1, RequestGoesOn DEF RemoveSteps
<1>3. Root \in Roots /\ stage[Root] = Link
  BY <1>1, Removing DEF RemovalInv, Exchanged
<1>4. stage' \in [Roots -> -1..edits] /\ stage'[Root] = 0 /\ \A q \in Roots \ {Root} : stage'[q] = stage[q]
  BY <1>1, <1>3 DEF RootsTypes
<1>5. RootsTypes'
  BY <1>1, <1>4 DEF RootsTypes
<1>6. RegisterInv'
  BY <1>1, <1>2 DEF RegisterInv, SameRequest
<1>7. RemovalInv'
  BY <1>1, <1>2, <1>4 DEF RemovalInv, SameRequest, Exchanged
<1>8. CopiesInv'
  BY <1>1, <1>2 DEF CopiesInv, SameRequest
<1>9. StagedInv'
  BY <1>1, <1>3, <1>4 DEF StagedInv
<1>10. TracedInv'
  BY <1>1 DEF TracedInv
<1>11. NoContentLost'
  <2>1. \A x \in precious : x[1] \in Roots /\ x[2] # Link
    BY DEF RootsTypes, Link
  <2> QED BY <2>1, <1>1, <1>3, <1>4 DEF NoContentLost
<1> QED BY <1>2, <1>5, <1>6, <1>7, <1>8, <1>9, <1>10, <1>11

LEMMA RootsAtUnmap ==
  ASSUME RootsInv, Unmap
  PROVE  RootsInv'
<1> USE DEF RootsInv
<1>1. /\ op.kind = "remove" /\ op.step = "unlive" /\ op' = NoOp /\ live' = [live EXCEPT ![Root] = 0]
      /\ UNCHANGED <<at, stage, kept, pay, rows, primary, recorded, gens, edits, precious>>
  BY DEF Unmap, On, tableVars, limitVars
<1>2. Root \in Roots /\ stage[Root] = 0 /\ live[Root] \in Gens /\ pay[live[Root]][Root] # 0
  BY <1>1, Removing DEF RemovalInv
<1>3. live' \in [Roots -> 0..gens] /\ live'[Root] = 0 /\ \A q \in Roots \ {Root} : live'[q] = live[q]
  BY <1>1, <1>2 DEF RootsTypes
<1>4. RootsTypes'
  BY <1>1, <1>3 DEF RootsTypes
<1>5. StagedInv'
  BY <1>1, <1>2, <1>3 DEF StagedInv
<1>6. TracedInv'
  BY <1>1, <1>2, <1>3 DEF TracedInv
<1>7. NoContentLost'
  BY <1>1 DEF NoContentLost
<1> QED BY <1>1, <1>4, <1>5, <1>6, <1>7, RequestEnds

(* What was written in the copy is set aside, unless the store has it too. *)
LEMMA RootsAtSwapBack ==
  ASSUME RootsInv, SwapBack
  PROVE  RootsInv'
<1> USE DEF RootsInv
<1>1. /\ op.kind = "remove" /\ op.step = "unswap" /\ op' = NoOp
      /\ at' = [at EXCEPT ![Root] = stage[Root]] /\ stage' = [stage EXCEPT ![Root] = 0]
      /\ kept' = IF at[Root] = op.val THEN kept ELSE kept \cup {<<Root, at[Root]>>}
      /\ pay' = IF Unpublished(op.gen) THEN Discarded(op.gen) ELSE pay
      /\ UNCHANGED <<live, rows, primary, recorded, gens, edits, precious>>
  BY DEF SwapBack, Swapped, SetAside, On, tableVars, limitVars
<1>2. /\ Root \in Roots /\ live[Root] # 0 /\ live[Root] \in Gens /\ stage[Root] = Link
      /\ op.gen # 0 => \A q \in Range(op.roots) : pay[op.gen][q] = 0
      /\ op.gen # 0 => \A q \in Roots : live[q] # op.gen
      /\ <<Root, op.val>> \in precious => pay[live[Root]][Root] = op.val
  BY <1>1, Removing DEF RemovalInv, Exchanged
<1>3. /\ stage' \in [Roots -> -1..edits] /\ stage'[Root] = 0 /\ \A q \in Roots \ {Root} : stage'[q] = stage[q]
      /\ at' \in [Roots -> -1..edits] /\ at'[Root] = Link /\ \A q \in Roots \ {Root} : at'[q] = at[q]
  BY <1>1, <1>2 DEF RootsTypes, Link
<1>4. /\ pay' \in [Gens -> [Roots -> 0..edits]]
      /\ \A g \in Gens : g > gens => \A q \in Roots : pay'[g][q] = 0
      /\ \A q \in Roots : live[q] # 0 => pay'[live[q]][q] = pay[live[q]][q]
      /\ \A q \in Roots : live[q] # 0 \/ ((\E g \in Gens : pay[g][q] # 0) => \E g \in Gens : pay'[g][q] # 0)
      /\ \A x \in precious : (\E g \in Gens : pay[g][x[1]] = x[2]) => \E g \in Gens : pay'[g][x[1]] = x[2]
  <2>1. CASE ~Unpublished(op.gen)
    BY <1>1, <2>1 DEF RootsTypes
  <2>2. CASE Unpublished(op.gen)
    <3>1. op.gen # 0
      BY <2>2 DEF Unpublished
    <3> QED BY <1>1, <1>2, <2>2, <3>1, DiscardLosesNothing, OneRoot
  <2> QED BY <2>1, <2>2
<1>5. RootsTypes'
  BY <1>1, <1>3, <1>4 DEF RootsTypes
<1>6. StagedInv'
  BY <1>1, <1>3, <1>4 DEF StagedInv
<1>7. TracedInv'
  BY <1>1, <1>2, <1>3, <1>4 DEF TracedInv
<1>8. NoContentLost'
  <2> SUFFICES ASSUME NEW x \in precious
               PROVE  (\/ at[x[1]] = x[2] \/ stage[x[1]] = x[2] \/ x \in kept
                       \/ \E g \in Gens : pay[g][x[1]] = x[2])'
    BY <1>1 DEF NoContentLost
  <2>1. x[1] \in Roots /\ x[2] # Link /\ x = <<x[1], x[2]>>
    BY DEF RootsTypes, Link
  <2>2. at[x[1]] = x[2] \/ stage[x[1]] = x[2] \/ x \in kept \/ \E g \in Gens : pay[g][x[1]] = x[2]
    BY DEF NoContentLost
  <2>3. CASE x[1] = Root /\ at[x[1]] = x[2]
    <3>1. CASE x[2] = op.val
      BY <3>1, <2>1, <2>3, <1>2, <1>4
    <3>2. CASE x[2] # op.val
      BY <3>2, <2>1, <2>3, <1>1
    <3> QED BY <3>1, <3>2
  <2>4. CASE x[1] # Root /\ (at[x[1]] = x[2] \/ stage[x[1]] = x[2])
    BY <2>1, <2>4, <1>3
  <2>5. CASE x \in kept
    BY <2>5, <1>1
  <2>6. CASE \E g \in Gens : pay[g][x[1]] = x[2]
    BY <2>6, <1>4
  <2> QED BY <2>1, <2>2, <2>3, <2>4, <2>5, <2>6, <1>2
<1> QED BY <1>1, <1>5, <1>6, <1>7, <1>8, RequestEnds

(* The steps in the tables.                                                *)
LEMMA RootsAtTables ==
  ASSUME RootsInv,
         \/ AddRows \/ DeleteRows \/ RemoveRow \/ PassPrimary \/ RestoreRow
         \/ Insert \/ SetPrime \/ SetActive \/ Recapture
  PROVE  RootsInv'
<1> USE DEF RootsInv
<1>1. UNCHANGED places
  BY DEF AddRows, DeleteRows, RemoveRow, PassPrimary, RestoreRow, Insert, SetPrime, SetActive, Recapture,
         places, diskVars, limitVars, tableVars
<1>2. /\ op.kind \in {"none", "register", "remove"} /\ (op.kind = "none" => op.step = "none")
      /\ op.kind = "remove" => op.step \in RemoveSteps
      /\ op.primary \in Roots \cup {NoRoot} /\ op.prev \in Roots \cup {NoRoot} /\ op.gen \in 0..gens
  BY DEF RequestInv, NoOp
<1>3. op.kind # "none" => Root \in Roots /\ Range(op.roots) \subseteq Roots
  BY RequestRoots
<1>4. /\ rows \subseteq Roots /\ primary \in Roots \cup {NoRoot} /\ recorded \subseteq 1..gens
      /\ gens' = gens /\ gens \in Nat
  BY <1>1 DEF places, RootsTypes
<1>5. CASE AddRows
  <2>1. op.kind = "register" /\ op.step = "rows" /\ op' = [op EXCEPT !.step = "capture"]
    BY <1>5 DEF AddRows, On, Go
  <2>2. TablesTyped'
    BY <1>2, <1>3, <1>4, <1>5, <2>1 DEF AddRows, TablesTyped
  <2> QED BY <1>1, <2>1, <2>2, QuietRegistration DEF RegisterSteps
<1>6. CASE DeleteRows
  <2>1. op.kind = "register" /\ op.step = "unrow" /\ op' = [op EXCEPT !.step = "back"]
    BY <1>6 DEF DeleteRows, On, Go
  <2>2. TablesTyped'
    BY <1>2, <1>4, <1>6 DEF DeleteRows, TablesTyped
  <2> QED BY <1>1, <2>1, <2>2, QuietRegistration DEF RegisterSteps
<1>7. CASE RemoveRow
  <2>1. op.kind = "remove" /\ op.step = "row" /\ op' = [op EXCEPT !.step = "primary"]
    BY <1>7 DEF RemoveRow, On, Go
  <2>2. TablesTyped'
    BY <1>4, <1>7 DEF RemoveRow, TablesTyped
  <2> QED BY <1>1, <2>1, <2>2, QuietRemoval DEF RemoveSteps, Exchanged
<1>8. CASE PassPrimary
  <2>1. op.kind = "remove" /\ op.step = "primary" /\ op' = [op EXCEPT !.step = "insert"]
    BY <1>8 DEF PassPrimary, On, Go
  <2>2. TablesTyped'
    BY <1>4, <1>8 DEF PassPrimary, TablesTyped
  <2> QED BY <1>1, <2>1, <2>2, QuietRemoval DEF RemoveSteps, Exchanged
<1>9. CASE RestoreRow
  <2>1. op.kind = "remove" /\ op.step = "unrow" /\ op' = [op EXCEPT !.step = "unswap"]
    BY <1>9 DEF RestoreRow, On, Go
  <2>2. TablesTyped'
    BY <1>3, <1>4, <1>9, <2>1 DEF RestoreRow, TablesTyped
  <2> QED BY <1>1, <2>1, <2>2, QuietRemoval DEF RemoveSteps, Exchanged
<1>10. CASE Recapture
  <2>1. /\ op.kind = "remove" /\ op.step = "check"
        /\ op' = [op EXCEPT !.step = "swap"] \/ (op' = [op EXCEPT !.step = "drop"] /\ recorded' = recorded)
    BY <1>10 DEF Recapture, On, Go, tableVars
  <2>2. TablesTyped'
    BY <1>4, <1>10 DEF Recapture, TablesTyped, tableVars
  <2> QED BY <1>1, <2>1, <2>2, QuietRemoval DEF RemoveSteps, Exchanged
<1>11. CASE Insert \/ SetPrime
  <2>1. PICK t \in {"prime", "active"} : op' = [op EXCEPT !.step = t]
    BY <1>11 DEF Insert, SetPrime, Go
  <2>2. op.step \in {"insert", "prime"} /\ op.kind # "none"
    BY <1>2, <1>11 DEF Insert, SetPrime
  <2>3. TablesTyped'
    <3>1. {op.gen} \ {0} \subseteq 1..gens
      BY <1>2, <1>4
    <3>2. UNCHANGED <<rows, primary>> /\ (recorded' = recorded \/ recorded' = recorded \cup ({op.gen} \ {0}))
      BY <1>11 DEF Insert, SetPrime
    <3> QED BY <3>1, <3>2, <1>4 DEF TablesTyped
  <2>4. CASE op.kind = "register"
    <3>1. t \in RegisterSteps \ {"move", "live", "link"} /\ op.step \notin {"move", "discard"}
      BY <2>2 DEF RegisterSteps
    <3> QED BY <1>1, <2>1, <2>3, <2>4, <3>1, QuietRegistration
  <2>5. CASE op.kind = "remove"
    <3>1. t \in RemoveSteps /\ t \in Exchanged /\ op.step \in Exchanged
      BY <2>2 DEF RemoveSteps, Exchanged
    <3> QED BY <1>1, <2>1, <2>3, <2>5, <3>1, QuietRemoval
  <2> QED BY <1>2, <2>2, <2>4, <2>5
<1>12. CASE SetActive
  <2>1. TablesTyped' /\ op.step = "active" /\ op.kind # "none"
    BY <1>2, <1>4, <1>12 DEF SetActive, TablesTyped, tableVars
  <2>2. CASE op.kind = "register"
    <3>1. op' = NoOp
      BY <1>12, <2>2 DEF SetActive
    <3> QED BY <1>1, <2>1, <3>1, QuietEnd
  <2>3. CASE op.kind = "remove"
    <3>1. op' = [op EXCEPT !.step = "unstage"]
      BY <1>12, <2>3 DEF SetActive
    <3> QED BY <1>1, <2>1, <2>3, <3>1, QuietRemoval DEF RemoveSteps, Exchanged
  <2> QED BY <1>2, <2>1, <2>2, <2>3
<1> QED BY <1>5, <1>6, <1>7, <1>8, <1>9, <1>10, <1>11, <1>12

(* An exception: the handler it meets does nothing by itself.              *)
LEMMA RootsAtFailure ==
  ASSUME RootsInv, StepFails
  PROVE  RootsInv'
<1> USE DEF RootsInv
<1>1. /\ UNCHANGED places /\ TablesTyped' /\ recorded' = recorded
      /\ op' = Handler /\ op # NoOp /\ op.step \notin {"discard", "drop"}
  BY DEF StepFails, places, TablesTyped, RootsTypes, diskVars, tableVars
<1>2. \/ op.kind = "register" /\ op.step \in RegisterSteps
      \/ op.kind = "remove" /\ op.step \in RemoveSteps
  BY <1>1 DEF RequestInv
<1>3. CASE op.kind = "register" /\ op.step = "move"
  <2>1. op' = IF op.i > 1 THEN [op EXCEPT !.step = "back", !.i = @ - 1] ELSE [op EXCEPT !.step = "discard"]
    BY <1>1, <1>3 DEF Handler
  <2>2. op.i \in 1..Len(op.roots) /\ \A j \in 1..Len(op.roots) : op.roots[j] \in Roots
    BY <1>3, RequestRoots
  <2>3. /\ RequestInv' /\ SameRequest
        /\ \/ op'.step = "back" /\ op'.i = op.i - 1
           \/ op'.step = "discard" /\ op'.i = op.i /\ ~(op.i > 1)
    <3>0. gens' = gens
      BY <1>1 DEF places
    <3>1. CASE op.i > 1
      <4>1. op' = [op EXCEPT !.step = "back", !.i = @ - 1] /\ op.i - 1 \in 1..Len(op.roots)
        BY <3>1, <2>1, <2>2
      <4>2. /\ SameRequest /\ op'.step = "back" /\ op'.i = op.i - 1
            /\ op'.was = op.was /\ op'.prev = op.prev /\ op'.primary = op.primary
            /\ op' = [kind |-> op'.kind, step |-> op'.step, roots |-> op'.roots, i |-> op'.i, gen |-> op'.gen,
                      val |-> op'.val, was |-> op'.was, prev |-> op'.prev, primary |-> op'.primary]
        BY <4>1 DEF RequestInv, SameRequest
      <4>3. op.i - 1 \in Nat /\ "back" \in RegisterSteps
        BY <4>1 DEF RegisterSteps
      <4>4. RequestInv'
        BY <4>1, <4>2, <4>3, <3>0, <1>3 DEF RequestInv, SameRequest
      <4> QED BY <4>2, <4>4
    <3>2. CASE ~(op.i > 1)
      BY <3>0, <3>2, <2>1, <1>3, RequestGoesOn DEF RegisterSteps
    <3> QED BY <3>1, <3>2
  <2>4. RegisterInv'
    <3> SUFFICES ASSUME NEW j \in 1..Len(op.roots)
                 PROVE  /\ stage[op.roots[j]] <= 0
                        /\ j < op'.i \/ (j = op'.i /\ op'.step # "discard") => pay[op.gen][op.roots[j]] # 0
      BY <1>1, <1>3, <2>3 DEF RegisterInv, SameRequest, places
    <3>1. stage[op.roots[j]] <= 0 /\ (j < op.i => pay[op.gen][op.roots[j]] # 0)
      BY <1>3 DEF RegisterInv
    <3> QED BY <3>1, <2>2, <2>3
  <2>5. RemovalInv'
    BY <1>3, <2>3 DEF RemovalInv, SameRequest
  <2> QED BY <1>1, <2>3, <2>4, <2>5, QuietStep
<1>4. CASE op.kind = "register" /\ op.step \in {"live", "link", "rows", "capture", "insert", "prime", "active"}
  <2>1. PICK t \in {"back", "unrow"} : op' = [op EXCEPT !.step = t]
    BY <1>1, <1>4 DEF Handler
  <2>2. t \in RegisterSteps \ {"move", "live", "link"}
    BY DEF RegisterSteps
  <2> QED BY <1>1, <1>4, <2>1, <2>2, QuietRegistration
<1>5. CASE op.kind = "register" /\ op.step \in {"unrow", "back", "moveback"}
  <2>1. op' = NoOp
    BY <1>1, <1>5 DEF Handler
  <2> QED BY <1>1, <2>1, QuietEnd
<1>6. CASE op.kind = "remove" /\ op.step \in {"stage", "check"}
  <2>1. op' = [op EXCEPT !.step = "drop"]
    BY <1>1, <1>6 DEF Handler
  <2> QED BY <1>1, <1>6, <2>1, QuietRemoval DEF RemoveSteps
<1>7. CASE op.kind = "remove" /\ op.step \in {"row", "primary", "insert", "prime", "active", "unrow"}
  <2>1. PICK t \in {"unrow", "unswap"} : op' = [op EXCEPT !.step = t]
    BY <1>1, <1>7 DEF Handler
  <2>2. t \in RemoveSteps /\ t \in Exchanged /\ op.step \in Exchanged
    BY <1>7 DEF RemoveSteps, Exchanged
  <2> QED BY <1>1, <1>7, <2>1, <2>2, QuietRemoval
<1>8. CASE op.kind = "remove" /\ op.step \in {"swap", "unstage", "unlive", "unswap"}
  <2>1. op' = NoOp
    BY <1>1, <1>8 DEF Handler
  <2> QED BY <1>1, <2>1, QuietEnd
<1> QED BY <1>1, <1>2, <1>3, <1>4, <1>5, <1>6, <1>7, <1>8 DEF RegisterSteps, RemoveSteps, Exchanged

LEMMA RootsAtKill ==
  ASSUME RootsInv, Killed
  PROVE  RootsInv'
<1>1. UNCHANGED places /\ TablesTyped' /\ op' = NoOp
  BY DEF Killed, RootsInv, RootsTypes, places, TablesTyped, diskVars, tableVars
<1> QED BY <1>1, QuietEnd

LEMMA RootsRest ==
  ASSUME RootsInv, UNCHANGED rootsVars
  PROVE  RootsInv'
<1> USE DEF RootsInv
<1>1. UNCHANGED places /\ op' = op /\ TablesTyped' /\ Root' = Root /\ SameRequest /\ recorded' = recorded
  BY DEF rootsVars, diskVars, tableVars, limitVars, places, TablesTyped, RootsTypes, Root, SameRequest
<1>2. RequestInv' /\ RegisterInv'
  BY <1>1 DEF RequestInv, RegisterInv, places
<1>3. RemovalInv'
  BY <1>1 DEF RemovalInv, places
<1> QED BY <1>1, <1>2, <1>3, QuietStep

(* Every way through register, remove and their rollbacks, with an         *)
(* exception or a death anywhere and the operator writing all along: what  *)
(* a step removes or overwrites is a copy of something that stays          *)
(* (roots.py).                                                             *)
THEOREM RootsInvariance == RootsSpec => []RootsInv
<1>1. RootsInv /\ [RootsNext]_rootsVars => RootsInv'
  <2> SUFFICES ASSUME RootsInv, [RootsNext]_rootsVars PROVE RootsInv'
    OBVIOUS
  <2>1. ASSUME NEW r \in Roots, Edit(r) \/ Recreate(r) \/ RemoveRoot(r) PROVE RootsInv'
    BY <2>1, RootsAtEdit, RootsAtRecreate, RootsAtRemoveRoot
  <2>2. ASSUME NEW s \in Orders, NEW p \in Roots \cup {NoRoot}, Register(s, p) PROVE RootsInv'
    BY <2>2, RootsAtRegister
  <2>3. CASE Move \/ LinkLive \/ LinkPath \/ CaptureAll
    BY <2>3, RootsAtMove, RootsAtLinkLive, RootsAtLinkPath, RootsAtCapture
  <2>4. CASE Unlink \/ MoveBack \/ DiscardRegistration
    BY <2>4, RootsAtUnlink, RootsAtMoveBack, RootsAtDiscard
  <2>5. CASE Materialize \/ Drop \/ SwapOut
    BY <2>5, RootsAtMaterialize, RootsAtDrop, RootsAtSwap
  <2>6. CASE Unstage \/ Unmap \/ SwapBack
    BY <2>6, RootsAtUnstage, RootsAtUnmap, RootsAtSwapBack
  <2>7. CASE \/ AddRows \/ DeleteRows \/ RemoveRow \/ PassPrimary \/ RestoreRow
             \/ Insert \/ SetPrime \/ SetActive \/ Recapture
    BY <2>7, RootsAtTables
  <2>8. CASE StepFails \/ Killed
    BY <2>8, RootsAtFailure, RootsAtKill
  <2>9. CASE UNCHANGED rootsVars
    BY <2>9, RootsRest
  <2> QED BY <2>1, <2>2, <2>3, <2>4, <2>5, <2>6, <2>7, <2>8, <2>9 DEF RootsNext
<1> QED BY RootsBegin, <1>1, PTL DEF RootsSpec

(* What the operator wrote last is never lost to a registration or a       *)
(* removal, whatever fails (roots.py, register, remove).                   *)
THEOREM RootsLoseNothing == RootsSpec => []NoContentLost
<1>1. RootsInv => NoContentLost
  BY DEF RootsInv
<1> QED BY <1>1, RootsInvariance, PTL

(* A directory that is not at its path when the requests are over is one   *)
(* the doctor reports, or of a recorded world (controller.py).             *)
THEOREM DoctorSeesAll == RootsSpec => []DoctorIsComplete
<1>1. RootsInv => DoctorIsComplete
  <2> SUFFICES ASSUME RootsInv, NEW r \in Roots, r \notin rows, at[r] <= 0
               PROVE  DoctorReports(r) \/ \E g \in recorded : pay[g][r] # 0
    BY DEF DoctorIsComplete, DoctorReports
  <2>1. live[r] # 0 \/ \E g \in Gens : pay[g][r] # 0
    BY OneRoot DEF RootsInv, TracedInv
  <2> QED BY <2>1 DEF DoctorReports
<1> QED BY <1>1, RootsInvariance, PTL

(* A removal that fails takes no payload of a recorded world with it       *)
(* (roots.py, _discard_unpublished).                                       *)
THEOREM RemovalsKeepWorlds == RootsSpec => RemovalKeepsWorlds
<1>1. RootsInv /\ [RootsNext]_rootsVars =>
        [op.kind = "remove" => \A g \in recorded : \A r \in Roots : pay[g][r] # 0 => pay'[g][r] # 0]_rootsVars
  <2> SUFFICES ASSUME RootsInv, RootsNext, op.kind = "remove", NEW g \in recorded, NEW q \in Roots, pay[g][q] # 0
               PROVE  pay'[g][q] # 0
    OBVIOUS
  <2>0. g \in Gens /\ op # NoOp
    BY RootsConstants DEF RootsInv, RootsTypes, Gens, NoOp
  <2>1. CASE \E r \in Roots : Edit(r)
    <3>1. PICK r \in Roots : Edit(r)
      BY <2>1
    <3>2. CASE at[r] = Link
      <4>1. /\ pay' = [pay EXCEPT ![live[r]][r] = edits + 1] /\ live[r] # 0 /\ edits + 1 # 0
        BY <3>1, <3>2 DEF Edit, Routed, RootsInv, RootsTypes
      <4>2. live[r] \in Gens
        BY <4>1, OneRoot DEF RootsInv
      <4> QED BY <2>0, <4>1, <4>2 DEF RootsInv, RootsTypes
    <3>3. CASE at[r] # Link
      BY <3>1, <3>3 DEF Edit
    <3> QED BY <3>2, <3>3
  <2>2. CASE Drop
    <3>1. op.gen \notin recorded
      BY <2>2 DEF Drop, On, RootsInv, RemovalInv
    <3>2. pay' = pay \/ pay' = Discarded(op.gen)
      BY <2>2 DEF Drop
    <3> QED BY <2>0, <3>1, <3>2 DEF Discarded, RootsInv, RootsTypes
  <2>3. CASE SwapBack
    <3>1. pay' = pay \/ (pay' = Discarded(op.gen) /\ op.gen \notin recorded)
      BY <2>3 DEF SwapBack, Unpublished
    <3> QED BY <2>0, <3>1 DEF Discarded, RootsInv, RootsTypes
  <2>4. CASE pay' = pay
    BY <2>4
  <2>5. (\E r \in Roots : Edit(r)) \/ Drop \/ SwapBack \/ pay' = pay
    <3>1. \A r \in Roots : (Recreate(r) => pay' = pay) /\ ~RemoveRoot(r)
      BY <2>0 DEF Recreate, RemoveRoot
    <3>2. \A s \in Orders, p \in Roots \cup {NoRoot} : ~Register(s, p)
      BY <2>0 DEF Register
    <3>3. ~Move /\ ~LinkLive /\ ~LinkPath /\ ~AddRows /\ ~CaptureAll /\ ~DeleteRows /\ ~Unlink /\ ~MoveBack
          /\ ~DiscardRegistration
      BY DEF Move, LinkLive, LinkPath, AddRows, CaptureAll, DeleteRows, Unlink, MoveBack, DiscardRegistration, On
    <3>4. Insert \/ SetPrime \/ SetActive \/ Materialize \/ Recapture \/ SwapOut => pay' = pay
      BY DEF Insert, SetPrime, SetActive, Materialize, Recapture, SwapOut, diskVars
    <3>5. RemoveRow \/ PassPrimary \/ Unstage \/ Unmap \/ RestoreRow \/ StepFails \/ Killed => pay' = pay
      BY DEF RemoveRow, PassPrimary, Unstage, Unmap, RestoreRow, StepFails, Killed, diskVars
    <3> QED BY <3>1, <3>2, <3>3, <3>4, <3>5 DEF RootsNext
  <2> QED BY <2>1, <2>2, <2>3, <2>4, <2>5
<1> QED BY <1>1, RootsInvariance, PTL DEF RootsSpec, RemovalKeepsWorlds

(* The mark of the primary root.                                           *)
LEMMA MarkAtEnd ==
  ASSUME MarkInv, op' = NoOp, UNCHANGED <<rows, primary>>,
         op.kind # "remove" \/ op.step \notin {"primary", "unrow"}
  PROVE  MarkInv'
BY DEF MarkInv, NoOp

LEMMA MarkInRegistration ==
  ASSUME MarkInv, UNCHANGED <<rows, primary>>, op.kind = "register", op'.kind = "register",
         op'.roots = op.roots, op'.prev = op.prev, op'.primary = op.primary,
         op'.step \in {"move", "live", "link", "rows"} => op.step \in {"move", "live", "link", "rows"}
  PROVE  MarkInv'
BY DEF MarkInv

Unmoved == {"stage", "check", "drop", "swap", "row"}

LEMMA MarkInRemoval ==
  ASSUME RootsInv, MarkInv, UNCHANGED <<rows, primary>>, op.kind = "remove", NEW t, op' = [op EXCEPT !.step = t],
         op.step \notin {"primary", "unrow", "unswap"} \/ t = "unrow",
         t \notin {"primary", "unswap"}, t = "unrow" => faults' # 0,
         t \in Unmoved => op.step \in Unmoved
  PROVE  MarkInv'
<1>1. op'.kind = "remove" /\ op'.was = op.was /\ op'.step = t /\ Root' = Root
  BY DEF RootsInv, RequestInv, Root
<1> QED BY <1>1 DEF MarkInv, Unmoved

(* In a registration.                                                      *)
LEMMA MarkAtRegisterSteps ==
  ASSUME RootsInv, MarkInv, op.kind = "register",
         \/ Move \/ LinkLive \/ LinkPath \/ AddRows \/ CaptureAll \/ Insert \/ SetPrime \/ SetActive
         \/ DeleteRows \/ Unlink \/ MoveBack \/ DiscardRegistration
  PROVE  MarkInv'
<1> USE DEF RootsInv
<1>1. op.step \in RegisterSteps /\ rows \subseteq Roots
  BY DEF RequestInv, RootsTypes
<1>2. CASE SetActive \/ DiscardRegistration
  BY <1>2, MarkAtEnd DEF SetActive, DiscardRegistration, tableVars
<1>3. CASE \/ Move \/ LinkLive \/ LinkPath \/ CaptureAll \/ Insert \/ SetPrime \/ Unlink \/ MoveBack
  <2>1. UNCHANGED <<rows, primary>>
    BY <1>3 DEF Move, LinkLive, LinkPath, CaptureAll, Insert, SetPrime, Unlink, MoveBack, tableVars
  <2>2. \E t \in RegisterSteps : \E k :
          /\ op' = [op EXCEPT !.step = t] \/ op' = [op EXCEPT !.step = t, !.i = k]
          /\ t \in {"move", "live", "link", "rows"} => op.step \in {"move", "live", "link", "rows"}
    <3>1. CASE Move \/ LinkLive \/ CaptureAll \/ Insert \/ SetPrime \/ Unlink
      BY <3>1 DEF Move, LinkLive, CaptureAll, Insert, SetPrime, Unlink, Go, On, RegisterSteps
    <3>2. CASE LinkPath \/ MoveBack
      BY <3>2 DEF LinkPath, MoveBack, On, Go, RegisterSteps
    <3> QED BY <1>3, <3>1, <3>2
  <2>3. /\ op'.kind = "register" /\ op'.roots = op.roots /\ op'.prev = op.prev /\ op'.primary = op.primary
        /\ op'.step \in {"move", "live", "link", "rows"} => op.step \in {"move", "live", "link", "rows"}
    BY <2>2 DEF RequestInv
  <2> QED BY <2>1, <2>3, MarkInRegistration
<1>4. CASE AddRows
  <2>1. /\ op.step = "rows" /\ rows' = rows \cup Range(op.roots)
        /\ primary' = IF op.primary # NoRoot THEN op.primary ELSE primary
        /\ op'.kind = "register" /\ op'.step = "capture" /\ op'.roots = op.roots
        /\ op'.prev = op.prev /\ op'.primary = op.primary
    BY <1>4 DEF AddRows, On, Go, RequestInv
  <2>2. /\ rows = {} \/ primary \in rows
        /\ op.primary \in Range(op.roots) \cup {NoRoot} /\ (op.primary = NoRoot => rows # {})
    BY <2>1 DEF MarkInv
  <2>3. primary' \in rows'
    BY <2>1, <2>2
  <2> QED BY <2>1, <2>3 DEF MarkInv
<1>5. CASE DeleteRows
  <2>1. /\ rows' = rows \ Range(op.roots)
        /\ primary' = IF op.prev # NoRoot THEN op.prev ELSE IF primary \in Range(op.roots) THEN NoRoot ELSE primary
        /\ op'.kind = "register" /\ op'.step = "back" /\ op'.roots = op.roots
        /\ op'.prev = op.prev /\ op'.primary = op.primary
    BY <1>5 DEF DeleteRows, On, Go, RequestInv
  <2>2. rows' # {} => op.prev \in rows' /\ op.prev # NoRoot
    BY <2>1, <1>1, RootsConstants DEF MarkInv
  <2>3. rows' = {} \/ primary' \in rows'
    BY <2>1, <2>2
  <2>4. rows' \ Range(op.roots) = rows'
    BY <2>1
  <2> QED BY <2>1, <2>2, <2>3, <2>4 DEF MarkInv
<1> QED BY <1>2, <1>3, <1>4, <1>5

(* In a removal.                                                           *)
LEMMA MarkAtRemoveSteps ==
  ASSUME RootsInv, MarkInv, op.kind = "remove", UNCHANGED faults,
         \/ Insert \/ SetPrime \/ SetActive \/ Materialize \/ Recapture \/ Drop \/ SwapOut \/ RemoveRow
         \/ PassPrimary \/ Unstage \/ Unmap \/ RestoreRow \/ SwapBack
  PROVE  MarkInv'
<1> USE DEF RootsInv
<1>1. CASE Drop \/ Unmap \/ SwapBack
  BY <1>1, MarkAtEnd DEF Drop, Unmap, SwapBack, On, tableVars
<1>2. CASE Insert \/ SetPrime \/ SetActive \/ Materialize \/ Recapture \/ SwapOut \/ Unstage
  <2>1. UNCHANGED <<rows, primary>>
    BY <1>2 DEF Insert, SetPrime, SetActive, Materialize, Recapture, SwapOut, Unstage, tableVars
  <2>2. PICK t : /\ op' = [op EXCEPT !.step = t] /\ op.step \notin {"primary", "unrow", "unswap"}
                 /\ t \notin {"primary", "unswap", "unrow"} /\ (t \in Unmoved => op.step \in Unmoved)
    <3>1. CASE Insert \/ SetPrime \/ SetActive
      BY <3>1 DEF Insert, SetPrime, SetActive, Go, Unmoved
    <3>2. CASE Materialize \/ Recapture \/ SwapOut \/ Unstage
      BY <3>2 DEF Materialize, Recapture, SwapOut, Unstage, On, Go, Unmoved
    <3> QED BY <1>2, <3>1, <3>2
  <2> QED BY <2>1, <2>2, MarkInRemoval
<1>3. CASE RemoveRow
  <2>1. /\ op.step = "row" /\ rows' = rows \ {Root} /\ primary' = IF op.was THEN NoRoot ELSE primary
        /\ op'.kind = "remove" /\ op'.step = "primary" /\ op'.was = op.was
    BY <1>3 DEF RemoveRow, On, Go, RequestInv
  <2>2. (op.was <=> primary = Root) /\ (~op.was => primary \in rows)
    BY <2>1 DEF MarkInv
  <2> QED BY <2>1, <2>2 DEF MarkInv
<1>4. CASE PassPrimary
  <2>1. /\ op.step = "primary" /\ rows' = rows
        /\ IF op.was /\ rows # {} THEN primary' \in rows ELSE primary' = primary
        /\ op'.kind = "remove" /\ op'.step = "insert" /\ op'.was = op.was
    BY <1>4 DEF PassPrimary, On, Go, RequestInv
  <2>2. ~op.was => primary \in rows
    BY DEF MarkInv
  <2>3. op.was \in BOOLEAN
    BY DEF RequestInv
  <2>4. rows' = {} \/ primary' \in rows'
    BY <2>1, <2>2, <2>3
  <2> QED BY <2>1, <2>2, <2>3, <2>4 DEF MarkInv
<1>5. CASE RestoreRow
  <2>1. /\ op.step = "unrow" /\ rows' = rows \cup {Root} /\ primary' = IF op.was THEN Root ELSE primary
        /\ op'.kind = "remove" /\ op'.step = "unswap" /\ op'.was = op.was
    BY <1>5 DEF RestoreRow, On, Go, RequestInv
  <2>2. (~op.was => primary \in rows) /\ faults # 0
    BY <2>1 DEF MarkInv
  <2>3. primary' \in rows'
    BY <2>1, <2>2
  <2> QED BY <2>1, <2>2, <2>3 DEF MarkInv
<1> QED BY <1>1, <1>2, <1>3, <1>4, <1>5

(* The one exception: from here on a rollback runs to its end.             *)
LEMMA MarkAtFailure ==
  ASSUME RootsInv, MarkInv, faults = 0, StepFails
  PROVE  MarkInv'
<1> USE DEF RootsInv
<1>1. UNCHANGED <<rows, primary>> /\ faults' = 1 /\ op' = Handler /\ op # NoOp /\ op.step \notin {"discard", "drop"}
  BY DEF StepFails, tableVars
<1>2. \/ op.kind = "register" /\ op.step \in RegisterSteps
      \/ op.kind = "remove" /\ op.step \in RemoveSteps \ {"unrow", "unswap"}
  BY <1>1 DEF RequestInv, MarkInv
<1>3. CASE op.kind = "register" /\ op.step \in RegisterSteps \ {"unrow", "back", "moveback"}
  <2>1. \E t \in {"back", "discard", "unrow"} : \E k : op' = [op EXCEPT !.step = t] \/ op' = [op EXCEPT !.step = t, !.i = k]
    BY <1>1, <1>3 DEF Handler, RegisterSteps
  <2>2. /\ op'.kind = "register" /\ op'.roots = op.roots /\ op'.prev = op.prev /\ op'.primary = op.primary
        /\ op'.step \notin {"move", "live", "link", "rows"}
    BY <2>1, <1>3 DEF RequestInv
  <2> QED BY <1>1, <1>3, <2>2, MarkInRegistration
<1>4. CASE \/ op.kind = "register" /\ op.step \in {"unrow", "back", "moveback"}
           \/ op.kind = "remove" /\ op.step \in {"swap", "unstage", "unlive"}
  <2>1. op' = NoOp
    BY <1>1, <1>4 DEF Handler
  <2> QED BY <1>1, <1>4, <2>1, MarkAtEnd
<1>5. CASE op.kind = "remove" /\ op.step \in {"stage", "check"}
  <2>1. op' = [op EXCEPT !.step = "drop"]
    BY <1>1, <1>5 DEF Handler
  <2> QED BY <1>1, <1>5, <2>1, MarkInRemoval DEF Unmoved
<1>6. CASE op.kind = "remove" /\ op.step \in {"row", "primary", "insert", "prime", "active"}
  <2>1. op' = [op EXCEPT !.step = "unrow"]
    BY <1>1, <1>6 DEF Handler
  <2> QED BY <1>1, <1>6, <2>1, MarkInRemoval DEF Unmoved
<1> QED BY <1>1, <1>2, <1>3, <1>4, <1>5, <1>6 DEF RemoveSteps, Exchanged

LEMMA MarkAtRequest ==
  ASSUME RootsInv, MarkInv,
         \/ \E s \in Orders, p \in Roots \cup {NoRoot} : Register(s, p)
         \/ \E r \in Roots : RemoveRoot(r)
  PROVE  MarkInv'
<1> USE DEF RootsInv
<1>1. ASSUME NEW s \in Orders, NEW p \in Roots \cup {NoRoot}, Register(s, p) PROVE MarkInv'
  <2>1. /\ UNCHANGED <<rows, primary>> /\ op = NoOp /\ p \in Range(s) \cup {NoRoot}
        /\ \A i \in DOMAIN s : s[i] \notin rows
        /\ op'.kind = "register" /\ op'.step = "move" /\ op'.roots = s /\ op'.prev = primary
        /\ op'.primary = IF p = NoRoot /\ rows = {} THEN s[1] ELSE p
    BY <1>1 DEF Register, NoOp, tableVars
  <2>2. rows \cap Range(s) = {} /\ s[1] \in Range(s) /\ s[1] \in Roots
    BY <2>1, OrdersOfRoots DEF Range
  <2>3. rows = {} \/ primary \in rows
    BY <2>1 DEF MarkInv, NoOp
  <2>4. rows \ Range(s) = rows
    BY <2>2
  <2> QED BY <2>1, <2>2, <2>3, <2>4, RootsConstants DEF MarkInv
<1>2. ASSUME NEW r \in Roots, RemoveRoot(r) PROVE MarkInv'
  <2>1. /\ UNCHANGED <<rows, primary>> /\ op = NoOp /\ r \in rows
        /\ op'.kind = "remove" /\ op'.step = "stage" /\ op'.was = (primary = r) /\ Root' = r
    BY <1>2 DEF RemoveRoot, NoOp, Root, tableVars
  <2>2. primary \in rows
    BY <2>1 DEF MarkInv, NoOp
  <2> QED BY <2>1, <2>2 DEF MarkInv
<1> QED BY <1>1, <1>2

(* A request that is refused, or fails once, leaves a primary root among   *)
(* the roots there are (roots.py; store.py, set_primary_root).             *)
THEOREM AlwaysAPrimary == RootsSpec => []PrimaryIsKept
<1>1. RootsInit => PrimaryInv
  BY DEF RootsInit, PrimaryInv, MarkInv, NoOp
<1>2. RootsInv /\ PrimaryInv /\ [RootsNext]_rootsVars => PrimaryInv'
  <2> SUFFICES ASSUME RootsInv, PrimaryInv, [RootsNext]_rootsVars PROVE PrimaryInv'
    OBVIOUS
  <2>1. CASE StepFails
    <3>1. kills' = kills /\ faults' = faults + 1 /\ faults \in Nat /\ kills \in Nat
      BY <2>1 DEF StepFails, PrimaryInv
    <3>2. kills = 0 /\ faults + 1 <= 1 => faults = 0
      BY <3>1
    <3> QED BY <2>1, <3>1, <3>2, MarkAtFailure DEF PrimaryInv
  <2>2. CASE Killed
    BY <2>2 DEF Killed, PrimaryInv
  <2>3. CASE ~StepFails /\ ~Killed /\ RootsNext
    <3>1. UNCHANGED <<kills, faults>>
      <4>1. CASE \E r \in Roots : Edit(r) \/ Recreate(r) \/ RemoveRoot(r)
        BY <4>1 DEF Edit, Recreate, RemoveRoot, limitVars
      <4>2. CASE \E s \in Orders, p \in Roots \cup {NoRoot} : Register(s, p)
        BY <4>2 DEF Register
      <4>3. CASE \/ Move \/ LinkLive \/ LinkPath \/ AddRows \/ CaptureAll \/ DeleteRows \/ Unlink \/ MoveBack
                 \/ DiscardRegistration
        BY <4>3 DEF Move, LinkLive, LinkPath, AddRows, CaptureAll, DeleteRows, Unlink, MoveBack,
                    DiscardRegistration, limitVars
      <4>4. CASE \/ Insert \/ SetPrime \/ SetActive \/ Materialize \/ Recapture \/ Drop \/ SwapOut \/ RemoveRow
                 \/ PassPrimary \/ Unstage \/ Unmap \/ RestoreRow \/ SwapBack
        BY <4>4 DEF Insert, SetPrime, SetActive, Materialize, Recapture, Drop, SwapOut, RemoveRow,
                    PassPrimary, Unstage, Unmap, RestoreRow, SwapBack, limitVars
      <4> QED BY <2>3, <4>1, <4>2, <4>3, <4>4 DEF RootsNext
    <3> SUFFICES ASSUME MarkInv PROVE MarkInv'
      BY <3>1 DEF PrimaryInv
    <3>2. CASE \E r \in Roots : Edit(r) \/ Recreate(r)
      BY <3>1, <3>2 DEF Edit, Recreate, MarkInv, tableVars, Root
    <3>3. op.kind \in {"none", "register", "remove"} /\ (op.kind = "none" => op.step = "none")
      BY DEF RootsInv, RequestInv, NoOp
    <3>4. CASE \/ Move \/ LinkLive \/ LinkPath \/ AddRows \/ CaptureAll \/ DeleteRows \/ Unlink \/ MoveBack
               \/ DiscardRegistration
      <4>1. op.kind = "register"
        BY <3>4 DEF Move, LinkLive, LinkPath, AddRows, CaptureAll, DeleteRows, Unlink, MoveBack,
                    DiscardRegistration, On
      <4> QED BY <3>4, <4>1, MarkAtRegisterSteps
    <3>5. CASE Materialize \/ Recapture \/ Drop \/ SwapOut \/ RemoveRow \/ PassPrimary \/ Unstage \/ Unmap
               \/ RestoreRow \/ SwapBack
      <4>1. op.kind = "remove"
        BY <3>5 DEF Materialize, Recapture, Drop, SwapOut, RemoveRow, PassPrimary, Unstage, Unmap,
                    RestoreRow, SwapBack, On
      <4> QED BY <3>1, <3>5, <4>1, MarkAtRemoveSteps
    <3>6. CASE Insert \/ SetPrime \/ SetActive
      <4>1. op.step \in {"insert", "prime", "active"}
        BY <3>6 DEF Insert, SetPrime, SetActive
      <4>2. op.kind = "register" \/ op.kind = "remove"
        BY <3>3, <4>1
      <4> QED BY <3>1, <3>6, <4>2, MarkAtRegisterSteps, MarkAtRemoveSteps
    <3> QED BY <2>3, <3>2, <3>4, <3>5, <3>6, MarkAtRequest DEF RootsNext
  <2>4. CASE UNCHANGED rootsVars
    BY <2>4 DEF rootsVars, tableVars, limitVars, PrimaryInv, MarkInv, Root
  <2> QED BY <2>1, <2>2, <2>3, <2>4
<1>3. PrimaryInv => PrimaryIsKept
  BY DEF PrimaryInv, MarkInv, PrimaryIsKept, NoOp
<1> QED BY <1>1, <1>2, <1>3, RootsInvariance, PTL DEF RootsSpec

-----------------------------------------------------------------------------
(* The watcher of managed roots.                                           *)

(* What is left watched when the walk that goes on has ended.              *)
Live == DOMAIN watches \ (walk.before \ walk.seen)

(* What a queue holds.                                                     *)
Held(q) == {q[n] : n \in 1..Len(q)}
Queued == Held(queue)

Events == [kind : {"change", "newdir", "ignored", "moveself"}, inode : Nat, dir : Dirs] \cup {Overflow}

Gone(i) == \A d \in Dirs : node[d] # 0 => node[d] # i

(* An inode is one directory's, and is never given to another: an inode    *)
(* that left the tree stays out of it.  A directory stands in one that is  *)
(* there, and a watch is known by the directory it was put on.             *)
TreeInv ==
  /\ nodes \in Nat /\ node \in [Dirs -> 0..nodes]
  /\ \A r \in Tops : node[r] # 0
  /\ \A s \in Subs : node[s] # 0 => node[Above[s]] # 0
  /\ \A d, e \in Dirs : node[d] = node[e] /\ node[d] # 0 => d = e
  /\ watches \in [DOMAIN watches -> Dirs] /\ DOMAIN watches \subseteq 1..nodes
  /\ \A d \in Dirs : node[d] \in DOMAIN watches => watches[node[d]] = d
  /\ queue \in Seq(Events) /\ \A e \in Queued : e.inode <= nodes
  /\ \A e \in Queued : e.kind \in {"ignored", "moveself"} => Gone(e.inode)

Walks == [why : {"none", "start", "event", "reconcile"}, roots : SUBSET Tops,
          pending : SUBSET Dirs, list : Dirs \cup {"none"}, before : SUBSET Nat, seen : SUBSET Nat]

(* The walk, and the counters that the rest depends on.                    *)
WalkInv ==
  /\ ~Walking => walk = NoWalk
  /\ walk \in Walks
  /\ faulted \subseteq Tops /\ halfDrains \in Nat /\ dead \in BOOLEAN /\ gen \in Nat

(* A directory that is not watched, or will not be when the walk has ended,*)
(* is still to be found: by the walk, by an event, or because its parent   *)
(* is.                                                                     *)
Found(d) ==
  \/ d \in walk.pending \/ walk.list = Above[d] \/ Overflow \in Queued
  \/ Event("newdir", node[Above[d]], d) \in Queued
  \/ node[Above[d]] \notin Live

(* A directory watched as a root's is the one at its path, or the queue    *)
(* says that it moved.                                                     *)
Trusted(r) == Overflow \in Queued \/
  \A i \in Live : watches[i] = r => i = node[r] \/ \E e \in Queued : e.kind = "moveself" /\ e.inode = i

CoverageInv ==
  dead \/ halfDrains # 0 \/
    /\ \A s \in Subs : node[s] # 0 /\ node[s] \notin Live /\ Home[s] \notin faulted => Found(s)
    /\ \A r \in Tops \ faulted : Trusted(r)

(* While no event was consumed, what a capture covered is covered still,   *)
(* and a change of it waits in the queue.                                  *)
CaptureInv ==
  capture # NoCapture =>
    /\ capture.base \in Nat /\ capture.base <= gen
    /\ gen = capture.base /\ halfDrains = 0 =>
         /\ ~Walking /\ capture.covered \subseteq Watched
         /\ capture.covered \cap changed # {} => queue # <<>>

WatcherInv == TreeInv /\ WalkInv /\ CoverageInv /\ CaptureInv

(* What the queue holds stays in it.  An event of a watched inode is held, *)
(* or the queue says that it lost events.                                  *)
LEMMA Pushed ==
  ASSUME NEW q \in Seq(Events), NEW e \in Events
  PROVE  /\ Push(q, e) \in Seq(Events)
         /\ Held(q) \subseteq Held(Push(q, e))
         /\ Held(Push(q, e)) \subseteq Held(q) \cup {e, Overflow}
         /\ q # <<>> => Push(q, e) # <<>>
         /\ e.inode \in DOMAIN watches =>
              /\ Push(q, e) # <<>>
              /\ e \in Held(Push(q, e)) \/ Overflow \in Held(Push(q, e))
<1>1. Overflow \in Events
  BY DEF Events
<1>2. CASE e.inode \notin DOMAIN watches
  BY <1>2 DEF Push
<1>3. CASE q # <<>> /\ Last(q) \in {e, Overflow}
  <2>1. Last(q) \in Held(q)
    BY <1>3 DEF Last, Held
  <2>2. QED BY <2>1, <1>3 DEF Push
<1>4. CASE e.inode \in DOMAIN watches /\ ~(q # <<>> /\ Last(q) \in {e, Overflow})
  <2> DEFINE new == IF Len(q) < QueueMax THEN e ELSE Overflow
  <2>1. Push(q, e) = Append(q, new)
    BY <1>4 DEF Push
  <2>2. new \in Events /\ new \in {e, Overflow}
    BY <1>1
  <2> HIDE DEF new
  <2>3. /\ Append(q, new) \in Seq(Events) /\ Len(Append(q, new)) = Len(q) + 1
        /\ \A n \in 1..Len(q) : Append(q, new)[n] = q[n]
        /\ Append(q, new)[Len(q) + 1] = new
    BY <2>2
  <2>4. Held(Append(q, new)) = Held(q) \cup {new}
    BY <2>3 DEF Held
  <2>5. Append(q, new) # <<>>
    BY <2>3
  <2>6. QED BY <2>1, <2>2, <2>3, <2>4, <2>5
<1>5. QED BY <1>2, <1>3, <1>4

(* The tree's shape is that of the constants.                              *)
LEMMA TreeShape ==
  /\ \A r \in Tops : r \in Dirs /\ Home[r] = r
  /\ \A s \in Subs : s \in Dirs /\ s \notin Tops /\ Above[s] \in Dirs /\ Home[s] = Home[Above[s]]
  /\ \A d \in Dirs : d # "none" /\ Home[d] \in Tops
  BY WatcherConstants DEF Dirs

(* A set of naturals has a least member. *)
LEMMA LeastNatural ==
  ASSUME NEW T \in SUBSET Nat, T # {}
  PROVE  \E x \in T : \A y \in T : x <= y
<1> DEFINE R == {ss \in Nat \X Nat : ss[1] < ss[2]}
<1>1. IsWellFoundedOn(R, Nat)
  BY NatLessThanWellFounded, Zenon DEF OpToRel
<1>2. \E x \in T : \A y \in T : <<y, x>> \notin R
  BY <1>1, WFMin
<1>3. \A x, y \in Nat : <<y, x>> \in R <=> y < x
  OBVIOUS
<1> HIDE DEF R
<1>4. \A x \in T : x \in Nat
  OBVIOUS
<1>5. PICK x \in T : \A y \in T : <<y, x>> \notin R
  BY <1>2
<1>6. ASSUME NEW y \in T PROVE x <= y
  <2>1. x \in Nat /\ y \in Nat
    BY <1>4
  <2>2. ~(y < x)
    BY <1>3, <1>5, <2>1
  <2>3. QED BY <2>1, <2>2
<1>7. QED BY <1>6

(* With nothing queued and no walk, what is trusted is watched: a directory*)
(* that is not, least deep of all, has a parent that is not.               *)
LEMMA QuietIsCovered ==
  ASSUME TreeInv, WalkInv, CoverageInv, ~Walking, queue = <<>>, halfDrains = 0
  PROVE  \A d \in Dirs : Home[d] \in Watched /\ node[d] # 0 => node[d] \in DOMAIN watches
<1>1. Live = DOMAIN watches /\ walk.pending = {} /\ walk.list = "none"
  <2>1. walk = NoWalk
    BY DEF WalkInv
  <2>2. walk.before = {} /\ walk.pending = {} /\ walk.list = "none"
    BY <2>1 DEF NoWalk
  <2>3. QED BY <2>2 DEF Live
<1>2. Queued = {}
  BY DEF Queued, Held
<1> DEFINE Bare == {d \in Dirs : Home[d] \in Watched /\ node[d] # 0 /\ node[d] \notin DOMAIN watches}
<1>3. SUFFICES ASSUME Bare # {} PROVE FALSE
  OBVIOUS
<1>4. PICK depth \in [Dirs -> 0..Cardinality(Dirs)] : \A s \in Subs : depth[Above[s]] < depth[s]
  BY WatcherConstants
<1>5. Cardinality(Dirs) \in Nat
  BY WatcherConstants, FS_CardinalityType
<1>6. PICK d \in Bare : \A e \in Bare : depth[d] <= depth[e]
  <2> DEFINE Depths == {depth[e] : e \in Bare}
  <2>1. Depths # {} /\ Depths \subseteq Nat
    BY <1>3, <1>4, <1>5
  <2>2. PICK n \in Depths : \A m \in Depths : n <= m
    <3> HIDE DEF Depths
    <3>1. QED BY <2>1, LeastNatural
  <2>3. QED BY <2>2
<1>7. ~dead
  BY <1>6 DEF Watched
<1>8. CASE d \in Tops
  <2>1. Home[d] = d /\ d \in Tops \ faulted
    BY <1>6, <1>8, TreeShape DEF Watched
  <2>2. PICK i \in DOMAIN watches : watches[i] = d
    BY <2>1, <1>6 DEF Watched
  <2>3. Trusted(d)
    BY <2>1, <1>7 DEF CoverageInv
  <2>4. i = node[d]
    BY <2>2, <2>3, <1>1, <1>2 DEF Trusted
  <2>5. QED BY <2>2, <2>4, <1>6
<1>9. CASE d \in Subs
  <2>1. Home[d] \notin faulted
    BY <1>6 DEF Watched
  <2>2. Found(d)
    BY <2>1, <1>1, <1>6, <1>7, <1>9 DEF CoverageInv
  <2>3. node[Above[d]] \notin DOMAIN watches
    BY <2>2, <1>1, <1>2, <1>9, TreeShape DEF Found
  <2>4. Above[d] \in Bare
    BY <2>3, <1>6, <1>9, TreeShape DEF TreeInv
  <2>5. depth[Above[d]] < depth[d] /\ depth[d] <= depth[Above[d]]
    BY <2>4, <1>4, <1>6, <1>9
  <2>6. depth[Above[d]] \in Int /\ depth[d] \in Int
    BY <1>4, <1>5, <1>6, <2>4
  <2>7. QED BY <2>5, <2>6
<1>10. QED BY <1>6, <1>8, <1>9 DEF Dirs
(* Other programs add events to the queue and inodes to the tree, or take  *)
(* inodes from it: what the queue says stays true.                         *)
LEMMA EventsStayTrue ==
  ASSUME TreeInv, NEW New, Queued' \subseteq Queued \cup New \cup {Overflow},
         nodes' \in Nat, nodes <= nodes',
         \A d \in Dirs : node'[d] \in {0, node[d]} \/ node'[d] > nodes,
         \A e \in New : e.inode <= nodes' /\ (e.kind \in {"ignored", "moveself"} => Gone(e.inode)')
  PROVE  \A e \in Queued' : /\ e.inode <= nodes'
                            /\ e.kind \in {"ignored", "moveself"} => Gone(e.inode)'
<1> TAKE e \in Queued'
<1>1. CASE e = Overflow
  BY <1>1 DEF Overflow, Event
<1>2. CASE e \in New
  BY <1>2
<1>3. CASE e \in Queued
  <2>1. e.inode \in Nat /\ e.inode <= nodes /\ nodes \in Nat
    <3>1. PICK n \in 1..Len(queue) : e = queue[n]
      BY <1>3 DEF Queued, Held
    <3>2. e \in Events
      BY <3>1 DEF TreeInv
    <3>3. QED BY <3>2, <1>3 DEF TreeInv, Events, Overflow, Event
  <2>2. e.inode <= nodes'
    BY <2>1
  <2>3. e.kind \in {"ignored", "moveself"} => Gone(e.inode)
    BY <1>3 DEF TreeInv
  <2>4. Gone(e.inode) => Gone(e.inode)'
    <3> SUFFICES ASSUME Gone(e.inode), NEW d \in Dirs, node'[d] # 0, node'[d] = e.inode PROVE FALSE
      BY DEF Gone
    <3>1. node'[d] = node[d]
      BY <2>1
    <3>2. QED BY <3>1 DEF Gone
  <2>5. QED BY <2>2, <2>3, <2>4
<1>4. QED BY <1>1, <1>2, <1>3

(* What other programs do to a root that is covered leaves something in    *)
(* the queue.                                                              *)
LEMMA ChangeIsQueued ==
  ASSUME CaptureInv, NEW r, changed' \subseteq changed \cup {r},
         UNCHANGED <<watchVars, boundVars, gen, capture>>,
         queue # <<>> => queue' # <<>>,
         r \in Watched /\ ~Walking /\ queue = <<>> /\ halfDrains = 0 => queue' # <<>>
  PROVE  CaptureInv'
<1> SUFFICES ASSUME capture # NoCapture
             PROVE  /\ capture.base \in Nat /\ capture.base <= gen
                    /\ gen = capture.base /\ halfDrains = 0 =>
                         /\ ~Walking /\ capture.covered \subseteq Watched
                         /\ capture.covered \cap changed' # {} => queue' # <<>>
  BY DEF CaptureInv, watchVars, boundVars, Walking, Watched
<1>1. capture.base \in Nat /\ capture.base <= gen
  BY DEF CaptureInv
<1>2. ASSUME gen = capture.base, halfDrains = 0
      PROVE  /\ ~Walking /\ capture.covered \subseteq Watched
             /\ capture.covered \cap changed' # {} => queue' # <<>>
  <2>1. /\ ~Walking /\ capture.covered \subseteq Watched
        /\ capture.covered \cap changed # {} => queue # <<>>
    BY <1>2 DEF CaptureInv
  <2>2. QED BY <2>1, <1>2
<1>3. QED BY <1>1, <1>2

(* A write. *)
LEMMA AtWrite ==
  ASSUME WatcherInv, NEW d \in Dirs, Write(d)
  PROVE  WatcherInv'
<1> DEFINE e == Event("change", node[d], d)
<1>0. TreeInv /\ WalkInv /\ CoverageInv /\ CaptureInv
  BY DEF WatcherInv
<1>1. /\ e \in Events /\ e.inode = node[d] /\ e.kind = "change" /\ node[d] \in 0..nodes
      /\ nodes \in Nat /\ queue \in Seq(Events)
  BY <1>0 DEF TreeInv, Events, Event
<1>2. queue' = Push(queue, e) /\ UNCHANGED <<node, nodes, watchVars, boundVars, gen, capture>>
      /\ changed' = changed \cup {Home[d]} /\ node[d] # 0
  BY DEF Write, Emit
<1> HIDE DEF e
<1>3. /\ queue' \in Seq(Events) /\ Queued \subseteq Queued' /\ Queued' \subseteq Queued \cup {e} \cup {Overflow}
      /\ queue # <<>> => queue' # <<>>
      /\ node[d] \in DOMAIN watches => queue' # <<>>
  BY <1>1, <1>2, Pushed DEF Queued
<1>4. TreeInv'
  <2>1. \A f \in Queued' : f.inode <= nodes' /\ (f.kind \in {"ignored", "moveself"} => Gone(f.inode)')
    <3>1. \A f \in {e} : f.inode <= nodes' /\ (f.kind \in {"ignored", "moveself"} => Gone(f.inode)')
      BY <1>1, <1>2
    <3>2. nodes' \in Nat /\ nodes <= nodes' /\ \A c \in Dirs : node'[c] \in {0, node[c]} \/ node'[c] > nodes
      BY <1>1, <1>2
    <3>3. QED
      <4> DEFINE New == {e}
      <4>1. Queued' \subseteq Queued \cup New \cup {Overflow}
        BY <1>3
      <4>2. \A f \in New : f.inode <= nodes' /\ (f.kind \in {"ignored", "moveself"} => Gone(f.inode)')
        BY <3>1
      <4> HIDE DEF New
      <4>3. QED BY <1>0, <3>2, <4>1, <4>2, EventsStayTrue
  <2>2. QED BY <2>1, <1>0, <1>2, <1>3 DEF TreeInv, watchVars
<1>5. WalkInv'
  BY <1>0, <1>2 DEF WalkInv, watchVars, boundVars, Walking
<1>6. CoverageInv'
  <2>1. Live' = Live
    BY <1>2 DEF Live, watchVars
  <2>2. \A s \in Subs : Found(s) => Found(s)'
    BY <1>2, <1>3, <2>1 DEF Found, watchVars
  <2>3. \A r \in Tops : Trusted(r) => Trusted(r)'
    BY <1>2, <1>3, <2>1 DEF Trusted, watchVars
  <2>4. QED BY <1>0, <1>2, <2>1, <2>2, <2>3 DEF CoverageInv, watchVars, boundVars
<1>7. CaptureInv'
  BY <1>0, <1>2, <1>3, QuietIsCovered, ChangeIsQueued
<1>8. QED BY <1>4, <1>5, <1>6, <1>7 DEF WatcherInv

(* A new directory: nothing in it, and its parent's event in the queue.    *)
LEMMA AtMakeDirectory ==
  ASSUME WatcherInv, NEW d \in Dirs, MakeDirectory(d)
  PROVE  WatcherInv'
<1> DEFINE e == Event("newdir", node[Above[d]], d)
           New == {e}
<1>0. TreeInv /\ WalkInv /\ CoverageInv /\ CaptureInv
  BY DEF WatcherInv
<1>1. /\ d \in Subs /\ Above[d] \in Dirs /\ d \notin Tops /\ Home[Above[d]] = Home[d]
      /\ node[d] = 0 /\ node[Above[d]] # 0 /\ Above[d] # d
  BY TreeShape DEF MakeDirectory
<1>2. /\ e \in Events /\ e.inode = node[Above[d]] /\ e.kind = "newdir" /\ node[Above[d]] \in 0..nodes
      /\ nodes \in Nat /\ queue \in Seq(Events)
  BY <1>0, <1>1 DEF TreeInv, Events, Event
<1>3. queue' = Push(queue, e) /\ UNCHANGED <<watchVars, boundVars, gen, capture>>
      /\ changed' = changed \cup {Home[d]}
  BY DEF MakeDirectory, Emit
<1>a. nodes' = nodes + 1 /\ node' = [node EXCEPT ![d] = nodes + 1]
  BY DEF MakeDirectory
<1> HIDE DEF e
<1>4. /\ queue' \in Seq(Events) /\ Queued \subseteq Queued' /\ Queued' \subseteq Queued \cup New \cup {Overflow}
      /\ queue # <<>> => queue' # <<>>
      /\ node[Above[d]] \in DOMAIN watches =>
           queue' # <<>> /\ (e \in Queued' \/ Overflow \in Queued')
  BY <1>2, <1>3, Pushed DEF Queued
<1>5. /\ node'[d] = nodes + 1 /\ \A c \in Dirs \ {d} : node'[c] = node[c]
      /\ \A c \in Dirs : node[c] \in 0..nodes
  BY <1>0, <1>a DEF TreeInv
<1>6. TreeInv'
  <2>1. \A f \in Queued' : f.inode <= nodes' /\ (f.kind \in {"ignored", "moveself"} => Gone(f.inode)')
    <3>1. \A f \in New : f.inode <= nodes' /\ (f.kind \in {"ignored", "moveself"} => Gone(f.inode)')
      BY <1>2, <1>a
    <3>2. nodes' \in Nat /\ nodes <= nodes' /\ \A c \in Dirs : node'[c] \in {0, node[c]} \/ node'[c] > nodes
      BY <1>2, <1>a, <1>5
    <3> HIDE DEF New
    <3>3. QED BY <1>0, <1>4, <3>1, <3>2, EventsStayTrue
  <2>2. nodes' \in Nat /\ node' \in [Dirs -> 0..nodes']
    BY <1>0, <1>2, <1>a DEF TreeInv
  <2>3. \A r \in Tops : node'[r] # 0
    BY <1>0, <1>1, <1>5, TreeShape DEF TreeInv
  <2>4. \A s \in Subs : node'[s] # 0 => node'[Above[s]] # 0
    BY <1>0, <1>1, <1>2, <1>5, TreeShape DEF TreeInv
  <2>5. \A b, c \in Dirs : node'[b] = node'[c] /\ node'[b] # 0 => b = c
    <3> SUFFICES ASSUME NEW b \in Dirs, NEW c \in Dirs, node'[b] = node'[c], node'[b] # 0 PROVE b = c
      OBVIOUS
    <3>1. CASE b # d /\ c # d
      BY <3>1, <1>0, <1>5 DEF TreeInv
    <3>2. QED BY <3>1, <1>2, <1>5
  <2>6. watches' = watches /\ DOMAIN watches \subseteq 1..nodes'
    BY <1>0, <1>2, <1>3, <1>a DEF TreeInv, watchVars
  <2>7. \A c \in Dirs : node'[c] \in DOMAIN watches => watches[node'[c]] = c
    <3>1. nodes + 1 \notin DOMAIN watches
      BY <1>0, <1>2 DEF TreeInv
    <3>2. QED BY <3>1, <1>0, <1>5 DEF TreeInv
  <2>8. QED BY <2>1, <2>2, <2>3, <2>4, <2>5, <2>6, <2>7, <1>0, <1>4 DEF TreeInv
<1>7. WalkInv'
  BY <1>0, <1>3 DEF WalkInv, watchVars, boundVars, Walking
<1>8. CoverageInv'
  <2>1. Live' = Live
    BY <1>3 DEF Live, watchVars
  <2>2. \A s \in Subs : s # d /\ node[s] # 0 => node'[s] = node[s] /\ node'[Above[s]] = node[Above[s]]
    BY <1>0, <1>1, <1>5, TreeShape DEF TreeInv
  <2>3. \A s \in Subs : s # d /\ node[s] # 0 /\ Found(s) => Found(s)'
    BY <1>3, <1>4, <2>1, <2>2 DEF Found, watchVars
  <2>4. Found(d)'
    <3>1. node'[Above[d]] = node[Above[d]]
      BY <1>1, <1>5
    <3>2. CASE node[Above[d]] \in Live
      <4>1. e \in Queued' \/ Overflow \in Queued'
        BY <3>2, <1>4 DEF Live
      <4>2. QED BY <4>1, <3>1 DEF Found, e
    <3>3. CASE node[Above[d]] \notin Live
      BY <3>1, <3>3, <2>1 DEF Found
    <3>4. QED BY <3>2, <3>3
  <2>5. \A r \in Tops : Trusted(r) => Trusted(r)'
    BY <1>1, <1>3, <1>4, <1>5, <2>1, TreeShape DEF Trusted, watchVars
  <2>6. \A s \in Subs : s # d /\ node'[s] # 0 => node[s] # 0
    BY <1>5, TreeShape
  <2>7. QED BY <1>0, <1>3, <2>1, <2>2, <2>3, <2>4, <2>5, <2>6 DEF CoverageInv, watchVars, boundVars
<1>9. CaptureInv'
  BY <1>0, <1>1, <1>3, <1>4, QuietIsCovered, ChangeIsQueued
<1>10. QED BY <1>6, <1>7, <1>8, <1>9 DEF WatcherInv

(* A directory removed: its inode is gone for good, with nothing below it. *)
LEMMA AtRemoveDirectory ==
  ASSUME WatcherInv, NEW d \in Dirs, RemoveDirectory(d)
  PROVE  WatcherInv'
<1> DEFINE e == Event("ignored", node[d], d)
           f == Event("change", node[Above[d]], d)
           New == {e, f}
<1>0. TreeInv /\ WalkInv /\ CoverageInv /\ CaptureInv
  BY DEF WatcherInv
<1>1. /\ d \in Subs /\ Above[d] \in Dirs /\ d \notin Tops
      /\ node[d] # 0 /\ \A s \in Subs : Above[s] = d => node[s] = 0
  BY TreeShape DEF RemoveDirectory
<1>2. /\ e \in Events /\ e.inode = node[d] /\ e.kind = "ignored" /\ node[d] \in 0..nodes
      /\ f \in Events /\ f.inode = node[Above[d]] /\ f.kind = "change" /\ node[Above[d]] \in 0..nodes
      /\ nodes \in Nat /\ queue \in Seq(Events)
  BY <1>0, <1>1 DEF TreeInv, Events, Event
<1>3. queue' = Push(Push(queue, e), f) /\ UNCHANGED <<nodes, watchVars, boundVars, gen, capture>>
      /\ changed' = changed \cup {Home[d]} /\ node' = [node EXCEPT ![d] = 0]
  BY DEF RemoveDirectory
<1> HIDE DEF e, f
<1>4. /\ queue' \in Seq(Events) /\ Queued \subseteq Queued' /\ Queued' \subseteq Queued \cup New \cup {Overflow}
      /\ queue # <<>> => queue' # <<>>
      /\ node[d] \in DOMAIN watches => queue' # <<>>
  <2> DEFINE q == Push(queue, e)
  <2>1. /\ q \in Seq(Events) /\ Held(queue) \subseteq Held(q) /\ Held(q) \subseteq Held(queue) \cup {e, Overflow}
        /\ queue # <<>> => q # <<>>
        /\ node[d] \in DOMAIN watches => q # <<>>
    BY <1>2, Pushed
  <2> HIDE DEF q
  <2>2. /\ Push(q, f) \in Seq(Events) /\ Held(q) \subseteq Held(Push(q, f))
        /\ Held(Push(q, f)) \subseteq Held(q) \cup {f, Overflow}
        /\ q # <<>> => Push(q, f) # <<>>
    BY <1>2, <2>1, Pushed
  <2>3. queue' = Push(q, f)
    BY <1>3 DEF q
  <2>4. QED BY <2>1, <2>2, <2>3 DEF Queued
<1>5. /\ node'[d] = 0 /\ \A c \in Dirs \ {d} : node'[c] = node[c]
      /\ \A c \in Dirs : node[c] \in 0..nodes
  BY <1>0, <1>3 DEF TreeInv
<1>6. TreeInv'
  <2>1. \A g \in Queued' : g.inode <= nodes' /\ (g.kind \in {"ignored", "moveself"} => Gone(g.inode)')
    <3>1. \A c \in Dirs : node'[c] # 0 => node'[c] # node[d]
      BY <1>0, <1>1, <1>5 DEF TreeInv
    <3>2. e.inode <= nodes' /\ \A c \in Dirs : node'[c] # 0 => node'[c] # e.inode
      BY <1>2, <1>3, <3>1
    <3>3. f.inode <= nodes' /\ f.kind \notin {"ignored", "moveself"}
      BY <1>2, <1>3
    <3>4. \A g \in New : g.inode <= nodes' /\ (g.kind \in {"ignored", "moveself"} => Gone(g.inode)')
      BY <3>2, <3>3 DEF Gone
    <3>5. nodes' \in Nat /\ nodes <= nodes' /\ \A c \in Dirs : node'[c] \in {0, node[c]} \/ node'[c] > nodes
      BY <1>2, <1>3, <1>5
    <3> HIDE DEF New
    <3>6. QED BY <1>0, <1>4, <3>4, <3>5, EventsStayTrue
  <2>2. nodes' \in Nat /\ node' \in [Dirs -> 0..nodes']
    BY <1>0, <1>2, <1>3 DEF TreeInv
  <2>3. \A r \in Tops : node'[r] # 0
    BY <1>0, <1>1, <1>5, TreeShape DEF TreeInv
  <2>4. \A s \in Subs : node'[s] # 0 => node'[Above[s]] # 0
    BY <1>0, <1>1, <1>2, <1>5, TreeShape DEF TreeInv
  <2>5. \A b, c \in Dirs : node'[b] = node'[c] /\ node'[b] # 0 => b = c
    BY <1>0, <1>5 DEF TreeInv
  <2>6. watches' = watches /\ DOMAIN watches \subseteq 1..nodes'
    BY <1>0, <1>2, <1>3 DEF TreeInv, watchVars
  <2>7. \A c \in Dirs : node'[c] \in DOMAIN watches => watches[node'[c]] = c
    <3>1. 0 \notin DOMAIN watches
      BY <1>0, <1>2 DEF TreeInv
    <3>2. QED BY <3>1, <1>0, <1>5 DEF TreeInv
  <2>8. QED BY <2>1, <2>2, <2>3, <2>4, <2>5, <2>6, <2>7, <1>0, <1>4 DEF TreeInv
<1>7. WalkInv'
  BY <1>0, <1>3 DEF WalkInv, watchVars, boundVars, Walking
<1>8. CoverageInv'
  <2>1. Live' = Live
    BY <1>3 DEF Live, watchVars
  <2>2. \A s \in Subs : node'[s] # 0 => node'[s] = node[s] /\ node'[Above[s]] = node[Above[s]]
    BY <1>0, <1>1, <1>5, TreeShape DEF TreeInv
  <2>3. \A s \in Subs : node'[s] # 0 /\ Found(s) => Found(s)'
    BY <1>3, <1>4, <2>1, <2>2 DEF Found, watchVars
  <2>4. \A r \in Tops : Trusted(r) => Trusted(r)'
    BY <1>1, <1>3, <1>4, <1>5, <2>1, TreeShape DEF Trusted, watchVars
  <2>5. QED BY <1>0, <1>3, <2>1, <2>2, <2>3, <2>4 DEF CoverageInv, watchVars, boundVars
<1>9. CaptureInv'
  BY <1>0, <1>1, <1>3, <1>4, QuietIsCovered, ChangeIsQueued
<1>10. QED BY <1>6, <1>7, <1>8, <1>9 DEF WatcherInv

(* A root replaced: its old inode is gone, and watched, it is reported.    *)
LEMMA AtReplaceRoot ==
  ASSUME WatcherInv, NEW r \in Tops, ReplaceRoot(r)
  PROVE  WatcherInv'
<1> DEFINE e == Event("moveself", node[r], r)
           New == {e}
<1>0. TreeInv /\ WalkInv /\ CoverageInv /\ CaptureInv
  BY DEF WatcherInv
<1>1. r \in Dirs /\ Home[r] = r /\ node[r] # 0
  BY <1>0, TreeShape DEF TreeInv
<1>2. /\ e \in Events /\ e.inode = node[r] /\ e.kind = "moveself" /\ node[r] \in 0..nodes
      /\ nodes \in Nat /\ queue \in Seq(Events)
  BY <1>0, <1>1 DEF TreeInv, Events, Event
<1>3. queue' = Push(queue, e) /\ UNCHANGED <<watchVars, boundVars, gen, capture>>
      /\ changed' = changed \cup {r} /\ nodes' = nodes + 1
      /\ node' = [d \in Dirs |-> IF d = r THEN nodes + 1 ELSE IF Home[d] = r THEN 0 ELSE node[d]]
  BY DEF ReplaceRoot, Emit
<1> HIDE DEF e
<1>4. /\ queue' \in Seq(Events) /\ Queued \subseteq Queued' /\ Queued' \subseteq Queued \cup New \cup {Overflow}
      /\ queue # <<>> => queue' # <<>>
      /\ node[r] \in DOMAIN watches => queue' # <<>> /\ (e \in Queued' \/ Overflow \in Queued')
  BY <1>2, <1>3, Pushed DEF Queued
<1>5. /\ node'[r] = nodes + 1
      /\ \A c \in Dirs \ {r} : node'[c] = IF Home[c] = r THEN 0 ELSE node[c]
      /\ \A c \in Dirs : node[c] \in 0..nodes
  BY <1>0, <1>1, <1>3 DEF TreeInv
<1>6. TreeInv'
  <2>1. \A g \in Queued' : g.inode <= nodes' /\ (g.kind \in {"ignored", "moveself"} => Gone(g.inode)')
    <3>1. \A c \in Dirs : node'[c] # 0 => node'[c] # node[r]
      <4> SUFFICES ASSUME NEW c \in Dirs, node'[c] # 0, node'[c] = node[r] PROVE FALSE
        OBVIOUS
      <4>1. c # r
        BY <1>2, <1>5
      <4>2. node[c] = node[r]
        BY <4>1, <1>5
      <4>3. QED BY <4>1, <4>2, <1>0, <1>1 DEF TreeInv
    <3>2. e.inode <= nodes' /\ \A c \in Dirs : node'[c] # 0 => node'[c] # e.inode
      BY <1>2, <1>3, <3>1
    <3>3. \A g \in New : g.inode <= nodes' /\ (g.kind \in {"ignored", "moveself"} => Gone(g.inode)')
      BY <3>2 DEF Gone
    <3>4. nodes' \in Nat /\ nodes <= nodes' /\ \A c \in Dirs : node'[c] \in {0, node[c]} \/ node'[c] > nodes
      BY <1>2, <1>3, <1>5
    <3> HIDE DEF New
    <3>5. QED BY <1>0, <1>4, <3>3, <3>4, EventsStayTrue
  <2>2. nodes' \in Nat /\ node' \in [Dirs -> 0..nodes']
    BY <1>2, <1>3, <1>5
  <2>3. \A t \in Tops : node'[t] # 0
    BY <1>0, <1>2, <1>5, TreeShape DEF TreeInv
  <2>4. \A s \in Subs : node'[s] # 0 => node'[Above[s]] # 0
    <3> SUFFICES ASSUME NEW s \in Subs, node'[s] # 0 PROVE node'[Above[s]] # 0
      OBVIOUS
    <3>1. s \in Dirs /\ s # r /\ Above[s] \in Dirs /\ Home[s] = Home[Above[s]]
      BY TreeShape
    <3>2. Home[s] # r /\ node[s] # 0
      BY <3>1, <1>5
    <3>3. Above[s] # r /\ node[Above[s]] # 0
      BY <3>1, <3>2, <1>0, <1>1 DEF TreeInv
    <3>4. QED BY <3>1, <3>2, <3>3, <1>5
  <2>5. \A b, c \in Dirs : node'[b] = node'[c] /\ node'[b] # 0 => b = c
    <3> SUFFICES ASSUME NEW b \in Dirs, NEW c \in Dirs, node'[b] = node'[c], node'[b] # 0 PROVE b = c
      OBVIOUS
    <3>1. CASE b # r /\ c # r
      BY <3>1, <1>0, <1>5 DEF TreeInv
    <3>2. QED BY <3>1, <1>2, <1>5
  <2>6. watches' = watches /\ DOMAIN watches \subseteq 1..nodes'
    BY <1>0, <1>2, <1>3 DEF TreeInv, watchVars
  <2>7. \A c \in Dirs : node'[c] \in DOMAIN watches => watches[node'[c]] = c
    <3>1. 0 \notin DOMAIN watches /\ nodes + 1 \notin DOMAIN watches
      BY <1>0, <1>2 DEF TreeInv
    <3>2. QED BY <3>1, <1>0, <1>5 DEF TreeInv
  <2>8. QED BY <2>1, <2>2, <2>3, <2>4, <2>5, <2>6, <2>7, <1>0, <1>4 DEF TreeInv
<1>7. WalkInv'
  BY <1>0, <1>3 DEF WalkInv, watchVars, boundVars, Walking
<1>8. CoverageInv'
  <2>1. Live' = Live
    BY <1>3 DEF Live, watchVars
  <2>2. \A s \in Subs : node'[s] # 0 => node'[s] = node[s] /\ node'[Above[s]] = node[Above[s]]
    BY <1>1, <1>5, TreeShape
  <2>3. \A s \in Subs : node'[s] # 0 /\ Found(s) => Found(s)'
    BY <1>3, <1>4, <2>1, <2>2 DEF Found, watchVars
  <2>4. ASSUME NEW t \in Tops, Trusted(t) PROVE Trusted(t)'
    <3> SUFFICES ASSUME Overflow \notin Queued', NEW i \in Live, watches[i] = t
                 PROVE  i = node'[t] \/ \E g \in Queued' : g.kind = "moveself" /\ g.inode = i
      BY <1>3, <2>1 DEF Trusted, watchVars
    <3>1. i = node[t] \/ \E g \in Queued : g.kind = "moveself" /\ g.inode = i
      BY <2>4, <1>4 DEF Trusted
    <3>2. CASE t # r
      BY <3>1, <3>2, <1>4, <1>5, TreeShape
    <3>3. CASE t = r /\ i = node[r]
      <4>1. e \in Queued'
        BY <3>3, <1>4 DEF Live
      <4>2. QED BY <4>1, <3>3, <1>2
    <3>4. QED BY <3>1, <3>2, <3>3, <1>4
  <2>5. QED BY <1>0, <1>3, <2>1, <2>2, <2>3, <2>4 DEF CoverageInv, watchVars, boundVars
<1>9. CaptureInv'
  BY <1>0, <1>1, <1>3, <1>4, QuietIsCovered, ChangeIsQueued
<1>10. QED BY <1>6, <1>7, <1>8, <1>9 DEF WatcherInv

(* A capture that no event crossed has no walk in it.                      *)
LEMMA NoWalkInCapture ==
  ASSUME CaptureInv, Walking, UNCHANGED <<capture, gen, halfDrains>>
  PROVE  CaptureInv'
  BY DEF CaptureInv

(* A consumed event ends what a capture may rely on.                       *)
LEMMA GenerationMoves ==
  ASSUME CaptureInv, gen \in Nat, capture' = capture, gen' = gen + 1
  PROVE  CaptureInv'
<1> SUFFICES ASSUME capture # NoCapture
             PROVE  capture.base \in Nat /\ capture.base <= gen' /\ gen' # capture.base
  BY DEF CaptureInv
<1>1. QED BY DEF CaptureInv

(* The walks that begin. *)
LEMMA FirstWalks ==
  /\ NoWalk \in Walks
  /\ \A d \in Dirs : [NoWalk EXCEPT !.why = "event", !.pending = {d}] \in Walks
  /\ \A R \in SUBSET Tops : [NoWalk EXCEPT !.why = "reconcile", !.roots = R] \in Walks
  /\ [NoWalk EXCEPT !.why = "start", !.pending = Tops] \in Walks
<1>1. {} \in SUBSET Nat /\ {} \in SUBSET Tops /\ {} \in SUBSET Dirs /\ Tops \in SUBSET Dirs
  BY DEF Dirs
<1>2. QED BY <1>1 DEF NoWalk, Walks

(* A walk watches a directory. *)
LEMMA AtWalkWatch ==
  ASSUME WatcherInv, NEW d \in Dirs, WalkWatch(d)
  PROVE  WatcherInv'
<1>0. TreeInv /\ WalkInv /\ CoverageInv /\ CaptureInv
  BY DEF WatcherInv
<1>1. d \in walk.pending /\ walk.list = "none" /\ UNCHANGED <<treeVars, halfDrains, dead, queue, gen, owned, capture>>
  BY DEF WalkWatch
<1>2. Walking
  BY <1>0, <1>1 DEF WalkInv, Walks, NoWalk
<1>3. Home[d] \in Tops /\ \A s \in Subs : s \in Dirs /\ Above[s] \in Dirs /\ Above[s] # "none"
  BY TreeShape
<1>4. Queued' = Queued /\ node' = node /\ nodes' = nodes /\ queue' = queue /\ \A i : Gone(i)' <=> Gone(i)
  BY <1>1 DEF Queued, Held, treeVars, Gone
<1>5. CaptureInv'
  BY <1>0, <1>1, <1>2, NoWalkInCapture
<1>6. CASE /\ node[d] # 0
           /\ watches' = [i \in DOMAIN watches \cup {node[d]} |-> IF i = node[d] THEN d ELSE watches[i]]
           /\ walk' = [walk EXCEPT !.pending = @ \ {d}, !.list = d, !.seen = @ \cup {node[d]}]
           /\ UNCHANGED <<faulted, failures, dirty>>
  <2>1. node[d] \in 1..nodes /\ nodes \in Nat
    BY <1>0, <1>6 DEF TreeInv
  <2>2. /\ DOMAIN watches' = DOMAIN watches \cup {node[d]} /\ watches'[node[d]] = d
        /\ \A i \in DOMAIN watches \ {node[d]} : watches'[i] = watches[i]
    BY <1>6
  <2>3. TreeInv'
    <3>1. watches' \in [DOMAIN watches' -> Dirs] /\ DOMAIN watches' \subseteq 1..nodes
      BY <1>0, <1>6, <2>1 DEF TreeInv
    <3>2. \A c \in Dirs : node[c] \in DOMAIN watches' => watches'[node[c]] = c
      BY <1>0, <1>6, <2>2 DEF TreeInv
    <3>3. QED BY <3>1, <3>2, <1>0, <1>4 DEF TreeInv
  <2>4. /\ walk'.pending = walk.pending \ {d} /\ walk'.list = d /\ walk'.why = walk.why
        /\ walk'.before = walk.before /\ walk'.seen = walk.seen \cup {node[d]}
    BY <1>0, <1>6 DEF WalkInv, Walks
  <2>5. WalkInv'
    <3>1. Walking'
      BY <1>2, <2>4 DEF Walking
    <3>2. walk.seen \cup {node[d]} \in SUBSET Nat
      BY <1>0, <2>1 DEF WalkInv, Walks
    <3>3. QED BY <3>1, <3>2, <1>0, <1>1, <1>6 DEF WalkInv, Walks
  <2>6. Live' = Live \cup {node[d]}
    BY <2>2, <2>4 DEF Live
  <2>7. \A s \in Subs : node[s] # 0 /\ node[s] \notin Live' /\ Found(s) => Found(s)'
    <3> SUFFICES ASSUME NEW s \in Subs, node[s] # 0, node[s] \notin Live', Found(s) PROVE Found(s)'
      OBVIOUS
    <3>1. s # d
      BY <2>6
    <3>2. CASE s \in walk.pending \/ Overflow \in Queued \/ Event("newdir", node[Above[s]], s) \in Queued
      BY <3>1, <3>2, <2>4, <1>4 DEF Found
    <3>3. CASE Above[s] = d
      BY <3>3, <2>4 DEF Found
    <3>4. CASE Above[s] # d /\ node[Above[s]] \notin Live
      <4>1. node[Above[s]] # node[d]
        BY <3>4, <1>0, <1>3, <1>6 DEF TreeInv
      <4>2. QED BY <4>1, <3>4, <2>6, <1>4 DEF Found
    <3>5. QED BY <3>2, <3>3, <3>4, <1>1, <1>3 DEF Found
  <2>8. \A r \in Tops : Trusted(r) => Trusted(r)'
    BY <2>2, <2>6, <1>4 DEF Trusted, Live
  <2>9. CoverageInv'
    BY <2>6, <2>7, <2>8, <1>0, <1>1, <1>4, <1>6 DEF CoverageInv
  <2>10. QED BY <2>3, <2>5, <2>9, <1>5 DEF WatcherInv
<1>7. CASE /\ watches' = watches
           /\ walk' = [walk EXCEPT !.pending = @ \ {d}]
           /\ \/ node[d] = 0 /\ faulted' = faulted
              \/ faulted' = faulted \cup {Home[d]}
  <2>1. TreeInv'
    BY <1>0, <1>4, <1>7 DEF TreeInv
  <2>2. /\ walk'.pending = walk.pending \ {d} /\ walk'.list = walk.list /\ walk'.why = walk.why
        /\ walk'.before = walk.before /\ walk'.seen = walk.seen
    BY <1>0, <1>7 DEF WalkInv, Walks
  <2>3. WalkInv'
    <3>1. Walking'
      BY <1>2, <2>2 DEF Walking
    <3>2. QED BY <3>1, <1>0, <1>1, <1>3, <1>7 DEF WalkInv, Walks
  <2>4. Live' = Live
    BY <1>7, <2>2 DEF Live
  <2>5. \A s \in Subs : s # d /\ Found(s) => Found(s)'
    BY <1>4, <2>2, <2>4 DEF Found
  <2>6. \A r \in Tops : Trusted(r) => Trusted(r)'
    BY <1>4, <1>7, <2>4 DEF Trusted
  <2>7. CoverageInv'
    BY <2>4, <2>5, <2>6, <1>0, <1>1, <1>4, <1>7 DEF CoverageInv
  <2>8. QED BY <2>1, <2>3, <2>7, <1>5 DEF WatcherInv
<1>8. QED BY <1>6, <1>7 DEF WalkWatch

(* A walk lists a directory. *)
LEMMA AtWalkList ==
  ASSUME WatcherInv, WalkList
  PROVE  WatcherInv'
<1> DEFINE d == walk.list
           below == {e \in Subs : Above[e] = d /\ node[e] # 0}
<1>0. TreeInv /\ WalkInv /\ CoverageInv /\ CaptureInv
  BY DEF WatcherInv
<1>1. d # "none" /\ UNCHANGED <<treeVars, halfDrains, watches, dead, queue, gen, owned, capture>>
  BY DEF WalkList
<1>2. Walking
  BY <1>0, <1>1 DEF WalkInv, Walks, NoWalk
<1>3. d \in Dirs /\ Home[d] \in Tops /\ \A s \in Subs : s \in Dirs /\ Home[s] = Home[Above[s]]
  BY <1>0, <1>1, TreeShape DEF WalkInv, Walks
<1>4. Queued' = Queued /\ node' = node /\ nodes' = nodes /\ queue' = queue /\ \A i : Gone(i)' <=> Gone(i)
  BY <1>1 DEF Queued, Held, treeVars, Gone
<1>5. CaptureInv'
  BY <1>0, <1>1, <1>2, NoWalkInCapture
<1>6. TreeInv'
  BY <1>0, <1>1, <1>4 DEF TreeInv
<1>7. /\ walk' = [walk EXCEPT !.list = "none", !.pending = walk'.pending]
      /\ \/ walk'.pending = walk.pending \cup below /\ faulted' = faulted
         \/ walk'.pending = walk.pending /\ faulted' = faulted \cup {Home[d]}
  BY <1>0 DEF WalkList, WalkInv, Walks
<1>8. /\ walk'.list = "none" /\ walk'.why = walk.why /\ walk'.before = walk.before /\ walk'.seen = walk.seen
  BY <1>0, <1>7 DEF WalkInv, Walks
<1>9. WalkInv'
  <2>1. Walking'
    BY <1>2, <1>8 DEF Walking
  <2>2. walk'.pending \subseteq Dirs
    BY <1>0, <1>3, <1>7 DEF WalkInv, Walks
  <2>3. QED BY <2>1, <2>2, <1>0, <1>1, <1>3, <1>7 DEF WalkInv, Walks
<1>10. Live' = Live
  BY <1>1, <1>8 DEF Live
<1>11. \A s \in Subs : node[s] # 0 /\ Home[s] \notin faulted' /\ Found(s) => Found(s)'
  <2> SUFFICES ASSUME NEW s \in Subs, node[s] # 0, Home[s] \notin faulted', Found(s) PROVE Found(s)'
    OBVIOUS
  <2>1. CASE Above[s] = d
    <3>1. s \in walk'.pending
      BY <2>1, <1>3, <1>7
    <3>2. QED BY <3>1 DEF Found
  <2>2. CASE Above[s] # d
    BY <2>2, <1>4, <1>7, <1>10 DEF Found
  <2>3. QED BY <2>1, <2>2
<1>12. \A r \in Tops : Trusted(r) => Trusted(r)'
  BY <1>1, <1>4, <1>10 DEF Trusted
<1>13. CoverageInv'
  BY <1>0, <1>1, <1>4, <1>7, <1>10, <1>11, <1>12 DEF CoverageInv
<1>14. QED BY <1>5, <1>6, <1>9, <1>13 DEF WatcherInv

(* A walk ends: what it did not confirm is forgotten, and the next root's  *)
(* walk, if there is one, finds all of that root again.                    *)
LEMMA AtWalkEnds ==
  ASSUME WatcherInv, WalkEnds
  PROVE  WatcherInv'
<1>0. TreeInv /\ WalkInv /\ CoverageInv /\ CaptureInv
  BY DEF WatcherInv
<1>1. /\ Walking /\ walk.pending = {} /\ walk.list = "none"
      /\ watches' = [i \in DOMAIN watches \ (walk.before \ walk.seen) |-> watches[i]]
      /\ UNCHANGED <<treeVars, boundVars, dead, queue, gen, dirty, owned, capture>>
  BY DEF WalkEnds
<1>2. DOMAIN watches' = Live /\ \A i \in Live : watches'[i] = watches[i] /\ i \in DOMAIN watches
  BY <1>1 DEF Live
<1>3. \A s \in Subs : s \in Dirs /\ Above[s] \in Dirs /\ Above[s] # "none" /\ Home[s] = Home[Above[s]]
  BY TreeShape
<1>4. Queued' = Queued /\ node' = node /\ nodes' = nodes /\ queue' = queue /\ halfDrains' = halfDrains
      /\ \A i : Gone(i)' <=> Gone(i)
  BY <1>1 DEF Queued, Held, treeVars, boundVars, Gone
<1>5. CaptureInv'
  BY <1>0, <1>1, <1>4, NoWalkInCapture
<1>6. TreeInv'
  <2>1. watches' \in [DOMAIN watches' -> Dirs] /\ DOMAIN watches' \subseteq 1..nodes
    BY <1>0, <1>1, <1>2 DEF TreeInv
  <2>2. \A d \in Dirs : node[d] \in DOMAIN watches' => watches'[node[d]] = d
    BY <1>0, <1>2 DEF TreeInv
  <2>3. QED BY <2>1, <2>2, <1>0, <1>4 DEF TreeInv
<1>7. CASE walk' = NoWalk /\ faulted' = faulted
  <2>1. WalkInv'
    BY <1>0, <1>1, <1>4, <1>7, FirstWalks DEF WalkInv
  <2>2. walk'.before = {}
    BY <1>7 DEF NoWalk
  <2>3. Live' = Live
    BY <2>2, <1>2 DEF Live
  <2>4. \A s \in Subs : Found(s) => Found(s)'
    BY <1>1, <1>3, <1>4, <2>3 DEF Found
  <2>5. \A t \in Tops : Trusted(t) => Trusted(t)'
    BY <1>2, <1>4, <2>3 DEF Trusted
  <2>6. CoverageInv'
    BY <1>0, <1>1, <1>4, <1>7, <2>3, <2>4, <2>5 DEF CoverageInv
  <2>7. QED BY <1>5, <1>6, <2>1, <2>6 DEF WatcherInv
<1>8. ASSUME NEW r \in walk.roots, faulted' = faulted \ {r},
             walk' = [walk EXCEPT !.roots = @ \ {r}, !.pending = {r}, !.seen = {},
                        !.before = {i \in DOMAIN watches' : Home[watches'[i]] = r}]
      PROVE  WatcherInv'
  <2>1. r \in Tops /\ r \in Dirs /\ Home[r] = r
    BY <1>0, TreeShape DEF WalkInv, Walks
  <2>2. /\ walk'.why = walk.why /\ walk'.seen = {}
        /\ walk'.before = {i \in DOMAIN watches' : Home[watches'[i]] = r}
    BY <1>0, <1>8 DEF WalkInv, Walks
  <2>3. WalkInv'
    <3>1. Walking'
      BY <1>1, <2>2 DEF Walking
    <3>2. {i \in DOMAIN watches' : Home[watches'[i]] = r} \in SUBSET Nat
      BY <1>0, <1>2 DEF TreeInv
    <3>3. walk' \in Walks
      BY <3>2, <1>0, <1>8, <2>1 DEF WalkInv, Walks
    <3>4. QED BY <3>1, <3>3, <1>0, <1>1, <1>4, <1>8 DEF WalkInv, Walks
  <2>4. Live' = {i \in Live : Home[watches[i]] # r}
    BY <1>2, <2>2 DEF Live
  <2>5. \A d \in Dirs : node[d] \in Live => watches[node[d]] = d
    BY <1>0, <1>2 DEF TreeInv
  <2>6. ASSUME NEW s \in Subs, node[s] # 0, node[s] \notin Live', Home[s] \notin faulted',
               node[s] \notin Live /\ Home[s] \notin faulted => Found(s)
        PROVE  Found(s)'
    <3>1. CASE Home[s] = r
      <4>1. node[Above[s]] \notin Live'
        BY <3>1, <1>3, <2>4, <2>5
      <4>2. QED BY <4>1, <1>4 DEF Found
    <3>2. CASE Home[s] # r
      <4>1. node[s] \notin Live /\ Home[s] \notin faulted
        BY <3>2, <1>3, <1>8, <2>4, <2>5, <2>6
      <4>2. Found(s)
        BY <4>1, <2>6
      <4>3. QED BY <4>2, <1>1, <1>3, <1>4, <2>4 DEF Found
    <3>3. QED BY <3>1, <3>2
  <2>7. ASSUME NEW t \in Tops, t \notin faulted', t \notin faulted => Trusted(t)
        PROVE  Trusted(t)'
    <3>1. CASE t = r
      BY <3>1, <1>2, <2>1, <2>4 DEF Trusted
    <3>2. CASE t # r
      <4>1. Trusted(t)
        BY <3>2, <1>8, <2>7
      <4>2. QED BY <4>1, <1>2, <1>4, <2>4 DEF Trusted
    <3>3. QED BY <3>1, <3>2
  <2>8. CoverageInv'
    BY <1>0, <1>1, <1>4, <2>6, <2>7 DEF CoverageInv
  <2>9. QED BY <1>5, <1>6, <2>3, <2>8 DEF WatcherInv
<1>9. QED BY <1>7, <1>8 DEF WalkEnds

(* The head of the queue and the rest of it. *)
LEMMA Dequeued ==
  ASSUME queue \in Seq(Events), queue # <<>>
  PROVE  /\ Head(queue) \in Events /\ Head(queue) \in Queued
         /\ Tail(queue) \in Seq(Events) /\ Queued = {Head(queue)} \cup Held(Tail(queue))
<1>1. /\ Len(queue) \in Nat /\ Len(queue) # 0 /\ Head(queue) = queue[1]
      /\ Tail(queue) \in Seq(Events) /\ Len(Tail(queue)) = Len(queue) - 1
      /\ \A n \in 1..Len(queue) - 1 : Tail(queue)[n] = queue[n + 1]
  OBVIOUS
<1>2. \A n \in 1..Len(queue) : n = 1 \/ (n - 1 \in 1..Len(queue) - 1 /\ queue[n] = Tail(queue)[n - 1])
  BY <1>1
<1>3. Queued \subseteq {Head(queue)} \cup Held(Tail(queue))
  <2> SUFFICES ASSUME NEW n \in 1..Len(queue) PROVE queue[n] \in {Head(queue)} \cup Held(Tail(queue))
    BY DEF Queued, Held
  <2>1. n = 1 \/ (n - 1 \in 1..Len(Tail(queue)) /\ queue[n] = Tail(queue)[n - 1])
    BY <1>1, <1>2
  <2>2. QED BY <2>1, <1>1 DEF Held
<1>4. Held(Tail(queue)) \subseteq Queued
  BY <1>1 DEF Queued, Held
<1>5. Head(queue) \in Queued /\ Head(queue) \in Events
  BY <1>1 DEF Queued, Held
<1>6. QED BY <1>1, <1>3, <1>4, <1>5

(* What an event does to the watches, the faults and the walk.             *)
LEMMA WhatApplied ==
  ASSUME TreeInv, WalkInv, ~Walking, NEW e \in Queued, e \in Events, Applied(e)
  PROVE  /\ watches' = watches \/ (watches' = Forget(e.inode) /\ Gone(e.inode))
         /\ faulted \subseteq faulted' /\ faulted' \subseteq Tops
         /\ \/ walk' = NoWalk
            \/ walk' = [NoWalk EXCEPT !.why = "event", !.pending = {e.dir}] /\ e.dir \in Dirs
         /\ e = Overflow => faulted' = Tops
         /\ e.kind = "newdir" /\ e.inode \in DOMAIN watches => e.dir \in walk'.pending
         /\ e.kind = "moveself" /\ e.inode \in DOMAIN watches /\ watches[e.inode] \in Tops
              => watches[e.inode] \in faulted'
<1>1. walk = NoWalk /\ faulted \subseteq Tops
  BY DEF WalkInv, Walks
<1>2. CASE e = Overflow
  BY <1>1, <1>2 DEF Applied, OverflowFaults, Overflow, Event
<1>3. CASE e # Overflow
  <2>1. e.kind # "overflow" /\ e.dir \in Dirs
    BY <1>3 DEF Events
  <2>2. CASE e.inode \notin DOMAIN watches
    BY <1>1, <1>3, <2>1, <2>2 DEF Applied
  <2>3. CASE e.inode \in DOMAIN watches
    <3>1. /\ watches' = IF e.kind = "ignored" \/ (e.kind = "moveself" /\ watches[e.inode] \in Tops)
                        THEN Forget(e.inode) ELSE watches
          /\ faulted' = IF e.kind = "moveself" /\ watches[e.inode] \in Tops
                        THEN faulted \cup {watches[e.inode]} ELSE faulted
          /\ walk' = IF e.kind = "newdir"
                     THEN [NoWalk EXCEPT !.why = "event", !.pending = {e.dir}] ELSE walk
      BY <2>1, <2>3 DEF Applied
    <3>2. watches' = watches \/ (watches' = Forget(e.inode) /\ Gone(e.inode))
      BY <3>1 DEF TreeInv
    <3>3. e.kind = "newdir" => e.dir \in walk'.pending
      BY <3>1 DEF NoWalk
    <3>4. QED BY <1>1, <1>3, <2>1, <3>1, <3>2, <3>3
  <2>4. QED BY <2>2, <2>3
<1>4. QED BY <1>2, <1>3

(* It leaves the tree's and the walk's invariant.                          *)
LEMMA AppliedKeeps ==
  ASSUME TreeInv, WalkInv, ~Walking, NEW e \in Queued, e \in Events, Applied(e), UNCHANGED treeVars,
         queue' \in Seq(Events), Queued' \subseteq Queued,
         halfDrains' \in Nat, dead' = dead, gen' \in Nat
  PROVE  TreeInv' /\ WalkInv'
<1>1. node' = node /\ nodes' = nodes /\ \A i : Gone(i)' <=> Gone(i)
  BY DEF treeVars, Gone
<1>2. watches' = watches \/ watches' = Forget(e.inode)
  BY WhatApplied
<1>3. /\ watches' \in [DOMAIN watches' -> Dirs] /\ DOMAIN watches' \subseteq DOMAIN watches
      /\ \A i \in DOMAIN watches' : watches'[i] = watches[i]
  <2>1. CASE watches' = watches
    BY <2>1 DEF TreeInv
  <2>2. CASE watches' = Forget(e.inode)
    BY <2>2 DEF TreeInv, Forget
  <2>3. QED BY <1>2, <2>1, <2>2
<1>4. TreeInv'
  BY <1>1, <1>3 DEF TreeInv
<1>5. faulted' \subseteq Tops
  BY WhatApplied
<1>6. \/ walk' = NoWalk
      \/ walk' = [NoWalk EXCEPT !.why = "event", !.pending = {e.dir}] /\ e.dir \in Dirs
  BY WhatApplied
<1>7. WalkInv'
  <2>1. walk' \in Walks
    BY <1>6, FirstWalks
  <2>2. ~Walking' => walk' = NoWalk
    BY <1>6 DEF NoWalk, Walking
  <2>3. QED BY <1>5, <2>1, <2>2 DEF WalkInv
<1>8. QED BY <1>4, <1>7

(* An event consumed: what it announced is found by the walk it starts.    *)
LEMMA AtConsume ==
  ASSUME WatcherInv, Consume
  PROVE  WatcherInv'
<1> DEFINE e == Head(queue)
<1>0. TreeInv /\ WalkInv /\ CoverageInv /\ CaptureInv
  BY DEF WatcherInv
<1>1. /\ ~Walking /\ queue # <<>> /\ gen' = gen + 1 /\ queue' = Tail(queue) /\ Applied(e)
      /\ UNCHANGED <<treeVars, boundVars, dead, owned, capture>>
  BY DEF Consume, Locked
<1>2. /\ e \in Events /\ e \in Queued /\ queue' \in Seq(Events) /\ Queued = {e} \cup Queued'
  BY <1>0, <1>1, Dequeued DEF TreeInv, Queued
<1>3. halfDrains' = halfDrains /\ halfDrains \in Nat /\ gen \in Nat /\ gen' \in Nat
  BY <1>0, <1>1 DEF WalkInv, Walks, boundVars
<1> HIDE DEF e
<1>4. TreeInv' /\ WalkInv'
  BY <1>0, <1>1, <1>2, <1>3, AppliedKeeps
<1>5. CaptureInv'
  BY <1>0, <1>1, <1>3, GenerationMoves
<1>6. /\ watches' = watches \/ (watches' = Forget(e.inode) /\ Gone(e.inode))
      /\ faulted \subseteq faulted'
      /\ walk'.before = {}
      /\ e = Overflow => faulted' = Tops
      /\ e.kind = "newdir" /\ e.inode \in DOMAIN watches => e.dir \in walk'.pending
      /\ e.kind = "moveself" /\ e.inode \in DOMAIN watches /\ watches[e.inode] \in Tops
           => watches[e.inode] \in faulted'
  <2>1. walk' = NoWalk \/ walk' = [NoWalk EXCEPT !.why = "event", !.pending = {e.dir}]
    BY <1>0, <1>1, <1>2, WhatApplied
  <2>2. walk'.before = {}
    <3>1. NoWalk.before = {} /\ [NoWalk EXCEPT !.why = "event", !.pending = {e.dir}].before = {}
      BY DEF NoWalk
    <3>2. QED BY <2>1, <3>1
  <2>3. QED BY <2>2, <1>0, <1>1, <1>2, WhatApplied
<1>7. walk.before = {} /\ walk.pending = {} /\ walk.list = "none" /\ node' = node
  BY <1>0, <1>1 DEF WalkInv, Walks, NoWalk, treeVars
<1>8. Live = DOMAIN watches /\ Live' = DOMAIN watches'
  BY <1>6, <1>7 DEF Live
<1>9. /\ Live' \subseteq Live /\ \A i \in Live' : watches'[i] = watches[i]
      /\ \A i \in Live \ Live' : Gone(i)
  BY <1>6, <1>8 DEF Forget
<1>10. ASSUME NEW s \in Subs, node[s] # 0, node[s] \notin Live', Home[s] \notin faulted',
              node[s] \notin Live /\ Home[s] \notin faulted => Found(s)
       PROVE  Found(s)'
  <2>1. s \in Dirs /\ Above[s] \in Dirs /\ Above[s] # "none" /\ Home[s] \in Tops
    BY TreeShape
  <2>2. node[s] \notin Live
    BY <1>9, <1>10, <2>1 DEF Gone
  <2>3. Found(s) /\ e # Overflow
    BY <1>6, <1>10, <2>1, <2>2
  <2>4. CASE Overflow \in Queued
    BY <2>3, <2>4, <1>2 DEF Found
  <2>5. CASE node[Above[s]] \notin Live
    BY <2>5, <1>7, <1>9 DEF Found
  <2>6. CASE Event("newdir", node[Above[s]], s) = e /\ node[Above[s]] \in Live
    <3>1. e.kind = "newdir" /\ e.inode = node[Above[s]] /\ e.dir = s
      BY <2>6 DEF Event
    <3>2. QED BY <3>1, <2>6, <1>6, <1>8 DEF Found
  <2>7. CASE Event("newdir", node[Above[s]], s) \in Queued'
    BY <2>7, <1>7 DEF Found
  <2>8. QED BY <2>1, <2>3, <2>4, <2>5, <2>6, <2>7, <1>2, <1>7 DEF Found
<1>11. ASSUME NEW t \in Tops, t \notin faulted', Trusted(t)
       PROVE  Trusted(t)'
  <2> SUFFICES ASSUME Overflow \notin Queued', NEW i \in Live', watches'[i] = t
               PROVE  i = node[t] \/ \E f \in Queued' : f.kind = "moveself" /\ f.inode = i
    BY <1>7 DEF Trusted
  <2>1. i \in Live /\ watches[i] = t /\ e # Overflow
    BY <1>6, <1>9, <1>11
  <2>2. i = node[t] \/ \E f \in Queued : f.kind = "moveself" /\ f.inode = i
    BY <2>1, <1>2, <1>11 DEF Trusted
  <2>3. ~(e.kind = "moveself" /\ e.inode = i)
    BY <2>1, <1>6, <1>8, <1>11
  <2>4. QED BY <2>2, <2>3, <1>2
<1>12. CoverageInv'
  BY <1>0, <1>1, <1>3, <1>6, <1>7, <1>10, <1>11 DEF CoverageInv
<1>13. QED BY <1>4, <1>5, <1>12 DEF WatcherInv

(* A callback that fails: the reader is dead, or the drain counts as cut   *)
(* short, and in both cases the generation has moved.                      *)
LEMMA AtLostEvents ==
  ASSUME WatcherInv, ReaderDies \/ DrainCutShort
  PROVE  WatcherInv'
<1>0. TreeInv /\ WalkInv /\ CoverageInv /\ CaptureInv
  BY DEF WatcherInv
<1>1. /\ ~Walking /\ queue # <<>> /\ gen' = gen + 1 /\ queue' = <<>>
      /\ UNCHANGED treeVars /\ capture' = capture
  BY DEF ReaderDies, DrainCutShort, Locked
<1>2. queue' \in Seq(Events) /\ Queued' = {} /\ gen \in Nat /\ gen' \in Nat /\ halfDrains \in Nat
  BY <1>0, <1>1 DEF Queued, Held, WalkInv
<1>3. CaptureInv'
  BY <1>0, <1>1, <1>2, GenerationMoves
<1>4. CASE ReaderDies
  <2>1. dead' = TRUE /\ UNCHANGED <<halfDrains, watches, faulted, walk>>
    BY <1>4 DEF ReaderDies
  <2>2. TreeInv'
    BY <1>0, <1>1, <1>2, <2>1 DEF TreeInv, treeVars
  <2>3. WalkInv'
    BY <1>0, <1>2, <2>1 DEF WalkInv, Walking
  <2>4. QED BY <1>3, <2>1, <2>2, <2>3 DEF WatcherInv, CoverageInv
<1>5. CASE DrainCutShort
  <2>1. halfDrains' = halfDrains + 1 /\ dead' = dead /\ Applied(Head(queue))
    BY <1>5 DEF DrainCutShort
  <2>2. Head(queue) \in Events /\ Head(queue) \in Queued
    BY <1>0, <1>1, Dequeued DEF TreeInv
  <2>3. halfDrains' \in Nat /\ halfDrains' # 0
    BY <1>2, <2>1
  <2>4. TreeInv' /\ WalkInv'
    BY <1>0, <1>1, <1>2, <2>1, <2>2, <2>3, AppliedKeeps
  <2>5. QED BY <1>3, <2>3, <2>4 DEF WatcherInv, CoverageInv
<1>6. QED BY <1>4, <1>5

(* Steps that leave the tree, the queue and the watches alone.             *)
LEMMA AtRest ==
  ASSUME TreeInv, WalkInv, CoverageInv,
         UNCHANGED <<node, nodes, queue, watches, faulted, dead, gen, boundVars>>,
         walk' = walk \/ (~Walking /\ walk' = [NoWalk EXCEPT !.why = "reconcile", !.roots = faulted])
  PROVE  TreeInv' /\ WalkInv' /\ CoverageInv'
<1>1. TreeInv'
  BY DEF TreeInv, Queued, Held, Gone
<1>2. CASE walk' = walk
  <2>1. WalkInv'
    BY <1>2 DEF WalkInv, Walking, boundVars
  <2>2. CoverageInv'
    BY <1>2 DEF CoverageInv, Found, Trusted, Live, Queued, Held, boundVars
  <2>3. QED BY <1>1, <2>1, <2>2
<1>3. CASE ~Walking /\ walk' = [NoWalk EXCEPT !.why = "reconcile", !.roots = faulted]
  <2>1. walk = NoWalk /\ faulted \in SUBSET Tops
    BY <1>3 DEF WalkInv
  <2>2. /\ walk'.pending = {} /\ walk'.list = "none" /\ walk'.before = {} /\ walk'.why = "reconcile"
        /\ walk.pending = {} /\ walk.list = "none" /\ walk.before = {}
    BY <1>3, <2>1 DEF NoWalk
  <2>3. WalkInv'
    BY <1>3, <2>1, <2>2, FirstWalks DEF WalkInv, Walking, boundVars
  <2>4. Live' = Live /\ Queued' = Queued
    BY <2>2 DEF Live, Queued, Held
  <2>5. CoverageInv'
    BY <2>2, <2>4 DEF CoverageInv, Found, Trusted, boundVars
  <2>6. QED BY <1>1, <2>3, <2>5
<1>4. QED BY <1>2, <1>3

(* The watcher's first state: nothing is watched, and all is to be walked. *)
LEMMA WatcherInvInit ==
  ASSUME WatcherInit
  PROVE  WatcherInv
<1>1. PICK there \in SUBSET Subs :
        /\ \A d \in there : Above[d] \in Tops \cup there
        /\ node = [d \in Dirs |-> IF d \in Tops \cup there THEN FirstNodes[d] ELSE 0]
  BY DEF WatcherInit
<1>2. /\ nodes = Cardinality(Dirs) /\ watches = <<>> /\ queue = <<>> /\ gen = 0 /\ faulted = {} /\ dead = FALSE
      /\ walk = [NoWalk EXCEPT !.why = "start", !.pending = Tops]
      /\ capture = NoCapture /\ halfDrains = 0
  BY DEF WatcherInit
<1>3. nodes \in Nat /\ FirstNodes \in Injection(Dirs, 1..nodes)
  <2>1. nodes \in Nat /\ ExistsBijection(1..nodes, Dirs)
    BY <1>2, WatcherConstants, FS_CardinalityType
  <2>2. PICK f : f \in Bijection(1..nodes, Dirs)
    BY <2>1 DEF ExistsBijection
  <2>3. Inverse(f, 1..nodes, Dirs) \in Bijection(Dirs, 1..nodes)
    BY <2>2, Fun_BijInverse
  <2>4. \E g \in Injection(Dirs, 1..nodes) : TRUE
    BY <2>3 DEF Bijection
  <2>5. QED BY <2>1, <2>4, <1>2 DEF FirstNodes
<1>4. /\ FirstNodes \in [Dirs -> 1..nodes]
      /\ \A d, e \in Dirs : FirstNodes[d] = FirstNodes[e] => d = e
  BY <1>3 DEF Injection, IsInjective
<1>5. \A d \in Dirs : node[d] = IF d \in Tops \cup there THEN FirstNodes[d] ELSE 0
  BY <1>1
<1>6. \A d \in Dirs : FirstNodes[d] \in 1..nodes /\ FirstNodes[d] # 0
  BY <1>3, <1>4
<1>7. DOMAIN watches = {} /\ watches \in [DOMAIN watches -> Dirs] /\ Live = {} /\ Queued = {}
      /\ queue \in Seq(Events)
  BY <1>2 DEF Live, Queued, Held
<1>8. TreeInv
  <2>1. node \in [Dirs -> 0..nodes]
    BY <1>1, <1>3, <1>6
  <2>2. \A r \in Tops : node[r] # 0
    BY <1>5, <1>6, TreeShape
  <2>3. \A s \in Subs : node[s] # 0 => node[Above[s]] # 0
    <3> SUFFICES ASSUME NEW s \in Subs, node[s] # 0 PROVE node[Above[s]] # 0
      OBVIOUS
    <3>1. s \in Dirs /\ s \notin Tops /\ Above[s] \in Dirs
      BY TreeShape
    <3>2. s \in there
      BY <3>1, <1>5
    <3>3. QED BY <3>1, <3>2, <1>1, <1>5, <1>6
  <2>4. \A d, e \in Dirs : node[d] = node[e] /\ node[d] # 0 => d = e
    BY <1>4, <1>5
  <2>5. QED BY <2>1, <2>2, <2>3, <2>4, <1>3, <1>7 DEF TreeInv
<1>9. WalkInv
  <2>1. Walking
    BY <1>2 DEF Walking, NoWalk
  <2>2. QED BY <2>1, <1>2, FirstWalks DEF WalkInv
<1>10. CoverageInv
  BY <1>7 DEF CoverageInv, Found, Trusted
<1>11. CaptureInv
  BY <1>2 DEF CaptureInv
<1>12. QED BY <1>8, <1>9, <1>10, <1>11 DEF WatcherInv

(* Every step preserves it. *)
LEMMA WatcherInvStep ==
  ASSUME WatcherInv, [WatcherNext]_watcherVars
  PROVE  WatcherInv'
<1>0. TreeInv /\ WalkInv /\ CoverageInv /\ CaptureInv
  BY DEF WatcherInv
<1>1. CASE \E d \in Dirs : Write(d) \/ MakeDirectory(d) \/ RemoveDirectory(d) \/ Walk(d)
  BY <1>1, AtWrite, AtMakeDirectory, AtRemoveDirectory, AtWalkWatch, AtWalkList DEF Walk
<1>2. CASE \E r \in Tops : ReplaceRoot(r)
  BY <1>2, AtReplaceRoot
<1>3. CASE WalkEnds \/ Consume
  BY <1>3, AtWalkEnds, AtConsume
<1>4. CASE ReaderDies \/ DrainCutShort
  BY <1>4, AtLostEvents
<1>5. CASE OwnedWrites \/ UNCHANGED watcherVars
  <2>1. UNCHANGED <<treeVars, watchVars, boundVars, queue, gen, dirty, capture>>
    BY <1>5 DEF OwnedWrites, watcherVars
  <2>2. TreeInv' /\ WalkInv' /\ CoverageInv'
    BY <1>0, <2>1, AtRest DEF treeVars, watchVars
  <2>3. CaptureInv'
    BY <1>0, <2>1 DEF CaptureInv, Walking, Watched, treeVars, watchVars, boundVars
  <2>4. QED BY <2>2, <2>3 DEF WatcherInv
<1>6. CASE CaptureBegins
  <2>1. /\ ~Walking /\ capture' = [base |-> gen, covered |-> Watched] /\ changed' = {}
        /\ UNCHANGED <<node, nodes, watchVars, boundVars, queue, gen>>
    BY <1>6 DEF CaptureBegins, Synchronized
  <2>2. TreeInv' /\ WalkInv' /\ CoverageInv'
    BY <1>0, <2>1, AtRest DEF watchVars
  <2>3. gen \in Nat
    BY <1>0 DEF WalkInv
  <2>4. CaptureInv'
    BY <2>1, <2>3 DEF CaptureInv, Walking, Watched, watchVars
  <2>5. QED BY <2>2, <2>4 DEF WatcherInv
<1>7. CASE CaptureEnds
  <2>1. /\ ~Walking /\ capture' = NoCapture
        /\ UNCHANGED <<treeVars, watches, faulted, dead, boundVars, queue, gen>>
        /\ walk' = walk \/ walk' = [NoWalk EXCEPT !.why = "reconcile", !.roots = faulted]
    BY <1>7 DEF CaptureEnds, Synchronized
  <2>2. TreeInv' /\ WalkInv' /\ CoverageInv'
    BY <1>0, <2>1, AtRest DEF treeVars
  <2>3. CaptureInv'
    BY <2>1 DEF CaptureInv
  <2>4. QED BY <2>2, <2>3 DEF WatcherInv
<1>8. QED BY <1>1, <1>2, <1>3, <1>4, <1>5, <1>6, <1>7 DEF WatcherNext

(* Whatever programs do to the trees while they are walked, an inode that  *)
(* is not watched is still to be found by the walk or announced in the     *)
(* queue, unless its root is reported as not covered.                      *)
THEOREM WatcherInvariance ==
  WatcherSpec => []WatcherInv
<1>1. WatcherInit => WatcherInv
  BY WatcherInvInit
<1>2. WatcherInv /\ [WatcherNext]_watcherVars => WatcherInv'
  BY WatcherInvStep
<1>3. QED BY <1>1, <1>2, PTL DEF WatcherSpec

(* A root that watched_roots reports once the events are drained has every *)
(* one of its directories watched, for any tree and any queue.             *)
THEOREM ReportedRootsAreCovered ==
  WatcherSpec => []CoverageIsHonest
<1>1. WatcherInv => CoverageIsHonest
  BY QuietIsCovered DEF WatcherInv, CoverageIsHonest, Synchronized
<1>2. QED BY <1>1, WatcherInvariance, PTL

(* A capture accepted by the second look at the generation copied no root  *)
(* it covered while that root changed.                                     *)
THEOREM AcceptedCapturesAreStable ==
  WatcherSpec => CapturesAreStable
<1>1. ASSUME WatcherInv, CaptureEnds, Accepts(capture.base), halfDrains = 0
      PROVE  capture.covered \cap changed = {}
  <2>1. capture # NoCapture /\ queue = <<>> /\ gen = capture.base
    BY <1>1 DEF CaptureEnds, Synchronized, Accepts
  <2>2. QED BY <1>1, <2>1 DEF WatcherInv, CaptureInv
<1>2. WatcherInv /\ [WatcherNext]_watcherVars =>
        [ CaptureEnds /\ Accepts(capture.base) /\ halfDrains = 0
            => capture.covered \cap changed = {} ]_watcherVars
  BY <1>1
<1>3. QED BY <1>2, WatcherInvariance, PTL DEF WatcherSpec, CapturesAreStable
=============================================================================
