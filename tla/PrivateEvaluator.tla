--------------------------- MODULE PrivateEvaluator ---------------------------
(***************************************************************************)
(* One private evaluation (runtime/worldline/linux/private_evaluator.py):  *)
(* a trusted examiner, at most one worker it runs, and candidate           *)
(* processes.  Two broker threads answer requests one at a time: the       *)
(* examiner's (sessions, and the worker's run, which occupies it) and the  *)
(* worker's (one case lease: a directory of the worker's copy, given to    *)
(* candidates as a view of their own).  Every candidate has a thread that  *)
(* collects it.  Any refusal stops the broker that met it, and condemns    *)
(* the run.  A tree is the set of the writes it holds.                     *)
(***************************************************************************)
EXTENDS Integers, FiniteSets

CONSTANTS
  Handles,     \* candidate sessions
  MaxTreeWrites \* bound: writes by the worker and by candidates

VARIABLES
  phase,       \* "examined", "settling", "complete", "refused"
  errors,      \* a broker or a candidate's thread reported an error
  examinerOp, workerOp, \* what each broker is doing: "free", "stopped", an operation
  worker,      \* "unused", "active", "over"
  workerTree,  \* the leased directory in the worker's copy
  lease,       \* "none", "open", "closed"
  caseView, generation, caseDirty, caseHandles,
  session,     \* of each handle: "none", "launching", "running", "exited", "over";
               \* "unbound": no role boundary, "failed": over its deadline or output limit
  closed,      \* handles torn down
  evidenced,    \* handles in the boundary evidence
  outputs,     \* history: writes of candidates
  delivered,   \* history: writes a copy-out brought into the worker's copy
  treeWrites   \* counter of the bound

caseVars      == <<workerTree, lease, caseView, generation, caseDirty, caseHandles>>
sessionVars   == <<session, closed, evidenced>>
historyVars   == <<outputs, delivered, treeWrites>>
evaluatorVars == <<phase, errors, examinerOp, workerOp, worker, caseVars, sessionVars, historyVars>>

EvaluatorInit ==
  /\ phase = "examined" /\ errors = FALSE
  /\ examinerOp = <<"free">> /\ workerOp = <<"free">> /\ worker = "unused"
  /\ workerTree = {} /\ lease = "none" /\ caseView = {} /\ generation = {}
  /\ caseDirty = FALSE /\ caseHandles = {}
  /\ session = [h \in Handles |-> "none"] /\ closed = {} /\ evidenced = {}
  /\ outputs = {} /\ delivered = {} /\ treeWrites = 0

-----------------------------------------------------------------------------
(* A broker takes a request.  After the examiner's end no new one is taken.*)
ExaminerAsks == phase = "examined" /\ examinerOp = <<"free">>
WorkerAsks   == phase = "examined" /\ workerOp = <<"free">> /\ worker = "active" /\ lease # "none"

(* _refuse in a handler: the broker stops, and the run is condemned.  The  *)
(* other broker may be waiting for a connection already and take one more  *)
(* request; it is left running here, as nothing it does can save the run.  *)
ExaminerRefused == examinerOp' = <<"stopped">> /\ errors' = TRUE
WorkerRefused   == workerOp' = <<"stopped">> /\ errors' = TRUE

(* start_candidate: the session is known before its thread runs.           *)
StartIsolated(h) ==
  /\ ExaminerAsks /\ session[h] = "none"
  /\ examinerOp' = <<"start", h>>
  /\ session' = [session EXCEPT ![h] = "launching"]
  /\ UNCHANGED <<phase, errors, workerOp, worker, caseVars, closed, evidenced, historyVars>>

(* case_start: on a worker's copy that still is what the view was made of. *)
CaseStart(h) ==
  /\ WorkerAsks /\ lease = "open" /\ session[h] = "none"
  /\ IF workerTree # generation
     THEN WorkerRefused /\ UNCHANGED <<session, caseHandles, caseDirty>>
     ELSE /\ workerOp' = <<"start", h>>
          /\ session' = [session EXCEPT ![h] = "launching"]
          /\ caseHandles' = caseHandles \cup {h} /\ caseDirty' = TRUE
          /\ UNCHANGED errors
  /\ UNCHANGED <<phase, examinerOp, worker, workerTree, lease, caseView, generation, closed, evidenced, historyVars>>

(* The answer to a start: the candidate is at its boundary, has failed, or *)
(* 15 seconds have passed.                                                 *)
StartAnswered(h) ==
  \/ /\ examinerOp = <<"start", h>>
     /\ \/ session[h] \in {"running", "exited", "over", "failed"} /\ examinerOp' = <<"free">> /\ UNCHANGED errors
        \/ session[h] \in {"launching", "unbound"} /\ ExaminerRefused
     /\ UNCHANGED <<phase, workerOp, worker, caseVars, sessionVars, historyVars>>
  \/ /\ workerOp = <<"start", h>>
     /\ \/ session[h] \in {"running", "exited", "over", "failed"} /\ workerOp' = <<"free">> /\ UNCHANGED errors
        \/ session[h] \in {"launching", "unbound"} /\ WorkerRefused
     /\ UNCHANGED <<phase, examinerOp, worker, caseVars, sessionVars, historyVars>>

-----------------------------------------------------------------------------
(* execute and _run_role, a candidate's thread.                            *)
Boundary(h) ==
  /\ session[h] = "launching"
  /\ \/ session' = [session EXCEPT ![h] = "running"] /\ UNCHANGED errors
     \/ session' = [session EXCEPT ![h] = "unbound"] /\ errors' = TRUE
  /\ UNCHANGED <<phase, examinerOp, workerOp, worker, caseVars, closed, evidenced, historyVars>>

CandidateWrites(h) ==
  /\ session[h] = "running" /\ h \in caseHandles /\ treeWrites < MaxTreeWrites
  /\ treeWrites' = treeWrites + 1
  /\ caseView' = caseView \cup {treeWrites} /\ outputs' = outputs \cup {treeWrites}
  /\ UNCHANGED <<phase, errors, examinerOp, workerOp, worker, workerTree, lease, generation, caseDirty,
                 caseHandles, sessionVars, delivered>>

CandidateEnds(h) ==
  /\ session[h] = "running" /\ session' = [session EXCEPT ![h] = "exited"]
  /\ UNCHANGED <<phase, errors, examinerOp, workerOp, worker, caseVars, closed, evidenced, historyVars>>

(* Its result goes into the evidence, and only then is it done; past its   *)
(* deadline or its output limit it is an error instead.                    *)
ThreadEnds(h) ==
  /\ session[h] \in {"running", "exited"}
  /\ \/ /\ session[h] = "exited" /\ session' = [session EXCEPT ![h] = "over"]
        /\ evidenced' = evidenced \cup {h} /\ UNCHANGED errors
     \/ session' = [session EXCEPT ![h] = "failed"] /\ errors' = TRUE /\ UNCHANGED evidenced
  /\ UNCHANGED <<phase, examinerOp, workerOp, worker, caseVars, closed, historyVars>>

-----------------------------------------------------------------------------
(* session_request.  A stream or a wait changes nothing, but a wait for a  *)
(* candidate that failed is refused, and so is any use of a closed handle. *)
(* The examiner's broker asks for no lease.                                *)
Unserved(h) == h \in closed \/ session[h] \in {"unbound", "failed"}

Kill(h) == session' = [session EXCEPT ![h] = IF @ = "running" THEN "exited" ELSE @]

SessionRequest(h) ==
  /\ session[h] # "none"
  /\ \/ /\ ExaminerAsks /\ Unserved(h) /\ ExaminerRefused /\ UNCHANGED <<workerOp, session>>
     \/ /\ WorkerAsks /\ (h \notin caseHandles \/ Unserved(h)) /\ WorkerRefused
        /\ UNCHANGED <<examinerOp, session>>
     \/ /\ ExaminerAsks \/ (WorkerAsks /\ h \in caseHandles) \* signal
        /\ h \notin closed /\ Kill(h) /\ UNCHANGED <<errors, examinerOp, workerOp>>
  /\ UNCHANGED <<phase, worker, caseVars, closed, evidenced, historyVars>>

Teardown(h) ==
  /\ session[h] # "none" /\ h \notin closed
  /\ \/ ExaminerAsks /\ examinerOp' = <<"teardown", h>> /\ UNCHANGED workerOp
     \/ WorkerAsks /\ h \in caseHandles /\ workerOp' = <<"teardown", h>> /\ UNCHANGED examinerOp
  /\ Kill(h)
  /\ UNCHANGED <<phase, errors, worker, caseVars, closed, evidenced, historyVars>>

(* Mutant: what was killed is taken for finished.                          *)
JoinedWhenKilled(h) == TRUE

(* session["thread"].join, and done.                                       *)
Joined(h) == session[h] \in {"over", "unbound", "failed"}

TeardownAnswered(h) ==
  \/ /\ examinerOp = <<"teardown", h>>
     /\ \/ Joined(h) /\ closed' = closed \cup {h} /\ examinerOp' = <<"free">> /\ UNCHANGED errors
        \/ ~Joined(h) /\ ExaminerRefused /\ UNCHANGED closed
     /\ UNCHANGED <<workerOp, caseHandles>>
  \/ /\ workerOp = <<"teardown", h>>
     /\ \/ /\ Joined(h) /\ closed' = closed \cup {h} /\ caseHandles' = caseHandles \ {h}
           /\ workerOp' = <<"free">> /\ UNCHANGED errors
        \/ ~Joined(h) /\ WorkerRefused /\ UNCHANGED <<closed, caseHandles>>
     /\ UNCHANGED examinerOp
TeardownEnds(h) ==
  /\ TeardownAnswered(h)
  /\ UNCHANGED <<phase, worker, workerTree, lease, caseView, generation, caseDirty, session, evidenced, historyVars>>

-----------------------------------------------------------------------------
(* The examiner runs a worker, and waits.                                  *)
WorkerStarts ==
  /\ ExaminerAsks /\ worker = "unused" /\ worker' = "active" /\ examinerOp' = <<"worker">>
  /\ UNCHANGED <<phase, errors, workerOp, caseVars, sessionVars, historyVars>>

WorkerWrites ==
  /\ worker = "active" /\ treeWrites < MaxTreeWrites
  /\ treeWrites' = treeWrites + 1 /\ workerTree' = workerTree \cup {treeWrites}
  /\ UNCHANGED <<phase, errors, examinerOp, workerOp, worker, lease, caseView, generation, caseDirty,
                 caseHandles, sessionVars, outputs, delivered>>

WorkerEnds ==
  /\ worker = "active" /\ worker' = "over"
  /\ \/ examinerOp' = <<"free">> /\ UNCHANGED errors
     \/ ExaminerRefused \* its deadline, or its output limit
  /\ UNCHANGED <<phase, workerOp, caseVars, sessionVars, historyVars>>

(* open_case: one lease here.                                              *)
OpenCase ==
  /\ phase = "examined" /\ workerOp = <<"free">> /\ worker = "active" /\ lease = "none"
  /\ lease' = "open" /\ caseView' = workerTree /\ generation' = workerTree
  /\ UNCHANGED <<phase, errors, examinerOp, workerOp, worker, workerTree, caseDirty, caseHandles,
                 sessionVars, historyVars>>

(* Mutant: output is copied while candidates may still write.              *)
CopyOutWhenDirty == caseDirty /\ workerTree = generation

CopyOutReady == caseHandles = {} /\ caseDirty /\ workerTree = generation

(* copy_out_case: the copy, and then the exchange; a rename that fails is  *)
(* undone, and refuses.                                                    *)
CopyOut ==
  /\ WorkerAsks /\ lease = "open"
  /\ IF CopyOutReady THEN workerOp' = <<"copyOut", caseView>> /\ UNCHANGED errors
     ELSE WorkerRefused
  /\ UNCHANGED <<phase, examinerOp, worker, caseVars, sessionVars, historyVars>>

CopyOutEnds ==
  /\ workerOp[1] = "copyOut"
  /\ \/ /\ workerOp' = <<"free">>
        /\ workerTree' = workerOp[2] /\ generation' = workerOp[2] /\ caseDirty' = FALSE
        /\ delivered' = delivered \cup workerOp[2] /\ UNCHANGED errors
     \/ WorkerRefused /\ UNCHANGED <<workerTree, generation, caseDirty, delivered>>
  /\ UNCHANGED <<phase, examinerOp, worker, lease, caseView, caseHandles, sessionVars, outputs, treeWrites>>

(* sync_in_case, with the generation the worker expects.                   *)
SyncIn ==
  /\ WorkerAsks /\ lease = "open"
  /\ IF caseHandles = {} /\ ~caseDirty THEN workerOp' = <<"copyIn", workerTree>> /\ UNCHANGED errors
     ELSE WorkerRefused
  /\ UNCHANGED <<phase, examinerOp, worker, caseVars, sessionVars, historyVars>>

SyncInEnds ==
  /\ workerOp[1] = "copyIn"
  /\ \/ workerOp' = <<"free">> /\ caseView' = workerOp[2] /\ generation' = workerOp[2] /\ UNCHANGED errors
     \/ WorkerRefused /\ UNCHANGED <<caseView, generation>>
  /\ UNCHANGED <<phase, examinerOp, worker, workerTree, lease, caseDirty, caseHandles, sessionVars, historyVars>>

(* A lease that was closed is unknown.                                     *)
CloseCase ==
  /\ WorkerAsks
  /\ IF lease = "open" /\ caseHandles = {} /\ ~caseDirty /\ workerTree = generation
     THEN lease' = "closed" /\ UNCHANGED <<errors, workerOp>>
     ELSE WorkerRefused /\ UNCHANGED lease
  /\ UNCHANGED <<phase, examinerOp, worker, workerTree, caseView, generation, caseDirty, caseHandles,
                 sessionVars, historyVars>>

-----------------------------------------------------------------------------
(* The examiner's role ends, or the run's deadline passes and the unit is  *)
(* stopped with all its processes.                                         *)
ExaminerEnds ==
  /\ phase = "examined" /\ phase' = "settling"
  /\ UNCHANGED <<errors, examinerOp, workerOp, worker, caseVars, sessionVars, historyVars>>

DeadlinePasses ==
  /\ phase \in {"examined", "settling"} /\ phase' = "refused"
  /\ examinerOp' = <<"stopped">> /\ workerOp' = <<"stopped">> /\ worker' = "over"
  /\ session' = [h \in Handles |-> IF session[h] = "none" THEN "none" ELSE "over"]
  /\ UNCHANGED <<errors, caseVars, closed, evidenced, historyVars>>

Quiescent == examinerOp[1] \in {"free", "stopped"} /\ workerOp[1] \in {"free", "stopped"}

(* The end of _bootstrap.                                                  *)
Settle ==
  /\ phase = "settling"
  /\ LET unclosed == {h \in Handles : session[h] # "none"} \ closed
         failed   == errors \/ ~Quiescent \/ unclosed # {} \/ lease = "open"
     IN  errors' = failed /\ phase' = IF failed THEN "refused" ELSE "complete"
  /\ session' = [h \in Handles |-> IF session[h] = "running" THEN "exited" ELSE session[h]]
  /\ UNCHANGED <<examinerOp, workerOp, worker, caseVars, closed, evidenced, historyVars>>

EvaluatorNext ==
  \/ \E h \in Handles :
       \/ StartIsolated(h) \/ CaseStart(h) \/ StartAnswered(h) \/ Boundary(h) \/ CandidateWrites(h)
       \/ CandidateEnds(h) \/ ThreadEnds(h) \/ SessionRequest(h) \/ Teardown(h) \/ TeardownEnds(h)
  \/ WorkerStarts \/ WorkerWrites \/ WorkerEnds
  \/ OpenCase \/ CopyOut \/ CopyOutEnds \/ SyncIn \/ SyncInEnds \/ CloseCase
  \/ ExaminerEnds \/ DeadlinePasses \/ Settle

EvaluatorSpec == EvaluatorInit /\ [][EvaluatorNext]_evaluatorVars

-----------------------------------------------------------------------------
(* A run that completes left nothing behind it: every candidate it started *)
(* was torn down, has ended and is in the boundary evidence, however       *)
(* teardowns, signals and the candidates' own ends raced (SECURITY.md: "or *)
(* the run is refused"; _bootstrap, execute).                              *)
CompleteRunIsWhole ==
  phase = "complete" =>
    \A h \in Handles : session[h] # "none" => session[h] = "over" /\ h \in closed \cap evidenced

(* In a run that completes, whatever a candidate wrote in its case was     *)
(* copied out to the worker: no view was replaced or closed with output    *)
(* nobody had collected, or that a candidate added after the copy          *)
(* (copy_out_case, sync_in_case, close_case).                              *)
NoOutputLost == phase = "complete" => outputs \subseteq delivered
==============================================================================
