------------------------------ MODULE Collapse ------------------------------
(***************************************************************************)
(* The collapse of a candidate world into PRIME, from the fork that        *)
(* freezes it to the receipt that records it, with the crashes, storage    *)
(* failures and external writes the runtime has to survive                 *)
(* (runtime/worldline/transaction.py, prime.py, roots.py, checkpoint.py,   *)
(* controller.py, daemon.py, linux/inotify.py, linux/atomic.py, store.py). *)
(*                                                                         *)
(* One daemon serves requests one at a time under its mutation lock: pc    *)
(* is where the request (or the recovery at start) stands and op what it   *)
(* holds in memory.  Agents finish worlds in background threads, the       *)
(* watcher's thread delivers events, other programs write to PRIME, and    *)
(* the daemon may die between any two writes.                              *)
(*                                                                         *)
(* Reality is `live`, a symlink farm that one renameat2 exchanges with the *)
(* prepared mapping of a transaction.  slot[t] is the generation marker    *)
(* found in transaction t's own mapping directory: t itself once prepared, *)
(* the generation t displaced once exchanged, Absent once reclaimed.       *)
(***************************************************************************)
EXTENDS Naturals, Sequences, FiniteSets, SequencesExt, WorldlineKernel

CONSTANTS
  Cand,        \* instance ids of the candidate worlds
  Tx,          \* ids of the collapse transactions
  Recon,       \* generation ids of the reconciles
  Genesis,     \* the registered generation, its PRIME world and its values
  Path,        \* managed paths
  Edit,        \* values written by programs that are not WORLDLINE
  Verdicts,    \* the outcomes of an agent's run that are explored
  MaxReq,      \* how often the requirement (policy, verifiers) changes
  MaxWrites,   \* bound on external writes
  MaxCrashes,  \* bound on daemon deaths
  MaxFaults    \* bound on failing storage calls

Mapping == {Genesis} \cup Tx            \* what `live` can be
World   == Cand \cup Recon \cup Mapping \* a checkpoint carries its generation's id
Value   == {Genesis} \cup Cand \cup Edit
Tree    == [Path -> Value]
Reqs    == 0..MaxReq
Maybe(S) == S \cup {Absent}

ASSUME CollapseConstants ==
  /\ Genesis \notin Cand \cup Tx \cup Recon \cup Edit
  /\ Cand \cap (Tx \cup Recon) = {} /\ Tx \cap Recon = {}
  /\ Absent \notin World \cup Nat \cup Tree \cup TxStates \cup WorldStates
  /\ Verdicts \subseteq {"VALID", "DEGRADED", "DEAD"}
  /\ MaxReq \in Nat /\ MaxWrites \in Nat /\ MaxCrashes \in Nat /\ MaxFaults \in Nat

VARIABLES
  live, slot, tree,                 \* the store's data directory
  loose,                            \* exchanges not known to be durable
  file, rec,                        \* the prepared JSON records
  row, state, parent, content, base, evaluated, prime, primeGen, dirty,
  receipts,                         \* the database
  watched, wgen, pend,              \* the PRIME watcher
  mode, pc, op, bad,                \* the daemon's memory
  req, writes, crashes, faults,     \* the world around it
  reported, late,                   \* history: see the properties
  lost                              \* history: exchanges a power loss undid

diskVars  == <<live, slot, tree, loose, lost>>
txVars    == <<file, rec, row>>
worldVars == <<state, parent, content, base, evaluated>>
primeVars == <<prime, primeGen>>
watchVars == <<watched, wgen, pend>>
envVars   == <<req, writes, crashes, faults>>
histVars  == <<reported, late>>
vars == <<diskVars, txVars, worldVars, primeVars, dirty, receipts, watchVars,
          mode, pc, op, bad, envVars, histVars>>

-----------------------------------------------------------------------------
Kinds == {"none", "status", "fork", "prepare", "commit", "abort", "recover"}

Steps == {"idle", "reconcile", "captured", "insert", "retire", "setprime",
          "freeze", "frozen", "prepare", "staged", "row", "reclaim",
          "authorize", "setfile", "setrow", "guard", "exchange", "fsync",
          "candidate", "siblings", "settle", "offline", "receipt", "refresh",
          "recover"}

PlainTree == [p \in Path |-> Genesis]

NoOp == [kind |-> "none", tx |-> Absent, cand |-> Absent, gen |-> Absent,
         seen |-> PlainTree, world |-> Genesis, goal |-> "ABORTED",
         todo |-> {}, moved |-> FALSE, queue |-> {}, stage |-> 1]

Op == [kind : Kinds, tx : Maybe(Tx), cand : Maybe(Cand), gen : Maybe(Nat),
       seen : Tree, world : World, goal : TxStates, todo : SUBSET World,
       moved : BOOLEAN, queue : SUBSET Tx, stage : 1..2]

(* The prepared record: the candidate, the PRIME it was merged with, the   *)
(* staged tree, the requirement its evidence and the evaluation of the     *)
(* staged tree answer, and the requirement in force at the authorization.  *)
NoRecord == [cand |-> Absent, before |-> PlainTree, staged |-> PlainTree,
             conflict |-> FALSE, primary |-> 0, second |-> Absent,
             authorized |-> Absent]

Record == [cand : Maybe(Cand), before : Tree, staged : Tree,
           conflict : BOOLEAN, primary : Reqs, second : Maybe(Reqs),
           authorized : Maybe(Reqs)]

Init ==
  /\ live = Genesis
  /\ slot = [t \in Tx |-> Absent]
  /\ tree = [g \in Mapping |-> PlainTree]
  /\ loose = {} /\ lost = {}
  /\ file = [t \in Tx |-> Absent] /\ row = [t \in Tx |-> Absent]
  /\ rec = [t \in Tx |-> NoRecord]
  /\ state = [w \in World |-> IF w = Genesis THEN "VALID" ELSE Absent]
  /\ parent = [w \in World |-> Absent]
  /\ content = [w \in World |-> PlainTree]
  /\ base = [c \in Cand |-> PlainTree]
  /\ evaluated = [c \in Cand |-> 0]
  /\ prime = Genesis /\ primeGen = Genesis /\ dirty = FALSE
  /\ receipts = <<>>
  /\ watched = Genesis /\ wgen = 0 /\ pend = FALSE
  /\ mode = "serve" /\ pc = "idle" /\ op = NoOp /\ bad = {}
  /\ req = 0 /\ writes = 0 /\ crashes = 0 /\ faults = 0
  /\ reported = FALSE /\ late = {}

-----------------------------------------------------------------------------
(* The watcher.  synchronized_generation drains the event queue before it  *)
(* answers, and every event drained marks PRIME dirty.  Absent: no watcher.*)
Drained    == IF pend THEN wgen + 1 ELSE wgen
Generation == IF watched = Absent THEN Absent ELSE Drained

Consume == wgen' = Drained /\ pend' = FALSE /\ UNCHANGED watched

Drain ==
  /\ Consume
  /\ dirty' = (dirty \/ pend)
  /\ reported' = (reported \/ pend)

(* A program that is not WORLDLINE writes to PRIME.  The event reaches the *)
(* watcher only if it watches the tree that is live.                       *)
ExternalWrite(p, v) ==
  /\ writes < MaxWrites
  /\ writes' = writes + 1
  /\ tree' = [tree EXCEPT ![live][p] = v]
  /\ pend' = (pend \/ watched = live)
  /\ late' = IF pc = "exchange" THEN late \cup {op.tx} ELSE late
  /\ UNCHANGED <<live, slot, loose, lost, txVars, worldVars, primeVars, dirty,
                 receipts, watched, wgen, mode, pc, op, bad, req, crashes, faults, reported>>

(* The watcher's thread consumes the queue.  The read lock excludes it     *)
(* while the exchange holds owned_writes.                                  *)
WatcherDeliver ==
  /\ pend /\ pc # "fsync"
  /\ Drain
  /\ UNCHANGED <<diskVars, txVars, worldVars, primeVars, receipts, mode, pc,
                 op, bad, envVars, late>>

(* A policy, verifier or configuration edit changes what evidence must     *)
(* answer to.                                                              *)
PolicyChange ==
  /\ req < MaxReq
  /\ req' = req + 1
  /\ UNCHANGED <<diskVars, txVars, worldVars, primeVars, dirty, receipts,
                 watchVars, mode, pc, op, bad, writes, crashes, faults, histVars>>

-----------------------------------------------------------------------------
(* Control.  Where a request goes when it is done, and what an exception   *)
(* raised by one of its steps does: a recovery quarantines the transaction *)
(* and goes on; so does a commit once its exchange has happened; anything  *)
(* else is only reported.  Every commit request rebuilds the watcher.      *)
LeaveNoRecovery == IF op.kind = "commit" THEN "refresh" ELSE "idle" \* mutant
Leave == CASE op.kind = "recover" -> "recover"
           [] op.kind = "commit"  -> "refresh"
           [] OTHER               -> "idle"

(* A request that is over leaves nothing behind in memory. *)
Goto(p) == pc' = p /\ op' = IF p = "idle" THEN NoOp ELSE op

QuarantinesOnlyAtStart == op.kind = "recover" \* mutant
Quarantines == op.kind = "recover" \/ (op.kind = "commit" /\ live = op.tx)

Raise ==
  /\ Goto(Leave)
  /\ bad' = IF Quarantines THEN bad \cup {op.tx} ELSE bad

Serving == mode = "serve" /\ pc = "idle"

(* Bounds: a request that would need an id no longer to be had is not made.*)
SpareGeneration  == \E r \in Recon : state[r] = Absent
SpareTransaction == \E t \in Tx : file[t] = Absent /\ slot[t] = Absent

(* reconcile runs before the request's own work when PRIME is dirty. *)
AfterReconcile == CASE op.kind = "fork"    -> "freeze"
                    [] op.kind = "prepare" -> "prepare"
                    [] OTHER               -> "idle"

-----------------------------------------------------------------------------
(* roots.reconcile and prime.publish_checkpoint: the live tree is captured *)
(* between two equal generations, published as a checkpoint whose parent   *)
(* is the current PRIME, and made PRIME.                                   *)

StatusReconcileUngated == \* mutant
  /\ Serving /\ dirty /\ SpareGeneration
  /\ pc' = "reconcile"
  /\ op' = [NoOp EXCEPT !.kind = "status"]
  /\ UNCHANGED <<diskVars, txVars, worldVars, primeVars, dirty, receipts,
                 watchVars, mode, bad, envVars, histVars>>

(* `worldline status` reconciles a dirty PRIME unless a transaction is     *)
(* quarantined.                                                            *)
StatusReconcile ==
  /\ Serving /\ dirty /\ bad = {} /\ SpareGeneration
  /\ pc' = "reconcile"
  /\ op' = [NoOp EXCEPT !.kind = "status"]
  /\ UNCHANGED <<diskVars, txVars, worldVars, primeVars, dirty, receipts,
                 watchVars, mode, bad, envVars, histVars>>

ReconcileCapture(r) ==
  /\ pc = "reconcile" /\ state[r] = Absent
  /\ Consume /\ reported' = FALSE
  /\ op' = [op EXCEPT !.gen = Generation, !.seen = tree[live], !.world = r]
  /\ pc' = "captured"
  /\ UNCHANGED <<diskVars, txVars, worldVars, primeVars, dirty, receipts,
                 mode, bad, envVars, late>>

ReconcileStable ==
  /\ pc = "captured"
  /\ Drain
  /\ Goto(IF Generation = op.gen THEN "insert" ELSE "idle")
  /\ UNCHANGED <<diskVars, txVars, worldVars, primeVars, receipts, mode,
                 bad, envVars, late>>

(* The content identity of a world: its parent and its components.  The    *)
(* evidence component is the candidate's own for a candidate and for the   *)
(* checkpoint of its collapse, and the empty evidence for a reconcile.     *)
EvidenceOf(w) == IF w \in Tx THEN rec[w].cand
                 ELSE IF w \in Cand THEN w ELSE Genesis

Published == IF op.tx = Absent THEN op.seen ELSE rec[op.tx].staged

(* The worlds that already hold the identity that the checkpoint w of the  *)
(* tree f would get on the current PRIME.                                  *)
Holders(w, f) ==
  {v \in World \ {w} : /\ state[v] \notin {Absent, "MUTABLE", "FINALIZING"}
                       /\ parent[v] = prime /\ content[v] = f
                       /\ EvidenceOf(v) = EvidenceOf(w)}

(* A replay finds its own checkpoint under the alias, and adopts it if it  *)
(* has this identity; any other holder makes the publication fail.         *)
Unpublishable(w, f) ==
  IF state[w] = Absent THEN Holders(w, f) # {}
                       ELSE parent[w] # prime \/ content[w] # f

InsertCheckpoint ==
  /\ pc = "insert"
  /\ IF Unpublishable(op.world, Published)
     THEN Raise /\ UNCHANGED worldVars
     ELSE /\ Goto("retire") /\ UNCHANGED <<bad, base, evaluated>>
          /\ IF state[op.world] # Absent
             THEN UNCHANGED <<state, parent, content>>
             ELSE /\ state' = [state EXCEPT ![op.world] = "VALID"]
                  /\ parent' = [parent EXCEPT ![op.world] = prime]
                  /\ content' = [content EXCEPT ![op.world] = Published]
  /\ UNCHANGED <<diskVars, txVars, primeVars, dirty, receipts, watchVars,
                 mode, envVars, histVars>>

RetirePrime ==
  /\ pc = "retire"
  /\ state' = IF prime # op.world /\ state[prime] \in {"VALID", "COLLAPSED"}
              THEN [state EXCEPT ![prime] = "ARCHIVED"] ELSE state
  /\ pc' = "setprime"
  /\ UNCHANGED <<diskVars, txVars, parent, content, base, evaluated,
                 primeVars, dirty, receipts, watchVars, mode, op, bad,
                 envVars, histVars>>

SetPrime ==
  /\ pc = "setprime"
  /\ prime' = op.world
  /\ primeGen' = IF op.tx = Absent THEN op.world ELSE op.tx
  /\ dirty' = FALSE
  /\ Goto(IF op.tx = Absent THEN AfterReconcile ELSE "settle")
  /\ UNCHANGED <<diskVars, txVars, worldVars, receipts, watchVars, mode,
                 bad, envVars, histVars>>

-----------------------------------------------------------------------------
(* fork: checkpoint.freeze and the insertion of the candidate. *)
BeginFork(c) ==
  /\ Serving /\ bad = {} /\ state[c] = Absent
  /\ Drain
  /\ op' = [NoOp EXCEPT !.kind = "fork", !.cand = c]
  /\ pc' = IF dirty' THEN "reconcile" ELSE "freeze"
  /\ dirty' => SpareGeneration
  /\ UNCHANGED <<diskVars, txVars, worldVars, primeVars, receipts, mode, bad,
                 envVars, late>>

FreezeCapture ==
  /\ pc = "freeze"
  /\ Drain
  /\ IF watched = Absent THEN Goto("idle")
     ELSE /\ op' = [op EXCEPT !.gen = Generation, !.seen = tree[live]]
          /\ pc' = "frozen"
  /\ UNCHANGED <<diskVars, txVars, worldVars, primeVars, receipts, mode, bad,
                 envVars, late>>

FreezeEnd ==
  /\ pc = "frozen"
  /\ Drain
  /\ IF Generation # op.gen THEN UNCHANGED <<state, parent, base>>
     ELSE /\ state' = [state EXCEPT ![op.cand] = "MUTABLE"]
          /\ parent' = [parent EXCEPT ![op.cand] = prime]
          /\ base' = [base EXCEPT ![op.cand] = op.seen]
  /\ Goto("idle")
  /\ UNCHANGED <<diskVars, txVars, content, evaluated, primeVars, receipts,
                 mode, bad, envVars, late>>

(* The agent's run, in a background thread of the daemon that forked it:   *)
(* it changes the paths S, and its checks answer the requirement of the    *)
(* moment.                                                                 *)
Finalizing(c) ==
  /\ mode = "serve" /\ state[c] = "MUTABLE"
  /\ state' = [state EXCEPT ![c] = "FINALIZING"]
  /\ UNCHANGED <<diskVars, txVars, parent, content, base, evaluated,
                 primeVars, dirty, receipts, watchVars, mode, pc, op, bad,
                 envVars, histVars>>

Finalized(c, S, verdict) ==
  /\ mode = "serve" /\ state[c] = "FINALIZING"
  /\ state' = [state EXCEPT ![c] = verdict]
  /\ content' = [content EXCEPT ![c] =
                   [p \in Path |-> IF p \in S THEN c ELSE base[c][p]]]
  /\ evaluated' = [evaluated EXCEPT ![c] = req]
  /\ UNCHANGED <<diskVars, txVars, parent, base, primeVars, dirty, receipts,
                 watchVars, mode, pc, op, bad, envVars, histVars>>

(* A run that could not start. *)
FailedStart(c) ==
  /\ mode = "serve" /\ state[c] = "MUTABLE" /\ "DEAD" \in Verdicts
  /\ state' = [state EXCEPT ![c] = "DEAD"]
  /\ UNCHANGED <<diskVars, txVars, parent, content, base, evaluated,
                 primeVars, dirty, receipts, watchVars, mode, pc, op, bad,
                 envVars, histVars>>

(* `worldline revalidate`: a VALID world's checks run again, and pass. *)
Revalidate(c) ==
  /\ Serving /\ state[c] = "VALID" /\ evaluated[c] # req
  /\ evaluated' = [evaluated EXCEPT ![c] = req]
  /\ UNCHANGED <<diskVars, txVars, state, parent, content, base, primeVars,
                 dirty, receipts, watchVars, mode, pc, op, bad, envVars,
                 histVars>>

-----------------------------------------------------------------------------
(* collapse.prepare.                                                       *)

(* PRIME and its parents, as far as parent_instance leads (_is_ancestor):  *)
(* the least set with PRIME that has the parents of its members.           *)
Lineage ==
  LET Closed(S) == prime \in S /\ \A w \in S : parent[w] \in S \cup {Absent}
  IN {w \in World : \A S \in SUBSET World : Closed(S) => w \in S}

(* Delta.merge: what the candidate changed is taken from it, the rest from *)
(* PRIME; a path both changed is a conflict, even to the same value.       *)
ConflictCandidateWins(c, current) == FALSE \* mutant

Conflict(c, current) ==
  \E p \in Path : content[c][p] # base[c][p] /\ current[p] # base[c][p]

MergeChangedOnly(c, current) == \* mutant
  [p \in {q \in Path : content[c][q] # base[c][q]} |-> content[c][p]]

Merge(c, current) ==
  [p \in Path |-> IF content[c][p] # base[c][p] THEN content[c][p]
                                               ELSE current[p]]

BeginPrepare(c) ==
  /\ Serving /\ bad = {} /\ state[c] # Absent
  /\ Drain
  /\ op' = [NoOp EXCEPT !.kind = "prepare", !.cand = c]
  /\ pc' = IF dirty' THEN "reconcile" ELSE "prepare"
  /\ SpareTransaction /\ (dirty' => SpareGeneration)
  /\ UNCHANGED <<diskVars, txVars, worldVars, primeVars, receipts, mode, bad,
                 envVars, late>>

(* Refused before anything is staged. *)
PrepareRefuse ==
  /\ pc = "prepare"
  /\ \/ state[op.cand] # "VALID"
     \/ parent[op.cand] \notin Lineage
     \/ evaluated[op.cand] # req
  /\ Goto("idle")
  /\ UNCHANGED <<diskVars, txVars, worldVars, primeVars, dirty, receipts,
                 watchVars, mode, bad, envVars, histVars>>

(* PRIME is captured and merged with the candidate into t's payload, and   *)
(* the mapping that could become live is made.  A merge that is not the    *)
(* tree the candidate's evidence examined is evaluated itself: passed says *)
(* whether that evaluation covers it.                                      *)
PrepareStage(t, passed) ==
  /\ pc = "prepare" /\ file[t] = Absent /\ slot[t] = Absent
  /\ state[op.cand] = "VALID"
  /\ parent[op.cand] \in Lineage
  /\ evaluated[op.cand] = req
  /\ Drain
  /\ LET c        == op.cand
         current  == tree[live]
         conflict == Conflict(c, current)
         merged   == Merge(c, current)
     IN /\ passed => (~conflict /\ merged # content[c])
        /\ rec' = [rec EXCEPT ![t] =
              [cand |-> c, before |-> current, staged |-> merged,
               conflict |-> conflict, primary |-> evaluated[c],
               second |-> IF passed THEN req ELSE Absent,
               authorized |-> Absent]]
        /\ tree' = [tree EXCEPT ![t] = merged]
        /\ slot' = [slot EXCEPT ![t] = IF conflict THEN Absent ELSE t]
  /\ op' = [op EXCEPT !.tx = t, !.gen = Generation]
  /\ pc' = "staged"
  /\ UNCHANGED <<live, loose, lost, file, row, worldVars, primeVars, receipts,
                 mode, bad, envVars, late>>

(* What the runtime hands the kernel for transaction t (_decide): the      *)
(* prepared record's facts, and those measured now.  A prepare decides     *)
(* under the requirement it read at its start, which the evidence answers. *)
Request(t, phase) ==
  LET r    == rec[t]
      c    == r.cand
      pay  == IF r.conflict THEN Absent ELSE tree[t]
      rule == IF phase = "PREPARE" THEN r.primary ELSE req
  IN [phase |-> phase, mode |-> "CANDIDATE_EVALUATION",
      candidateState |-> state[c],
      conflicts |-> IF r.conflict THEN "FOUND" ELSE "NONE_FOUND",
      foreignWrites |-> IF r.before = content[prime] THEN "NONE_FOUND"
                                                     ELSE "FOUND",
      registeredWatchSet |-> live, watchedSet |-> watched,
      generationBefore |-> op.gen, generationAfter |-> Generation,
      expectedParent |-> parent[c], candidateParent |-> parent[c],
      expectedSubject |-> c, evidenceSubject |-> c,
      expectedBase |-> base[c], candidateBase |-> base[c],
      expectedDelta |-> content[c], candidateDelta |-> content[c],
      expectedRootSet |-> Path, candidateRootSet |-> Path,
      expectedStagedRoot |-> IF r.conflict THEN Absent ELSE r.staged,
      actualStagedRoot |-> IF phase = "PREPARE" THEN Absent ELSE pay,
      stagedContentRoot |-> pay,
      testedRoot |-> content[c],
      currentRequirement |-> rule, evaluatedRequirement |-> r.primary,
      declaredVerifiers |-> rule, executedVerifiers |-> r.primary,
      rosterComplete |-> TRUE,
      stagedEvaluatedRequirement |-> r.second,
      stagedExecutedVerifiers |-> r.second,
      stagedRosterComplete |-> r.second # Absent,
      stagedExaminedRoot |-> IF r.second = Absent THEN Absent ELSE r.staged,
      expectedCheckpoint |-> Absent, witnessedCheckpoint |-> Absent]

(* The decision, and the durable record of it.  A foreign write is noted:  *)
(* PRIME becomes dirty, to be reconciled by the next status or prepare.    *)
PrepareDecide ==
  /\ pc = "staged"
  /\ LET d == Decide(Request(op.tx, "PREPARE"))
     IN /\ file' = [file EXCEPT ![op.tx] =
                      IF d = "AUTHORIZED" THEN "PREPARED" ELSE "DENIED"]
        /\ dirty' = (dirty \/ pend \/ d = "FOREIGN_MANAGED_WRITE")
  /\ Consume /\ reported' = (reported \/ pend)
  /\ pc' = "row"
  /\ UNCHANGED <<diskVars, rec, row, worldVars, primeVars, receipts, mode,
                 op, bad, envVars, late>>

PrepareRow ==
  /\ pc = "row"
  /\ row' = [row EXCEPT ![op.tx] = file[op.tx]]
  /\ Goto(IF file[op.tx] = "DENIED" THEN "reclaim" ELSE "idle")
  /\ UNCHANGED <<diskVars, file, rec, worldVars, primeVars, dirty, receipts,
                 watchVars, mode, bad, envVars, histVars>>

-----------------------------------------------------------------------------
(* _set_state: the JSON record, then the database row, then the staging of *)
(* a transaction that will never be exchanged is removed.                  *)
Assign(goal) == op' = [op EXCEPT !.goal = goal] /\ pc' = "setfile"

SetFileOnly == \* mutant: an authorization does not reach the database
  /\ pc = "setfile"
  /\ file' = [file EXCEPT ![op.tx] = op.goal]
  /\ pc' = IF op.goal = "AUTHORIZED" THEN "guard" ELSE "setrow"
  /\ UNCHANGED <<diskVars, rec, row, worldVars, primeVars, dirty, receipts,
                 watchVars, mode, op, bad, envVars, histVars>>

SetFile ==
  /\ pc = "setfile"
  /\ file' = [file EXCEPT ![op.tx] = op.goal]
  /\ pc' = "setrow"
  /\ UNCHANGED <<diskVars, rec, row, worldVars, primeVars, dirty, receipts,
                 watchVars, mode, op, bad, envVars, histVars>>

SetRow ==
  /\ pc = "setrow"
  /\ row' = [row EXCEPT ![op.tx] = op.goal]
  /\ pc' = CASE op.goal = "COMMITTED"  -> "offline"
             [] op.goal = "AUTHORIZED" -> IF live = op.tx THEN "settle" ELSE "guard"
             [] OTHER                  -> "reclaim"
  /\ UNCHANGED <<diskVars, file, rec, worldVars, primeVars, dirty, receipts,
                 watchVars, mode, op, bad, envVars, histVars>>

Reclaim ==
  /\ pc = "reclaim"
  /\ dirty' = (dirty \/ (op.kind = "commit" /\ op.moved))
  /\ slot' = IF live = op.tx THEN slot ELSE [slot EXCEPT ![op.tx] = Absent]
  /\ Goto(Leave)
  /\ UNCHANGED <<live, tree, loose, lost, txVars, worldVars, primeVars, receipts,
                 watchVars, mode, bad, envVars, histVars>>

BeginAbortUnmarked(t) == \* mutant: the live marker is not consulted
  /\ Serving
  /\ file[t] = row[t] /\ row[t] \in {"PREPARED", "AUTHORIZED", "DENIED"}
  /\ op' = [NoOp EXCEPT !.kind = "abort", !.tx = t, !.goal = "ABORTED"]
  /\ pc' = "setfile"
  /\ UNCHANGED <<diskVars, txVars, worldVars, primeVars, dirty, receipts,
                 watchVars, mode, bad, envVars, histVars>>

(* transaction.abort: allowed while a transaction is quarantined. *)
BeginAbort(t) ==
  /\ Serving
  /\ file[t] = row[t] /\ row[t] \in {"PREPARED", "AUTHORIZED", "DENIED"}
  /\ live # t
  /\ op' = [NoOp EXCEPT !.kind = "abort", !.tx = t, !.goal = "ABORTED"]
  /\ pc' = "setfile"
  /\ UNCHANGED <<diskVars, txVars, worldVars, primeVars, dirty, receipts,
                 watchVars, mode, bad, envVars, histVars>>

-----------------------------------------------------------------------------
(* collapse.commit.                                                        *)

(* PRIME is captured again; it must be the PRIME the merge was made with.  *)
(* A request refused here still rebuilds the watcher on its way out.       *)
CommittableQuarantined(t) == file[t] = row[t] /\ row[t] = "PREPARED" \* mutant
Committable(t) == bad = {} /\ file[t] = row[t] /\ row[t] = "PREPARED"

BeginCommit(t) ==
  /\ Serving /\ row[t] # Absent
  /\ IF Committable(t)
     THEN /\ Drain
          /\ op' = [NoOp EXCEPT !.kind = "commit", !.tx = t, !.goal = "DENIED",
                                !.gen = Generation]
          /\ pc' = IF tree[live] = rec[t].before THEN "authorize" ELSE "setfile"
     ELSE /\ op' = [NoOp EXCEPT !.kind = "commit", !.tx = t]
          /\ pc' = "refresh"
          /\ UNCHANGED <<watchVars, dirty, reported>>
  /\ UNCHANGED <<diskVars, txVars, worldVars, primeVars, receipts, mode, bad,
                 envVars, late>>

AdoptsSameTree(t) == content[rec[t].cand] = rec[t].staged \* mutant

(* The candidate itself becomes PRIME when the staged tree, on the current *)
(* PRIME, is the same world; otherwise a checkpoint of t is published.     *)
Adopts(t) == parent[rec[t].cand] = prime /\ content[rec[t].cand] = rec[t].staged

(* _checkpoint_collision: the exchange would leave nothing to publish. *)
Collides(t) == ~Adopts(t) /\ Holders(t, rec[t].staged) # {}

(* The decision.  A foreign write is noted once the denial is recorded. *)
Authorize ==
  /\ pc = "authorize"
  /\ Drain
  /\ LET d  == Decide(Request(op.tx, "COMMIT"))
         go == d = "AUTHORIZED" /\ ~Collides(op.tx)
     IN /\ op' = CASE go -> [op EXCEPT !.goal = "AUTHORIZED", !.gen = Generation]
                   [] d = "AUTHORIZED" /\ ~go -> [op EXCEPT !.goal = "ABORTED"]
                   [] d # "AUTHORIZED" ->
                        [op EXCEPT !.moved = (d = "FOREIGN_MANAGED_WRITE")]
        /\ rec' = IF go THEN [rec EXCEPT ![op.tx].authorized = req] ELSE rec
  /\ pc' = "setfile"
  /\ UNCHANGED <<diskVars, file, row, worldVars, primeVars, receipts, mode,
                 bad, envVars, late>>

ExchangeUnguarded == \* mutant
  /\ pc = "guard"
  /\ Drain
  /\ pc' = "exchange"
  /\ UNCHANGED <<diskVars, txVars, worldVars, primeVars, receipts, mode, op,
                 bad, envVars, late>>

(* After the fsync of the staged tree, PRIME must still be at the          *)
(* generation the decision saw.                                            *)
ExchangeGuard ==
  /\ pc = "guard"
  /\ Drain
  /\ IF Generation # Absent /\ Generation = op.gen
     THEN pc' = "exchange" /\ UNCHANGED op
     ELSE Assign("ABORTED")
  /\ UNCHANGED <<diskVars, txVars, worldVars, primeVars, receipts, mode, bad,
                 envVars, late>>

ExchangeKeepsMapping == \* mutant: live is replaced, not exchanged
  /\ pc = "exchange"
  /\ live' = op.tx
  /\ reported' = FALSE
  /\ pc' = "fsync"
  /\ loose' = loose \cup {op.tx}
  /\ UNCHANGED <<slot, tree, lost, txVars, worldVars, primeVars, dirty, receipts,
                 watchVars, mode, op, bad, envVars, late>>

(* renameat2(RENAME_EXCHANGE): the commit point. *)
Exchange ==
  /\ pc = "exchange"
  /\ live' = op.tx
  /\ slot' = [slot EXCEPT ![op.tx] = live]
  /\ loose' = loose \cup {op.tx}
  /\ reported' = FALSE
  /\ pc' = "fsync"
  /\ UNCHANGED <<tree, lost, txVars, worldVars, primeVars, dirty, receipts,
                 watchVars, mode, op, bad, envVars, late>>

ExchangeFails ==
  /\ pc = "exchange" /\ faults < MaxFaults
  /\ faults' = faults + 1
  /\ Assign("ABORTED")
  /\ UNCHANGED <<diskVars, txVars, worldVars, primeVars, dirty, receipts,
                 watchVars, mode, bad, req, writes, crashes, histVars>>

(* The directory entries are made durable, with those of every exchange    *)
(* before, or the fsync fails; owned_writes ends: whatever is queued is    *)
(* consumed as WORLDLINE's own.  If the fsync failed, the handler finds    *)
(* the live marker, finishes all the same and only then reports            *)
(* COMMIT_DURABILITY_UNCERTAIN.                                            *)
FsyncExchange(ok) ==
  /\ pc = "fsync"
  /\ ok \/ faults < MaxFaults
  /\ faults' = IF ok THEN faults ELSE faults + 1
  /\ loose' = IF ok THEN {} ELSE loose
  /\ Consume
  /\ pc' = "candidate"
  /\ UNCHANGED <<live, slot, tree, lost, txVars, worldVars, primeVars, dirty,
                 receipts, mode, op, bad, req, writes, crashes, histVars>>

-----------------------------------------------------------------------------
(* _finish_committed: run by the commit, and replayed by recovery.         *)
Rivals(c) ==
  {w \in World \ {c} : /\ state[w] \in {"VALID", "DEGRADED", "DEAD", "COLLAPSED"}
                       /\ parent[w] = parent[c]}

FinishCandidate ==
  /\ pc = "candidate"
  /\ LET c == rec[op.tx].cand
     IN IF state[c] \in {"VALID", "COLLAPSED"}
        THEN /\ state' = [state EXCEPT ![c] = "COLLAPSED"]
             /\ op' = [op EXCEPT !.todo = Rivals(c)]
             /\ pc' = "siblings" /\ UNCHANGED bad
        ELSE Raise /\ UNCHANGED state
  /\ UNCHANGED <<diskVars, txVars, parent, content, base, evaluated,
                 primeVars, dirty, receipts, watchVars, mode, envVars, histVars>>

FinishSibling(w) ==
  /\ pc = "siblings" /\ w \in op.todo
  /\ state' = [state EXCEPT ![w] = "ARCHIVED"]
  /\ op' = [op EXCEPT !.todo = @ \ {w}]
  /\ UNCHANGED <<diskVars, txVars, parent, content, base, evaluated,
                 primeVars, dirty, receipts, watchVars, mode, pc, bad,
                 envVars, histVars>>

FinishPublish ==
  /\ pc = "siblings" /\ op.todo = {}
  /\ IF primeGen = op.tx
     THEN pc' = "settle" /\ UNCHANGED op
     ELSE /\ op' = [op EXCEPT !.world = IF Adopts(op.tx) THEN rec[op.tx].cand
                                                        ELSE op.tx]
          /\ pc' = IF Adopts(op.tx) THEN "retire" ELSE "insert"
  /\ UNCHANGED <<diskVars, txVars, worldVars, primeVars, dirty, receipts,
                 watchVars, mode, bad, envVars, histVars>>

FinishSettle ==
  /\ pc = "settle"
  /\ IF file[op.tx] = "COMMITTED"
     THEN pc' = "offline" /\ UNCHANGED op
     ELSE Assign(IF file[op.tx] = "PREPARED" THEN "AUTHORIZED" ELSE "COMMITTED")
  /\ UNCHANGED <<diskVars, txVars, worldVars, primeVars, dirty, receipts,
                 watchVars, mode, bad, envVars, histVars>>

(* The live tree moved while no daemon ran: PRIME records the committed    *)
(* tree and the difference is left for a reconcile.                        *)
FinishOffline ==
  /\ pc = "offline"
  /\ dirty' = (dirty \/ op.moved)
  /\ pc' = "receipt"
  /\ UNCHANGED <<diskVars, txVars, worldVars, primeVars, receipts, watchVars,
                 mode, op, bad, envVars, histVars>>

Recorded(t) == t \in Range(receipts)

FinishReceipt ==
  /\ pc = "receipt"
  /\ receipts' = IF Recorded(op.tx) THEN receipts ELSE Append(receipts, op.tx)
  /\ Goto(Leave)
  /\ UNCHANGED <<diskVars, txVars, worldVars, primeVars, dirty, watchVars,
                 mode, bad, envVars, histVars>>

(* The old watcher is closed, its queue with it; the new one watches what  *)
(* is live now, or cannot be built.                                        *)
Refresh(ok) ==
  /\ pc = "refresh"
  /\ ok \/ faults < MaxFaults
  /\ faults' = IF ok THEN faults ELSE faults + 1
  /\ watched' = IF ok THEN live ELSE Absent
  /\ wgen' = 0 /\ pend' = FALSE
  /\ Goto("idle")
  /\ UNCHANGED <<diskVars, txVars, worldVars, primeVars, dirty, receipts,
                 mode, bad, req, writes, crashes, histVars>>

-----------------------------------------------------------------------------
(* Failure and restart.                                                    *)

(* A storage call of the current step fails ("guard": the fsync of the     *)
(* staged tree).  A prepare that has not written its record removes its    *)
(* staging.                                                                *)
FallibleSteps == {"insert", "retire", "setprime", "staged", "row", "setfile",
                  "setrow", "guard", "candidate", "siblings", "offline",
                  "receipt"}

StorageFault ==
  /\ pc \in FallibleSteps /\ faults < MaxFaults
  /\ faults' = faults + 1
  /\ Raise
  /\ slot' = IF pc = "staged" THEN [slot EXCEPT ![op.tx] = Absent] ELSE slot
  /\ UNCHANGED <<live, tree, loose, lost, txVars, worldVars, primeVars, dirty,
                 receipts, watchVars, mode, req, writes, crashes, histVars>>

(* The daemon dies, between any two steps. *)
Crash ==
  /\ mode # "down" /\ crashes < MaxCrashes
  /\ crashes' = crashes + 1
  /\ mode' = "down" /\ pc' = "idle" /\ op' = NoOp /\ bad' = {}
  /\ watched' = Absent /\ wgen' = 0 /\ pend' = FALSE
  /\ reported' = FALSE
  /\ UNCHANGED <<diskVars, txVars, worldVars, primeVars, dirty, receipts, req,
                 writes, faults, late>>

(* A power loss, which takes the daemon first (Crash), may undo what was   *)
(* not durable, the last exchange before the ones it displaced; records    *)
(* and receipts, each fsynced by its writer, stay.                         *)
PowerLoss ==
  /\ mode = "down" /\ live \in loose
  /\ live' = slot[live]
  /\ slot' = [slot EXCEPT ![live] = live]
  /\ loose' = loose \ {live}
  /\ lost' = lost \cup {live}
  /\ UNCHANGED <<tree, txVars, worldVars, primeVars, dirty, receipts, watchVars,
                 mode, pc, op, bad, envVars, histVars>>

(* Opening the store clears dirty; a watcher is built on what is live;     *)
(* recovery takes the unfinished transactions.                             *)
Start ==
  /\ mode = "down"
  /\ mode' = "recover" /\ pc' = "recover"
  /\ dirty' = FALSE
  /\ watched' = live
  /\ op' = [NoOp EXCEPT !.kind = "recover",
                        !.queue = {t \in Tx : row[t] \in {"PREPARED", "AUTHORIZED"}}]
  /\ UNCHANGED <<diskVars, txVars, worldVars, primeVars, receipts, wgen, pend,
                 bad, envVars, histVars>>

(* _recover_one: the two markers say whether the exchange happened. *)
RecoverOne(t) ==
  /\ pc = "recover" /\ op.stage = 1 /\ t \in op.queue
  /\ LET rest == [op EXCEPT !.queue = @ \ {t}, !.tx = t]
     IN \/ /\ file[t] = row[t] /\ live = t /\ slot[t] # t
           /\ op' = [rest EXCEPT !.moved = (tree[t] # rec[t].staged)]
           /\ pc' = "candidate" /\ UNCHANGED bad
        \/ /\ file[t] = row[t] /\ slot[t] = t /\ live # t
           /\ op' = [rest EXCEPT !.goal = "ABORTED"]
           /\ pc' = "setfile" /\ UNCHANGED bad
        \/ /\ file[t] # row[t] \/ (live = t) = (slot[t] = t)
           /\ op' = rest
           /\ bad' = bad \cup {t} /\ UNCHANGED pc
  /\ UNCHANGED <<diskVars, txVars, worldVars, primeVars, dirty, receipts,
                 watchVars, mode, envVars, histVars>>

RecoverNoReceipts == \* mutant
  /\ pc = "recover" /\ op.stage = 1 /\ op.queue = {}
  /\ op' = [op EXCEPT !.stage = 2]
  /\ UNCHANGED <<diskVars, txVars, worldVars, primeVars, dirty, receipts,
                 watchVars, mode, pc, bad, envVars, histVars>>

(* Then the commits that were recorded without their receipt. *)
RecoverReceipts ==
  /\ pc = "recover" /\ op.stage = 1 /\ op.queue = {}
  /\ op' = [op EXCEPT !.stage = 2,
                      !.queue = {t \in Tx : row[t] = "COMMITTED" /\ ~Recorded(t)}]
  /\ UNCHANGED <<diskVars, txVars, worldVars, primeVars, dirty, receipts,
                 watchVars, mode, pc, bad, envVars, histVars>>

RecoverReceipt(t) ==
  /\ pc = "recover" /\ op.stage = 2 /\ t \in op.queue
  /\ op' = [op EXCEPT !.queue = @ \ {t}, !.tx = t,
                      !.moved = (tree[t] # rec[t].staged)]
  /\ IF file[t] = row[t] THEN pc' = "candidate" /\ UNCHANGED bad
                         ELSE bad' = bad \cup {t} /\ UNCHANGED pc
  /\ UNCHANGED <<diskVars, txVars, worldVars, primeVars, dirty, receipts,
                 watchVars, mode, envVars, histVars>>

SweepDegraded == \* mutant
  /\ pc = "recover" /\ op.stage = 2 /\ op.queue = {}
  /\ state' = [w \in World |-> IF state[w] \in {"MUTABLE", "FINALIZING"}
                               THEN "DEGRADED" ELSE state[w]]
  /\ mode' = "serve" /\ pc' = "idle" /\ op' = NoOp
  /\ UNCHANGED <<diskVars, txVars, parent, content, base, evaluated,
                 primeVars, dirty, receipts, watchVars, bad, envVars, histVars>>

(* The worlds nobody supervises any more are swept, and requests served. *)
RecoveryEnd ==
  /\ pc = "recover" /\ op.stage = 2 /\ op.queue = {}
  /\ state' = [w \in World |-> IF state[w] \in {"MUTABLE", "FINALIZING"}
                               THEN "DEAD" ELSE state[w]]
  /\ mode' = "serve" /\ pc' = "idle" /\ op' = NoOp
  /\ UNCHANGED <<diskVars, txVars, parent, content, base, evaluated,
                 primeVars, dirty, receipts, watchVars, bad, envVars, histVars>>

-----------------------------------------------------------------------------
Requests ==
  \/ StatusReconcile
  \/ \E c \in Cand : BeginFork(c) \/ Revalidate(c) \/ BeginPrepare(c)
  \/ \E t \in Tx : BeginCommit(t) \/ BeginAbort(t)

(* The steps of the request, or recovery, under way. *)
DaemonStep ==
  \/ \E r \in Recon : ReconcileCapture(r)
  \/ ReconcileStable \/ InsertCheckpoint \/ RetirePrime \/ SetPrime
  \/ FreezeCapture \/ FreezeEnd
  \/ PrepareRefuse \/ PrepareDecide \/ PrepareRow
  \/ \E t \in Tx, passed \in BOOLEAN : PrepareStage(t, passed)
  \/ SetFile \/ SetRow \/ Reclaim
  \/ Authorize \/ ExchangeGuard \/ Exchange \/ FsyncExchange(TRUE)
  \/ FinishCandidate \/ FinishPublish \/ FinishSettle \/ FinishOffline
  \/ \E w \in World : FinishSibling(w)
  \/ FinishReceipt \/ Refresh(TRUE)
  \/ \E t \in Tx : RecoverOne(t) \/ RecoverReceipt(t)
  \/ RecoverReceipts \/ RecoveryEnd

Agents == \E c \in Cand :
  \/ Finalizing(c) \/ FailedStart(c)
  \/ \E S \in SUBSET Path, verdict \in Verdicts : Finalized(c, S, verdict)

Environment ==
  \/ \E p \in Path, v \in Edit \cup {Genesis} : ExternalWrite(p, v)
  \/ PolicyChange

Failures == \/ ExchangeFails \/ FsyncExchange(FALSE) \/ Refresh(FALSE)
            \/ StorageFault \/ Crash \/ PowerLoss

Next == Requests \/ DaemonStep \/ WatcherDeliver \/ Agents \/ Environment
        \/ Failures \/ Start

(* The daemon runs the request it took to its end, its watcher's thread    *)
(* delivers, and the service manager restarts it (Restart=on-failure).     *)
Fairness == WF_vars(DaemonStep) /\ WF_vars(WatcherDeliver) /\ WF_vars(Start)

Spec == Init /\ [][Next]_vars /\ Fairness

-----------------------------------------------------------------------------
(* Properties.                                                             *)

(* Every variable has its type. *)
TypeOK ==
  /\ live \in Mapping /\ slot \in [Tx -> Maybe(Mapping)]
  /\ tree \in [Mapping -> Tree] /\ loose \in SUBSET Tx /\ lost \in SUBSET Tx
  /\ file \in [Tx -> Maybe(TxStates)] /\ row \in [Tx -> Maybe(TxStates)]
  /\ rec \in [Tx -> Record]
  /\ state \in [World -> Maybe(WorldStates)]
  /\ parent \in [World -> Maybe(World)] /\ content \in [World -> Tree]
  /\ base \in [Cand -> Tree] /\ evaluated \in [Cand -> Reqs]
  /\ prime \in World /\ primeGen \in World /\ dirty \in BOOLEAN
  /\ receipts \in Seq(Tx)
  /\ watched \in Maybe(Mapping) /\ wgen \in Nat /\ pend \in BOOLEAN
  /\ mode \in {"down", "recover", "serve"} /\ pc \in Steps /\ op \in Op
  /\ bad \in SUBSET Tx
  /\ req \in Reqs /\ writes \in 0..MaxWrites /\ crashes \in 0..MaxCrashes
  /\ faults \in 0..MaxFaults
  /\ reported \in BOOLEAN /\ late \in SUBSET Tx

(* The exchange of t happened, and was not undone. *)
Exchanged(t) == slot[t] \notin {t, Absent}

(* What is live is never a generation the records let anybody discard: its *)
(* displaced predecessor is kept at its mapping, and both records have     *)
(* authorized it (transaction.py _set_state, abort, _recover_one).         *)
LiveNeverDiscarded ==
  live \in Tx => /\ Exchanged(live)
                 /\ file[live] \in {"AUTHORIZED", "COMMITTED"}
                 /\ row[live] \in {"AUTHORIZED", "COMMITTED"}

(* Recovery is never ambiguous: for a pending transaction whose records    *)
(* agree, exactly one of the two markers names it (_recover_one).          *)
MarkersDecide ==
  \A t \in Tx :
    file[t] = row[t] /\ row[t] \in {"PREPARED", "AUTHORIZED"}
      => (live = t) # (slot[t] = t)

(* What the first n receipts left live: the last one whose exchange no     *)
(* power loss undid.                                                       *)
LeftLive(n, g) ==
  \/ g = Genesis /\ \A i \in 1..n : receipts[i] \in lost
  \/ \E i \in 1..n : /\ g = receipts[i] /\ g \notin lost
                     /\ \A j \in (i + 1)..n : receipts[j] \in lost

(* The receipts are the exchanges, in order: a receipt's transaction is    *)
(* committed in both records and, unless a power loss undid its exchange,  *)
(* displaced what the receipts before it left live; what is live now is    *)
(* what the receipts left, or the one exchange without a receipt, on top   *)
(* of that (_finish_committed, recover_all).                               *)
ReceiptsFollowExchanges ==
  /\ \A i \in 1..Len(receipts) :
       /\ file[receipts[i]] = "COMMITTED" /\ row[receipts[i]] = "COMMITTED"
       /\ receipts[i] \notin lost => LeftLive(i - 1, slot[receipts[i]])
  /\ \A t \in Tx : Exchanged(t) /\ ~Recorded(t) => live = t
  /\ LeftLive(Len(receipts),
              IF live \in Tx /\ ~Recorded(live) THEN slot[live] ELSE live)

(* No exchange displaces a reality nobody recorded: the tree that left     *)
(* `live` is the one the merge started from and one some PRIME world       *)
(* records, unless a write came in after the exchange guard (commit).      *)
NoLostReality ==
  \A t \in Tx : Exchanged(t) /\ t \notin late =>
    /\ tree[slot[t]] = rec[t].before
    /\ \E w \in World : state[w] # Absent /\ content[w] = rec[t].before

(* What goes live was examined under the requirement in force when it was  *)
(* authorized: either the candidate's evidence examined exactly the staged *)
(* tree, or the evaluation of the staged tree did (_authorize, Decide).    *)
NothingUntestedGoesLive ==
  \A t \in Tx : file[t] \in {"AUTHORIZED", "COMMITTED"} =>
    /\ rec[t].primary = rec[t].authorized
    /\ \/ content[rec[t].cand] = rec[t].staged
       \/ rec[t].second = rec[t].authorized

(* The generation a receipt speaks of is in the lineage of PRIME, with the *)
(* tree that was staged (publish_checkpoint, _finish_committed).           *)
PublishedWorld(t) == IF state[t] = Absent THEN rec[t].cand ELSE t

RecordedInLineage ==
  \A t \in Tx : Recorded(t) => /\ PublishedWorld(t) \in Lineage
                               /\ content[PublishedWorld(t)] = rec[t].staged

(* A collapse keeps what other programs wrote since the fork: a path that  *)
(* PRIME changed after the candidate's base was frozen has, in the tree    *)
(* that goes live, the value it had in PRIME (Delta.merge, Decide).        *)
CollapseKeepsForeignEdits ==
  \A t \in Tx : Exchanged(t) =>
    \A p \in Path : rec[t].before[p] # base[rec[t].cand][p]
                      => rec[t].staged[p] = rec[t].before[p]

(* Worlds and transactions move only along the kernel's lifecycles, the    *)
(* database row never ahead of the JSON record.                            *)
KernelMove ==
  /\ \A w \in World : state'[w] # state[w] /\ state[w] # Absent
                        => Allowed(state[w], state'[w])
  /\ \A t \in Tx : /\ file'[t] # file[t] /\ file[t] # Absent
                      => TransactionAllowed(file[t], file'[t])
                   /\ row'[t] # row[t] => row'[t] = file[t]

LifecyclesFollowKernel == [][KernelMove]_vars

(* `live` moves only when a transaction both records call AUTHORIZED is    *)
(* exchanged with no transaction quarantined, or when a power loss undoes  *)
(* an exchange that no fsync of its directories has followed: then it goes *)
(* back to what that exchange displaced, which was recorded.               *)
AuthorizedMove ==
  \/ /\ live' \in Tx /\ slot[live'] = live' /\ bad = {}
     /\ file[live'] = "AUTHORIZED" /\ row[live'] = "AUTHORIZED"
  \/ /\ mode = "down" /\ live \in loose
     /\ slot'[live] = live /\ live' = slot[live]
     /\ live' \in Tx => Recorded(live')

RealityMovesOnlyAuthorized == [][live' # live => AuthorizedMove]_vars

(* While a transaction is quarantined a serving daemon changes neither     *)
(* reality nor its record (_assert_recovery_complete and its callers).     *)
FrozenWhileQuarantined ==
  mode = "serve" /\ mode' = "serve" /\ bad # {}
    => UNCHANGED <<live, prime, primeGen, receipts>>

QuarantineFreezesReality == [][FrozenWhileQuarantined]_vars

(* Every request and every recovery comes to its end, and the daemon       *)
(* serves again.                                                           *)
OperationEnds == [](~Serving => <>Serving)

(* An exchange is eventually recorded by a receipt, quarantined for the    *)
(* operator, or undone by a power loss.                                    *)
ExchangesAreSettled ==
  \A t \in Tx : (live = t) ~> (Recorded(t) \/ t \in bad \/ slot[t] = t)

(* An exchange that has no receipt yet: it is live, or was committed before *)
(* a power loss undid it, and recovery will write its receipt.             *)
Pending(t) == ~Recorded(t) /\ (live = t \/ row[t] = "COMMITTED")

Exchanges ==
  IF \E t \in Tx : Pending(t) THEN Append(receipts, CHOOSE t \in Tx : Pending(t))
                              ELSE receipts

(* The commit protocol implements the log of reality: the receipts, and    *)
(* the transaction that waits for its own.                                 *)
Log == INSTANCE RealityLog WITH
  history  <- Exchanges,
  recorded <- Len(receipts),
  lost     <- lost \cap Range(Exchanges)

RefinesRealityLog == Log!Spec

-----------------------------------------------------------------------------
(* Statements of the repository's documents that the code does not keep;   *)
(* each is the subject of a run that exhibits the behaviour.               *)

(* CHANGELOG.md: at start, recovery finishes a pending transaction when    *)
(* the live marker shows that its exchange already happened.               *)
RestartFinishesExchange == Serving /\ live \in Tx => Recorded(live)

(* docs/whitepaper.md 8.1: a write the watcher reported is reconciled      *)
(* before prepare; so it stays marked until a reconcile has captured it.   *)
ReportedStaysDirty == Serving /\ reported => dirty

(* docs/whitepaper.md 8.1: the next status or prepare reconciles a noted   *)
(* change into its own PRIME generation; so a stable capture is published. *)
ReconcilePublishes ==
  pc = "insert" /\ op.tx = Absent => ~Unpublishable(op.world, Published)
=============================================================================
