-------------------------- MODULE CollapseInvariant --------------------------
(***************************************************************************)
(* The inductive invariant of Collapse from which CollapseProofs derives   *)
(* its safety properties.  None of those properties is inductive by        *)
(* itself: that an abort cannot discard what is live, for example, rests   *)
(* on what the records of a transaction say at every step of the request   *)
(* that is under way, and that an exchange follows the recorded one rests  *)
(* on which transactions a restart still has to settle.                    *)
(***************************************************************************)
EXTENDS Collapse

(* The requests, or the recovery, whose steps include step p. *)
KindsAt(p) ==
  CASE p = "idle"                       -> {"none"}
    [] p = "recover"                    -> {"recover"}
    [] p \in {"reconcile", "captured"}  -> {"status", "fork", "prepare"}
    [] p \in {"freeze", "frozen"}       -> {"fork"}
    [] p \in {"prepare", "staged", "row"} -> {"prepare"}
    [] p \in {"authorize", "guard", "exchange", "fsync", "refresh"} -> {"commit"}
    [] p \in {"setfile", "setrow"}      -> {"commit", "abort", "recover"}
    [] p = "reclaim"             -> {"prepare", "commit", "abort", "recover"}
    [] p \in {"insert", "retire", "setprime"} ->
         IF op.tx = Absent THEN {"status", "fork", "prepare"}
                           ELSE {"commit", "recover"}
    [] OTHER                            -> {"commit", "recover"}

(* The steps that need no transaction; "recover" is between two of them.   *)
PrimeSteps == {"reconcile", "captured", "freeze", "frozen", "prepare"}

(* Where the daemon stands fits what it is doing, and a quarantined        *)
(* transaction lets only aborts start.                                     *)
ControlOK ==
  /\ op.kind \in KindsAt(pc)
  /\ pc = "idle" => op = NoOp
  /\ mode = "recover" <=> op.kind = "recover"
  /\ mode = "down" => pc = "idle"
  /\ op.kind \in {"fork", "prepare"} => op.cand \in Cand
  /\ pc \in PrimeSteps => op.tx = Absent
  /\ pc \in Steps \ (PrimeSteps \cup {"idle", "recover", "insert", "retire", "setprime"})
       => op.tx \in Tx
  /\ pc \in {"captured", "insert", "retire", "setprime"} /\ op.tx = Absent
       => op.world \in Recon
  /\ mode = "serve" /\ op.kind \in {"status", "fork", "prepare", "commit"}
       /\ pc # "refresh" => bad = {}

(* The markers and the two records of a transaction that nobody works on.  *)
RecordOK(t) ==
  /\ file[t] = Absent => row[t] = Absent /\ ~Exchanged(t)
  /\ file[t] # Absent => rec[t].cand \in Cand
  /\ live = t => Exchanged(t)
  /\ Exchanged(t) => /\ file[t] \in {"AUTHORIZED", "COMMITTED"}
                     /\ row[t] \in {"AUTHORIZED", "COMMITTED"}
                     /\ live = t \/ Recorded(t)
  /\ Recorded(t) => row[t] = "COMMITTED"
  /\ row[t] = "COMMITTED" => file[t] = "COMMITTED"
  /\ file[t] = "COMMITTED" => Exchanged(t) \/ t \in lost
  /\ t \in lost => ~Exchanged(t) /\ file[t] \in {"AUTHORIZED", "COMMITTED", "ABORTED"}
  /\ t \in loose => Exchanged(t)
  /\ file[t] = row[t] /\ row[t] \in {"PREPARED", "AUTHORIZED"} /\ ~Exchanged(t)
       => slot[t] = t
  /\ primeGen = t => Exchanged(t) \/ t \in lost

RecordsOK == \A t \in Tx : RecordOK(t)

(* A recovery writes the receipt of a commit that a power loss undid. *)
Undone(t) ==
  op.kind = "recover" /\ t \in lost /\ file[t] = "COMMITTED" /\ primeGen = t

(* What holds of the transaction t the daemon works on, at each step. *)
PhaseOK(t) ==
  /\ pc = "staged" => /\ file[t] = Absent /\ rec[t].cand \in Cand
                      /\ slot[t] = IF rec[t].conflict THEN Absent ELSE t
  /\ pc = "row" => /\ file[t] \in {"PREPARED", "DENIED"} /\ row[t] = Absent
                   /\ file[t] = "PREPARED" => slot[t] = t
  /\ pc = "authorize" =>
       file[t] = "PREPARED" /\ row[t] = "PREPARED" /\ op.goal = "DENIED"
  /\ pc = "setfile" =>
       /\ file[t] = row[t]
       /\ \/ op.goal = "DENIED" /\ op.kind = "commit" /\ file[t] = "PREPARED"
          \/ op.goal = "AUTHORIZED" /\ op.kind = "commit" /\ file[t] = "PREPARED"
          \/ /\ op.goal = "ABORTED" /\ ~Exchanged(t)
             /\ file[t] \in {"PREPARED", "AUTHORIZED", "DENIED"}
          \/ /\ op.goal = "COMMITTED" /\ op.kind \in {"commit", "recover"}
             /\ live = t /\ file[t] = "AUTHORIZED" /\ primeGen = t
  /\ pc = "setrow" =>
       /\ file[t] = op.goal
       /\ \/ op.goal = "DENIED" /\ op.kind = "commit" /\ row[t] = "PREPARED"
          \/ /\ op.goal = "AUTHORIZED" /\ op.kind = "commit"
             /\ row[t] = "PREPARED" /\ slot[t] = t /\ t \notin lost
          \/ /\ op.goal = "ABORTED"
             /\ row[t] \in {"PREPARED", "AUTHORIZED", "DENIED"}
          \/ /\ op.goal = "COMMITTED" /\ op.kind \in {"commit", "recover"}
             /\ live = t /\ row[t] = "AUTHORIZED" /\ primeGen = t
  /\ pc \in {"guard", "exchange"} =>
       file[t] = "AUTHORIZED" /\ row[t] = "AUTHORIZED" /\ slot[t] = t /\ t \notin lost
  /\ pc = "fsync" =>
       /\ live = t /\ file[t] = "AUTHORIZED" /\ row[t] = "AUTHORIZED"
       /\ primeGen # t /\ ~Recorded(t)
  /\ pc \in {"insert", "retire", "setprime"} =>
       live = t /\ file[t] = row[t] /\ ~Recorded(t)
  /\ pc \in {"candidate", "siblings", "settle"} =>
       (live = t \/ Undone(t)) /\ file[t] = row[t] /\ ~Recorded(t)
  /\ pc \in {"offline", "receipt"} =>
       /\ live = t \/ Undone(t)
       /\ file[t] = "COMMITTED" /\ row[t] = "COMMITTED" /\ ~Recorded(t)
  /\ pc \in {"settle", "offline", "receipt"} => primeGen = t
  /\ pc = "reclaim" => file[t] \in {"DENIED", "ABORTED"}

PhasesOK == op.tx \in Tx => PhaseOK(op.tx)

(* What recovery still has to look at. *)
QueueOK ==
  /\ pc # "recover" => op.tx \notin op.queue
  /\ op.kind # "recover" => op.queue = {}
  /\ \A t \in op.queue :
       IF op.stage = 1 THEN row[t] \in {"PREPARED", "AUTHORIZED"}
                       ELSE row[t] = "COMMITTED" /\ ~Recorded(t)

FinishSteps == {"fsync", "candidate", "siblings", "insert", "retire", "setprime",
                "settle", "setfile", "setrow", "offline", "receipt"}

(* An exchange without a receipt is being finished, still in recovery's    *)
(* queue, or quarantined.                                                  *)
Attended(t) ==
  \/ t \in bad
  \/ op.tx = t /\ pc \in FinishSteps
  \/ mode = "down"
  \/ mode = "recover" /\ t \in op.queue
  \/ mode = "recover" /\ op.stage = 1 /\ row[t] = "COMMITTED"

UnrecordedAttended == \A t \in Tx : Pending(t) => Attended(t)

(* There is at most one, and a commit that waits for its receipt has moved *)
(* PRIME.                                                                  *)
PendingOK ==
  \A t \in Tx : Pending(t) =>
    /\ \A u \in Tx : Pending(u) => u = t
    /\ row[t] = "COMMITTED" => primeGen = t

(* What is live, or what the unrecorded live transaction displaced. *)
Settlement == IF live \in Tx /\ ~Recorded(live) THEN slot[live] ELSE live

(* No transaction has two receipts. *)
ReceiptsDistinct ==
  \A i, j \in 1..Len(receipts) : receipts[i] = receipts[j] => i = j

(* The receipts form one chain of exchanges, each on top of what those     *)
(* before it left live when power losses had undone some of them.          *)
ChainOK ==
  /\ ReceiptsDistinct
  /\ \A i \in 1..Len(receipts) :
       receipts[i] \notin lost => LeftLive(i - 1, slot[receipts[i]])
  /\ LeftLive(Len(receipts), Settlement)

(* The daemon, the records, the markers and the receipts fit together. *)
Consistent ==
  /\ ControlOK
  /\ RecordsOK
  /\ PhasesOK
  /\ QueueOK
  /\ UnrecordedAttended
  /\ PendingOK
  /\ ChainOK

IInv == TypeOK /\ Consistent

-----------------------------------------------------------------------------
(* What IInv does not say: what the worlds, the merges and the decisions   *)
(* recorded for a transaction have to do with the trees that were live.    *)

(* A world that ended: nothing writes to its tree any more. *)
Settled(w) == state[w] \notin {Absent, "MUTABLE", "FINALIZING"}

Retirable == {"VALID", "DEGRADED", "DEAD", "COLLAPSED"}

(* PRIME, every checkpoint and every candidate that was merged have ended, *)
(* and a fork under way takes an id nobody has.                            *)
WorldsOK ==
  /\ Settled(prime)
  /\ \A w \in World \ Cand : state[w] = Absent \/ Settled(w)
  /\ \A t \in Tx : rec[t].cand # Absent => Settled(rec[t].cand)
  /\ op.kind = "fork" => state[op.cand] = Absent
  /\ pc = "insert" => op.world \notin Cand
  /\ pc \in {"retire", "setprime"} => Settled(op.world)
  /\ pc = "siblings" => \A w \in op.todo : state[w] \in Retirable

(* A staged merge kept what PRIME had changed since the fork; only a merge *)
(* without conflict has a mapping that could become live.                  *)
KeepsForeign(t) ==
  \A p \in Path : rec[t].before[p] # base[rec[t].cand][p]
                    => rec[t].staged[p] = rec[t].before[p]

MergesOK ==
  \A t \in Tx : IF rec[t].conflict THEN slot[t] = Absent
                 ELSE rec[t].cand # Absent => KeepsForeign(t)

(* What an authorization of t rests on: evidence of exactly the staged     *)
(* tree, and a world that records the tree it will displace.               *)
Tested(t) ==
  /\ rec[t].primary = rec[t].authorized
  /\ content[rec[t].cand] = rec[t].staged \/ rec[t].second = rec[t].authorized

Remembered(f) == \E w \in World : Settled(w) /\ content[w] = f

Authorizing(t) ==
  \/ file[t] \in {"AUTHORIZED", "COMMITTED"}
  \/ op.tx = t /\ pc = "setfile" /\ op.goal = "AUTHORIZED"

DecisionsOK ==
  \A t \in Tx : Authorizing(t) => Tested(t) /\ Remembered(rec[t].before)

(* While the watcher watches what is live and has counted nothing since    *)
(* the generation the commit holds, the live tree is the one t was merged  *)
(* with; from the guard on only a late write can have changed it.          *)
Quiet == op.gen = wgen /\ ~pend /\ watched = live

Deciding == \/ pc \in {"authorize", "guard"}
            \/ pc \in {"setfile", "setrow"} /\ op.goal = "AUTHORIZED"

GenerationOK ==
  /\ Deciding => /\ op.gen # Absent => op.gen <= wgen
                 /\ Quiet => tree[live] = rec[op.tx].before
                 /\ pc # "authorize" => watched = live
  /\ pc = "exchange" => op.tx \in late \/ tree[live] = rec[op.tx].before

(* A displaced tree is still the tree that was displaced. *)
DisplacedOK ==
  \A t \in Tx : Exchanged(t) /\ t \notin late => tree[slot[t]] = rec[t].before

(* The trees, the worlds and the decisions fit together. *)
Faithful ==
  /\ WorldsOK
  /\ MergesOK
  /\ DecisionsOK
  /\ GenerationOK
  /\ DisplacedOK

JInv == IInv /\ Faithful

-----------------------------------------------------------------------------
(* The world a publication makes PRIME continues PRIME's lineage, is the   *)
(* one its transaction will be known by, and holds the tree that was       *)
(* staged; only a transaction that is finished this way has a receipt.     *)
Known(w) == state[w] # Absent

PublishingOK(t) ==
  /\ pc = "fsync" => ~Known(t)
  /\ pc \in {"candidate", "siblings", "insert", "retire", "setprime", "settle", "offline", "receipt"}
       => ~Recorded(t)
  /\ pc \in {"insert", "retire", "setprime"} => primeGen # t
  /\ pc = "insert" => op.world = t /\ ~Adopts(t)
  /\ pc \in {"retire", "setprime"} =>
       op.world = PublishedWorld(t) /\ content[op.world] = rec[t].staged
  /\ \/ pc \in {"settle", "offline", "receipt"}
     \/ pc \in {"setfile", "setrow"} /\ op.goal = "COMMITTED"
     => primeGen = t

(* A transaction has a checkpoint of its own only when its exchange        *)
(* happened; until PRIME is moved to it, a replay finds it again, unless a *)
(* power loss undid the exchange.                                          *)
CheckpointOK(t) ==
  /\ primeGen = t => prime = PublishedWorld(t) /\ content[prime] = rec[t].staged
  /\ Known(t) => \/ Recorded(t) \/ primeGen = t \/ t \in lost
                 \/ live = t /\ ~Adopts(t)

LineageOK ==
  /\ \A w \in World : Known(w) /\ parent[w] # Absent => Known(parent[w])
  /\ pc \in {"retire", "setprime"} => op.world = prime \/ parent[op.world] = prime
  /\ op.tx \in Tx => PublishingOK(op.tx)
  /\ \A t \in Tx : CheckpointOK(t)
  /\ RecordedInLineage
=============================================================================
