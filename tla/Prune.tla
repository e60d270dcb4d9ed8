-------------------------------- MODULE Prune --------------------------------
(***************************************************************************)
(* Reclaiming the payloads of worlds that are history                      *)
(* (runtime/worldline/prune.py, remove_tree in fstree.py), while agents    *)
(* finish other worlds.  A world has its payload, an overlay, and the      *)
(* checkpoint it was forked from, which it shares with the worlds forked   *)
(* by the same request.  One handler plans and removes, directory by       *)
(* directory and world by world; a removal may fail before or after it     *)
(* removed something, and the daemon may be killed.                        *)
(***************************************************************************)
EXTENDS Integers, Sequences, FiniteSets

CONSTANTS
  Worlds,            \* 1..n; 1 is the checkpoint registration made
  Forked,            \* those that forks make, in order; the others are published
  MaxRemovalFaults,  \* bound: removals that fail
  MaxPruneKills      \* bound: kills of the daemon

ASSUME PruneConstants ==
  Worlds \subseteq Nat \ {0} /\ IsFiniteSet(Worlds) /\ 1 \in Worlds /\ Forked \subseteq Worlds \ {1}

VARIABLES
  fate,        \* [Worlds -> "unborn", "MUTABLE", "VALID", "DEGRADED", "DEAD", "ARCHIVED", "COLLAPSED"]
  basePayload, \* [Worlds -> PayloadDirs], the checkpoint of each world
  finished,    \* the worlds in the order in which they ended
  parent,      \* [Worlds -> the world that was PRIME when it was made], 0
  primeWorld,
  jobActive,   \* worlds with an active job
  openTransaction, \* the world a transaction was prepared for, 0
  disk,        \* [PayloadDirs -> "none", "whole", "partial", "gone"]
  pruned,      \* payload_pruned
  pruning,     \* the plan's candidates that are still to be done, in order; <<>> when idle
  candidates,  \* the plan's candidates
  todo,        \* directories left of the entry at the head
  interrupted, \* history: the world a killed prune was removing
  removalFaults, pruneKills \* counters of the bounds

worldVars == <<fate, basePayload, finished, parent, primeWorld, jobActive, openTransaction>>
pruneVars == <<worldVars, disk, pruned, pruning, candidates, todo, interrupted, removalFaults, pruneKills>>

Prunable == {"ARCHIVED", "DEAD", "DEGRADED", "COLLAPSED"}
Payload(w) == <<"payload", w>>
Overlay(w) == <<"overlay", w>>
Checkpoint(w) == <<"checkpoint", w>> \* named after the first world forked from it
PayloadDirs == {"payload", "overlay", "checkpoint"} \X Worlds
There == {d \in PayloadDirs : disk[d] \in {"whole", "partial"}}

PruneInit ==
  /\ fate = [w \in Worlds |-> IF w = 1 THEN "VALID" ELSE "unborn"]
  /\ basePayload = [w \in Worlds |-> IF w = 1 THEN Payload(1) ELSE Checkpoint(w)]
  /\ finished = <<1>> /\ parent = [w \in Worlds |-> 0]
  /\ primeWorld = 1 /\ jobActive = {} /\ openTransaction = 0
  /\ disk = [x \in PayloadDirs |-> IF x = Payload(1) THEN "whole" ELSE "none"]
  /\ pruned = {} /\ pruning = <<>> /\ candidates = {} /\ todo = {}
  /\ interrupted = {} /\ removalFaults = 0 /\ pruneKills = 0

-----------------------------------------------------------------------------
(* The life of worlds, as far as prune reads it.  Forks and collapses take *)
(* the mutation lock that a prune holds; agents end when they end.         *)
LockFree == pruning = <<>> /\ todo = {}

(* With a checkpoint of its own, or that of the world before it.           *)
ForkWorld(w) ==
  /\ LockFree /\ fate[w] = "unborn" /\ \A v \in Forked : v < w => fate[v] # "unborn"
  /\ fate' = [fate EXCEPT ![w] = "MUTABLE"] /\ parent' = [parent EXCEPT ![w] = primeWorld]
  /\ jobActive' = jobActive \cup {w}
  /\ \E c \in {Checkpoint(w)} \cup {basePayload[v] : v \in {v \in Worlds : v = w - 1 /\ fate[v] = "MUTABLE"}} :
       /\ basePayload' = [basePayload EXCEPT ![w] = c]
       /\ disk' = [disk EXCEPT ![c] = "whole", ![Overlay(w)] = "whole"]
  /\ UNCHANGED <<finished, primeWorld, openTransaction, pruned, pruning, candidates, todo,
                 interrupted, removalFaults, pruneKills>>

(* The job is over some time after the world is.  A world that died before *)
(* it was captured has no payload.                                         *)
WorldEnds(w, s) ==
  /\ fate[w] = "MUTABLE" /\ fate' = [fate EXCEPT ![w] = s] /\ finished' = Append(finished, w)
  /\ \E d \in IF s = "DEAD" THEN {"none", "whole"} ELSE {"whole"} : disk' = [disk EXCEPT ![Payload(w)] = d]
  /\ UNCHANGED <<basePayload, parent, primeWorld, jobActive, openTransaction, pruned, pruning, candidates,
                 todo, interrupted, removalFaults, pruneKills>>

JobEnds(w) ==
  /\ w \in jobActive /\ fate[w] # "MUTABLE" /\ jobActive' = jobActive \ {w}
  /\ UNCHANGED <<fate, basePayload, finished, parent, primeWorld, openTransaction, disk, pruned, pruning,
                 candidates, todo, interrupted, removalFaults, pruneKills>>

(* A collapse is prepared by one request and committed, or aborted, by another. *)
PrepareCollapse(w) ==
  /\ LockFree /\ openTransaction = 0 /\ fate[w] = "VALID" /\ w \notin jobActive
  /\ openTransaction' = w
  /\ UNCHANGED <<fate, basePayload, finished, parent, primeWorld, jobActive, disk, pruned,
                 pruning, candidates, todo, interrupted, removalFaults, pruneKills>>

AbortCollapse ==
  /\ LockFree /\ openTransaction # 0 /\ openTransaction' = 0
  /\ UNCHANGED <<fate, basePayload, finished, parent, primeWorld, jobActive, disk, pruned,
                 pruning, candidates, todo, interrupted, removalFaults, pruneKills>>

(* The terminal siblings and the PRIME before are archived.  The world     *)
(* itself becomes PRIME where it was made from that, and otherwise a       *)
(* checkpoint that is published over the staged tree.                      *)
Siblings(w) == {v \in Worlds \ {w} : parent[v] = parent[w] /\ fate[v] \notin {"unborn", "MUTABLE"}}
Archived(w) == [v \in Worlds |-> IF v = w THEN "COLLAPSED"
                                ELSE IF v \in Siblings(w) \cup {primeWorld} THEN "ARCHIVED" ELSE fate[v]]

CommitCollapse(w) ==
  /\ LockFree /\ openTransaction = w /\ openTransaction' = 0
  /\ \/ /\ parent[w] = primeWorld /\ primeWorld' = w /\ fate' = Archived(w)
        /\ UNCHANGED <<parent, finished, basePayload, disk>>
     \/ \E c \in Worlds \ Forked :
          /\ parent[w] # primeWorld /\ fate[c] = "unborn" /\ primeWorld' = c
          /\ fate' = [Archived(w) EXCEPT ![c] = "VALID"]
          /\ parent' = [parent EXCEPT ![c] = primeWorld] /\ finished' = Append(finished, c)
          /\ basePayload' = [basePayload EXCEPT ![c] = Payload(c)]
          /\ disk' = [disk EXCEPT ![Payload(c)] = "whole"]
  /\ UNCHANGED <<jobActive, pruned, pruning, candidates, todo, interrupted, removalFaults, pruneKills>>

-----------------------------------------------------------------------------
Protected == {primeWorld, parent[primeWorld]} \ {0}
Position(w) == CHOOSE i \in DOMAIN finished : finished[i] = w

(* What a world that is not being pruned names stays.                      *)
ReferencedBy(w) == {Payload(w), basePayload[w]}

(* Mutant: only a world's own payload keeps a directory.                   *)
OwnPayloadOnly(w) == {Payload(w)}

KeepsOf(w) == ReferencedBy(w)

Referenced(cands) == UNION {KeepsOf(w) : w \in {v \in Worlds : fate[v] # "unborn"} \ (cands \cup pruned)}

(* The directories offered with a candidate: none twice.                   *)
OfferedWith(w, cands) ==
  {d \in (ReferencedBy(w) \cap There) \ Referenced(cands) :
     \A v \in cands : d \in ReferencedBy(v) => Position(w) <= Position(v)}
  \cup ({Overlay(w)} \cap There)

(* plan: the candidates but for the `keep` that ended last, those with     *)
(* something to reclaim, and overlays that pruned worlds left.             *)
Candidates == {w \in Worlds : fate[w] \in Prunable} \ (pruned \cup Protected \cup jobActive)
OldestFirst(ws) == {order \in [1..Cardinality(ws) -> ws] :
                      \A i, j \in 1..Cardinality(ws) : i < j => Position(order[i]) < Position(order[j])}
Leftovers == {w \in pruned : Overlay(w) \in There} \ (Protected \cup jobActive)

PrunePlan(keep) ==
  /\ LockFree /\ openTransaction = 0
  /\ LET cands == {w \in Candidates : Cardinality({v \in Candidates : Position(v) > Position(w)}) >= keep} IN
     \E worlds \in OldestFirst({w \in cands : OfferedWith(w, cands) # {}}), left \in OldestFirst(Leftovers) :
     LET entries == worlds \o left
     IN  /\ entries # <<>> /\ pruning' = entries /\ candidates' = cands
         /\ todo' = IF entries[1] \in cands THEN OfferedWith(entries[1], cands) ELSE {Overlay(entries[1])}
  /\ UNCHANGED <<worldVars, disk, pruned, interrupted, removalFaults, pruneKills>>

(* _remove_tree of one directory, in the order in which plan lists them;   *)
(* remove_tree makes it removable and then removes it.                     *)
Before(c, d) == <<c[1], d[1]>> \in {<<"payload", "checkpoint">>, <<"payload", "overlay">>, <<"checkpoint", "overlay">>}

RemoveTree(d) ==
  /\ d \in todo /\ \A c \in todo : ~Before(c, d)
  /\ todo' = todo \ {d}
  /\ \/ disk' = [disk EXCEPT ![d] = "gone"] /\ UNCHANGED removalFaults
     \/ /\ removalFaults < MaxRemovalFaults /\ removalFaults' = removalFaults + 1
        /\ \E left \in {"whole", "partial"} : disk' = [disk EXCEPT ![d] = left]
  /\ UNCHANGED <<worldVars, pruned, pruning, candidates, interrupted, pruneKills>>

(* Mutant: a payload that is still there is a payload that is kept.        *)
KeptIfThere(w) == Payload(w) \in There

(* What decides is the world's own payload.                                *)
StaysRetained(w) == disk[Payload(w)] = "whole"

PruneRecord ==
  /\ pruning # <<>> /\ todo = {}
  /\ LET w == Head(pruning)  rest == Tail(pruning)
     IN  /\ pruned' = IF StaysRetained(w) THEN pruned ELSE pruned \cup {w}
         /\ pruning' = rest
         /\ candidates' = IF rest = <<>> THEN {} ELSE candidates
         /\ todo' = IF rest = <<>> THEN {}
                    ELSE IF rest[1] \in candidates THEN OfferedWith(rest[1], candidates) \* as planned
                    ELSE {Overlay(rest[1])}
  /\ UNCHANGED <<worldVars, disk, interrupted, removalFaults, pruneKills>>

PruneKilled ==
  /\ pruning # <<>> /\ pruneKills < MaxPruneKills /\ pruneKills' = pruneKills + 1
  /\ interrupted' = interrupted \cup {Head(pruning)}
  /\ pruning' = <<>> /\ todo' = {} /\ candidates' = {}
  /\ UNCHANGED <<worldVars, disk, pruned, removalFaults>>

PruneNext ==
  \/ \E w \in Forked :
       \/ ForkWorld(w) \/ JobEnds(w) \/ PrepareCollapse(w) \/ CommitCollapse(w)
       \/ \E s \in {"VALID", "DEGRADED", "DEAD"} : WorldEnds(w, s)
  \/ \E keep \in 0..1 : PrunePlan(keep)
  \/ \E d \in todo : RemoveTree(d)
  \/ AbortCollapse \/ PruneRecord \/ PruneKilled

PruneSpec == PruneInit /\ [][PruneNext]_pruneVars

-----------------------------------------------------------------------------
(* PRIME, the checkpoint a return goes to, and every world that is not     *)
(* terminal or whose job is active keep their payload and the one they     *)
(* were forked from, whatever was pruned around them and however a prune   *)
(* failed (prune.py: "Never pruned").                                      *)
LivingPayloadsKept ==
  \A w \in Worlds :
    (w \in Protected \cup jobActive \/ fate[w] \in {"MUTABLE", "VALID"}) /\ fate[w] # "unborn" =>
      disk[basePayload[w]] = "whole" /\ disk[Payload(w)] \in {"none", "whole"}

(* A world whose payload was touched is recorded pruned, so that whoever   *)
(* needs it is refused by name; only what a killed prune was removing is   *)
(* not (prune.py, apply).                                                  *)
PrunedIsRecorded ==
  \A w \in Worlds : disk[Payload(w)] \in {"partial", "gone"} =>
    w \in pruned \cup interrupted \/ (\E i \in DOMAIN pruning : pruning[i] = w)
==============================================================================
