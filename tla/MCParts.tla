------------------------------ MODULE MCParts ------------------------------
(***************************************************************************)
(* The parts of the system that work on state of their own, each explored  *)
(* from its initial states while the others rest.                          *)
(***************************************************************************)
EXTENDS Watcher, Roots, Relocation, PrivateEvaluator, Prune, Chains, Evidence, TLC

CONSTANTS top, middle, leaf \* the directories of the watched tree

VARIABLE part \* the part that is explored

MCAbove == (middle :> top) @@ (leaf :> middle)
MCHome  == (top :> top) @@ (middle :> top) @@ (leaf :> top)

Parts == {"watcher", "roots", "relocation", "evaluator", "prune", "chains", "evidence"}

partsVars == <<watcherVars, rootsVars, relocationVars, evaluatorVars, pruneVars, chainsVars, evidenceVars, part>>

(* Where a part has several initial states, the one it rests in.           *)
Resting ==
  /\ part # "watcher" => \A s \in Subs : node[s] = 0
  /\ part # "relocation" => /\ strays = {} /\ blemishes = {} /\ view = "none" /\ oldStore = "seen" /\ ~busy /\ ownsCopy
                            /\ inOld = Retained /\ inCopy = Retained
  /\ part # "evidence" => policy = <<>> /\ emptyDeclared

PartsInit ==
  /\ part \in Parts
  /\ WatcherInit /\ RootsInit /\ RelocationInit /\ EvaluatorInit /\ PruneInit /\ ChainsInit /\ EvidenceInit
  /\ Resting

PartsNext ==
  /\ UNCHANGED part
  /\ \/ part = "watcher" /\ WatcherNext
        /\ UNCHANGED <<rootsVars, relocationVars, evaluatorVars, pruneVars, chainsVars, evidenceVars>>
     \/ part = "roots" /\ RootsNext
        /\ UNCHANGED <<watcherVars, relocationVars, evaluatorVars, pruneVars, chainsVars, evidenceVars>>
     \/ part = "relocation" /\ RelocationNext
        /\ UNCHANGED <<watcherVars, rootsVars, evaluatorVars, pruneVars, chainsVars, evidenceVars>>
     \/ part = "evaluator" /\ EvaluatorNext
        /\ UNCHANGED <<watcherVars, rootsVars, relocationVars, pruneVars, chainsVars, evidenceVars>>
     \/ part = "prune" /\ PruneNext
        /\ UNCHANGED <<watcherVars, rootsVars, relocationVars, evaluatorVars, chainsVars, evidenceVars>>
     \/ part = "chains" /\ ChainsNext
        /\ UNCHANGED <<watcherVars, rootsVars, relocationVars, evaluatorVars, pruneVars, evidenceVars>>
     \/ part = "evidence" /\ EvidenceNext
        /\ UNCHANGED <<watcherVars, rootsVars, relocationVars, evaluatorVars, pruneVars, chainsVars>>

PartsSpec == PartsInit /\ [][PartsNext]_partsVars
=============================================================================
