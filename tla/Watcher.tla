------------------------------- MODULE Watcher -------------------------------
(***************************************************************************)
(* What the watcher of managed roots covers (runtime/worldline/linux/      *)
(* inotify.py).                                                            *)
(*                                                                         *)
(* inotify watches inodes, one directory each, and its queue is bounded.   *)
(* A tree is therefore walked directory by directory while programs create *)
(* and remove directories in it; a new directory is watched only when its  *)
(* parent's event is consumed.  A collapse is authorized only over roots   *)
(* the watcher says it watches completely, so what it says must be true.   *)
(***************************************************************************)
EXTENDS Integers, Sequences, SequencesExt, FiniteSets, Functions

CONSTANTS
  Tops,       \* the managed roots' own directories
  Subs,       \* directories below them
  Above,      \* the parent of a directory below a root
  Home,       \* the root of a directory
  QueueMax,   \* fs.inotify.max_queued_events
  MaxNodes,   \* bound: inodes ever allocated
  MaxWrites,  \* bound: writes by other programs
  MaxGen,     \* bound: events ever consumed
  MaxFailures,    \* bound: calls that fail (watch limit, unreadable directory, callback)
  MaxHalfDrains   \* bound: drains in a request's thread that a failing callback cuts short

VARIABLES
  node,      \* the directory's inode, 0 when there is none
  watches,   \* _watches: inode -> the directory it was watched as
  queue,     \* events the kernel holds
  gen, dirty, faulted, dead, \* _generation, _dirty, _faulted, _dead
  owned,     \* "no", "yes" while WORLDLINE writes itself, "draining" at the end of that
  walk,      \* _add_tree in progress
  capture,   \* stable_capture in progress: generation before, roots covered then
  changed,   \* history: roots changed since that capture began
  nodes, writes, failures, halfDrains \* counters of the bounds

treeVars    == <<node, nodes, writes, changed>>
watchVars   == <<watches, faulted, dead, walk>>
boundVars   == <<failures, halfDrains>>
watcherVars == <<treeVars, watchVars, boundVars, queue, gen, dirty, owned, capture>>

Dirs == Tops \cup Subs

(* Above leads up to the roots' directories, Home to the one it ends at.   *)
ASSUME WatcherConstants ==
  /\ IsFiniteSet(Dirs) /\ Tops \cap Subs = {} /\ "none" \notin Dirs
  /\ Above \in [Subs -> Dirs] /\ Home \in [Dirs -> Tops]
  /\ \A r \in Tops : Home[r] = r
  /\ \A s \in Subs : Home[s] = Home[Above[s]]
  /\ \E depth \in [Dirs -> 0..Cardinality(Dirs)] : \A s \in Subs : depth[Above[s]] < depth[s]

NoWalk == [why |-> "none", roots |-> {}, pending |-> {}, list |-> "none", before |-> {}, seen |-> {}]
NoCapture == [base |-> -1, covered |-> {}]
Walking == walk.why # "none"

(* watched_roots *)
Watched == IF dead THEN {}
           ELSE {r \in Tops \ faulted : \E i \in DOMAIN watches : watches[i] = r}

(* Each directory that is there at first has an inode of its own.          *)
FirstNodes == CHOOSE f \in Injection(Dirs, 1..Cardinality(Dirs)) : TRUE

(* The constructor walks the roots before the reader thread exists.  Any   *)
(* of the directories below them may be there already.                     *)
WatcherInit ==
  /\ \E there \in SUBSET Subs :
       /\ \A d \in there : Above[d] \in Tops \cup there
       /\ node = [d \in Dirs |-> IF d \in Tops \cup there THEN FirstNodes[d] ELSE 0]
  /\ nodes = Cardinality(Dirs)
  /\ watches = <<>> /\ queue = <<>> /\ gen = 0 /\ dirty = FALSE
  /\ faulted = {} /\ dead = FALSE /\ owned = "no"
  /\ walk = [NoWalk EXCEPT !.why = "start", !.pending = Tops]
  /\ capture = NoCapture /\ changed = {}
  /\ writes = 0 /\ failures = 0 /\ halfDrains = 0

-----------------------------------------------------------------------------
(* The kernel's queue.  An event equal to the last one is merged into it,  *)
(* and what does not fit is replaced by one overflow event.                *)
Event(kind, inode, dir) == [kind |-> kind, inode |-> inode, dir |-> dir]
Overflow == Event("overflow", 0, "none")

Push(q, e) ==
  IF e.inode \notin DOMAIN watches \/ (q # <<>> /\ Last(q) \in {e, Overflow}) THEN q
  ELSE Append(q, IF Len(q) < QueueMax THEN e ELSE Overflow)

Emit(e) == queue' = Push(queue, e)

(* Other programs, which no lock of the watcher's stops. *)
Write(d) ==
  /\ node[d] # 0 /\ writes < MaxWrites
  /\ Emit(Event("change", node[d], d))
  /\ writes' = writes + 1 /\ changed' = changed \cup {Home[d]}
  /\ UNCHANGED <<node, nodes, watchVars, boundVars, gen, dirty, owned, capture>>

MakeDirectory(d) ==
  /\ d \in Subs /\ node[d] = 0 /\ node[Above[d]] # 0 /\ nodes < MaxNodes
  /\ node' = [node EXCEPT ![d] = nodes + 1] /\ nodes' = nodes + 1
  /\ Emit(Event("newdir", node[Above[d]], d))
  /\ changed' = changed \cup {Home[d]}
  /\ UNCHANGED <<writes, watchVars, boundVars, gen, dirty, owned, capture>>

RemoveDirectory(d) ==
  /\ d \in Subs /\ node[d] # 0 /\ \A e \in Subs : Above[e] = d => node[e] = 0
  /\ node' = [node EXCEPT ![d] = 0]
  /\ queue' = Push(Push(queue, Event("ignored", node[d], d)), Event("change", node[Above[d]], d))
  /\ changed' = changed \cup {Home[d]}
  /\ UNCHANGED <<nodes, writes, watchVars, boundVars, gen, dirty, owned, capture>>

(* The root's directory is moved away and another one stands at its path.  *)
ReplaceRoot(r) ==
  /\ r \in Tops /\ nodes < MaxNodes
  /\ node' = [d \in Dirs |-> IF d = r THEN nodes + 1 ELSE IF Home[d] = r THEN 0 ELSE node[d]]
  /\ nodes' = nodes + 1
  /\ Emit(Event("moveself", node[r], r))
  /\ changed' = changed \cup {r}
  /\ UNCHANGED <<writes, watchVars, boundVars, gen, dirty, owned, capture>>

-----------------------------------------------------------------------------
(* _add_tree, under the state lock: each directory is watched and then     *)
(* listed.  One that vanished is skipped, one that cannot be watched or    *)
(* listed faults its root, and the walk goes on.                           *)
Forget(i) == [j \in DOMAIN watches \ {i} |-> watches[j]]

WalkWatch(d) ==
  /\ d \in walk.pending /\ walk.list = "none"
  /\ \/ /\ node[d] # 0
        /\ watches' = [i \in DOMAIN watches \cup {node[d]} |-> IF i = node[d] THEN d ELSE watches[i]]
        /\ walk' = [walk EXCEPT !.pending = @ \ {d}, !.list = d, !.seen = @ \cup {node[d]}]
        /\ UNCHANGED <<faulted, failures, dirty>>
     \/ /\ node[d] = 0
        /\ walk' = [walk EXCEPT !.pending = @ \ {d}]
        /\ UNCHANGED <<watches, faulted, failures, dirty>>
     \/ /\ node[d] # 0 /\ failures < MaxFailures
        /\ failures' = failures + 1 /\ faulted' = faulted \cup {Home[d]}
        /\ dirty' = (dirty \/ walk.why = "event")
        /\ walk' = [walk EXCEPT !.pending = @ \ {d}]
        /\ UNCHANGED watches
  /\ UNCHANGED <<treeVars, halfDrains, dead, queue, gen, owned, capture>>

WalkList ==
  LET d == walk.list IN
  /\ d # "none"
  /\ \/ /\ walk' = [walk EXCEPT !.list = "none",
                                !.pending = @ \cup {e \in Subs : Above[e] = d /\ node[e] # 0}]
        /\ UNCHANGED <<faulted, failures, dirty>>
     \/ /\ failures < MaxFailures
        /\ failures' = failures + 1 /\ faulted' = faulted \cup {Home[d]}
        /\ dirty' = (dirty \/ walk.why = "event")
        /\ walk' = [walk EXCEPT !.list = "none"]
  /\ UNCHANGED <<treeVars, halfDrains, watches, dead, queue, gen, owned, capture>>

(* Mutant: a directory is listed before it is watched.                     *)
ListThenWatch(d) ==
  \/ /\ d \in walk.pending /\ walk.list = "none"
     /\ walk' = [walk EXCEPT !.list = d,
                   !.pending = (@ \ {d}) \cup {e \in Subs : Above[e] = d /\ node[e] # 0}]
     /\ UNCHANGED <<treeVars, boundVars, watches, faulted, dead, queue, gen, dirty, owned, capture>>
  \/ /\ d = walk.list
     /\ watches' = IF node[d] = 0 THEN watches
                   ELSE [i \in DOMAIN watches \cup {node[d]} |-> IF i = node[d] THEN d ELSE watches[i]]
     /\ walk' = [walk EXCEPT !.list = "none", !.seen = @ \cup {node[d]}]
     /\ UNCHANGED <<treeVars, boundVars, faulted, dead, queue, gen, dirty, owned, capture>>

Walk(d) == WalkWatch(d) \/ (d = walk.list /\ WalkList)

(* A faulted root is walked again by mark_reconciled; the descriptors the  *)
(* walk did not confirm are removed when it is over, not before.           *)
WalkEnds ==
  /\ Walking /\ walk.pending = {} /\ walk.list = "none"
  /\ watches' = [i \in DOMAIN watches \ (walk.before \ walk.seen) |-> watches[i]]
  /\ \/ walk.roots = {} /\ walk' = NoWalk /\ UNCHANGED faulted
     \/ \E r \in walk.roots :
          /\ walk' = [walk EXCEPT !.roots = @ \ {r}, !.pending = {r}, !.seen = {},
                        !.before = {i \in DOMAIN watches' : Home[watches'[i]] = r}]
          /\ faulted' = faulted \ {r}
  /\ UNCHANGED <<treeVars, boundVars, dead, queue, gen, dirty, owned, capture>>

-----------------------------------------------------------------------------
(* _consume: one event, in the reader's thread or in that of a request.    *)
Locked == Walking \/ owned = "yes"

OverflowFaults ==
  /\ dirty' = TRUE /\ faulted' = Tops
  /\ UNCHANGED <<watches, walk>>

Applied(e) ==
  IF e.kind = "overflow" THEN OverflowFaults
  ELSE IF e.inode \notin DOMAIN watches THEN UNCHANGED <<watches, faulted, walk, dirty>>
  ELSE LET d == watches[e.inode] IN
       /\ dirty' = (dirty \/ owned = "no")
       /\ watches' = IF e.kind = "ignored" \/ (e.kind = "moveself" /\ d \in Tops)
                     THEN Forget(e.inode) ELSE watches
       /\ faulted' = IF e.kind = "moveself" /\ d \in Tops THEN faulted \cup {d} ELSE faulted
       /\ walk' = IF e.kind = "newdir"
                  THEN [NoWalk EXCEPT !.why = "event", !.pending = {e.dir}] ELSE walk

Consume ==
  /\ ~Locked /\ queue # <<>> /\ gen < MaxGen
  /\ gen' = gen + 1 /\ queue' = Tail(queue) /\ Applied(Head(queue))
  /\ UNCHANGED <<treeVars, boundVars, dead, owned, capture>>

(* The callback failed in the reader's thread: what it had read is lost,   *)
(* and from now on no root is reported as watched.                         *)
ReaderDies ==
  /\ ~Locked /\ owned = "no" /\ ~dead /\ queue # <<>> /\ failures < MaxFailures
  /\ failures' = failures + 1 /\ queue' = <<>> /\ gen' = gen + 1
  /\ dead' = TRUE /\ dirty' = TRUE
  /\ UNCHANGED <<treeVars, halfDrains, watches, faulted, walk, owned, capture>>

(* The same in a request's thread, which gets the error; the event at the  *)
(* head was applied, the others that were read with it are gone.           *)
DrainCutShort ==
  /\ ~Locked /\ owned = "no" /\ queue # <<>> /\ halfDrains < MaxHalfDrains
  /\ halfDrains' = halfDrains + 1 /\ queue' = <<>>
  /\ gen' = gen + 1 /\ Applied(Head(queue))
  /\ UNCHANGED <<treeVars, failures, dead, owned, capture>>

(* owned_writes holds the read lock, and drains at the end.                *)
OwnedWrites ==
  /\ \/ owned = "no" /\ ~Walking /\ owned' = "yes"
     \/ owned = "yes" /\ owned' = "draining"
     \/ owned = "draining" /\ queue = <<>> /\ ~Walking /\ owned' = "no"
  /\ UNCHANGED <<treeVars, watchVars, boundVars, queue, gen, dirty, capture>>

(* synchronized_generation returns when it found the queue empty.          *)
Synchronized == ~Walking /\ owned = "no" /\ queue = <<>>

CaptureBegins ==
  /\ Synchronized /\ capture = NoCapture
  /\ capture' = [base |-> gen, covered |-> Watched] /\ changed' = {}
  /\ UNCHANGED <<node, nodes, writes, watchVars, boundVars, queue, gen, dirty, owned>>

(* Mutant: the copy is accepted without a second look at the generation.   *)
AcceptsAlways(base) == TRUE

Accepts(base) == gen = base

CaptureEnds ==
  /\ Synchronized /\ capture # NoCapture
  /\ capture' = NoCapture
  /\ IF Accepts(capture.base)
     THEN /\ dirty' = FALSE
          /\ walk' = IF faulted = {} THEN walk
                     ELSE [NoWalk EXCEPT !.why = "reconcile", !.roots = faulted]
     ELSE UNCHANGED <<dirty, walk>>
  /\ UNCHANGED <<treeVars, watches, faulted, dead, boundVars, queue, gen, owned>>

WatcherNext ==
  \/ \E d \in Dirs : Write(d) \/ MakeDirectory(d) \/ RemoveDirectory(d) \/ Walk(d)
  \/ \E r \in Tops : ReplaceRoot(r)
  \/ WalkEnds \/ Consume \/ ReaderDies \/ DrainCutShort \/ OwnedWrites
  \/ CaptureBegins \/ CaptureEnds

WatcherSpec == WatcherInit /\ [][WatcherNext]_watcherVars

-----------------------------------------------------------------------------
(* When the events are drained, a root that watched_roots reports has every*)
(* one of its directories watched, whatever was created, removed or lost   *)
(* while trees were walked (inotify.py, _add_tree, watched_roots).  A drain *)
(* cut short by a callback that fails in a request's thread is left out:   *)
(* what it had read and not handled is lost, and nothing records that.     *)
CoverageIsHonest ==
  Synchronized /\ halfDrains = 0 =>
    \A d \in Dirs : Home[d] \in Watched /\ node[d] # 0 => node[d] \in DOMAIN watches

(* A capture that is accepted copied no root while it changed, as far as   *)
(* the root was covered when it began (inotify.py, stable_capture).        *)
CapturesAreStable ==
  [][ CaptureEnds /\ Accepts(capture.base) /\ halfDrains = 0
        => capture.covered \cap changed = {} ]_watcherVars
==============================================================================
