----------------------------- MODULE Relocation ------------------------------
(***************************************************************************)
(* Relocating a stopped store (runtime/worldline/relocate.py) and starting *)
(* a daemon on it (assert_store_location in controller.py).                *)
(*                                                                         *)
(* A store names its own location in database rows, transaction records      *)
(* and links.  worldline-relocate rewrites them in a copy: the rows in one *)
(* database transaction, the files and links one after the other, so a run *)
(* that dies leaves a copy that is partly old and partly new, which may be *)
(* relocated again or started.  The copy may be incomplete, and it may not *)
(* be a copy at all but the old store seen through a mount or a link.      *)
(***************************************************************************)
EXTENDS Integers, FiniteSets

CONSTANTS
  Retained,   \* worlds whose payload was not pruned
  Strays,     \* places outside the database's locations that may mention the old store
  Blemishes,  \* what a walk over the copy may find
  MaxDeaths   \* bound: relocations that die

VARIABLES
  dbRows, records, liveLinks, txLinks, \* where each names: "old", "new"
  strays, blemishes,  \* what this copy has of Strays and Blemishes
  inCopy, inOld,      \* worlds whose payload is there
  oldStore,           \* "seen", "hidden" from this account, "hollow": not the store any more
  attested,           \* --absent-in-old-store
  busy,               \* an open transaction, a nonterminal world or an active job
  view,               \* how the copy shares something with the old store, "none"
  ownsCopy,           \* the account owns what it finds at the copy's path
  lock,               \* the copy's store lock: "free", "relocate", "daemon"
  reloc, exempt,      \* the run's step; the worlds it found absent on evidence
  touched,            \* what runs put in the old store: "canary" while it is looked for,
                      \* "left" by a death, "store": the lock, rows, records or links
  deaths              \* counter of the bound

placeVars  == <<dbRows, records, liveLinks, txLinks>>
copyVars   == <<strays, blemishes, inCopy, inOld, oldStore, attested, busy, view, ownsCopy>>
relocationVars == <<placeVars, copyVars, lock, reloc, exempt, touched, deaths>>

Views == {"none", "bind", "inner", "fuse", "remote", "linkedDatabase", "linkedFile"}

(* The ways in which the copy's path leads into the old store itself.      *)
Leads == view \notin {"none", "linkedFile"}

(* A copy as an operator may have staged it.  Whoever attests an absence   *)
(* saw it.  A store that is hidden from the account belongs to another,    *)
(* and only FUSE and the like can show it under this one.                  *)
RelocationInit ==
  /\ dbRows = "old" /\ records = "old" /\ liveLinks = "old" /\ txLinks = "old"
  /\ strays \in SUBSET Strays /\ blemishes \in SUBSET Blemishes
  /\ inOld \in SUBSET Retained /\ inCopy \in SUBSET inOld
  /\ attested \in SUBSET (Retained \ inOld)
  /\ oldStore \in {"seen", "hidden", "hollow"} /\ busy \in BOOLEAN
  /\ view \in Views /\ ownsCopy \in BOOLEAN
  /\ Leads => inCopy = inOld
  /\ oldStore = "hidden" /\ Leads /\ view # "fuse" => ~ownsCopy
  /\ Cardinality(strays) + Cardinality(blemishes) + (IF view = "none" THEN 0 ELSE 1) <= 1
  /\ lock = "free" /\ reloc = "idle" /\ exempt = {} /\ touched = {} /\ deaths = 0

-----------------------------------------------------------------------------
(* Each way to share is found by one of the checks that come before the    *)
(* first write, some only by an account that can see the old store.        *)
Visible == oldStore = "seen"

ConstructorRefuses == view = "linkedDatabase" \/ (view = "bind" /\ Visible)
MountsInside       == view = "inner"

MountedViewByPlace == view = "bind" /\ oldStore # "hollow" \* mutant: the filesystem's type is not looked at

(* The mount table shows a filesystem that can present anything, a bind of *)
(* the old store's place, or a bind of what may be a place that is hidden. *)
(* An old store that is not at its place any more is not counted as hidden.*)
MountedView        == view = "fuse" \/ (view = "bind" /\ oldStore # "hollow")

(* A file made in the copy is found in the old store, where that is seen.  *)
CanaryAppears      == Leads /\ Visible

(* _classify: what a mention of the old store may be and stay.             *)
ClassifyMention(place) ==
  CASE place \in {"row", "record", "live link", "tx link"} -> "location"
    [] place \in {"event", "receipt", "manifest", "evidence"} -> "hashed record"
    [] place = "payload" -> "content"
    [] place \in {"log", "backup", "runtime"} -> "kept"
    [] OTHER -> "refused"

Mentions == strays \cup (IF records = "old" THEN {"record"} ELSE {})
                   \cup (IF liveLinks = "old" THEN {"live link"} ELSE {})
                   \cup (IF txLinks = "old" THEN {"tx link"} ELSE {})
                   \cup (IF dbRows = "old" THEN {"row"} ELSE {})
ScanRefuses == \E p \in Mentions : ClassifyMention(p) = "refused"

(* _walk_copy: overlay work directories are unreadable by design.          *)
WalkRefuses == view = "linkedFile"
               \/ blemishes \cap {"foreign owner", "mount", "linked outside", "unreadable"} # {}

(* Mutant: a location that is already new is outside the old store.        *)
MapOldOnly(place) == place = "old"

(* _map: a location already rewritten is accepted, so a run can be repeated. *)
Maps(place) == place \in {"old", "new"}

(* _old_store_records: absence is evidence only in a store that is there   *)
(* and is this store: it has a payload it records.                         *)
OldStoreKnown == oldStore = "seen" /\ inOld # {}

(* Mutant: an old store that has nothing is taken for this store.          *)
AbsentOnAnyGround(w) == w \notin inOld \/ oldStore = "hollow"

(* _payloads_absent, for a payload that is not in the copy: seen absent,   *)
(* or attested by a caller.  On a rerun nothing is exempt.                 *)
AbsentOnEvidence(w) ==
  /\ dbRows = "old"
  /\ \/ OldStoreKnown /\ w \notin inOld
     \/ ~OldStoreKnown /\ w \in attested

Absent == {w \in Retained \ inCopy : AbsentOnEvidence(w)}
Lost   == (Retained \ inCopy) \ Absent

PlanRefuses ==
  \/ busy \/ ScanRefuses \/ WalkRefuses \/ ~ownsCopy \/ Lost # {}
  \/ \E place \in {dbRows, records, liveLinks, txLinks} : ~Maps(place)

-----------------------------------------------------------------------------
(* run and _run.                                                           *)
Writes == touched' = touched \cup (IF view = "none" THEN {} ELSE {"store"})
Refuse == reloc' = "idle" /\ lock' = "free"

(* The checks that write nothing, and the canary, which cannot be made in  *)
(* another account's directory (0700).  Through a view it lands in the old *)
(* store.                                                                  *)
Start ==
  /\ reloc = "idle" /\ lock = "free" /\ ~ConstructorRefuses
  /\ ~MountsInside /\ ~MountedView /\ ownsCopy
  /\ reloc' = "canary"
  /\ touched' = touched \cup (IF Leads THEN {"canary"} ELSE {})
  /\ UNCHANGED <<placeVars, copyVars, lock, exempt, deaths>>

(* It is looked for in the old store and removed; then the copy's lock is  *)
(* written, unless a daemon was started on the copy meanwhile, and held.   *)
Canary ==
  /\ reloc = "canary"
  /\ IF CanaryAppears \/ lock # "free"
     THEN reloc' = "idle" /\ touched' = touched \ {"canary"} /\ UNCHANGED lock
     ELSE /\ reloc' = "plan" /\ lock' = "relocate"
          /\ touched' = (touched \ {"canary"}) \cup (IF Leads THEN {"store"} ELSE {})
  /\ UNCHANGED <<placeVars, copyVars, exempt, deaths>>

(* Everything is planned before anything is written.                       *)
Plan ==
  /\ reloc = "plan"
  /\ IF PlanRefuses THEN Refuse /\ UNCHANGED exempt
     ELSE reloc' = "commit" /\ exempt' = Absent /\ UNCHANGED lock
  /\ UNCHANGED <<placeVars, copyVars, touched, deaths>>

(* COMMIT of all location columns, and then file by file.                  *)
Commit ==
  /\ reloc = "commit" /\ reloc' = "records"
  /\ dbRows' = "new" /\ Writes
  /\ UNCHANGED <<records, liveLinks, txLinks, copyVars, lock, exempt, deaths>>

(* Mutant: the live links go first, and the records when all links are new.*)
RecordsAfterLinks ==
  /\ reloc = "records" /\ liveLinks' = "new" /\ reloc' = "live" /\ Writes
  /\ UNCHANGED <<dbRows, records, txLinks, copyVars, lock, exempt, deaths>>

Records ==
  /\ reloc = "records" /\ reloc' = "live"
  /\ records' = "new" /\ Writes
  /\ UNCHANGED <<dbRows, liveLinks, txLinks, copyVars, lock, exempt, deaths>>

LiveLinks ==
  /\ reloc = "live" /\ reloc' = "tx"
  /\ liveLinks' = "new" /\ Writes
  /\ UNCHANGED <<dbRows, records, txLinks, copyVars, lock, exempt, deaths>>

TxLinks ==
  /\ reloc = "tx" /\ reloc' = "verify"
  /\ txLinks' = "new" /\ Writes
  /\ UNCHANGED <<dbRows, records, liveLinks, copyVars, lock, exempt, deaths>>

(* The second scan, and verify: no location names the old store, and every *)
(* retained payload that was not absent before is there.                   *)
Verified ==
  /\ dbRows = "new" /\ ~ScanRefuses /\ \A p \in Mentions : ClassifyMention(p) # "location"
  /\ Retained \ exempt \subseteq inCopy

Verify ==
  /\ reloc = "verify"
  /\ IF Verified THEN reloc' = "relocated" /\ lock' = "free" ELSE Refuse
  /\ UNCHANGED <<placeVars, copyVars, exempt, touched, deaths>>

Dies ==
  /\ lock = "relocate" \/ reloc = "canary"
  /\ deaths < MaxDeaths
  /\ deaths' = deaths + 1 /\ reloc' = "idle" /\ exempt' = {}
  /\ lock' = IF lock = "relocate" THEN "free" ELSE lock
  /\ touched' = IF "canary" \in touched THEN (touched \ {"canary"}) \cup {"left"} ELSE touched
  /\ UNCHANGED <<placeVars, copyVars>>

-----------------------------------------------------------------------------
(* Meanwhile: a payload is deleted from a copy nobody holds; the old store *)
(* is moved away; a daemon is started on the copy, and stopped.            *)
CopyLoses(w) ==
  /\ lock = "free" /\ reloc = "idle" /\ w \in inCopy /\ ~Leads
  /\ inCopy' = inCopy \ {w}
  /\ UNCHANGED <<placeVars, strays, blemishes, inOld, oldStore, attested, busy, view, ownsCopy, lock,
                 reloc, exempt, touched, deaths>>

OldStoreGoes ==
  /\ oldStore = "seen" /\ oldStore' = "hollow"
  /\ UNCHANGED <<placeVars, strays, blemishes, inCopy, inOld, attested, busy, view, ownsCopy, lock,
                 reloc, exempt, touched, deaths>>

(* assert_store_location: PRIME's payload and the live links.              *)
StoreLocated == dbRows = "new" /\ liveLinks = "new"

DaemonStarts ==
  /\ lock = "free" /\ StoreLocated /\ lock' = "daemon"
  /\ UNCHANGED <<placeVars, copyVars, reloc, exempt, touched, deaths>>

DaemonStops ==
  /\ lock = "daemon" /\ lock' = "free"
  /\ \E b \in BOOLEAN : busy' = b
  /\ UNCHANGED <<placeVars, strays, blemishes, inCopy, inOld, oldStore, attested, view, ownsCopy,
                 reloc, exempt, touched, deaths>>

RelocationNext ==
  \/ Start \/ Canary \/ Plan \/ Commit \/ Records \/ LiveLinks \/ TxLinks \/ Verify \/ Dies
  \/ \E w \in Retained : CopyLoses(w)
  \/ OldStoreGoes \/ DaemonStarts \/ DaemonStops

RelocationSpec == RelocationInit /\ [][RelocationNext]_relocationVars

-----------------------------------------------------------------------------
(* A daemon serves the copy only when nothing it reads names the old store,*)
(* wherever a relocation died: rows and records are new before the links     *)
(* it checks are (relocate.py, _run; controller.py, assert_store_location).*)
ServedStoreIsWhole == lock = "daemon" => dbRows = "new" /\ records = "new" /\ liveLinks = "new"

(* A relocation that reports success has lost no payload the old store had,*)
(* though the copy was incomplete, the old store has gone meanwhile, or an *)
(* earlier run died (relocate.py, _payloads_absent).                       *)
NothingLost == reloc = "relocated" => inOld \subseteq inCopy

(* A run that died can be repeated: what it left is accepted by the next   *)
(* run's plan as it was by its own, worlds exempted from it aside          *)
(* (relocate.py, _map).                                                    *)
CanBeRepeated ==
  [][ Plan /\ dbRows = "new" /\ Retained \subseteq inCopy /\ ~busy => reloc' = "commit" ]_relocationVars

(* However the new store leads to the old one, a run puts nothing in the   *)
(* old store where that is in its place, but the canary, which is gone     *)
(* before the lock is written; the old store's own bytes can be rewritten  *)
(* only for their owner, when it is not at its place any more (relocate.py,*)
(* __init__, _refuse_mounted_views, _refuse_views_of_the_old_store).       *)
OldStoreUntouched ==
  /\ "store" \in touched => oldStore = "hollow" /\ ownsCopy
  /\ "canary" \in touched => reloc = "canary"
==============================================================================
