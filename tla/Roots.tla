-------------------------------- MODULE Roots --------------------------------
(***************************************************************************)
(* Bringing directories under management and releasing them again          *)
(* (runtime/worldline/roots.py, prime.py, store.py; the doctor's scans in  *)
(* controller.py).                                                         *)
(*                                                                         *)
(* Registration moves the operator's own directory into a fresh generation *)
(* of the store and leaves a link; removal exchanges the link for a copy.  *)
(* Both are sequences of renames, links and rows without a journal: a call *)
(* that fails is rolled back, a process that dies leaves what it had done  *)
(* to the doctor.  The operator keeps writing meanwhile.                   *)
(***************************************************************************)
EXTENDS Integers, Sequences, FiniteSets, Functions

CONSTANTS
  Roots,      \* directories that may be registered
  NoRoot,     \* no primary root
  MaxGens,    \* bound: generations, one for each request
  MaxEdits,   \* bound: the operator's writes
  MaxFaults,  \* bound: calls that fail
  MaxKills    \* bound: deaths of the daemon in the middle of a request

ASSUME RootsConstants == MaxGens \in Nat /\ IsFiniteSet(Roots) /\ NoRoot \notin Roots

Gens == 1..MaxGens
Link == -1    \* a symlink of WORLDLINE's; 0: nothing; any other number: content

VARIABLES
  at,       \* what stands at the operator's path
  stage,    \* what stands at the name removal stages at, beside it
  kept,     \* copies a rollback set aside: .worldline-removal-kept-*
  live,     \* live/<root key>: the generation it leads to
  pay,      \* generations/<id>/payload/<root key>
  rows, primary, prime, recorded, \* tables roots and meta; generations a world is recorded over
  op,       \* the request in progress
  gens, edits, faults, kills, \* counters of the bounds
  precious  \* history: what the operator wrote and has not replaced

diskVars  == <<at, stage, kept, live, pay>>
tableVars == <<rows, primary, prime, recorded>>
limitVars == <<gens, faults, kills>>
rootsVars == <<diskVars, tableVars, limitVars, op, edits, precious>>

NoOp == [kind |-> "none", step |-> "none", roots |-> <<>>, i |-> 0, gen |-> 0,
         val |-> 0, was |-> FALSE, prev |-> NoRoot, primary |-> NoRoot]

RootsInit ==
  /\ at = [r \in Roots |-> 1] /\ stage = [r \in Roots |-> 0] /\ kept = {}
  /\ live = [r \in Roots |-> 0] /\ pay = [g \in Gens |-> [r \in Roots |-> 0]]
  /\ rows = {} /\ primary = NoRoot /\ prime = 0 /\ recorded = {}
  /\ op = NoOp /\ gens = 0 /\ edits = 1 /\ faults = 0 /\ kills = 0
  /\ precious = Roots \X {1}

(* paths.root_source: the path routes through the live mapping to content. *)
Routed(r) == at[r] = Link /\ live[r] # 0 /\ pay[live[r]][r] # 0
Source(r) == pay[live[r]][r]

On(kind, step) == op.kind = kind /\ op.step = step
Root == op.roots[op.i]
Go(step) == op' = [op EXCEPT !.step = step]
Discarded(g) == [pay EXCEPT ![g] = [r \in Roots |-> 0]]

(* _capture_all: the registered roots of S copied into generation g, where *)
(* they are not there yet.                                                 *)
Copied(g, S) == [pay EXCEPT ![g] = [r \in Roots |->
                   IF r \in S /\ @[r] = 0 THEN Source(r) ELSE @[r]]]

-----------------------------------------------------------------------------
(* The operator, at the registered path: through the links, or in a copy.  *)
Edit(r) ==
  /\ edits < MaxEdits /\ at[r] # 0 /\ (at[r] = Link => Routed(r))
  /\ edits' = edits + 1
  /\ LET old == IF at[r] = Link THEN Source(r) ELSE at[r] IN
     precious' = (precious \ {<<r, old>>}) \cup {<<r, edits'>>}
  /\ IF at[r] = Link
     THEN pay' = [pay EXCEPT ![live[r]][r] = edits'] /\ UNCHANGED at
     ELSE at' = [at EXCEPT ![r] = edits'] /\ UNCHANGED pay
  /\ UNCHANGED <<stage, kept, live, tableVars, op, limitVars>>

(* A directory made anew where registration had just taken one away.       *)
Recreate(r) ==
  /\ edits < MaxEdits /\ at[r] = 0
  /\ edits' = edits + 1 /\ at' = [at EXCEPT ![r] = edits']
  /\ precious' = precious \cup {<<r, edits'>>}
  /\ UNCHANGED <<stage, kept, live, pay, tableVars, op, limitVars>>

-----------------------------------------------------------------------------
(* register: validate, then move and link each root, then the rows, then   *)
(* publish_checkpoint over a capture of all roots.                         *)
Register(s, p) ==
  /\ op = NoOp /\ gens < MaxGens
  /\ \A i \in DOMAIN s : at[s[i]] > 0 /\ s[i] \notin rows
  /\ p \in Range(s) \cup {NoRoot}
  /\ gens' = gens + 1
  /\ op' = [NoOp EXCEPT !.kind = "register", !.step = "move", !.roots = s, !.i = 1,
              !.gen = gens + 1, !.prev = primary,
              !.primary = IF p = NoRoot /\ rows = {} THEN s[1] ELSE p]
  /\ UNCHANGED <<diskVars, tableVars, faults, kills, edits, precious>>

Move ==
  /\ On("register", "move") /\ Go("live")
  /\ pay' = [pay EXCEPT ![op.gen][Root] = at[Root]] /\ at' = [at EXCEPT ![Root] = 0]
  /\ UNCHANGED <<stage, kept, live, tableVars, limitVars, edits, precious>>

(* Either link fails when something is in its place. *)
LinkLive ==
  /\ On("register", "live")
  /\ IF live[Root] = 0 THEN live' = [live EXCEPT ![Root] = op.gen] /\ Go("link")
     ELSE Go("back") /\ UNCHANGED live
  /\ UNCHANGED <<at, stage, kept, pay, tableVars, limitVars, edits, precious>>

LinkPath ==
  /\ On("register", "link")
  /\ IF at[Root] = 0
     THEN /\ at' = [at EXCEPT ![Root] = Link]
          /\ op' = IF op.i < Len(op.roots) THEN [op EXCEPT !.step = "move", !.i = @ + 1]
                   ELSE [op EXCEPT !.step = "rows"]
     ELSE Go("back") /\ UNCHANGED at
  /\ UNCHANGED <<stage, kept, live, pay, tableVars, limitVars, edits, precious>>

AddRows ==
  /\ On("register", "rows") /\ Go("capture")
  /\ rows' = rows \cup Range(op.roots)
  /\ primary' = IF op.primary # NoRoot THEN op.primary ELSE primary
  /\ UNCHANGED <<diskVars, prime, recorded, limitVars, edits, precious>>

CaptureAll ==
  /\ On("register", "capture")
  /\ IF \A r \in rows : Routed(r)
     THEN pay' = Copied(op.gen, rows) /\ Go("insert")
     ELSE Go("unrow") /\ UNCHANGED pay
  /\ UNCHANGED <<at, stage, kept, live, tableVars, limitVars, edits, precious>>

(* publish_checkpoint: the world, PRIME, and what the shell calls active.  *)
Insert ==
  /\ op.step = "insert" /\ Go("prime")
  /\ recorded' = recorded \cup ({op.gen} \ {0})
  /\ UNCHANGED <<diskVars, rows, primary, prime, limitVars, edits, precious>>

SetPrime ==
  /\ op.step = "prime" /\ Go("active")
  /\ prime' = op.gen
  /\ UNCHANGED <<diskVars, rows, primary, recorded, limitVars, edits, precious>>

SetActive ==
  /\ op.step = "active"
  /\ op' = IF op.kind = "register" THEN NoOp ELSE [op EXCEPT !.step = "unstage"]
  /\ UNCHANGED <<diskVars, tableVars, limitVars, edits, precious>>

(* The rollback: rows, then, from the last root moved, links and directory.*)
DeleteRows ==
  /\ On("register", "unrow") /\ Go("back")
  /\ rows' = rows \ Range(op.roots)
  /\ primary' = IF op.prev # NoRoot THEN op.prev
                ELSE IF primary \in Range(op.roots) THEN NoRoot ELSE primary
  /\ UNCHANGED <<diskVars, prime, recorded, limitVars, edits, precious>>

Unlink ==
  /\ On("register", "back") /\ Go("moveback")
  /\ at' = [at EXCEPT ![Root] = IF @ = Link THEN 0 ELSE @]
  /\ live' = [live EXCEPT ![Root] = IF @ = op.gen THEN 0 ELSE @]
  /\ UNCHANGED <<stage, kept, pay, tableVars, limitVars, edits, precious>>

MoveBack ==
  /\ On("register", "moveback")
  /\ IF at[Root] = 0 /\ pay[op.gen][Root] # 0
     THEN /\ at' = [at EXCEPT ![Root] = pay[op.gen][Root]]
          /\ pay' = [pay EXCEPT ![op.gen][Root] = 0]
     ELSE UNCHANGED <<at, pay>>
  /\ op' = IF op.i > 1 THEN [op EXCEPT !.step = "back", !.i = @ - 1]
           ELSE [op EXCEPT !.step = "discard"]
  /\ UNCHANGED <<stage, kept, live, tableVars, limitVars, edits, precious>>

(* Mutant: the generation is discarded whatever is still in it.            *)
NothingStranded == TRUE

NoneStranded == \A i \in DOMAIN op.roots : pay[op.gen][op.roots[i]] = 0

DiscardRegistration ==
  /\ On("register", "discard") /\ op' = NoOp
  /\ pay' = IF NoneStranded THEN Discarded(op.gen) ELSE pay
  /\ UNCHANGED <<at, stage, kept, live, tableVars, limitVars, edits, precious>>

-----------------------------------------------------------------------------
(* remove: what can refuse comes before the exchange.                      *)
RemoveRoot(r) ==
  /\ op = NoOp /\ r \in rows /\ Routed(r)
  /\ LET rest == rows \ {r} IN
     /\ \A q \in rest : Routed(q)
     /\ rest # {} => gens < MaxGens
     /\ op' = [NoOp EXCEPT !.kind = "remove", !.step = "stage", !.roots = <<r>>, !.i = 1,
                 !.gen = IF rest = {} THEN 0 ELSE gens + 1, !.val = Source(r),
                 !.was = (primary = r)]
     /\ IF rest = {} THEN UNCHANGED <<gens, pay>>
        ELSE gens' = gens + 1 /\ pay' = Copied(gens + 1, rest)
  /\ UNCHANGED <<at, stage, kept, live, tableVars, faults, kills, edits, precious>>

Materialize ==
  /\ On("remove", "stage") /\ Go("check")
  /\ stage' = [stage EXCEPT ![Root] = op.val]
  /\ UNCHANGED <<at, kept, live, pay, tableVars, limitVars, edits, precious>>

Recapture ==
  /\ On("remove", "check") /\ Go(IF Source(Root) = op.val THEN "swap" ELSE "drop")
  /\ UNCHANGED <<diskVars, tableVars, limitVars, edits, precious>>

Drop ==
  /\ On("remove", "drop") /\ op' = NoOp
  /\ stage' = [stage EXCEPT ![Root] = 0]
  /\ pay' = IF op.gen = 0 THEN pay ELSE Discarded(op.gen)
  /\ UNCHANGED <<at, kept, live, tableVars, limitVars, edits, precious>>

Swapped == at' = [at EXCEPT ![Root] = stage[Root]]

SwapOut ==
  /\ On("remove", "swap") /\ Go("row")
  /\ Swapped /\ stage' = [stage EXCEPT ![Root] = at[Root]]
  /\ UNCHANGED <<kept, live, pay, tableVars, limitVars, edits, precious>>

RemoveRow ==
  /\ On("remove", "row") /\ Go("primary")
  /\ rows' = rows \ {Root} /\ primary' = IF op.was THEN NoRoot ELSE primary
  /\ UNCHANGED <<diskVars, prime, recorded, limitVars, edits, precious>>

PassPrimary ==
  /\ On("remove", "primary") /\ Go("insert")
  /\ IF op.was /\ rows # {} THEN primary' \in rows ELSE UNCHANGED primary
  /\ UNCHANGED <<diskVars, rows, prime, recorded, limitVars, edits, precious>>

Unstage ==
  /\ On("remove", "unstage") /\ Go("unlive")
  /\ stage' = [stage EXCEPT ![Root] = 0]
  /\ UNCHANGED <<at, kept, live, pay, tableVars, limitVars, edits, precious>>

Unmap ==
  /\ On("remove", "unlive") /\ op' = NoOp
  /\ live' = [live EXCEPT ![Root] = 0]
  /\ UNCHANGED <<at, stage, kept, pay, tableVars, limitVars, edits, precious>>

(* Mutant: the row comes back without its mark.                            *)
RestoreRowOnly ==
  /\ On("remove", "unrow") /\ Go("unswap")
  /\ rows' = rows \cup {Root}
  /\ UNCHANGED <<diskVars, primary, prime, recorded, limitVars, edits, precious>>

(* The rollback: the row, and whatever the store did, the exchange.        *)
RestoreRow ==
  /\ On("remove", "unrow") /\ Go("unswap")
  /\ rows' = rows \cup {Root} /\ primary' = IF op.was THEN Root ELSE primary
  /\ UNCHANGED <<diskVars, prime, recorded, limitVars, edits, precious>>

SetAside(copy) == IF copy = op.val THEN kept ELSE kept \cup {<<Root, copy>>}

(* Mutant: the prepared generation goes although a world is over it.       *)
UnpublishedUnlessPrime(g) == g # 0 /\ prime # g

Unpublished(g) == g # 0 /\ prime # g /\ g \notin recorded

SwapBack ==
  /\ On("remove", "unswap") /\ op' = NoOp
  /\ Swapped /\ stage' = [stage EXCEPT ![Root] = 0]
  /\ kept' = SetAside(at[Root])
  /\ pay' = IF Unpublished(op.gen) THEN Discarded(op.gen) ELSE pay
  /\ UNCHANGED <<live, tableVars, limitVars, edits, precious>>

-----------------------------------------------------------------------------
(* Where an exception at a step goes.  The exchange is in no try.          *)
Handler ==
  CASE op.kind = "register" /\ op.step = "move" ->
         IF op.i > 1 THEN [op EXCEPT !.step = "back", !.i = @ - 1] ELSE [op EXCEPT !.step = "discard"]
    [] op.kind = "register" /\ op.step \in {"live", "link", "rows"} -> [op EXCEPT !.step = "back"]
    [] op.kind = "remove" /\ op.step \in {"stage", "check"} -> [op EXCEPT !.step = "drop"]
    [] op.kind = "remove" /\ op.step = "unrow" -> [op EXCEPT !.step = "unswap"]
    [] op.step \in {"capture", "row", "primary", "insert", "prime", "active"} -> [op EXCEPT !.step = "unrow"]
    [] OTHER -> NoOp

StepFails ==
  /\ op # NoOp /\ op.step \notin {"discard", "drop"} /\ faults < MaxFaults
  /\ faults' = faults + 1 /\ op' = Handler
  /\ UNCHANGED <<diskVars, tableVars, gens, kills, edits, precious>>

(* Nothing resumes a registration or a removal at the next start.          *)
Killed ==
  /\ op # NoOp /\ kills < MaxKills
  /\ kills' = kills + 1 /\ op' = NoOp
  /\ UNCHANGED <<diskVars, tableVars, gens, faults, edits, precious>>

Orders == {s \in UNION {[1..n -> Roots] : n \in 1..Cardinality(Roots)} : IsInjective(s)}

RootsNext ==
  \/ \E r \in Roots : Edit(r) \/ Recreate(r) \/ RemoveRoot(r)
  \/ \E s \in Orders, p \in Roots \cup {NoRoot} : Register(s, p)
  \/ Move \/ LinkLive \/ LinkPath \/ AddRows \/ CaptureAll
  \/ Insert \/ SetPrime \/ SetActive \/ DeleteRows \/ Unlink \/ MoveBack \/ DiscardRegistration
  \/ Materialize \/ Recapture \/ Drop \/ SwapOut \/ RemoveRow \/ PassPrimary
  \/ Unstage \/ Unmap \/ RestoreRow \/ SwapBack \/ StepFails \/ Killed

RootsSpec == RootsInit /\ [][RootsNext]_rootsVars

-----------------------------------------------------------------------------
(* Mutant: the store is not scanned for what no row names.                 *)
DoctorReadsRows(r) == r \in rows /\ ~Routed(r)

(* The doctor's _root_integrity and _store_integrity.                      *)
DoctorReports(r) ==
  IF r \in rows THEN ~Routed(r)
  ELSE live[r] # 0 \/ \E g \in Gens \ recorded : pay[g][r] # 0

(* What the operator wrote last is somewhere: at the path, in the store,   *)
(* staged or set aside, whatever failed, died or was written in between    *)
(* (roots.py, register, remove and their rollbacks).                       *)
NoContentLost ==
  \A x \in precious :
    \/ at[x[1]] = x[2] \/ stage[x[1]] = x[2] \/ x \in kept
    \/ \E g \in Gens : pay[g][x[1]] = x[2]

(* Between requests, a registered root that does not lead to its content,  *)
(* and an unregistered one whose directory is gone, are reported by the    *)
(* doctor (controller.py, _root_integrity, _store_integrity).  What lies   *)
(* under a generation a world is recorded over is not looked for.          *)
DoctorIsComplete ==
  op = NoOp => \A r \in Roots :
    /\ r \in rows => Routed(r) \/ DoctorReports(r)
    /\ r \notin rows /\ at[r] <= 0 => DoctorReports(r) \/ \E g \in recorded : pay[g][r] # 0

(* A request that is refused or fails once, and no process dying, leaves a *)
(* primary root where there are roots (roots.py, remove's rollback;        *)
(* store.py, set_primary_root).                                            *)
PrimaryIsKept ==
  op = NoOp /\ kills = 0 /\ faults <= 1 /\ rows # {} => primary \in rows

(* A removal, whatever fails in it, keeps the payload of every world that  *)
(* is recorded (roots.py, _discard_unpublished).                           *)
RemovalKeepsWorlds ==
  [][ op.kind = "remove" =>
        \A g \in recorded : \A r \in Roots : pay[g][r] # 0 => pay'[g][r] # 0 ]_rootsVars
==============================================================================
