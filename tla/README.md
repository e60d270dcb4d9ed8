# A formal model of WORLDLINE

WORLDLINE runs agents in copies of a set of managed directories ("worlds") and
lets one of them become reality: PRIME, the tree everybody sees, is exchanged
with the candidate's in one `renameat2(RENAME_EXCHANGE)`. This directory holds
TLA+ modules translated from the code, the configurations TLC checks them with,
and proofs TLAPS checks. Paths below are relative to `src/`, and
`runtime/worldline/` is left out of most of them.

## 1. The system

| Part | State it keeps | Operations | Where |
|---|---|---|---|
| Decision kernel | none | `Decide`, lifecycle tables | `core/worldline-collapse`, `-transitions` |
| Collapse transactions | JSON record, database row, staged payload, mapping with its marker | prepare, commit, abort, recover | `transaction.py` |
| PRIME checkpoints | current PRIME world and generation, dirty mark | publish, reconcile | `prime.py`, `roots.py`, `reconcile.py` |
| Fork and freeze | world rows, frozen copies | freeze, create a world, run it | `fork.py`, `checkpoint.py` |
| PRIME watcher | event queue, generation, coverage | drain, deliver, own writes, rebuild | `linux/inotify.py` |
| Exchange | the `live` mapping | exchange | `linux/atomic.py` |
| Store | SQLite tables, receipt and causal chains | rows, sweep at start | `store.py`, `receipt.py`, `causal.py` |
| Daemon, controller | the mutation lock, the quarantine | dispatch, status, start, recover | `daemon.py`, `controller.py` |
| Finalization, revalidation | evidence, requirement identities | finalize, revalidate, validate a staged merge | `finalize.py`, `revalidate.py`, `checks.py`, `executed.py`, `validation.py` |
| Scoring | scores in the world rows | score | `scoring.py` |
| Merge | none | three-way merge | `delta.py` |
| Returns | return vehicles, lineage witness | return, decline | `returning.py`, `core/worldline-ancestry` |
| Evaluation kernel | none | classify a check's observations, admit it, decide a roster | `core/worldline-evaluation` |
| Roots | rows, the operator's directories, links | register, remove, roll back | `roots.py`, `paths.py` |
| Runner, services, simulation | jobs, worlds' states, systemd units | run, cancel, time out, probe, sweep | `runner.py`, `services.py`, `simulation.py`, `linux/systemd.py` |
| Admission | the ledger of reservations | admit, attach, release, reconcile | `admission.py` |
| Private evaluator | sessions, one case lease, evidence of boundaries | start, signal, tear down, copy in and out, settle | `linux/private_evaluator.py` |
| Receipts, causal events, anchor | two hash chains, a signed ledger and its copy | append, anchor, backfill, verify | `store.py`, `receipt.py`, `anchor.py` |
| Relocation | the locations a store names | plan, rewrite, verify | `relocate.py` |
| Pruning | payloads, overlays, frozen bases | plan, remove, record | `prune.py`, `fstree.py` |
| Capture, CLI, configuration | none of their own | hash, parse, print | `manifest.py`, `environment.py`, `cli_main.py`, `config.py` |

How they interact. One daemon takes requests from a socket and runs mutations
one at a time under a lock. A commit is a sequence of small durable writes to
three places (the JSON record, the database, the `live` mapping), none of which
is atomic with the next. In the same process, agents' runs end in background
threads and the watcher's thread delivers events, outside that lock. Other
programs write to PRIME whenever they like. At start the daemon opens the store,
recovers unfinished transactions and sweeps the worlds nobody supervises before
it serves. A transaction recovery cannot settle is quarantined, which makes
every operation that could touch PRIME refuse. Work that takes memory (an agent,
a check, a service, a probe, a simulation) first reserves it in a ledger and then
runs as a unit of the user's service manager, which outlives the daemon. A
check's verdict is what the manager observed of its unit; the evaluation kernel
decides what that establishes, and a promotion asks it again.

What is hard: a crash or a failing call between any two of those writes; the
replay of a commit from the middle; writes to PRIME that race the captures, the
decision and the exchange; values read before a step that takes time and used
after it; background threads that write rows a commit has changed; a manager that
does not answer, a cancel that meets a unit being started, an event queue that
overflows while a tree is walked, a relocation or a prune that dies half way.
`PROJECT.json` lists these hazards at the lines where they bite, with the
properties aimed at them, and the one no property covers.

What makes it correct: reality only moves by an authorized exchange; it is never
lost, discarded or left unrecorded without anybody noticing; what becomes live
was examined, under the requirement of the moment, and does not undo what others
wrote; worlds and transactions follow the kernel's lifecycles; every request,
recovery and agent's job ends, if the agent does; a watcher that claims coverage has it; nothing an
operator wrote is lost by registering, releasing, relocating or pruning; and the
chains of records verify whatever died while they were written.

## 2. The modules

| Module | What it is |
|---|---|
| `WorldlineKernel` | the kernel's lifecycle tables, and the collapse decision over abstract identities |
| `Collapse` | the system: fork, reconcile, prepare, commit, abort, recovery, watcher, agents, environment, failures; its properties |
| `RealityLog` | the abstract specification: a log of exchanges and how many of them are recorded |
| `Scoring` | `Collapse` composed with the background scorer of each run |
| `Admission` | the admission rule: a policy, an observation of the machine, what is promised and unused |
| `Supervision` | runs, checks, services, probes and simulations as reservations, units and rows; extends `Admission` |
| `Watcher` | what the watcher covers: inodes, walks, the bounded queue, overflow, captures |
| `Roots` | registration and removal of roots, call by call, with their rollbacks and the doctor |
| `Relocation` | relocating a stopped store, and a daemon started on what a run left |
| `PrivateEvaluator` | examiner, worker, candidates; two brokers, sessions, the case lease |
| `Prune` | planning and removing payloads beside forks, runs and collapses |
| `Chains` | events and receipts appended in steps, the anchor |
| `Evaluation` | the evaluation kernel as pure operators |
| `Evidence` | one evaluation from the policy to the promotion; extends `Evaluation` |
| `MCCollapse`, `MCScoring`, `MCSupervision` | instances for TLC |
| `MCParts` | the parts with state of their own side by side: one is explored, the others rest in an initial state |
| `CollapseInvariant` | the inductive invariants of `Collapse`: `IInv`, `JInv` on top of it, and `LineageOK` for the lineage |
| `CollapseTypes`, `CollapseSteps`, `CollapseProofs` | typing lemmas, one lemma per action, and the theorems |
| `KernelProofs` | theorems about the decision |
| `RealityProofs` | theorems about what a collapse does to trees, worlds, lifecycles and the lineage |
| `SupervisionProofs` | theorems about supervised work and promised memory, with the lemmas about sums they need |
| `PartsProofs` | theorems about relocation, the private evaluator, chains, pruning, roots and the watcher |
| `EvidenceProofs` | theorems about the evaluation kernel and the promotion |

State of `Collapse` and what it stands for:

- `live`, `slot`, `tree`: the marker in the `live` mapping, the marker in each
  transaction's own mapping directory (`_marker`), and the payload of each
  generation, as a function from paths to values. An exchange swaps `live` and
  `slot[t]`, exactly as `renameat2` swaps the directories.
- `loose`, `lost`: the exchanges no fsync of their directories has followed, and
  (history) the ones a power loss undid. `FsyncExchange(ok)` succeeds, and makes
  this and every earlier exchange durable, or fails; then `commit` finishes and
  writes the receipt all the same (`transaction.py:580-591`). `PowerLoss` undoes a
  loose exchange that is live whenever the daemon is down, before or after its
  receipt, the last exchange first. Recovery never fsyncs the two directories
  (`_recover_one`), so what a power loss spared stays loose: the storage may have
  written it by then, and the model allows more losses than there are.
- `file`, `rec`, `row`: the state in the JSON record, the facts it holds, and the
  state in the database row. `_set_state` is two steps, `SetFile` then `SetRow`.
- `state`, `parent`, `content`, `base`, `evaluated`: the worlds table. A world's
  content identity is its parent, its tree and its evidence (`Holders`).
- `prime`, `primeGen`, `dirty`, `receipts`: the metadata rows and the receipts.
- `watched`, `wgen`, `pend`: what the watcher watches, its generation, whether
  events are queued. `synchronized_generation` drains (`Drain`).
- `mode`, `pc`, `op`, `bad`: the daemon's memory: where the request or recovery
  under way stands, its local variables, and the quarantine.
- `req`: the requirement identity in force, a counter; `writes`, `crashes`,
  `faults` count what the environment did, up to `MaxWrites`, `MaxCrashes`,
  `MaxFaults`.
- `reported`, `late`: history variables the properties speak of.

Actions follow the code's own steps: an action ends where the next durable write,
watcher read or exchange begins, so a crash, an external write or a delivery can
come in between any two. `PROJECT.json` maps every definition to its lines. A
failure before a request has changed anything equals the request not having been
made and is not an action. `StorageFault` is a failing call of the current step;
`Raise` is what each caller does with it: recovery quarantines and goes on, a
commit whose exchange happened quarantines, anything else reports. The handler's
third case, a marker of `live` that cannot be read (`transaction.py:572-575`), is
not modelled.

State of the other modules, where it is not named after the code:

- `Supervision`: `stage` is where the thread of each workload stands, from
  observing the machine to the end of its unit; `ledger` the entry in
  `admission-ledger.json` (none, without or with its unit), `unit`, `used`, `fate`
  what the service manager has; `job`, `jobUnit`, `world` the rows. Everything but
  units, ledger and rows is gone when the daemon dies. A world is `born` with its
  row (`Fork`, once per world of a race) and `forked` with its thread (`Spawn`);
  `ForkRaises` is whatever raises in between, a later `create_world` or the freeze
  for the automatic ghosts, and leaves the rows (`abandoned`). `RunWorld` is the
  thread up to `create_job`. `overtaken` is history: an admission was granted that
  overlooked memory taken since its observation, or an entry that was named and
  whose unit had not started (`_reservation_is_live` says no of it).
- `Watcher`: `node` gives each directory's inode (0: none), `watches` the table of
  watched inodes, `queue` the kernel's events. `walk` is a walk in progress, one
  directory at a time; events and changes come in between.
- `Roots`: `at`, `live`, `pay`, `stage`, `kept` say where the operator's content
  is: at its path (or a link there), in the store's mapping, in a generation, in a
  staged copy, set aside. `op` is the request with the calls it still has to make
  and the ones to undo. `precious` is history: what the operator wrote last.
- `Relocation`: which of the rows, records and links name the new place, and how
  the copy and the old store are related (a bind mount, a shared file, a hidden or
  hollow old store); `ownsCopy`, whether the account owns what it finds at the
  copy's path; `touched`, what runs put in the old store. A canary made through a
  view is in the old store until it is removed (`Start`, `Canary`), and a death in
  between leaves it there. A store that is hidden belongs to another account, and
  only a filesystem of the FUSE kind shows it under this one: that is assumed in
  `RelocationInit`.
- `PrivateEvaluator`: a tree is the set of writes it holds; `examinerOp` and
  `workerOp` are what each broker's thread is doing.
- `Chains`: a hash is the pair of what it hashes, so a chain link is nested.
- `Evidence`: `truth` is history, what really happened in each check's unit;
  `results` is all the code sees. `verifiers` are the bytes in PRIME now (0 or 1,
  edited back and forth), `bundle` the staged copy. The legacy checks of an
  evaluation share one scratch overlay that nothing resets (`revalidate.py:187-190`,
  `233-236`): `scratched` says that one left something in it, `truth[i].clean` that
  check `i` ran over the bare tree and `truth[i].left` that it left something.

Definitions ending in a comment `mutant` are plausible mistakes (a dropped guard,
a missing write). They are used only to show that a property notices them.

## 3. Runs

Passing runs, with the number of distinct states TLC finds:

| Run | States | Instance | Shows |
|---|---|---|---|
| `two_futures` | 906,959 | 2 candidates with all verdicts, 2 transactions, 1 write, 1 crash | `TypeOK`, `NoLostReality`, `MarkersDecide`, `RecordedInLineage`, `LifecyclesFollowKernel`, `QuarantineFreezesReality` |
| `storage_faults` | 1,545,493 | 2 candidates, 2 transactions, 2 paths, 2 crashes, 2 failing calls | `LiveNeverDiscarded`, `ReceiptsFollowExchanges`, `RefinesRealityLog`, `RealityMovesOnlyAuthorized` |
| `moving_prime` | 735,672 | 2 paths, 2 reconciles, 2 writes, a requirement change, 1 crash | `NothingUntestedGoesLive`, `CollapseKeepsForeignEdits` |
| `progress` | 33,245 | 1 candidate, 1 transaction, 1 write, 1 crash, 1 failing call | `OperationEnds`, `ExchangesAreSettled` |
| `jobs` | 407,578 | an agent with a check and a probed service, or one beside a simulation; 1 crash, 1 outage, 1 cancel, 2 of these together; timeouts | `TypeOK`, `PromisesFit`, `ForkedWorldsAreSupervised`, `StoppedNeverValid`, `RunningKeepsItsEntry`, `JobsSettle` |
| `parts` | 2,713,645 | see below | the other seventeen |

The properties of the collapse, in words: no exchange displaces a tree that no PRIME world
records, unless the write came in after the exchange guard, the window the
code's own comment concedes (`NoLostReality`); the two markers decide what
recovery does (`MarkersDecide`); the live generation can never be reclaimed
(`LiveNeverDiscarded`); receipts are the exchanges, in order, once each, but for
those a power loss undid (`ReceiptsFollowExchanges`); the generation a receipt
names is in PRIME's lineage with the staged tree (`RecordedInLineage`); what is authorized was examined under
the requirement in force at that moment (`NothingUntestedGoesLive`); an edit made
to PRIME after the fork survives the collapse (`CollapseKeepsForeignEdits`);
lifecycles are the kernel's and the row is never ahead of the file
(`LifecyclesFollowKernel`); reality moves only by authorized exchanges, and back
only by a power loss over an exchange no fsync has followed
(`RealityMovesOnlyAuthorized`), and not at all during a quarantine; and every
exchange is eventually recorded, quarantined or undone (`ExchangesAreSettled`).

Those of `jobs`: what is promised to all admitted workloads fits into
the machine above the floor, unless an admission was overtaken (`PromisesFit`); the
entry of a running agent or service is never dropped (`RunningKeepsItsEntry`);
while the daemon serves, a world or job that looks active has a thread that will
finish it or a request about to give it one, but for worlds whose request raised
before that, which have no job (`ForkedWorldsAreSupervised`); a cancelled or
timed-out agent never yields a VALID world and its checks never run
(`StoppedNeverValid`); an agent's job ends unless the agent itself never does
(`JobsSettle`).

Those of `parts`:

| Part | Instance | Properties |
|---|---|---|
| watcher | a root with two nested directories, a queue of 2, 4 inodes, 1 failing call, 1 drain cut short | a drained watcher that reports a root watches every directory of it (`CoverageIsHonest`); an accepted capture copied no covered root while it changed (`CapturesAreStable`) |
| roots | 2 roots, 3 generations, 2 edits, 1 failing call, 1 death | the operator's last content is somewhere (`NoContentLost`); what is out of place between requests is reported (`DoctorIsComplete`); a refused request keeps a primary root (`PrimaryIsKept`) and every recorded world's payload in a removal (`RemovalKeepsWorlds`) |
| relocation | 2 worlds, every place that may mention the old store, every kind of view of it, 2 deaths | a relocation that succeeds lost no payload (`NothingLost`); a daemon serves only a store that is new throughout (`ServedStoreIsWhole`); the old store is not written while it is at its place or hidden, but for a canary that is removed again (`OldStoreUntouched`); a run that died can be repeated (`CanBeRepeated`) |
| evaluator | 2 candidates, 2 writes | a complete run left no candidate untorn, running or without evidence (`CompleteRunIsWhole`), and no output uncollected (`NoOutputLost`) |
| prune | 4 worlds, two of them forked together, 1 failing removal, 1 death | what is alive keeps its payload and its base (`LivingPayloadsKept`); what was touched is recorded (`PrunedIsRecorded`) |
| chains | 2 threads, 3 events, 3 receipts, 1 failing call, 2 deaths | both chains and the ledger verify (`ChainsVerify`); each receipt is anchored once, and the external copy is a prefix of the ledger (`AnchorsAreHonest`) |
| evidence | up to 2 checks of every kind, 2 verifier edits, 1 fault | a promotion rests on examinations that happened, of the promoted tree, or for a legacy check of that tree under what an earlier one left (`PromotedWasExamined`) |

Bounds. Two transactions are the least for two pending ones to compete, and for
a receipt to follow another; two paths are the least for a merge to take one
from each side; one crash reaches every point of every operation, and recovery
itself runs to its end after it; two failing calls let the handling of the first
fail too; two crashes and two paths let an exchange be recorded, built upon by a
second candidate and then lost; two reconciles let PRIME move twice under one
candidate. The sets `Cand`, `Tx` and `Recon` are ids that are used up, so a run comes to rest when
they are spent: that, and an idle daemon, are why deadlock is not checked. The
safety runs of the collapse use symmetry of candidates, transactions and paths;
`progress` and `jobs`, which check liveness, do not. Two agents in one request are
in `stale_answer` only, and in the theorems, which hold for every set of agents.

Fairness. `WF(DaemonStep)`: the daemon runs a request it took to its end (the
steps contain no waiting on a peer). `WF(WatcherDeliver)`: the watcher's reader
thread runs. `WF(Start)`: `daemon/worldlined.service` says `Restart=on-failure`.
Requests, agents, writes and failures are not fair. Once a crash bound is
reached the daemon no longer dies, which is the usual reading of liveness: what
happens if crashes eventually stop.

`jobs` assumes, of every workload, `WF(UnitStarts)` (the manager starts what it
accepted, or gives it up) and `WF(ThreadStep \/ Overdue)` (a thread of the daemon
runs, and its waits for checks, probes and simulations have a timeout); further
`WF(Reconcile)` and `WF(Sweep)` (the daemon's start, after the restart the unit file
asks for) and `WF(ManagerUp)` (an outage of the manager ends). Units are not assumed
to end: an agent has no timeout by default (`config.py:65`, `runner.py:285`) and a
stop that failed when one expired is not repeated (`runner.py:289-292`), so
`JobsSettle` excepts an agent whose unit is active for ever. Cancels, timeouts,
crashes, outages and requests are not fair.

Six runs exhibit behaviour that differs from what the repository says.

- `split_record`: a crash between the JSON record and the row of COMMITTED leaves
  an exchange that every restart quarantines and none finishes
  (`CHANGELOG.md:85-86` says recovery finishes it). The comment in `recover_all`
  knows of the disagreement; the documents do not.
- `lost_report`: `set_prime` clears a dirty mark set after the capture it
  publishes (`docs/whitepaper.md:249-250`). The next prepare then refuses with a
  foreign write, and marks PRIME dirty again.
- `blocked_reconcile`: a crash between the insertion of a reconcile's checkpoint
  and `set_prime` leaves a world with the identity every later reconcile of the
  same tree needs, so each one fails (`docs/whitepaper.md:246-248`).
- `stale_score`: a scorer that read its rows before a commit writes a collapsed
  or archived world back as VALID (`docs/whitepaper.md:121`).
- `late_cancel`: a cancel that read the job's row before the unit was recorded, and
  marks the job after the run has looked for the mark, stops nothing
  (`docs/user-manual.md:428`). The agent goes on to its own end or timeout; the
  run is then recorded as cancelled.
- `stale_answer`: `admit` observes the machine before it locks the ledger, so a
  request is admitted on memory that a workload admitted earlier has taken since
  (`admission.py:531-532` and `563` say that the lock spans the observation). The
  second gap in the same arithmetic, an entry whose unit is named and has not
  started, is in the model and excepted from `PromisesFit` in the same way.

## 4. Proofs

The theorems hold for every value of the constants that satisfies the named
assumptions of the modules, and not just for the instances above. The assumptions
say no more than what kind of thing a constant is: the kinds of ids are disjoint,
bounds are naturals, `Absent` and `NoRoot` are none of the values, worlds, work,
roots and directories are finite sets (`CollapseConstants`,
`SupervisionConstants`, `AdmissionConstants`, `PruneConstants`, `RootsConstants`,
`WatcherConstants`); `SupervisionConstants` also says that a service has one
readiness probe and an agent's world at most one check, and `WatcherConstants`
that the parents of a directory lead up to a root, which is its `Home`. `Relocation`, `PrivateEvaluator` and `Chains` assume nothing.

Every invariant below was checked with TLC before it was proved. `IInv`, `JInv`,
`LineageOK`, `JobsInv`, `PromisesInv` and the invariants of the parts are not in the
configurations, since what they add to the properties is there for the proof.

`CollapseProofs`, about `Spec`:

- `Invariance`: `IInv` of `CollapseInvariant` is inductive.
- `TypeCorrect`, `LiveIsKept`, `RecoveryIsDecided`, `ReceiptsAreExchanges`: the
  invariants `TypeOK`, `LiveNeverDiscarded`, `MarkersDecide`,
  `ReceiptsFollowExchanges`.
- `MovesAreAuthorized`, `QuarantineFreezes`: the two action properties.
- `ImplementsRealityLog`: `Collapse` implements `RealityLog` under the mapping
  that reads the log as the receipts, followed by the live transaction while it
  has none.

None of these is inductive by itself. Whether the live generation may be
discarded depends on the request that is about to write its state; whether a
receipt follows its predecessor depends on nobody committing while an exchange is
unrecorded, which depends on the quarantine and on recovery's queue. `IInv` says
so: `ControlOK` (which kind of request can be at which step, and what it holds),
`RecordsOK` (what file, row and marker can be together), `PhasesOK` (what the step
under way implies about its own transaction), `QueueOK` (what recovery still has
to do), `UnrecordedAttended` (an exchange without receipt is being finished, is in
recovery's queue, is quarantined, or the daemon is down), `PendingOK` (at most one
transaction waits for its receipt, and PRIME has moved to it once its row is
COMMITTED, also when a power loss has undone its exchange meanwhile: `Undone`), `ReceiptsDistinct` and `ChainOK` (the
markers form the chain of the receipts that were not lost). TLC checked `IInv` on the instances before it was proved.
`CollapseTypes` proves what each action does to the types, `CollapseSteps` has one
lemma per action, with a step for each conjunct the action can disturb, and
`CollapseProofs` puts them together.

`KernelProofs`, about every request: `AuthorizedIffAllHold` (the decision
procedure authorizes exactly the requests the whole rule accepts, so in
particular an absent value is never accepted) and `MismatchesAreDifferences` (a
refusal that reports a mismatch is about two present, different identities).
These are postconditions of `Decide` in `core/worldline-collapse.ads`.

`EvidenceProofs`, about every policy of any length and any number of edits and
faults: `PromotionsAreExamined` (`EvidenceSpec => []PromotedWasExamined`). The
invariant adds to the property what makes it inductive: `EvidenceTypes`;
`RecordsKeepUp` (one history record per unit, one result per ended unit);
`RecordsAreTrue` (what an admitted result implies about its unit: the exit, the
staged bytes, who wrote the report); `TreesAreTrue` (a unit ran over the tree, or
the tree has visibly moved); `UnitIsTrue` (the running unit and its staged
bundle); `JudgedAsItIs` (a PASS was given with the inputs unmoved, and a promotion
with the roster complete and the identities equal). `Judge` needs it because the inputs are only compared at the end;
`Promote` needs it because the verifiers may have been edited and put back
between. `ClassifyContract` is the postcondition of the kernel's `Classify`, and
`ClassificationsAreFinal` relates it to the kernel's transition table: what it
answers is a terminal state an attempt can reach.

`RealityProofs`, about `Spec` of `Collapse`: `RealityIsNeverLost`
(`NoLostReality`), `OnlyTestedGoesLive` (`NothingUntestedGoesLive`),
`ForeignEditsAreKept` (`CollapseKeepsForeignEdits`) and `LifecyclesAreFollowed`
(`LifecyclesFollowKernel`). `FaithfulInvariance` shows that `JInv`, which is `IInv`
and `Faithful`, is inductive. `Faithful` relates what was decided to the trees it
was decided about: `WorldsOK` (PRIME, every checkpoint and every candidate of a
transaction has left MUTABLE and FINALIZING, so that its tree is fixed, and so has
the one a step under way is about to move), `MergesOK` (a staged merge without conflict kept
what PRIME had changed since the fork), `DecisionsOK` (an authorization, and the
one a commit is about to write, rests on evidence of exactly the staged tree and on
a world that records the tree it will displace), `GenerationOK` (while the watcher
counted nothing since the generation a commit holds, the live tree is the one it
was merged with) and `DisplacedOK` (a displaced tree is
untouched, unless a write came late). That the decision says what `DecisionsOK`
needs is `AuthorizedIffAllHold`. The lifecycles need `WorldsOK` because siblings and
candidates are moved by rows that were read earlier.

`RecordedAreInLineage` (`RecordedInLineage`) has an invariant of its own,
`LineageOK`. `Lineage` is the least set of worlds that has PRIME and is closed under
the parents, so a step that moves PRIME to a child of PRIME only adds to it; no
induction along the lineage is needed. What is left is that PRIME is only ever
moved that way: `PublishingOK` follows the world a publication is about to make
PRIME from the insertion of its row to the receipt, and `CheckpointOK` says that a
checkpoint left by a commit that was cut is found again by the replay, and by no
other transaction.

`SupervisionProofs`, for every set of agents, services, probes and simulations:
`SupervisionTypes`, `WorldsAreSupervised`, `StoppedIsNeverValid` and
`EntriesOutliveOutages` from `JobsInv`: the types, with the fact that an accepted
policy requests a number; `SupervisedInv` (where a thread stands says what its
world and job can be); `StoppedInv` (an agent that has not come to its checks, or
that was stopped, has no VALID world and nothing of a check: no unit, no entry, no
thread); `EntriesInv` (before its unit is requested, a workload's entry names
none, so the release of a request that was refused or raised never drops the entry
of a unit that runs).

`PromisesAreKept` (`PromisesFit`) rests on `PromisesInv`: as long as no admission was
overtaken, what is promised fits; what a request has seen is no more than the
machine has; and a workload has an entry from its admission until its unit is
named. An admission withholds what is promised and unused, so the sum over all entries has to be
compared before and after each step. The library's sum is a fold, defined by
recursion over a set; `SumRecursion` shows what it computes for every finite set
by an argument about the least size for which it would not, with
`NatLessThanWellFounded` in place of an induction principle. `SumIs` and
`SumIsAtLeast` are what the steps use: adding, dropping or shrinking entries.

`PartsProofs`, one section per part:

- `Relocation`: `ServedIsWhole`, `RelocationLosesNothing`, `OldStoreIsUntouched`,
  `RelocationCanBeRepeated`. `RelocationInv` says which of rows, records and links
  are new at each step, in the order in which they are rewritten, and which ways
  to share bytes with the old store the checks before the first write leave: once
  a plan is made, a path that leads into the old store leads into one that was
  moved away and that the account owns.
- `PrivateEvaluator`: `CompleteRunsAreWhole`, `OutputsAreDelivered`. `SessionsInv`:
  a candidate that is over is evidenced or has left an error. `CaseInv`: output
  nobody has collected lies in a view that is open and marked dirty.
- `Chains`: `StoredChainsVerify`, `AnchorsStayHonest`, for chains of every length.
  `EventsInv`: one writer at most is inside the lock, on the head that is stored.
  `ReceiptsInv`: the receipt under way is the next. `LedgerInv`: an entry names its
  place and a stored receipt of its own, and the receipt about to be anchored has
  none.
- `Prune`: `PruneKeepsTheLiving`, `PruningIsRecorded`. `PlanInv` carries the
  argument: what a plan has left to remove is referenced by no world outside it,
  although worlds are forked and collapsed while it works. `DirsInv` (whose a
  directory is), `PrimeInv` and `BegunInv` support it.
- `Roots`: `RootsLoseNothing`, `DoctorSeesAll`, `RemovalsKeepWorlds`,
  `AlwaysAPrimary`. `RegisterInv` and `RemovalInv` say where the content is at each
  call of a request and of its rollback, `CopiesInv` and `StagedInv` that whatever
  else looks like content is a copy of what is live, `TracedInv` that a path without
  a directory has left a trace in the store. The primary root has an invariant of
  its own (`MarkInv`), under the same restriction as the property.
- `Watcher`: `ReportedRootsAreCovered` (`CoverageIsHonest`) and
  `AcceptedCapturesAreStable` (`CapturesAreStable`), for trees of any shape and a
  queue of any length. `Live` is what will be left watched when the walk under way
  has ended: a walk after a fault forgets what it did not confirm. `CoverageInv`: of
  a root not reported as faulty, a directory that is not `Live` is still to be
  `Found`, by the walk, by an event in the queue, by an overflow, or because its
  parent is not `Live` either; and what is watched as the root's directory stands
  at its path, or the queue says that it moved (`Trusted`). With the queue drained
  and no walk, only the parent is left, and the least deep of the directories not
  watched would have a watched parent (`QuietIsCovered`). `TreeInv` keeps the
  inodes apart: one that left the tree never comes back. `CaptureInv`: as long as
  the generation has not moved, what a capture covered is covered still, so that a
  change of it cannot leave the queue empty.

Only model-checked, and why:

- the liveness properties `OperationEnds`, `ExchangesAreSettled` and `JobsSettle`:
  fairness and ENABLED are out of the prover's reach.

Every invariant and every action property of the passing runs is a theorem.

## 5. What is abstracted or left out

- A tree is a function from paths to values; directories, metadata, hashing and
  captures of them are left out, and a capture is one step that sees one tree.
- The requirement is a counter; which policy, verifier or configuration changed
  does not matter to the decision, only whether it did.
- A staged merge's evaluation passes or not, nondeterministically. A verifier
  changed by the candidate, which prepare refuses to evaluate, is the latter case.
- A failing revalidation changes nothing the model keeps.
- Returns, their vehicles and lineage witness; records of earlier schemas;
  `CANDIDATE_CHANGED_AFTER_PREPARE` (a payload altered behind the store's back).
  `Collides` is modelled and cannot be reached without return vehicles.
- Causal events, root generation rows, the anchor, the client gate, ghosts and
  the service steps after a commit: they do not influence the collapse.
- The sweep of unsupervised worlds is one step; a crash inside it is the same
  as one before it, since it is repeated at the next start.
- In `Collapse` the watcher covers the live tree or is absent; partial coverage is
  the subject of `Watcher`, and the set of roots does not change there (`Roots`).
- Removing a staged tree always succeeds (`ignore_errors=True` in the code).

- `parts` explores one part at a time. They share no state the properties speak of:
  requests of the daemon exclude each other, and what the environment may do to a
  part is an action of its module.
- `Evidence` has the required checks only, and two versions of the verifiers; an
  optional check cannot refuse, and what it leaves behind is what a required one
  may leave. `Supervision` gives every workload the same request.
- Not modelled, with the reasons in `PROJECT.json`: returns, the network guard and
  sandboxes, capture and hashing, the wire format of the kernel, the command line,
  agent adapters, build attestation.

Behaviour met while modelling that is excluded from a property, or left out:

- A check, probe or simulation that times out leaves its unit running with its
  reservation released (`checks.py:244`); `RunningKeepsItsEntry` is stated of agents
  and services. A crash and a stopped manager do keep their entries.
- A bind of an old store that is no longer at its place is not seen by the mount
  check (`relocate.py:892-896` leaves it to the ownership checks), so its own account
  may rewrite it; `OldStoreUntouched` says so. A run that dies with its canary in an
  old store behind a network view leaves it there.
- A fork or race that raises between a world's row and its thread leaves the row
  MUTABLE until the next start, without a job; `ForkedWorldsAreSupervised` excepts it.
- Recovery finishes an exchange it finds live, and writes its receipt, without an
  fsync of the two directories, and so does `commit` after one that failed, though
  the comment at `transaction.py:1190` calls the exchange durable by then. The
  properties of `storage_faults` allow for what a power loss then undoes.
- A legacy check examines what the earlier ones left in the overlay they share;
  `finalize.py:821-824` says that nothing more is claimed.
- The identity of a checkpoint has an environment component that `Holders` leaves
  out, so the collision of `blocked_reconcile` needs an environment that did not
  change between the two attempts.
- A drain in a request's thread that a failing callback cuts short loses the events
  it had read, and `watched_roots` still claims the root (`inotify.py:181-199`);
  `CoverageIsHonest` excludes behaviours with such a drain.
- A payload or a frozen base whose removal failed half way stays: the comment in
  `prune.apply` says a later prune offers it again, and `plan` offers the overlays
  of pruned worlds only. It is space, and no property speaks of it. A prune that is
  killed leaves the world it was removing unrecorded; `PrunedIsRecorded` says so.
- A check whose journal could not be read is accepted on its launcher's exit status
  (`checks.py:300-320`); the record says `INDETERMINATE`. `PromotedWasExamined` holds
  with it, since the launcher's status is the examiner's unless it was killed, and a
  killed launcher's is not 0.
- A ledger line of the anchor cut short by a full disk, and a case that changes
  between the walk that measures it and the copy, are not modelled.

## 6. Plan

1. Returns: the return vehicle, `CHECKPOINT_RETURN`, the ancestry walk of
   `core/worldline-ancestry`; then `Collides` becomes reachable.
2. `Merge`: the three-way merge with directories and metadata, against a
   reference definition.
3. The watcher of `Watcher` shown to implement the one of `Collapse`.
4. Theorems: that `Scoring` without the stale write preserves the lifecycles of
   `Collapse`; that the parts composed as in `MCParts` keep each other's properties.
