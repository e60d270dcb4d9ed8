----------------------------- MODULE Supervision -----------------------------
(***************************************************************************)
(* Supervised work, from the reservation that precedes it to the job row   *)
(* that outlives it (runtime/worldline/runner.py, services.py, fork.py,    *)
(* simulation.py, checks.py, admission.py, controller.py, store.py,        *)
(* linux/systemd.py).                                                      *)
(*                                                                         *)
(* An agent run, the checks it ends with, the services of the world it     *)
(* produced, their health probes, and a simulation each: reserve memory in *)
(* a ledger on disk, ask the user service manager for a transient unit,    *)
(* wait for it, release.  They run in threads of one daemon; the service   *)
(* manager runs units on its own, cancels and timeouts arrive at any time, *)
(* the manager may stop answering and the daemon may be killed.            *)
(***************************************************************************)
EXTENDS Admission

CONSTANTS
  Agents,      \* forked worlds, each run by an agent (and its job)
  Futures,     \* simulated worlds (and their jobs)
  Services,    \* services declared by a world's project (and their jobs)
  Probes,      \* checks of an agent's world and health probes of a service
  Parent,      \* the run a service or probe belongs to
  Policies,    \* the resource policies explored
  Mixes,       \* which workloads are asked for in one behaviour
  Total,       \* MemTotal
  MaxCrashes, MaxOutages, MaxCancels, \* bounds: daemon deaths, manager outages, cancels,
  MaxEvents    \* and all of these together

Jobs   == Agents \cup Futures \cup Services
Worlds == Agents \cup Futures
Work   == Jobs \cup Probes

(* The agent whose thread a workload runs in. *)
Thread(w) == IF w \in Worlds THEN w
             ELSE IF Parent[w] \in Agents THEN Parent[w] ELSE Parent[Parent[w]]
ProbesOf(w)   == {k \in Probes : Parent[k] = w}
ServicesOf(a) == {s \in Services : Parent[s] = a}

ASSUME SupervisionConstants ==
  /\ Agents \cap Futures = {} /\ Worlds \cap Services = {} /\ Jobs \cap Probes = {}
  /\ Parent \in [Services \cup Probes -> Agents \cup Services]
  /\ \A s \in Services : Parent[s] \in Agents
  /\ \A a \in Agents : Cardinality(ProbesOf(a)) <= 1
  /\ \A s \in Services : Cardinality(ProbesOf(s)) = 1
  /\ IsFiniteSet(Work) /\ Mixes \subseteq SUBSET Work
  /\ Total \in Nat /\ MaxCrashes \in Nat /\ MaxOutages \in Nat /\ MaxCancels \in Nat
  /\ MaxEvents \in Nat

VARIABLES
  policy,            \* config.resource_policy
  stage, seen,       \* where the thread of a workload stands; what it observed
  ledger,            \* admission-ledger.json: no entry, without unit, with unit
  unit, used, fate,  \* the manager's unit, its memory, how it ended
  job, jobUnit,      \* rows of table jobs: state, systemd_unit known
  world,             \* worlds.state
  verdict,           \* what run() makes of the agent's end
  cancelled, timedOut, \* AgentRunner._cancelled, ._timed_out
  cancels,           \* what a job.cancel in progress has still to do
  daemon, manager,   \* "up", "down" (daemon: also "starting")
  accepted,          \* history: jobs a cancel request was accepted for
  abandoned,         \* history: worlds whose request raised before it gave them a thread
  overtaken,         \* history: an admission overlooked what was taken or promised by then
  crashes, outages, asked \* counters of the bounds

threadVars == <<stage, seen, verdict>>
unitVars   == <<unit, used, fate>>
rowVars    == <<job, jobUnit, world>>
memoryVars == <<cancelled, timedOut, cancels>>
historyVars == <<accepted, abandoned, overtaken>>
boundVars  == <<crashes, outages, asked>>
vars == <<policy, threadVars, ledger, unitVars, rowVars, memoryVars, daemon,
          manager, historyVars, boundVars>>

ActiveStates == {"STARTING", "RUNNING", "FINALIZING"}
Terminal     == {"VALID", "DEGRADED", "DEAD"}
Stages == {"idle", "born", "forked", "starting", "measured", "reserved", "launched", "attached",
           "running", "waiting", "ended", "checking", "finalizing", "serving",
           "over"}

TypeOK ==
  /\ policy \in Policies
  /\ stage \in [Work -> Stages] /\ DOMAIN seen = Work
  /\ ledger \in [Work -> {"none", "bare", "named"}]
  /\ unit \in [Work -> {"none", "requested", "active", "gone"}]
  /\ used \in [Work -> 0..Requested(policy)]
  /\ fate \in [Work -> {"none", "passed", "failed", "stopped", "unstarted"}]
  /\ job \in [Jobs -> ActiveStates \cup Terminal \cup {"none", "CANCELLED", "TIMED_OUT"}]
  /\ jobUnit \in [Jobs -> BOOLEAN]
  /\ world \in [Worlds -> Terminal \cup {"none", "MUTABLE", "FINALIZING"}]
  /\ verdict \in [Agents -> {"none", "passed", "failed", "cancelled", "timedout"}]
  /\ cancelled \subseteq Jobs /\ timedOut \subseteq Jobs /\ accepted \subseteq Jobs
  /\ cancels \subseteq Jobs \X BOOLEAN /\ abandoned \subseteq Agents /\ overtaken \in BOOLEAN
  /\ daemon \in {"up", "down", "starting"} /\ manager \in {"up", "down"}
  /\ crashes \in 0..MaxCrashes /\ outages \in 0..MaxOutages /\ asked \in 0..MaxCancels

Init ==
  /\ policy \in {p \in Policies : AcceptPolicy(p)}
  /\ \E mix \in Mixes : stage = [w \in Work |-> IF w \in mix THEN "idle" ELSE "over"]
  /\ seen = [w \in Work |-> None]
  /\ ledger = [w \in Work |-> "none"]
  /\ unit = [w \in Work |-> "none"] /\ used = [w \in Work |-> 0]
  /\ fate = [w \in Work |-> "none"]
  /\ job = [j \in Jobs |-> "none"] /\ jobUnit = [j \in Jobs |-> FALSE]
  /\ world = [w \in Worlds |-> "none"]
  /\ verdict = [a \in Agents |-> "none"]
  /\ cancelled = {} /\ timedOut = {} /\ cancels = {} /\ accepted = {}
  /\ abandoned = {} /\ overtaken = FALSE
  /\ daemon = "up" /\ manager = "up"
  /\ crashes = 0 /\ outages = 0 /\ asked = 0

-----------------------------------------------------------------------------
(* The user service manager, which nothing here waits for.                 *)

(* Nobody is left to read how the unit of a lost thread ended. *)
Ended(w, how) == fate' = [fate EXCEPT ![w] = IF stage[w] = "over" THEN @ ELSE how]

(* systemd-run returned to its caller before the manager had the unit; the *)
(* manager starts it, or never does.                                       *)
UnitStarts(w) ==
  /\ unit[w] = "requested" /\ manager = "up"
  /\ \/ unit' = [unit EXCEPT ![w] = "active"] /\ UNCHANGED <<used, fate>>
     \/ /\ unit' = [unit EXCEPT ![w] = "gone"]
        /\ Ended(w, "unstarted") /\ UNCHANGED used
  /\ UNCHANGED <<policy, threadVars, ledger, rowVars, memoryVars, daemon,
                 manager, historyVars, boundVars>>

(* A workload takes the memory it reserved: MemoryMax holds it to that.    *)
UnitGrows(w) ==
  /\ unit[w] = "active" /\ used[w] < Requested(policy)
  /\ used' = [used EXCEPT ![w] = Requested(policy)]
  /\ UNCHANGED <<policy, threadVars, ledger, unit, fate, rowVars, memoryVars,
                 daemon, manager, historyVars, boundVars>>

UnitExits(w) ==
  /\ unit[w] = "active"
  /\ \E how \in {"passed", "failed"} : Ended(w, how)
  /\ unit' = [unit EXCEPT ![w] = "gone"] /\ used' = [used EXCEPT ![w] = 0]
  /\ UNCHANGED <<policy, threadVars, ledger, rowVars, memoryVars, daemon,
                 manager, historyVars, boundVars>>

(* systemctl --user stop: SIGKILL after ten seconds, so an active unit is  *)
(* gone when it returns.  A unit the manager does not have is not an error *)
(* (exit status 5), and neither is it remembered.                          *)
Stopped(S) ==
  LET T == {w \in S : unit[w] = "active"} IN
  /\ unit' = [w \in Work |-> IF w \in T THEN "gone" ELSE unit[w]]
  /\ used' = [w \in Work |-> IF w \in T THEN 0 ELSE used[w]]
  /\ fate' = [w \in Work |-> IF w \in T /\ stage[w] # "over" THEN "stopped" ELSE fate[w]]

MoreEvents == crashes + outages + asked < MaxEvents

ManagerDown ==
  /\ manager = "up" /\ outages < MaxOutages /\ MoreEvents
  /\ manager' = "down" /\ outages' = outages + 1
  /\ UNCHANGED <<policy, threadVars, ledger, unitVars, rowVars, memoryVars,
                 daemon, historyVars, crashes, asked>>

ManagerUp ==
  /\ manager = "down" /\ manager' = "up"
  /\ UNCHANGED <<policy, threadVars, ledger, unitVars, rowVars, memoryVars,
                 daemon, historyVars, boundVars>>

-----------------------------------------------------------------------------
(* What the daemon can find out about a reservation.                       *)

(* resource_telemetry: None unless the manager has the unit.               *)
Usage(w) == IF ledger[w] = "named" /\ manager = "up" /\ unit[w] = "active"
            THEN used[w] ELSE None

(* _reservation_is_live: without a unit it is live by definition, a manager*)
(* that does not answer is no answer, and a unit it does not have (any     *)
(* more, or yet) is not active.                                            *)
IsLive(w) == CASE ledger[w] = "bare" -> "yes"
               [] manager = "down"   -> "unknown"
               [] OTHER -> IF unit[w] = "active" THEN "yes" ELSE "no"

Reserved == {w \in Work : ledger[w] # "none"}
Counted  == {w \in Reserved : IsLive(w) # "no"}

(* An exception in the thread of w.  A forked world and every active job   *)
(* of it end DEAD (_terminate_failed_start); a simulation does that itself *)
(* only once its unit runs.                                                *)
Raise(w) ==
  LET t == Thread(w) IN
  IF t \in Agents
  THEN /\ stage' = [v \in Work |-> IF Thread(v) = t THEN "over" ELSE stage[v]]
       /\ job' = [j \in Jobs |-> IF Thread(j) = t /\ job[j] \in ActiveStates
                                 THEN "DEAD" ELSE job[j]]
       /\ world' = [world EXCEPT ![t] = IF @ \in Terminal THEN @ ELSE "DEAD"]
  ELSE /\ stage' = [stage EXCEPT ![w] = "over"]
       /\ IF stage[w] \in {"running", "waiting"}
          THEN /\ job' = [job EXCEPT ![w] = "DEAD"]
               /\ world' = [world EXCEPT ![w] = "DEAD"]
          ELSE UNCHANGED <<job, world>>

-----------------------------------------------------------------------------
(* The life of a workload: reserve, launch, name the unit, wait, release.  *)

Up == daemon = "up"

(* The mutation lock: a fork or race holds it until it has answered, a     *)
(* simulation until its end, and so does a cancel.                         *)
Born     == {a \in Agents : stage[a] = "born"}
LockFree == Born = {} /\ cancels = {} /\ \A f \in Futures : stage[f] \in {"idle", "over"}

(* fork --detach and race --detach: create_world inserts a row, a race     *)
(* three, and the automatic ghosts that come between insert rows as well.  *)
Fork(a) ==
  /\ Up /\ stage[a] = "idle" /\ (LockFree \/ Born # {})
  /\ stage' = [stage EXCEPT ![a] = "born"]
  /\ world' = [world EXCEPT ![a] = "MUTABLE"]
  /\ UNCHANGED <<policy, seen, verdict, ledger, unitVars, job, jobUnit, memoryVars, daemon,
                 manager, historyVars, boundVars>>

(* Whatever raises before the thread is there, a later create_world, the   *)
(* freeze for the ghosts or the store, leaves the rows as they are.        *)
ForkRaises ==
  /\ Up /\ Born # {}
  /\ stage' = [w \in Work |-> IF w \in Born THEN "over" ELSE stage[w]]
  /\ abandoned' = abandoned \cup Born
  /\ UNCHANGED <<policy, seen, verdict, ledger, unitVars, rowVars, memoryVars, daemon,
                 manager, accepted, overtaken, boundVars>>

(* spawn_background: run_world in a thread of its own.                     *)
Spawn(a) ==
  /\ Up /\ stage[a] = "born" /\ stage' = [stage EXCEPT ![a] = "forked"]
  /\ UNCHANGED <<policy, seen, verdict, ledger, unitVars, rowVars, memoryVars, daemon,
                 manager, historyVars, boundVars>>

(* The adapter, the project's configuration and the sandbox; create_job.   *)
RunWorld(a) ==
  /\ Up /\ a \in Agents /\ stage[a] = "forked"
  /\ \/ Raise(a)
     \/ /\ job' = [job EXCEPT ![a] = "STARTING"]
        /\ stage' = [stage EXCEPT ![a] = "starting"] /\ UNCHANGED world
  /\ UNCHANGED <<policy, seen, verdict, ledger, unitVars, jobUnit, memoryVars, daemon,
                 manager, historyVars, boundVars>>

Simulate(f) ==
  /\ Up /\ LockFree /\ stage[f] = "idle"
  /\ stage' = [stage EXCEPT ![f] = "starting"]
  /\ world' = [world EXCEPT ![f] = "MUTABLE"] /\ job' = [job EXCEPT ![f] = "STARTING"]
  /\ UNCHANGED <<policy, seen, verdict, ledger, unitVars, jobUnit, memoryVars, daemon,
                 manager, historyVars, boundVars>>

(* MemAvailable: what the units have not taken.                            *)
MemAvailable ==
  LET free == Total - SumFunction(used) IN IF free < 0 THEN 0 ELSE free

(* observe(), before the ledger is locked.  The host may be unreadable,    *)
(* under pressure, or out of disk.                                         *)
Measure(w) ==
  /\ Up /\ stage[w] = "starting"
  /\ \E pressure \in {0, MaxPressure + 1, None} :
       seen' = [seen EXCEPT ![w] = Observe([total |-> Total, available |-> MemAvailable,
                                            pressure |-> pressure, disk |-> TRUE])]
  /\ stage' = [stage EXCEPT ![w] = "measured"]
  /\ UNCHANGED <<policy, verdict, ledger, unitVars, rowVars, memoryVars, daemon,
                 manager, historyVars, boundVars>>

Outcome(w) == AdmissionOutcome(policy, seen[w], TRUE, Cardinality(Counted),
                               Withheld(Counted, Requested(policy), [v \in Work |-> Usage(v)]))

(* What admit does not see when it answers: memory that was taken since it *)
(* observed the machine, and an entry whose unit has not started yet.      *)
Overlooks(w) ==
  \/ seen[w].available > MemAvailable
  \/ \E v \in Reserved \ Counted : unit[v] = "requested"

(* The rest of admit under the ledger's lock.  The file keeps every entry, *)
(* counted or not, and gains one.                                          *)
Admit(w) ==
  /\ Up /\ stage[w] = "measured"
  /\ IF Outcome(w) = "ADMITTED"
     THEN /\ ledger' = [ledger EXCEPT ![w] = "bare"]
          /\ stage' = [stage EXCEPT ![w] = "reserved"]
          /\ overtaken' = (overtaken \/ Overlooks(w)) /\ UNCHANGED <<job, world>>
     ELSE Raise(w) /\ UNCHANGED <<ledger, overtaken>>
  /\ seen' = [seen EXCEPT ![w] = None]
  /\ UNCHANGED <<policy, verdict, unitVars, jobUnit, memoryVars, daemon, manager,
                 accepted, abandoned, boundVars>>

(* SystemdAdapter.launch: the manager must answer first; systemd-run is    *)
(* spawned and not waited for.  A failure releases the reservation.        *)
Launch(w) ==
  /\ Up /\ stage[w] = "reserved"
  /\ IF manager = "up"
     THEN /\ unit' = [unit EXCEPT ![w] = "requested"]
          /\ stage' = [stage EXCEPT ![w] = IF w \in Probes THEN "waiting" ELSE "launched"]
          /\ UNCHANGED <<ledger, job, world>>
     ELSE /\ ledger' = [ledger EXCEPT ![w] = "none"]
          /\ Raise(w) /\ UNCHANGED unit
  /\ UNCHANGED <<policy, seen, verdict, used, fate, jobUnit, memoryVars, daemon, manager,
                 historyVars, boundVars>>

Attach(w) ==
  /\ Up /\ stage[w] = "launched"
  /\ ledger' = [ledger EXCEPT ![w] = "named"]
  /\ stage' = [stage EXCEPT ![w] = "attached"]
  /\ UNCHANGED <<policy, seen, verdict, unitVars, rowVars, memoryVars, daemon, manager,
                 historyVars, boundVars>>

(* update_job(RUNNING, unit).  A service is then probed.                    *)
Running(w) ==
  /\ Up /\ stage[w] = "attached"
  /\ job' = [job EXCEPT ![w] = "RUNNING"] /\ jobUnit' = [jobUnit EXCEPT ![w] = TRUE]
  /\ stage' = [v \in Work |-> IF v = w THEN IF w \in Futures THEN "waiting" ELSE "running"
                              ELSE IF w \in Services /\ v \in ProbesOf(w) THEN "starting"
                              ELSE stage[v]]
  /\ UNCHANGED <<policy, seen, verdict, ledger, unitVars, world, memoryVars, daemon, manager,
                 historyVars, boundVars>>

(* A cancel that came before there was a unit to stop.                     *)
StopIfCancelled(a) ==
  /\ Up /\ a \in Agents /\ stage[a] = "running"
  /\ stage' = [stage EXCEPT ![a] = "waiting"]
  /\ IF a \in cancelled /\ manager = "up" THEN Stopped({a}) ELSE UNCHANGED unitVars
  /\ UNCHANGED <<policy, seen, verdict, ledger, rowVars, memoryVars, daemon, manager,
                 historyVars, boundVars>>

(* expire(), in the timer's thread, from the moment the job is RUNNING.    *)
Expire(a) ==
  /\ Up /\ a \in Agents /\ stage[a] \in {"running", "waiting"} /\ a \notin timedOut
  /\ timedOut' = timedOut \cup {a}
  /\ IF manager = "up" THEN Stopped({a}) ELSE UNCHANGED unitVars
  /\ UNCHANGED <<policy, threadVars, ledger, rowVars, cancelled, cancels, daemon,
                 manager, historyVars, boundVars>>

(* Mutant: the run waits for the exit of a unit that never started.        *)
AgentEndsIfStarted(a) ==
  /\ Up /\ a \in Agents /\ stage[a] = "waiting" /\ unit[a] = "gone" /\ fate[a] # "unstarted"
  /\ ledger' = [ledger EXCEPT ![a] = "none"]
  /\ stage' = [stage EXCEPT ![a] = "ended"]
  /\ UNCHANGED <<policy, seen, verdict, unitVars, rowVars, memoryVars, daemon, manager,
                 historyVars, boundVars>>

(* launcher.wait returned: the unit has ended, the reservation is released.*)
AgentEnds(a) ==
  /\ Up /\ a \in Agents /\ stage[a] = "waiting" /\ unit[a] = "gone"
  /\ ledger' = [ledger EXCEPT ![a] = "none"]
  /\ stage' = [stage EXCEPT ![a] = "ended"]
  /\ UNCHANGED <<policy, seen, verdict, unitVars, rowVars, memoryVars, daemon, manager,
                 historyVars, boundVars>>

(* SystemdAdapter.outcome, from the manager's journal entries about the    *)
(* unit that were there within the window, and the launcher's exit status. *)
SupervisionKind(ids, readable, exit) ==
  IF ids \cap {"started", "exit"} # {} THEN "SUPERVISED"
  ELSE IF ~readable \/ exit = 0 \/ "starting" \in ids THEN "INDETERMINATE"
  ELSE "LAUNCH_FAILED"

Journal(w) == CASE fate[w] = "passed" -> {"starting", "started"}
                [] fate[w] = "failed" -> {"starting", "started", "exit"}
                [] fate[w] = "stopped" -> {"starting", "started", "stopping"}
                [] OTHER -> {}
LauncherExit(w) == IF fate[w] = "passed" THEN 0 ELSE 1

Kinds(w) == {SupervisionKind(ids, readable, LauncherExit(w)) :
               ids \in {{}, Journal(w)}, readable \in BOOLEAN}

(* Mutant: a stopped agent's half-finished tree is checked all the same.   *)
ChecksAlways(a, result) == ProbesOf(a)

ChecksAfter(a, result) == IF result \in {"cancelled", "timedout"} THEN {} ELSE ProbesOf(a)

(* run(), after the agent's end: what stopped it is read once and then     *)
(* forgotten, a reader thread that failed or a unit that never started     *)
(* raises, a stopped agent is finalized without its checks.                *)
Verdict(a) ==
  /\ Up /\ a \in Agents /\ stage[a] = "ended"
  /\ cancelled' = cancelled \ {a} /\ timedOut' = timedOut \ {a}
  /\ \E kind \in Kinds(a) \cup {"READER_FAILED"} :
       IF kind \in {"READER_FAILED", "LAUNCH_FAILED"}
       THEN Raise(a) /\ UNCHANGED verdict
       ELSE LET result == IF a \in cancelled THEN "cancelled"
                          ELSE IF a \in timedOut THEN "timedout"
                          ELSE IF kind = "SUPERVISED" /\ fate[a] = "passed" THEN "passed"
                          ELSE "failed"
                checks == ChecksAfter(a, result) IN
            /\ verdict' = [verdict EXCEPT ![a] = result]
            /\ stage' = [v \in Work |-> IF v = a THEN IF checks = {} THEN "finalizing" ELSE "checking"
                                        ELSE IF v \in checks THEN "starting" ELSE stage[v]]
            /\ UNCHANGED <<job, world>>
  /\ UNCHANGED <<policy, seen, ledger, unitVars, jobUnit, cancels, daemon, manager,
                 historyVars, boundVars>>

(* A check whose unit ended.  A verdict needs the exit the manager saw.    *)
CheckEnds(k) ==
  /\ Up /\ k \in Probes /\ Parent[k] \in Agents /\ stage[k] = "waiting" /\ unit[k] = "gone"
  /\ ledger' = [ledger EXCEPT ![k] = "none"]
  /\ stage' = [stage EXCEPT ![k] = "over", ![Parent[k]] = "finalizing"]
  /\ \E kind \in Kinds(k) :
       verdict' = IF kind # "LAUNCH_FAILED" /\ fate[k] = "passed" THEN verdict
                  ELSE [verdict EXCEPT ![Parent[k]] = "failed"]
  /\ UNCHANGED <<policy, seen, unitVars, rowVars, memoryVars, daemon, manager,
                 historyVars, boundVars>>

(* communicate(timeout) raised in a check, a health probe or a simulation: *)
(* the guard releases the reservation, nothing stops the unit.             *)
Overdue(w) ==
  /\ Up /\ w \in Probes \cup Futures /\ stage[w] = "waiting" /\ unit[w] # "gone"
  /\ ledger' = [ledger EXCEPT ![w] = "none"] /\ Raise(w)
  /\ UNCHANGED <<policy, seen, verdict, unitVars, jobUnit, memoryVars, daemon,
                 manager, historyVars, boundVars>>

(* finalize, then the services of a VALID world, one after the other.  A   *)
(* finalizer that raises leaves the world DEAD.                            *)
Finalize(a) ==
  /\ Up /\ a \in Agents /\ stage[a] = "finalizing"
  /\ \/ Raise(a)
     \/ LET valid == verdict[a] = "passed" IN
        /\ world' = [world EXCEPT ![a] = IF valid THEN "VALID" ELSE "DEGRADED"]
        /\ stage' = [stage EXCEPT ![a] = "serving"] /\ UNCHANGED job
  /\ UNCHANGED <<policy, seen, verdict, ledger, unitVars, jobUnit, memoryVars, daemon,
                 manager, historyVars, boundVars>>

StartService(s) ==
  LET a == Parent[s] IN
  /\ Up /\ stage[a] = "serving" /\ world[a] = "VALID" /\ stage[s] = "idle"
  /\ \A v \in ServicesOf(a) : stage[v] \in {"idle", "over"}
  /\ stage' = [stage EXCEPT ![s] = "starting"] /\ job' = [job EXCEPT ![s] = "STARTING"]
  /\ UNCHANGED <<policy, seen, verdict, ledger, unitVars, jobUnit, world, memoryVars,
                 daemon, manager, historyVars, boundVars>>

(* An unhealthy service is stopped; its reservation stays in the ledger,   *)
(* to be ignored as soon as the manager says its unit is gone.  A stop     *)
(* that found no unit leaves launcher.wait to time out.                    *)
HealthEnds(h) ==
  LET s == Parent[h] IN
  /\ Up /\ h \in Probes /\ s \in Services /\ stage[h] = "waiting" /\ unit[h] = "gone"
  /\ ledger' = [ledger EXCEPT ![h] = "none"]
  /\ IF fate[h] = "passed"
     THEN /\ stage' = [stage EXCEPT ![h] = "over", ![s] = "over"]
          /\ UNCHANGED <<job, world, unitVars>>
     ELSE IF manager = "down" \/ unit[s] = "requested"
     THEN Raise(s) /\ UNCHANGED unitVars
     ELSE /\ Stopped({s})
          /\ stage' = [stage EXCEPT ![h] = "over", ![s] = "over"]
          /\ job' = [job EXCEPT ![s] = "DEGRADED"] /\ UNCHANGED world
  /\ UNCHANGED <<policy, seen, verdict, jobUnit, memoryVars, daemon, manager,
                 historyVars, boundVars>>

(* Mutant: the job takes the verdict's name.                               *)
JobEndsVerdict(a) ==
  /\ Up /\ a \in Agents /\ stage[a] = "serving"
  /\ job' = [job EXCEPT ![a] = verdict[a]] /\ stage' = [stage EXCEPT ![a] = "over"]
  /\ UNCHANGED <<policy, seen, verdict, ledger, unitVars, jobUnit, world, memoryVars,
                 daemon, manager, historyVars, boundVars>>

JobEnds(a) ==
  /\ Up /\ a \in Agents /\ stage[a] = "serving"
  /\ world[a] = "VALID" => \A s \in ServicesOf(a) : stage[s] = "over"
  /\ job' = [job EXCEPT ![a] = CASE verdict[a] = "cancelled" -> "CANCELLED"
                                 [] verdict[a] = "timedout"  -> "TIMED_OUT"
                                 [] OTHER -> world[a]]
  /\ stage' = [stage EXCEPT ![a] = "over"]
  /\ UNCHANGED <<policy, seen, verdict, ledger, unitVars, jobUnit, world, memoryVars,
                 daemon, manager, historyVars, boundVars>>

(* A simulation whose unit ended: the world is what its runner reported.   *)
FutureEnds(f) ==
  /\ Up /\ f \in Futures /\ stage[f] = "waiting" /\ unit[f] = "gone"
  /\ ledger' = [ledger EXCEPT ![f] = "none"]
  /\ IF fate[f] = "passed"
     THEN \E report \in {"VALID", "DEGRADED"} :
            /\ world' = [world EXCEPT ![f] = report] /\ job' = [job EXCEPT ![f] = report]
            /\ stage' = [stage EXCEPT ![f] = "over"]
     ELSE Raise(f)
  /\ UNCHANGED <<policy, seen, verdict, unitVars, jobUnit, memoryVars, daemon,
                 manager, historyVars, boundVars>>

-----------------------------------------------------------------------------
(* Requests that stop work, and the daemon's own end.                      *)

ActiveJobs(a) == {j \in Jobs : Thread(j) = a /\ job[j] \in ActiveStates}

(* job.cancel reads the active jobs and their units ...                    *)
CancelRead(a) ==
  /\ Up /\ LockFree /\ a \in Agents /\ ActiveJobs(a) # {} /\ asked < MaxCancels /\ MoreEvents
  /\ cancels' = {<<j, jobUnit[j]>> : j \in ActiveJobs(a)}
  /\ asked' = asked + 1
  /\ UNCHANGED <<policy, threadVars, ledger, unitVars, rowVars, cancelled, timedOut,
                 daemon, manager, historyVars, crashes, outages>>

(* ... and then marks and stops each by what it has read.                  *)
CancelApply(c) ==
  /\ Up /\ cancelled' = cancelled \cup {c[1]}
  /\ IF c[2] /\ manager = "down"
     THEN cancels' = {} /\ UNCHANGED <<unitVars, accepted>>
     ELSE /\ cancels' = cancels \ {c} /\ accepted' = accepted \cup {c[1]}
          /\ IF c[2] THEN Stopped({c[1]}) ELSE UNCHANGED unitVars
  /\ UNCHANGED <<policy, threadVars, ledger, rowVars, timedOut, daemon, manager,
                 abandoned, overtaken, boundVars>>

(* A commit of the world stops whoever may still write to it.              *)
StopWriters(a) ==
  /\ Up /\ LockFree /\ a \in Agents /\ world[a] = "VALID" /\ ActiveJobs(a) # {}
  /\ manager = "up"
  /\ Stopped({j \in ActiveJobs(a) : jobUnit[j]})
  /\ job' = [j \in Jobs |-> IF j \in ActiveJobs(a) THEN "CANCELLED" ELSE job[j]]
  /\ UNCHANGED <<policy, threadVars, ledger, jobUnit, world, memoryVars, daemon, manager,
                 historyVars, boundVars>>

Crash ==
  /\ daemon # "down" /\ crashes < MaxCrashes /\ MoreEvents
  /\ daemon' = "down" /\ crashes' = crashes + 1
  /\ stage' = [w \in Work |-> IF stage[w] = "idle" THEN "idle" ELSE "over"]
  /\ seen' = [w \in Work |-> None]
  /\ cancelled' = {} /\ timedOut' = {} /\ cancels' = {}
  /\ UNCHANGED <<policy, verdict, ledger, unitVars, rowVars, manager, historyVars,
                 outages, asked>>

(* Mutant: a manager that does not answer counts as one that said no.      *)
ReconcileTwoWay ==
  /\ daemon = "down" /\ daemon' = "starting"
  /\ ledger' = [w \in Work |-> IF ledger[w] # "none" /\ IsLive(w) # "yes"
                               THEN "none" ELSE ledger[w]]
  /\ UNCHANGED <<policy, threadVars, unitVars, rowVars, memoryVars, manager, historyVars,
                 boundVars>>

(* RuntimeController.__init__: reconcile drops what is known to be dead.   *)
Reconcile ==
  /\ daemon = "down" /\ daemon' = "starting"
  /\ ledger' = [w \in Work |-> IF ledger[w] # "none" /\ IsLive(w) = "no"
                               THEN "none" ELSE ledger[w]]
  /\ UNCHANGED <<policy, threadVars, unitVars, rowVars, memoryVars, manager, historyVars,
                 boundVars>>

(* Mutant: only jobs are swept.                                            *)
SweepJobsOnly ==
  /\ daemon = "starting" /\ daemon' = "up"
  /\ job' = [j \in Jobs |-> IF job[j] \in ActiveStates THEN "DEGRADED" ELSE job[j]]
  /\ abandoned' = {}
  /\ UNCHANGED <<policy, threadVars, ledger, unitVars, jobUnit, world, memoryVars, manager,
                 accepted, overtaken, boundVars>>

(* recover stops the units of the jobs that lost their daemon, and the     *)
(* sweep ends those jobs and every world nobody will finish.               *)
Sweep ==
  /\ daemon = "starting" /\ daemon' = "up"
  /\ IF manager = "up" THEN Stopped({j \in Jobs : job[j] \in ActiveStates /\ jobUnit[j]})
     ELSE UNCHANGED unitVars
  /\ job' = [j \in Jobs |-> IF job[j] \in ActiveStates THEN "DEGRADED" ELSE job[j]]
  /\ world' = [w \in Worlds |-> IF world[w] \in {"MUTABLE", "FINALIZING"} THEN "DEAD"
                                ELSE world[w]]
  /\ abandoned' = {}
  /\ UNCHANGED <<policy, threadVars, ledger, jobUnit, memoryVars, manager, accepted,
                 overtaken, boundVars>>

UnitStep(w) == UnitStarts(w) \/ UnitGrows(w) \/ UnitExits(w)

ThreadStep(w) ==
  \/ RunWorld(w) \/ Measure(w) \/ Admit(w) \/ Launch(w) \/ Attach(w) \/ Running(w)
  \/ StopIfCancelled(w) \/ AgentEnds(w) \/ Verdict(w) \/ CheckEnds(w)
  \/ HealthEnds(w) \/ Finalize(w) \/ JobEnds(w) \/ FutureEnds(w)
  \/ w \in Services /\ StartService(w)

Next ==
  \/ \E w \in Work : UnitStep(w) \/ ThreadStep(w) \/ Expire(w) \/ Overdue(w)
  \/ \E a \in Agents : Fork(a) \/ Spawn(a) \/ CancelRead(a) \/ StopWriters(a)
  \/ \E f \in Futures : Simulate(f)
  \/ \E c \in cancels : CancelApply(c)
  \/ ForkRaises \/ ManagerDown \/ ManagerUp \/ Crash \/ Reconcile \/ Sweep

Spec == Init /\ [][Next]_vars

(* Threads, the manager and the init system keep going, and an outage      *)
(* ends.  A check, a probe or a simulation is waited for up to a timeout;  *)
(* an agent may run for ever, for the default is no timeout at all.        *)
Fairness ==
  /\ \A w \in Work : WF_vars(UnitStarts(w)) /\ WF_vars(ThreadStep(w) \/ Overdue(w))
  /\ WF_vars(Reconcile) /\ WF_vars(Sweep) /\ WF_vars(ManagerUp)

FairSpec == Spec /\ Fairness

-----------------------------------------------------------------------------
(* Workloads that are admitted and have not ended.                         *)
Promised == {w \in Reserved : ledger[w] = "bare" \/ unit[w] \in {"requested", "active"}}

(* What is promised to all of them fits into the machine together, above   *)
(* the floor, whoever has started, grown or named its unit by then, unless *)
(* an admission overlooked memory that was taken after it had observed the *)
(* machine, or a unit that was named and had not started (admission.py,    *)
(* admit of AdmissionAuthority and outstanding_withheld).                  *)
PromisesFit ==
  Promised # {} /\ ~overtaken => Cardinality(Promised) * Requested(policy) + Floor <= Total

(* What the class says of its lock: the answer of admit is not overtaken   *)
(* between being computed and being acted on, so what it reserves is free  *)
(* then, beside what the others it counts may still take (admission.py,    *)
(* AdmissionAuthority).                                                    *)
AnswerIsNotOvertaken ==
  [][\A w \in Work : ledger[w] = "none" /\ ledger'[w] = "bare" =>
       Requested(policy) <= MemAvailable - Floor - Withheld(Counted, Requested(policy), used)]_vars

(* No admission, release or reconcile removes the entry of a unit that is  *)
(* running, whatever the manager failed to answer (admission.py, reconcile *)
(* and the comment in admit on the filtered list).  Checks, probes and     *)
(* simulations are left out: one that times out leaves its unit behind and *)
(* its entry with the guard that releases it.                              *)
RunningKeepsItsEntry ==
  [][\A w \in Agents \cup Services :
       ledger[w] = "named" /\ unit[w] = "active" => ledger'[w] = "named"]_vars

(* While the daemon serves, a forked world that is not terminal, or whose  *)
(* job is active, has a thread that will finish it or a request that will  *)
(* give it one: no crash, refusal or exception leaves one behind that      *)
(* blocks every root change, but a request that raised between the row and *)
(* the thread; that world never gets a job, which is what the doctor looks *)
(* for, and the next start ends it (fork.py, _terminate_failed_start;      *)
(* store.py, sweep_unsupervised; controller.py, _unsupervised_worlds).     *)
ForkedWorldsAreSupervised ==
  \A a \in Agents :
    Up /\ (world[a] \in {"MUTABLE", "FINALIZING"} \/ job[a] \in ActiveStates)
      => stage[a] \notin {"idle", "over"} \/ (a \in abandoned /\ job[a] = "none")

(* An agent that was cancelled or timed out never yields a VALID world,    *)
(* and its project's checks never ran on the half-finished tree            *)
(* (runner.py, run, the branch on stopped).                                *)
StoppedNeverValid ==
  \A a \in Agents : verdict[a] \in {"cancelled", "timedout"} =>
     /\ world[a] # "VALID"
     /\ \A k \in ProbesOf(a) : unit[k] = "none" /\ ledger[k] = "none"

(* Every agent's job ends, by a refusal, an exception, the end of its unit *)
(* or the sweep after a crash, unless the agent itself never ends: no stop,*)
(* timeout or outage on the way leaves a job active whose unit is gone or  *)
(* never came (runner.py, run).                                            *)
JobsSettle ==
  \A a \in Agents :
    \/ <>[](unit[a] = "active")
    \/ (job[a] \in ActiveStates) ~> (job[a] \notin ActiveStates)

(* What the manual promises: a cancel stops the agent's unit.  Once the    *)
(* request is answered and the run has made its own check for a cancel     *)
(* that came early, nobody else will.                                      *)
CancelStopsTheAgent ==
  \A a \in Agents : a \in accepted /\ stage[a] = "waiting" => unit[a] # "active"
==============================================================================
