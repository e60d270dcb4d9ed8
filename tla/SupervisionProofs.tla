-------------------------- MODULE SupervisionProofs --------------------------
(***************************************************************************)
(* Supervised work, for any agents, simulations, services and probes, any  *)
(* policy that is accepted and any number of crashes, outages and cancels: *)
(* type correctness, no forked world without a thread, no VALID world from *)
(* a stopped agent, no entry lost under a unit that runs, and promises of  *)
(* memory that fit together.                                               *)
(***************************************************************************)
EXTENDS Supervision, FiniteSetTheorems, TLAPS

(* The thread of a world is its own; of a service or probe, an agent's. *)
LEMMA ThreadIsAWorld ==
  /\ \A w \in Worlds : Thread(w) = w
  /\ \A w \in Work \ Worlds : Thread(w) \in Agents
<1>1. \A w \in Worlds : Thread(w) = w
  BY DEF Thread
<1>2. ASSUME NEW w \in Work \ Worlds PROVE Thread(w) \in Agents
  BY <1>2, SupervisionConstants DEF Thread, Work, Jobs, Worlds
<1>3. QED BY <1>1, <1>2

(* No workload is of two sorts. *)
LEMMA Sorts ==
  /\ \A a \in Agents : a \notin Futures \cup Services \cup Probes
  /\ \A s \in Services : s \notin Worlds \cup Probes
  /\ \A k \in Probes : k \notin Jobs
  /\ \A f \in Futures : f \notin Agents \cup Services \cup Probes
  BY SupervisionConstants DEF Jobs, Worlds

-----------------------------------------------------------------------------
(* Type correctness.  The policy in force was accepted, so it asks for a   *)
(* number of bytes.                                                        *)
TypeInv == TypeOK /\ Requested(policy) \in Nat

(* An agent that was not started has left nothing and one that has no job  *)
(* yet has none; the thread of one that is over has left its world and job *)
(* terminal, unless a crash took it or it never was; and services are      *)
(* started of a world that is terminal.                                    *)
SupervisedInv ==
  \A a \in Agents :
    /\ stage[a] = "idle" => world[a] = "none" /\ job[a] = "none"
    /\ stage[a] \in {"born", "forked"} => job[a] = "none"
    /\ stage[a] = "over" /\ Up =>
         \/ world[a] \notin {"MUTABLE", "FINALIZING"} /\ job[a] \notin ActiveStates
         \/ a \in abandoned /\ job[a] = "none"
    /\ stage[a] = "serving" => world[a] \in Terminal

(* A policy that is accepted asks for a number of bytes. *)
LEMMA AcceptedAsks ==
  ASSUME NEW p, AcceptPolicy(p) PROVE Requested(p) \in Nat
  BY AdmissionConstants DEF AcceptPolicy, Positive, Requested, Unmetered, Declared

(* The daemon's first start satisfies it. *)
LEMMA TypeInvInit == Init => TypeInv
<1> SUFFICES ASSUME Init PROVE TypeInv
  OBVIOUS
<1>1. Requested(policy) \in Nat
  BY AcceptedAsks DEF Init
<1>2. stage \in [Work -> Stages]
  BY DEF Init, Stages
<1>3. used \in [Work -> 0..Requested(policy)]
  BY <1>1 DEF Init
<1>4. /\ crashes \in 0..MaxCrashes /\ outages \in 0..MaxOutages /\ asked \in 0..MaxCancels
  BY SupervisionConstants DEF Init
<1>5. /\ policy \in Policies /\ DOMAIN seen = Work
      /\ ledger \in [Work -> {"none", "bare", "named"}]
      /\ unit \in [Work -> {"none", "requested", "active", "gone"}]
      /\ fate \in [Work -> {"none", "passed", "failed", "stopped", "unstarted"}]
  BY DEF Init
<1>6. /\ job \in [Jobs -> ActiveStates \cup Terminal \cup {"none", "CANCELLED", "TIMED_OUT"}]
      /\ jobUnit \in [Jobs -> BOOLEAN]
      /\ world \in [Worlds -> Terminal \cup {"none", "MUTABLE", "FINALIZING"}]
      /\ verdict \in [Agents -> {"none", "passed", "failed", "cancelled", "timedout"}]
  BY DEF Init
<1>7. /\ cancelled \subseteq Jobs /\ timedOut \subseteq Jobs /\ accepted \subseteq Jobs
      /\ cancels \subseteq Jobs \X BOOLEAN /\ abandoned \subseteq Agents
      /\ overtaken \in BOOLEAN
      /\ daemon \in {"up", "down", "starting"} /\ manager \in {"up", "down"}
  BY DEF Init
<1>8. QED
  BY <1>1, <1>2, <1>3, <1>4, <1>5, <1>6, <1>7 DEF TypeInv, TypeOK

(* What an exception leaves has its types. *)
LEMMA RaiseTypes ==
  ASSUME TypeInv, NEW w \in Work, Raise(w)
  PROVE  /\ stage' \in [Work -> Stages]
         /\ job' \in [Jobs -> ActiveStates \cup Terminal \cup {"none", "CANCELLED", "TIMED_OUT"}]
         /\ world' \in [Worlds -> Terminal \cup {"none", "MUTABLE", "FINALIZING"}]
<1>1. CASE Thread(w) \in Agents
  BY <1>1 DEF Raise, TypeInv, TypeOK, Stages, Terminal, ActiveStates
<1>2. CASE Thread(w) \notin Agents
  BY <1>2 DEF Raise, TypeInv, TypeOK, Stages, Terminal, ActiveStates
<1>3. QED BY <1>1, <1>2

(* A stop keeps the types of the units. *)
LEMMA StoppedTypes ==
  ASSUME TypeInv, NEW S, Stopped(S)
  PROVE  /\ unit' \in [Work -> {"none", "requested", "active", "gone"}]
         /\ used' \in [Work -> 0..Requested(policy)]
         /\ fate' \in [Work -> {"none", "passed", "failed", "stopped", "unstarted"}]
  BY DEF Stopped, TypeInv, TypeOK

(* The units' steps keep the types. *)
LEMMA UnitTypes ==
  ASSUME TypeInv, NEW w \in Work, UnitStep(w)
  PROVE  TypeInv'
<1> USE DEF TypeInv, TypeOK, threadVars, rowVars, memoryVars, historyVars, boundVars, Ended
<1>1. CASE UnitStarts(w)
  BY <1>1 DEF UnitStarts
<1>2. CASE UnitGrows(w)
  BY <1>2 DEF UnitGrows
<1>3. CASE UnitExits(w)
  BY <1>3 DEF UnitExits
<1>4. QED BY <1>1, <1>2, <1>3 DEF UnitStep

(* So do the threads' steps up to the launch. *)
LEMMA StartTypes ==
  ASSUME TypeInv, NEW w \in Work,
         RunWorld(w) \/ Measure(w) \/ Admit(w) \/ Launch(w) \/ Attach(w) \/ Running(w)
  PROVE  TypeInv'
<1> USE DEF threadVars, unitVars, rowVars, memoryVars, historyVars, boundVars, Stages
<1>1. CASE Measure(w)
  BY <1>1 DEF Measure, TypeInv, TypeOK
<1>2. CASE Admit(w)
  <2>1. CASE Outcome(w) = "ADMITTED"
    BY <1>2, <2>1 DEF Admit, TypeInv, TypeOK
  <2>2. CASE Outcome(w) # "ADMITTED"
    BY <1>2, <2>2, RaiseTypes DEF Admit, TypeInv, TypeOK
  <2>3. QED BY <2>1, <2>2
<1>3. CASE Launch(w)
  <2>1. CASE manager = "up"
    BY <1>3, <2>1 DEF Launch, TypeInv, TypeOK
  <2>2. CASE manager # "up"
    BY <1>3, <2>2, RaiseTypes DEF Launch, TypeInv, TypeOK
  <2>3. QED BY <2>1, <2>2
<1>4. CASE Attach(w)
  BY <1>4 DEF Attach, TypeInv, TypeOK
<1>5. CASE Running(w)
  BY <1>5 DEF Running, TypeInv, TypeOK, ActiveStates
<1>6. CASE RunWorld(w)
  <2>1. CASE Raise(w)
    BY <1>6, <2>1, RaiseTypes DEF RunWorld, TypeInv, TypeOK
  <2>2. CASE ~Raise(w)
    BY <1>6, <2>2 DEF RunWorld, TypeInv, TypeOK, ActiveStates
  <2>3. QED BY <2>1, <2>2
<1>7. QED BY <1>1, <1>2, <1>3, <1>4, <1>5, <1>6

(* So do the steps of an agent's run. *)
LEMMA AgentTypes ==
  ASSUME TypeInv, SupervisedInv, NEW a \in Work,
         StopIfCancelled(a) \/ Expire(a) \/ AgentEnds(a) \/ Verdict(a) \/ Finalize(a) \/ JobEnds(a)
  PROVE  TypeInv'
<1> USE DEF threadVars, rowVars, memoryVars, historyVars, boundVars, Stages
<1>1. CASE StopIfCancelled(a)
  <2>1. CASE a \in cancelled /\ manager = "up"
    BY <1>1, <2>1, StoppedTypes DEF StopIfCancelled, TypeInv, TypeOK
  <2>2. CASE ~(a \in cancelled /\ manager = "up")
    BY <1>1, <2>2 DEF StopIfCancelled, TypeInv, TypeOK, unitVars
  <2>3. QED BY <2>1, <2>2
<1>2. CASE Expire(a)
  <2>0. a \in Jobs
    BY <1>2 DEF Expire, Jobs
  <2>1. CASE manager = "up"
    BY <1>2, <2>0, <2>1, StoppedTypes DEF Expire, TypeInv, TypeOK
  <2>2. CASE manager # "up"
    BY <1>2, <2>0, <2>2 DEF Expire, TypeInv, TypeOK, unitVars
  <2>3. QED BY <2>1, <2>2
<1>3. CASE AgentEnds(a)
  BY <1>3 DEF AgentEnds, TypeInv, TypeOK, unitVars
<1>4. CASE Verdict(a)
  <2>1. CASE Raise(a) /\ UNCHANGED verdict
    BY <1>4, <2>1, RaiseTypes DEF Verdict, TypeInv, TypeOK, unitVars
  <2>2. CASE ~(Raise(a) /\ UNCHANGED verdict)
    <3>1. PICK result \in {"cancelled", "timedout", "passed", "failed"} :
            /\ verdict' = [verdict EXCEPT ![a] = result]
            /\ stage' = [v \in Work |-> IF v = a THEN IF ChecksAfter(a, result) = {} THEN "finalizing" ELSE "checking"
                                        ELSE IF v \in ChecksAfter(a, result) THEN "starting" ELSE stage[v]]
            /\ UNCHANGED <<job, world>>
      BY <1>4, <2>2 DEF Verdict
    <3>2. stage' \in [Work -> Stages]
      BY <3>1 DEF TypeInv, TypeOK
    <3>3. verdict' \in [Agents -> {"none", "passed", "failed", "cancelled", "timedout"}]
      BY <3>1 DEF TypeInv, TypeOK
    <3>4. QED BY <1>4, <3>1, <3>2, <3>3 DEF Verdict, TypeInv, TypeOK, unitVars
  <2>3. QED BY <2>1, <2>2
<1>5. CASE Finalize(a)
  <2>1. CASE Raise(a)
    BY <1>5, <2>1, RaiseTypes DEF Finalize, TypeInv, TypeOK, unitVars
  <2>2. CASE ~Raise(a)
    BY <1>5, <2>2 DEF Finalize, TypeInv, TypeOK, unitVars, Terminal
  <2>3. QED BY <2>1, <2>2
<1>6. CASE JobEnds(a)
  <2>1. a \in Agents /\ world[a] \in Terminal
    BY <1>6 DEF JobEnds, SupervisedInv
  <2>2. QED BY <1>6, <2>1 DEF JobEnds, TypeInv, TypeOK, unitVars
<1>7. QED BY <1>1, <1>2, <1>3, <1>4, <1>5, <1>6

(* So do the ends of checks, probes and simulations. *)
LEMMA ProbeTypes ==
  ASSUME TypeInv, NEW w \in Work, CheckEnds(w) \/ HealthEnds(w) \/ FutureEnds(w) \/ Overdue(w)
  PROVE  TypeInv'
<1> USE DEF threadVars, rowVars, memoryVars, historyVars, boundVars, Stages
<1>1. CASE CheckEnds(w)
  <2>1. verdict' \in [Agents -> {"none", "passed", "failed", "cancelled", "timedout"}]
    BY <1>1 DEF CheckEnds, TypeInv, TypeOK
  <2>2. stage' \in [Work -> Stages]
    BY <1>1 DEF CheckEnds, TypeInv, TypeOK
  <2>3. QED BY <1>1, <2>1, <2>2 DEF CheckEnds, TypeInv, TypeOK, unitVars
<1>2. CASE HealthEnds(w)
  <2>0. Parent[w] \in Work
    BY <1>2 DEF HealthEnds, Work, Jobs
  <2>1. CASE fate[w] = "passed"
    BY <1>2, <2>1 DEF HealthEnds, TypeInv, TypeOK, unitVars
  <2>2. CASE fate[w] # "passed" /\ (manager = "down" \/ unit[Parent[w]] = "requested")
    BY <1>2, <2>0, <2>2, RaiseTypes DEF HealthEnds, TypeInv, TypeOK, unitVars
  <2>3. CASE fate[w] # "passed" /\ ~(manager = "down" \/ unit[Parent[w]] = "requested")
    BY <1>2, <2>3, StoppedTypes DEF HealthEnds, TypeInv, TypeOK, Terminal
  <2>4. QED BY <2>1, <2>2, <2>3
<1>3. CASE FutureEnds(w)
  <2>1. CASE fate[w] = "passed"
    BY <1>3, <2>1 DEF FutureEnds, TypeInv, TypeOK, unitVars, Terminal
  <2>2. CASE fate[w] # "passed"
    BY <1>3, <2>2, RaiseTypes DEF FutureEnds, TypeInv, TypeOK, unitVars
  <2>3. QED BY <2>1, <2>2
<1>4. CASE Overdue(w)
  BY <1>4, RaiseTypes DEF Overdue, TypeInv, TypeOK, unitVars
<1>5. QED BY <1>1, <1>2, <1>3, <1>4

(* So do requests. *)
LEMMA RequestTypes ==
  ASSUME TypeInv,
         \/ \E a \in Agents : Fork(a) \/ Spawn(a) \/ CancelRead(a) \/ StopWriters(a)
         \/ ForkRaises
         \/ \E f \in Futures : Simulate(f)
         \/ \E s \in Services : StartService(s)
         \/ \E c \in cancels : CancelApply(c)
  PROVE  TypeInv'
<1> USE DEF threadVars, rowVars, memoryVars, historyVars, boundVars, Stages
<1>1. ASSUME NEW w \in Worlds, Fork(w) \/ Spawn(w) \/ Simulate(w) PROVE TypeInv'
  BY <1>1 DEF Fork, Spawn, Simulate, TypeInv, TypeOK, unitVars, ActiveStates
<1>2. ASSUME NEW s \in Services, StartService(s) PROVE TypeInv'
  BY <1>2 DEF StartService, TypeInv, TypeOK, unitVars, ActiveStates
<1>3. ASSUME NEW a \in Agents, CancelRead(a) PROVE TypeInv'
  <2>1. cancels' \subseteq Jobs \X BOOLEAN
    BY <1>3 DEF CancelRead, ActiveJobs, TypeInv, TypeOK
  <2>2. asked' \in 0..MaxCancels
    BY <1>3, SupervisionConstants DEF CancelRead, TypeInv, TypeOK
  <2>3. QED BY <1>3, <2>1, <2>2 DEF CancelRead, TypeInv, TypeOK, unitVars
<1>4. ASSUME NEW c \in cancels, CancelApply(c) PROVE TypeInv'
  <2>0. c[1] \in Jobs
    BY DEF TypeInv, TypeOK
  <2>1. CASE c[2] /\ manager = "down"
    BY <1>4, <2>0, <2>1 DEF CancelApply, TypeInv, TypeOK, unitVars
  <2>2. CASE c[2] /\ manager # "down"
    BY <1>4, <2>0, <2>2, StoppedTypes DEF CancelApply, TypeInv, TypeOK
  <2>3. CASE ~c[2]
    BY <1>4, <2>0, <2>3 DEF CancelApply, TypeInv, TypeOK, unitVars
  <2>4. QED BY <2>1, <2>2, <2>3
<1>5. ASSUME NEW a \in Agents, StopWriters(a) PROVE TypeInv'
  BY <1>5, StoppedTypes DEF StopWriters, TypeInv, TypeOK
<1>6. CASE ForkRaises
  <2>1. abandoned' \subseteq Agents
    BY <1>6 DEF ForkRaises, Born, TypeInv, TypeOK
  <2>2. QED BY <1>6, <2>1 DEF ForkRaises, TypeInv, TypeOK, unitVars
<1>7. QED BY <1>1, <1>2, <1>3, <1>4, <1>5, <1>6 DEF Worlds

(* So do outages, the daemon's end and its next start. *)
LEMMA DaemonTypes ==
  ASSUME TypeInv, ManagerDown \/ ManagerUp \/ Crash \/ Reconcile \/ Sweep
  PROVE  TypeInv'
<1> USE DEF threadVars, rowVars, memoryVars, historyVars, boundVars, Stages
<1>1. CASE ManagerDown
  BY <1>1, SupervisionConstants DEF ManagerDown, TypeInv, TypeOK, unitVars
<1>2. CASE ManagerUp
  BY <1>2 DEF ManagerUp, TypeInv, TypeOK, unitVars
<1>3. CASE Crash
  BY <1>3, SupervisionConstants DEF Crash, TypeInv, TypeOK, unitVars
<1>4. CASE Reconcile
  BY <1>4 DEF Reconcile, TypeInv, TypeOK, unitVars
<1>5. CASE Sweep
  <2>1. CASE manager = "up"
    BY <1>5, <2>1, StoppedTypes DEF Sweep, TypeInv, TypeOK, Terminal
  <2>2. CASE manager # "up"
    BY <1>5, <2>2 DEF Sweep, TypeInv, TypeOK, Terminal, unitVars
  <2>3. QED BY <2>1, <2>2
<1>6. QED BY <1>1, <1>2, <1>3, <1>4, <1>5

(* Every step keeps the types. *)
LEMMA TypeInvStep ==
  ASSUME TypeInv, SupervisedInv, [Next]_vars
  PROVE  TypeInv'
<1>1. CASE UNCHANGED vars
  BY <1>1 DEF vars, threadVars, unitVars, rowVars, memoryVars, historyVars, boundVars, TypeInv, TypeOK
<1>2. ASSUME NEW w \in Work, UnitStep(w) \/ ThreadStep(w) \/ Expire(w) \/ Overdue(w)
      PROVE  TypeInv'
  BY <1>2, UnitTypes, StartTypes, AgentTypes, ProbeTypes, RequestTypes DEF ThreadStep
<1>3. QED BY <1>1, <1>2, RequestTypes, DaemonTypes DEF Next

-----------------------------------------------------------------------------
(* Forked worlds are supervised.                                           *)

(* The daemon's first start. *)
LEMMA SupervisedInit == Init => SupervisedInv
  BY DEF Init, SupervisedInv, Worlds, Jobs, Work, ActiveStates

(* An exception ends the world and the jobs of the thread it is in, and    *)
(* touches no other agent's.                                               *)
LEMMA RaiseSupervised ==
  ASSUME TypeInv, SupervisedInv, NEW w \in Work, Raise(w), UNCHANGED <<daemon, abandoned>>
  PROVE  SupervisedInv'
<1> SUFFICES ASSUME NEW b \in Agents
             PROVE  /\ stage'[b] = "idle" => world'[b] = "none" /\ job'[b] = "none"
                    /\ stage'[b] \in {"born", "forked"} => job'[b] = "none"
                    /\ stage'[b] = "over" /\ Up' =>
                         \/ world'[b] \notin {"MUTABLE", "FINALIZING"} /\ job'[b] \notin ActiveStates
                         \/ b \in abandoned' /\ job'[b] = "none"
                    /\ stage'[b] = "serving" => world'[b] \in Terminal
  BY DEF SupervisedInv
<1>0. b \in Worlds /\ b \in Jobs /\ b \in Work /\ Thread(b) = b
  BY ThreadIsAWorld DEF Worlds, Jobs, Work
<1>1. CASE Thread(w) = b
  BY <1>0, <1>1 DEF Raise, TypeInv, TypeOK, ActiveStates, Terminal
<1>2. CASE Thread(w) \in Agents /\ Thread(w) # b
  <2>1. stage'[b] = stage[b] /\ job'[b] = job[b] /\ world'[b] = world[b]
    BY <1>0, <1>2 DEF Raise, TypeInv, TypeOK
  <2>2. QED BY <2>1 DEF SupervisedInv, Up
<1>3. CASE Thread(w) \notin Agents
  <2>1. w # b
    BY <1>0, <1>3
  <2>2. stage'[b] = stage[b] /\ job'[b] = job[b] /\ world'[b] = world[b]
    BY <1>0, <1>3, <2>1 DEF Raise, TypeInv, TypeOK
  <2>3. QED BY <2>2 DEF SupervisedInv, Up
<1>4. QED BY <1>1, <1>2, <1>3

(* A step that leaves the rows and the daemon alone, and every agent's     *)
(* thread where it was or in the middle of its run, changes nothing here.  *)
LEMMA ThreadsGoOn ==
  ASSUME SupervisedInv, UNCHANGED <<job, world, daemon, abandoned>>,
         \A b \in Agents : stage'[b] = stage[b]
                            \/ stage'[b] \notin {"idle", "born", "forked", "over", "serving"}
  PROVE  SupervisedInv'
  BY DEF SupervisedInv, Up

(* Threads keep it. *)
LEMMA ThreadSupervised ==
  ASSUME TypeInv, SupervisedInv, NEW w \in Work, ThreadStep(w)
  PROVE  SupervisedInv'
<1> USE DEF rowVars, threadVars, historyVars
<1>0. \A b \in Agents : b \in Worlds /\ b \in Jobs /\ b \in Work
  BY DEF Worlds, Jobs, Work
<1>1. CASE Measure(w) \/ Attach(w) \/ StopIfCancelled(w) \/ AgentEnds(w)
  BY <1>0, <1>1, ThreadsGoOn DEF Measure, Attach, StopIfCancelled, AgentEnds, TypeInv, TypeOK
<1>2. CASE Admit(w)
  <2>1. CASE Outcome(w) = "ADMITTED"
    BY <1>0, <1>2, <2>1, ThreadsGoOn DEF Admit, TypeInv, TypeOK
  <2>2. CASE Outcome(w) # "ADMITTED"
    BY <1>2, <2>2, RaiseSupervised DEF Admit
  <2>3. QED BY <2>1, <2>2
<1>3. CASE Launch(w)
  <2>1. CASE manager = "up"
    BY <1>0, <1>3, <2>1, ThreadsGoOn DEF Launch, TypeInv, TypeOK
  <2>2. CASE manager # "up"
    BY <1>3, <2>2, RaiseSupervised DEF Launch
  <2>3. QED BY <2>1, <2>2
<1>4. CASE Running(w)
  <2>1. \A b \in Agents : b # w => stage'[b] = stage[b] /\ job'[b] = job[b]
    BY <1>0, <1>4, Sorts DEF Running, ProbesOf, TypeInv, TypeOK
  <2>2. w \in Agents => stage'[w] = "running"
    BY <1>4, Sorts DEF Running
  <2>3. UNCHANGED <<world, daemon, abandoned>>
    BY <1>4 DEF Running
  <2>4. QED BY <2>1, <2>2, <2>3 DEF SupervisedInv, Up
<1>5. CASE Verdict(w)
  <2>1. CASE Raise(w) /\ UNCHANGED verdict
    BY <1>5, <2>1, RaiseSupervised DEF Verdict
  <2>2. CASE ~(Raise(w) /\ UNCHANGED verdict)
    <3>1. PICK result \in {"cancelled", "timedout", "passed", "failed"} :
            /\ stage' = [v \in Work |-> IF v = w THEN IF ChecksAfter(w, result) = {} THEN "finalizing" ELSE "checking"
                                        ELSE IF v \in ChecksAfter(w, result) THEN "starting" ELSE stage[v]]
            /\ UNCHANGED <<job, world, daemon, abandoned>>
      BY <1>5, <2>2 DEF Verdict
    <3>2. \A b \in Agents : stage'[b] = stage[b] \/ stage'[b] \notin {"idle", "born", "forked", "over", "serving"}
      BY <1>0, <3>1
    <3>3. QED BY <3>1, <3>2, ThreadsGoOn
  <2>3. QED BY <2>1, <2>2
<1>6. CASE CheckEnds(w)
  <2>1. \A b \in Agents : stage'[b] = stage[b] \/ stage'[b] = "finalizing"
    BY <1>0, <1>6, Sorts DEF CheckEnds, TypeInv, TypeOK
  <2>2. QED BY <1>6, <2>1, ThreadsGoOn DEF CheckEnds
<1>7. CASE HealthEnds(w)
  <2>0. Parent[w] \in Services /\ Parent[w] \in Work /\ w \in Probes /\ UNCHANGED <<daemon, abandoned>>
    BY <1>7 DEF HealthEnds, Work, Jobs
  <2>1. CASE Raise(Parent[w])
    BY <2>0, <2>1, RaiseSupervised
  <2>2. CASE ~Raise(Parent[w])
    <3>1. /\ stage' = [stage EXCEPT ![w] = "over", ![Parent[w]] = "over"]
          /\ job' = job \/ job' = [job EXCEPT ![Parent[w]] = "DEGRADED"]
          /\ world' = world
      BY <1>7, <2>2 DEF HealthEnds
    <3>2. \A b \in Agents : stage'[b] = stage[b] /\ job'[b] = job[b]
      BY <1>0, <2>0, <3>1, Sorts DEF TypeInv, TypeOK
    <3>3. QED BY <2>0, <3>1, <3>2 DEF SupervisedInv, Up
  <2>3. QED BY <2>1, <2>2
<1>8. CASE Finalize(w)
  <2>1. CASE Raise(w)
    BY <1>8, <2>1, RaiseSupervised DEF Finalize
  <2>2. CASE ~Raise(w)
    <3>1. /\ w \in Agents /\ UNCHANGED <<daemon, abandoned, job>>
          /\ stage' = [stage EXCEPT ![w] = "serving"]
          /\ \E state \in {"VALID", "DEGRADED"} : world' = [world EXCEPT ![w] = state]
      BY <1>8, <2>2 DEF Finalize
    <3>2. QED BY <1>0, <3>1 DEF SupervisedInv, TypeInv, TypeOK, Terminal, Up
  <2>3. QED BY <2>1, <2>2
<1>9. CASE JobEnds(w)
  <2>1. w \in Agents /\ world[w] \in Terminal /\ UNCHANGED <<world, daemon, abandoned>>
    BY <1>9 DEF JobEnds, SupervisedInv
  <2>2. /\ stage' = [stage EXCEPT ![w] = "over"]
        /\ \E end \in {"CANCELLED", "TIMED_OUT"} \cup Terminal : job' = [job EXCEPT ![w] = end]
    BY <1>9, <2>1 DEF JobEnds
  <2>3. QED BY <1>0, <2>1, <2>2 DEF SupervisedInv, TypeInv, TypeOK, Terminal, ActiveStates, Up
<1>10. CASE FutureEnds(w)
  <2>1. CASE Raise(w)
    BY <1>10, <2>1, RaiseSupervised DEF FutureEnds
  <2>2. CASE ~Raise(w)
    <3>1. /\ w \in Futures /\ UNCHANGED <<daemon, abandoned>>
          /\ stage' = [stage EXCEPT ![w] = "over"]
          /\ \E report \in {"VALID", "DEGRADED"} :
               world' = [world EXCEPT ![w] = report] /\ job' = [job EXCEPT ![w] = report]
      BY <1>10, <2>2 DEF FutureEnds
    <3>2. \A b \in Agents : stage'[b] = stage[b] /\ job'[b] = job[b] /\ world'[b] = world[b]
      BY <1>0, <3>1, Sorts DEF TypeInv, TypeOK
    <3>3. QED BY <3>1, <3>2 DEF SupervisedInv, Up
  <2>3. QED BY <2>1, <2>2
<1>11. CASE w \in Services /\ StartService(w)
  <2>1. \A b \in Agents : stage'[b] = stage[b] /\ job'[b] = job[b]
    BY <1>0, <1>11, Sorts DEF StartService, TypeInv, TypeOK
  <2>2. QED BY <1>11, <2>1 DEF StartService, SupervisedInv, Up
<1>12. CASE RunWorld(w)
  <2>1. CASE Raise(w)
    BY <1>12, <2>1, RaiseSupervised DEF RunWorld
  <2>2. CASE ~Raise(w)
    <3>1. /\ w \in Agents /\ UNCHANGED <<world, daemon, abandoned>>
          /\ stage' = [stage EXCEPT ![w] = "starting"] /\ job' = [job EXCEPT ![w] = "STARTING"]
      BY <1>12, <2>2 DEF RunWorld
    <3>2. QED BY <1>0, <3>1 DEF SupervisedInv, TypeInv, TypeOK, Up
  <2>3. QED BY <2>1, <2>2
<1>13. QED
  BY <1>1, <1>2, <1>3, <1>4, <1>5, <1>6, <1>7, <1>8, <1>9, <1>10, <1>11, <1>12 DEF ThreadStep

(* Every step keeps it. *)
LEMMA SupervisedStep ==
  ASSUME TypeInv, SupervisedInv, [Next]_vars
  PROVE  SupervisedInv'
<1> USE DEF rowVars, threadVars, historyVars
<1>0. \A b \in Agents : b \in Worlds /\ b \in Jobs /\ b \in Work
  BY DEF Worlds, Jobs, Work
<1>1. ASSUME NEW w \in Work, UnitStep(w) \/ Expire(w) PROVE SupervisedInv'
  BY <1>1, ThreadsGoOn DEF UnitStep, UnitStarts, UnitGrows, UnitExits, Expire
<1>2. ASSUME NEW w \in Work, Overdue(w) PROVE SupervisedInv'
  BY <1>2, RaiseSupervised DEF Overdue
<1>3. ASSUME NEW w \in Worlds, Simulate(w) PROVE SupervisedInv'
  <2>1. w \in Work /\ w \in Jobs
    BY DEF Worlds, Jobs, Work
  <2>2. /\ stage' = [stage EXCEPT ![w] = "starting"] /\ UNCHANGED <<daemon, abandoned>>
        /\ world' = [world EXCEPT ![w] = "MUTABLE"] /\ job' = [job EXCEPT ![w] = "STARTING"]
    BY <1>3 DEF Simulate
  <2>3. QED BY <1>0, <2>1, <2>2 DEF SupervisedInv, TypeInv, TypeOK, Up
<1>a. ASSUME NEW a \in Agents, Fork(a) \/ Spawn(a) PROVE SupervisedInv'
  <2>1. /\ UNCHANGED <<daemon, abandoned, job>> /\ job[a] = "none"
        /\ \E next \in {"born", "forked"} : stage' = [stage EXCEPT ![a] = next]
        /\ world' = world \/ world' = [world EXCEPT ![a] = "MUTABLE"]
    BY <1>a DEF Fork, Spawn, SupervisedInv
  <2>2. QED BY <1>0, <2>1 DEF SupervisedInv, TypeInv, TypeOK, Up
<1>b. CASE ForkRaises
  <2>1. /\ UNCHANGED <<daemon, job, world>>
        /\ \A b \in Agents : b \in abandoned => b \in abandoned'
        /\ \A b \in Agents : stage'[b] = stage[b]
                            \/ (stage[b] = "born" /\ stage'[b] = "over" /\ b \in abandoned')
    BY <1>0, <1>b DEF ForkRaises, Born
  <2>2. QED BY <2>1 DEF SupervisedInv, Up
<1>4. ASSUME NEW a \in Agents, CancelRead(a) PROVE SupervisedInv'
  BY <1>4, ThreadsGoOn DEF CancelRead
<1>5. ASSUME NEW a \in Agents, StopWriters(a) PROVE SupervisedInv'
  <2>1. UNCHANGED <<stage, world, daemon, abandoned>>
    BY <1>5 DEF StopWriters
  <2>2. \A b \in Agents : job'[b] = job[b] \/ (job[b] \in ActiveStates /\ job'[b] = "CANCELLED")
    BY <1>0, <1>5 DEF StopWriters, ActiveJobs
  <2>3. QED BY <2>1, <2>2 DEF SupervisedInv, ActiveStates, Up
<1>6. ASSUME NEW c \in cancels, CancelApply(c) PROVE SupervisedInv'
  BY <1>6, ThreadsGoOn DEF CancelApply
<1>7. CASE ManagerDown \/ ManagerUp
  BY <1>7, ThreadsGoOn DEF ManagerDown, ManagerUp
<1>8. CASE Crash
  BY <1>0, <1>8 DEF Crash, SupervisedInv, Up
<1>9. CASE Reconcile
  BY <1>9 DEF Reconcile, SupervisedInv, Up
<1>10. CASE Sweep
  <2>1. /\ stage' = stage
        /\ \A b \in Agents :
             /\ job'[b] = IF job[b] \in ActiveStates THEN "DEGRADED" ELSE job[b]
             /\ world'[b] = IF world[b] \in {"MUTABLE", "FINALIZING"} THEN "DEAD" ELSE world[b]
    BY <1>0, <1>10 DEF Sweep
  <2>2. QED BY <2>1 DEF SupervisedInv, ActiveStates, Terminal
<1>11. CASE UNCHANGED vars
  BY <1>11, ThreadsGoOn DEF vars
<1>12. QED
  BY <1>1, <1>2, <1>3, <1>a, <1>b, <1>4, <1>5, <1>6, <1>7, <1>8, <1>9, <1>10, <1>11, ThreadSupervised
     DEF Next, Worlds

-----------------------------------------------------------------------------
(* Stopped agents.                                                         *)

Early   == {"idle", "born", "forked", "starting", "measured", "reserved", "launched", "attached",
            "running", "waiting", "ended"}
Resting == {"idle", "over"}
Stops   == {"cancelled", "timedout"}

(* Before its verdict, and after one that says it was stopped, an agent's  *)
(* world is not VALID and its checks have no thread, unit or entry.        *)
StoppedInv ==
  \A a \in Agents : stage[a] \in Early \/ verdict[a] \in Stops =>
    /\ world[a] # "VALID"
    /\ \A k \in ProbesOf(a) : stage[k] \in Resting /\ unit[k] = "none" /\ ledger[k] = "none"

(* What a step may do to an agent's run: go on, and only with a verdict    *)
(* that does not say stopped reach VALID or a check.                       *)
AgentGoesOn(a) ==
  /\ stage'[a] \in Early => stage[a] \in Early
  /\ verdict'[a] \in Stops => verdict[a] \in Stops \/ stage[a] \in Early
  /\ world'[a] = "VALID" => world[a] = "VALID" \/ (stage'[a] \notin Early /\ verdict'[a] \notin Stops)
  /\ \A k \in ProbesOf(a) : stage[k] \in Resting =>
       stage'[k] \in Resting \/ (stage'[a] \notin Early /\ verdict'[a] \notin Stops)

(* What has no thread, unit or entry gets neither unit nor entry. *)
NothingFromRest ==
  \A v \in Work : stage[v] \in Resting /\ unit[v] = "none" /\ ledger[v] = "none" =>
    unit'[v] = "none" /\ ledger'[v] = "none"

(* The daemon's first start. *)
LEMMA StoppedInit == Init => StoppedInv
<1> SUFFICES ASSUME Init, NEW a \in Agents
             PROVE  /\ world[a] # "VALID"
                    /\ \A k \in ProbesOf(a) : stage[k] \in Resting /\ unit[k] = "none" /\ ledger[k] = "none"
  BY DEF StoppedInv
<1>1. a \in Worlds /\ \A k \in ProbesOf(a) : k \in Work
  BY DEF Worlds, ProbesOf, Work
<1>2. QED BY <1>1 DEF Init, Resting

(* These two are all that the invariant needs of a step. *)
LEMMA StoppedByFacts ==
  ASSUME StoppedInv, NothingFromRest, \A a \in Agents : AgentGoesOn(a)
  PROVE  StoppedInv'
<1> SUFFICES ASSUME NEW a \in Agents, stage'[a] \in Early \/ verdict'[a] \in Stops
             PROVE  /\ world'[a] # "VALID"
                    /\ \A k \in ProbesOf(a) : stage'[k] \in Resting /\ unit'[k] = "none" /\ ledger'[k] = "none"
  BY DEF StoppedInv
<1>1. AgentGoesOn(a)
  OBVIOUS
<1>2. stage[a] \in Early \/ verdict[a] \in Stops
  BY <1>1 DEF AgentGoesOn
<1>3. /\ world[a] # "VALID"
      /\ \A k \in ProbesOf(a) : stage[k] \in Resting /\ unit[k] = "none" /\ ledger[k] = "none"
  BY <1>2 DEF StoppedInv
<1>4. \A k \in ProbesOf(a) : k \in Work
  BY DEF ProbesOf, Work
<1>5. \A k \in ProbesOf(a) : unit'[k] = "none" /\ ledger'[k] = "none"
  BY <1>3, <1>4 DEF NothingFromRest
<1>6. QED BY <1>1, <1>3, <1>5 DEF AgentGoesOn

(* A stop reaches only units that are active. *)
LEMMA StopFromRest ==
  ASSUME NEW S, Stopped(S), NEW v \in Work, unit[v] = "none"
  PROVE  unit'[v] = "none"
  BY DEF Stopped

(* No step gives a unit or an entry to what has no thread. *)
LEMMA RestIsKept ==
  ASSUME TypeInv, [Next]_vars
  PROVE  NothingFromRest
<1> SUFFICES ASSUME NEW v \in Work, stage[v] \in Resting, unit[v] = "none", ledger[v] = "none"
             PROVE  unit'[v] = "none" /\ ledger'[v] = "none"
  BY DEF NothingFromRest
<1> USE DEF unitVars, Resting
<1>1. ASSUME NEW w \in Work, UnitStep(w) PROVE unit'[v] = "none" /\ ledger'[v] = "none"
  BY <1>1 DEF UnitStep, UnitStarts, UnitGrows, UnitExits, TypeInv, TypeOK
<1>2. ASSUME NEW w \in Work,
             RunWorld(w) \/ Measure(w) \/ Admit(w) \/ Launch(w) \/ Attach(w) \/ Running(w)
      PROVE  unit'[v] = "none" /\ ledger'[v] = "none"
  <2>1. CASE RunWorld(w) \/ Measure(w) \/ Running(w)
    BY <2>1 DEF RunWorld, Measure, Running
  <2>2. CASE Admit(w)
    BY <2>2 DEF Admit, TypeInv, TypeOK
  <2>3. CASE Launch(w)
    BY <2>3 DEF Launch, TypeInv, TypeOK
  <2>4. CASE Attach(w)
    BY <2>4 DEF Attach, TypeInv, TypeOK
  <2>5. QED BY <1>2, <2>1, <2>2, <2>3, <2>4
<1>3. ASSUME NEW w \in Work, StopIfCancelled(w) \/ Expire(w)
      PROVE  unit'[v] = "none" /\ ledger'[v] = "none"
  <2>1. ledger' = ledger /\ (Stopped({w}) \/ UNCHANGED unitVars)
    BY <1>3 DEF StopIfCancelled, Expire
  <2>2. QED BY <2>1, StopFromRest
<1>4. ASSUME NEW w \in Work, AgentEnds(w) \/ Verdict(w) \/ CheckEnds(w) \/ Finalize(w) \/ JobEnds(w)
                             \/ FutureEnds(w) \/ Overdue(w)
      PROVE  unit'[v] = "none" /\ ledger'[v] = "none"
  <2>1. UNCHANGED unitVars /\ (ledger' = ledger \/ ledger' = [ledger EXCEPT ![w] = "none"])
    BY <1>4 DEF AgentEnds, Verdict, CheckEnds, Finalize, JobEnds, FutureEnds, Overdue
  <2>2. QED BY <2>1 DEF TypeInv, TypeOK
<1>5. ASSUME NEW w \in Work, HealthEnds(w) PROVE unit'[v] = "none" /\ ledger'[v] = "none"
  <2>1. ledger' = [ledger EXCEPT ![w] = "none"] /\ (Stopped({Parent[w]}) \/ UNCHANGED unitVars)
    BY <1>5 DEF HealthEnds
  <2>2. QED BY <2>1, StopFromRest DEF TypeInv, TypeOK
<1>6. ASSUME NEW s \in Services, StartService(s) PROVE unit'[v] = "none" /\ ledger'[v] = "none"
  BY <1>6 DEF StartService
<1>7. ASSUME NEW w \in Worlds, Fork(w) \/ Spawn(w) \/ Simulate(w) \/ CancelRead(w)
      PROVE  unit'[v] = "none" /\ ledger'[v] = "none"
  BY <1>7 DEF Fork, Spawn, Simulate, CancelRead
<1>8. ASSUME NEW a \in Agents, StopWriters(a) PROVE unit'[v] = "none" /\ ledger'[v] = "none"
  BY <1>8, StopFromRest DEF StopWriters
<1>9. ASSUME NEW c \in cancels, CancelApply(c) PROVE unit'[v] = "none" /\ ledger'[v] = "none"
  <2>1. ledger' = ledger /\ (Stopped({c[1]}) \/ UNCHANGED unitVars)
    BY <1>9 DEF CancelApply
  <2>2. QED BY <2>1, StopFromRest
<1>10. CASE ForkRaises \/ ManagerDown \/ ManagerUp \/ Crash
  BY <1>10 DEF ForkRaises, ManagerDown, ManagerUp, Crash
<1>11. CASE Reconcile
  BY <1>11 DEF Reconcile
<1>12. CASE Sweep
  BY <1>12, StopFromRest DEF Sweep
<1>13. CASE UNCHANGED vars
  BY <1>13 DEF vars
<1>14. QED
  BY <1>1, <1>2, <1>3, <1>4, <1>5, <1>6, <1>7, <1>8, <1>9, <1>10, <1>11, <1>12, <1>13
     DEF Next, ThreadStep, Worlds

(* One thread takes a step that is none of these. *)
LEMMA OneThread ==
  ASSUME TypeInv, NEW w \in Work, NEW next, stage' = [stage EXCEPT ![w] = next],
         UNCHANGED <<verdict, world>>,
         w \in Agents /\ next \in Early => stage[w] \in Early,
         w \in Probes => stage[w] \notin Resting \/ next \in Resting
  PROVE  \A a \in Agents : AgentGoesOn(a)
<1> SUFFICES ASSUME NEW a \in Agents PROVE AgentGoesOn(a)
  OBVIOUS
<1>1. a \in Work /\ \A k \in ProbesOf(a) : k \in Work /\ k \in Probes
  BY DEF Work, Jobs, ProbesOf
<1>2. QED BY <1>1 DEF AgentGoesOn, TypeInv, TypeOK

(* An exception ends threads and yields no VALID world. *)
LEMMA RaiseGoesOn ==
  ASSUME TypeInv, NEW w \in Work, Raise(w), UNCHANGED verdict
  PROVE  \A a \in Agents : AgentGoesOn(a)
<1> SUFFICES ASSUME NEW a \in Agents PROVE AgentGoesOn(a)
  OBVIOUS
<1>1. a \in Work /\ a \in Worlds /\ \A k \in ProbesOf(a) : k \in Work
  BY DEF Work, Jobs, Worlds, ProbesOf
<1>2. \A v \in Work : stage'[v] = stage[v] \/ stage'[v] = "over"
  BY DEF Raise, TypeInv, TypeOK
<1>3. world'[a] = world[a] \/ world'[a] = "DEAD"
  BY <1>1 DEF Raise, TypeInv, TypeOK
<1>4. QED BY <1>1, <1>2, <1>3 DEF AgentGoesOn, Early, Resting

(* A step that leaves threads, verdicts and worlds alone. *)
LEMMA NoThread ==
  ASSUME UNCHANGED <<stage, verdict, world>>
  PROVE  \A a \in Agents : AgentGoesOn(a)
  BY DEF AgentGoesOn

(* Threads go on. *)
LEMMA ThreadGoesOn ==
  ASSUME TypeInv, StoppedInv, NEW w \in Work, ThreadStep(w)
  PROVE  \A a \in Agents : AgentGoesOn(a)
<1> USE DEF rowVars, threadVars
<1>0. \A a \in Agents : a \in Work /\ a \in Worlds /\ \A k \in ProbesOf(a) : k \in Work /\ k \in Probes
  BY DEF Work, Jobs, Worlds, ProbesOf
<1>1. CASE Measure(w) \/ Attach(w) \/ StopIfCancelled(w) \/ AgentEnds(w)
  <2>1. stage[w] \in Early \ Resting /\ UNCHANGED <<verdict, world>>
    BY <1>1 DEF Measure, Attach, StopIfCancelled, AgentEnds, Early, Resting
  <2>2. \E next : stage' = [stage EXCEPT ![w] = next]
    BY <1>1 DEF Measure, Attach, StopIfCancelled, AgentEnds
  <2>3. QED BY <2>1, <2>2, OneThread
<1>2. CASE Admit(w)
  <2>1. CASE Outcome(w) = "ADMITTED"
    BY <1>2, <2>1, OneThread DEF Admit, Early, Resting
  <2>2. CASE Outcome(w) # "ADMITTED"
    BY <1>2, <2>2, RaiseGoesOn DEF Admit
  <2>3. QED BY <2>1, <2>2
<1>3. CASE Launch(w)
  <2>1. CASE manager = "up"
    BY <1>3, <2>1, OneThread DEF Launch, Early, Resting
  <2>2. CASE manager # "up"
    BY <1>3, <2>2, RaiseGoesOn DEF Launch
  <2>3. QED BY <2>1, <2>2
<1>4. CASE Running(w)
  <2>1. /\ stage[w] = "attached" /\ UNCHANGED <<verdict, world>>
        /\ \A v \in Work : v # w => stage'[v] = stage[v] \/ (w \in Services /\ v \in ProbesOf(w))
    BY <1>4 DEF Running
  <2>2. \A a \in Agents : \A k \in ProbesOf(a) : ~(w \in Services /\ k \in ProbesOf(w))
    BY Sorts DEF ProbesOf
  <2>3. \A a \in Agents : a # w => stage'[a] = stage[a]
    BY <1>0, <2>1, Sorts DEF ProbesOf
  <2>4. \A a \in Agents : \A k \in ProbesOf(a) : k # w => stage'[k] = stage[k]
    BY <1>0, <2>1, <2>2
  <2>5. QED BY <2>1, <2>3, <2>4 DEF AgentGoesOn, Early, Resting
<1>5. CASE Verdict(w)
  <2>1. CASE Raise(w) /\ UNCHANGED verdict
    BY <2>1, RaiseGoesOn
  <2>2. CASE ~(Raise(w) /\ UNCHANGED verdict)
    <3>1. PICK result \in {"cancelled", "timedout", "passed", "failed"} :
            /\ verdict' = [verdict EXCEPT ![w] = result]
            /\ stage' = [v \in Work |-> IF v = w THEN IF ChecksAfter(w, result) = {} THEN "finalizing" ELSE "checking"
                                        ELSE IF v \in ChecksAfter(w, result) THEN "starting" ELSE stage[v]]
            /\ world' = world
      BY <1>5, <2>2 DEF Verdict
    <3>2. w \in Agents /\ stage[w] = "ended"
      BY <1>5 DEF Verdict
    <3>3. stage'[w] \notin Early
      BY <3>1 DEF Early
    <3>4. \A v \in Work : v # w => stage'[v] = stage[v] \/ (v \in ProbesOf(w) /\ result \notin Stops)
      BY <3>1 DEF ChecksAfter, Stops
    <3>5. verdict'[w] = result /\ \A a \in Agents : a # w => verdict'[a] = verdict[a]
      BY <3>1, <3>2 DEF TypeInv, TypeOK
    <3>6. AgentGoesOn(w)
      <4>1. \A k \in ProbesOf(w) : k # w
        BY <3>2, Sorts DEF ProbesOf
      <4>2. \A k \in ProbesOf(w) : stage'[k] = stage[k] \/ result \notin Stops
        BY <1>0, <3>2, <3>4, <4>1
      <4>3. QED BY <3>1, <3>2, <3>3, <3>5, <4>2 DEF AgentGoesOn, Early
    <3>7. ASSUME NEW a \in Agents, a # w PROVE AgentGoesOn(a)
      <4>1. \A k \in ProbesOf(a) : k # w /\ k \notin ProbesOf(w)
        BY <3>2, <3>7, Sorts DEF ProbesOf
      <4>2. \A k \in ProbesOf(a) : stage'[k] = stage[k]
        BY <1>0, <3>4, <4>1
      <4>3. stage'[a] = stage[a]
        BY <1>0, <3>4, <3>7, Sorts DEF ProbesOf
      <4>4. QED BY <3>1, <3>5, <3>7, <4>2, <4>3 DEF AgentGoesOn
    <3>8. QED BY <3>6, <3>7
  <2>3. QED BY <2>1, <2>2
<1>6. CASE CheckEnds(w)
  <2>1. /\ w \in Probes /\ Parent[w] \in Agents /\ stage[w] = "waiting" /\ world' = world
        /\ stage' = [stage EXCEPT ![w] = "over", ![Parent[w]] = "finalizing"]
        /\ verdict' = verdict \/ verdict' = [verdict EXCEPT ![Parent[w]] = "failed"]
    BY <1>6 DEF CheckEnds
  <2>2. \A v \in Work : stage'[v] = stage[v] \/ stage'[v] = "over" \/ (v = Parent[w] /\ stage'[v] = "finalizing")
    BY <2>1 DEF TypeInv, TypeOK
  <2>3. \A a \in Agents : verdict'[a] = verdict[a] \/ verdict'[a] = "failed"
    BY <2>1 DEF TypeInv, TypeOK
  <2>4. \A a \in Agents : \A k \in ProbesOf(a) : k # Parent[w]
    BY <2>1, Sorts DEF ProbesOf
  <2>5. ASSUME NEW a \in Agents PROVE AgentGoesOn(a)
    <3>1. \A k \in ProbesOf(a) : stage'[k] = stage[k] \/ stage'[k] = "over"
      BY <1>0, <2>2, <2>4
    <3>2. stage'[a] = stage[a] \/ stage'[a] \in {"over", "finalizing"}
      BY <1>0, <2>2
    <3>3. QED BY <2>1, <2>3, <3>1, <3>2 DEF AgentGoesOn, Early, Resting, Stops
  <2>6. QED BY <2>5
<1>7. CASE HealthEnds(w)
  <2>0. Parent[w] \in Work /\ UNCHANGED verdict
    BY <1>7 DEF HealthEnds, Work, Jobs
  <2>1. CASE Raise(Parent[w])
    BY <2>0, <2>1, RaiseGoesOn
  <2>2. CASE ~Raise(Parent[w])
    <3>1. stage' = [stage EXCEPT ![w] = "over", ![Parent[w]] = "over"] /\ world' = world
      BY <1>7, <2>2 DEF HealthEnds
    <3>2. \A v \in Work : stage'[v] = stage[v] \/ stage'[v] = "over"
      BY <3>1 DEF TypeInv, TypeOK
    <3>3. QED BY <1>0, <2>0, <3>1, <3>2 DEF AgentGoesOn, Early, Resting
  <2>3. QED BY <2>1, <2>2
<1>8. CASE Finalize(w)
  <2>1. CASE Raise(w)
    BY <1>8, <2>1, RaiseGoesOn DEF Finalize
  <2>2. CASE ~Raise(w)
    <3>1. /\ w \in Agents /\ UNCHANGED verdict /\ stage[w] = "finalizing"
          /\ stage' = [stage EXCEPT ![w] = "serving"]
          /\ world' = [world EXCEPT ![w] = IF verdict[w] = "passed" THEN "VALID" ELSE "DEGRADED"]
      BY <1>8, <2>2 DEF Finalize
    <3>2. \A a \in Agents : \A k \in ProbesOf(a) : stage'[k] = stage[k]
      BY <1>0, <3>1, Sorts DEF TypeInv, TypeOK
    <3>3. \A a \in Agents : a # w => stage'[a] = stage[a] /\ world'[a] = world[a]
      BY <1>0, <3>1 DEF TypeInv, TypeOK
    <3>4. /\ stage'[w] = "serving"
          /\ world'[w] = IF verdict[w] = "passed" THEN "VALID" ELSE "DEGRADED"
      BY <1>0, <3>1 DEF TypeInv, TypeOK
    <3>5. QED BY <3>1, <3>2, <3>3, <3>4 DEF AgentGoesOn, Early, Stops
  <2>3. QED BY <2>1, <2>2
<1>9. CASE JobEnds(w)
  BY <1>9, OneThread DEF JobEnds, Early, Resting
<1>10. CASE FutureEnds(w)
  <2>1. CASE Raise(w)
    BY <1>10, <2>1, RaiseGoesOn DEF FutureEnds
  <2>2. CASE ~Raise(w)
    <3>1. /\ w \in Futures /\ UNCHANGED verdict
          /\ stage' = [stage EXCEPT ![w] = "over"]
          /\ \E report \in {"VALID", "DEGRADED"} : world' = [world EXCEPT ![w] = report]
      BY <1>10, <2>2 DEF FutureEnds
    <3>2. \A a \in Agents : world'[a] = world[a] /\ stage'[a] = stage[a]
      BY <1>0, <3>1, Sorts DEF TypeInv, TypeOK
    <3>3. \A v \in Work : stage'[v] = stage[v] \/ stage'[v] = "over"
      BY <3>1 DEF TypeInv, TypeOK
    <3>4. QED BY <1>0, <3>1, <3>2, <3>3 DEF AgentGoesOn, Resting
  <2>3. QED BY <2>1, <2>2
<1>11. CASE w \in Services /\ StartService(w)
  BY <1>11, OneThread, Sorts DEF StartService, Worlds
<1>12. CASE RunWorld(w)
  <2>1. CASE Raise(w)
    BY <1>12, <2>1, RaiseGoesOn DEF RunWorld
  <2>2. CASE ~Raise(w)
    BY <1>12, <2>2, OneThread, Sorts DEF RunWorld, Early
  <2>3. QED BY <2>1, <2>2
<1>13. QED
  BY <1>1, <1>2, <1>3, <1>4, <1>5, <1>6, <1>7, <1>8, <1>9, <1>10, <1>11, <1>12 DEF ThreadStep

(* Every step keeps it. *)
LEMMA StoppedStep ==
  ASSUME TypeInv, StoppedInv, [Next]_vars
  PROVE  StoppedInv'
<1> USE DEF rowVars, threadVars
<1> SUFFICES \A a \in Agents : AgentGoesOn(a)
  BY RestIsKept, StoppedByFacts
<1>1. ASSUME NEW w \in Work, UnitStep(w) \/ Expire(w) PROVE \A a \in Agents : AgentGoesOn(a)
  BY <1>1, NoThread DEF UnitStep, UnitStarts, UnitGrows, UnitExits, Expire
<1>2. ASSUME NEW w \in Work, Overdue(w) PROVE \A a \in Agents : AgentGoesOn(a)
  BY <1>2, RaiseGoesOn DEF Overdue
<1>3. ASSUME NEW w \in Worlds, Fork(w) \/ Simulate(w) PROVE \A a \in Agents : AgentGoesOn(a)
  <2>1. w \in Work /\ w \notin Probes
    BY Sorts DEF Worlds, Jobs, Work
  <2>2. /\ stage[w] = "idle" /\ (\E next : stage' = [stage EXCEPT ![w] = next])
        /\ verdict' = verdict /\ world' = [world EXCEPT ![w] = "MUTABLE"]
    BY <1>3 DEF Fork, Simulate
  <2>3. ASSUME NEW a \in Agents PROVE AgentGoesOn(a)
    <3>1. a \in Work /\ a \in Worlds /\ \A k \in ProbesOf(a) : k \in Work /\ k # w
      BY <2>1 DEF Work, Jobs, Worlds, ProbesOf
    <3>2. \A k \in ProbesOf(a) : stage'[k] = stage[k]
      BY <2>2, <3>1 DEF TypeInv, TypeOK
    <3>3. world'[a] = world[a] \/ world'[a] = "MUTABLE"
      BY <2>2, <3>1 DEF TypeInv, TypeOK
    <3>4. stage'[a] = stage[a] \/ stage[a] = "idle"
      BY <2>2, <3>1 DEF TypeInv, TypeOK
    <3>5. QED BY <2>2, <3>2, <3>3, <3>4 DEF AgentGoesOn, Early
  <2>4. QED BY <2>3
<1>a. ASSUME NEW a \in Agents, Spawn(a) PROVE \A b \in Agents : AgentGoesOn(b)
  BY <1>a, OneThread, Sorts DEF Spawn, Early, Work, Jobs
<1>b. CASE ForkRaises
  <2>1. UNCHANGED <<verdict, world>> /\ \A v \in Work : stage'[v] = stage[v] \/ stage'[v] = "over"
    BY <1>b DEF ForkRaises
  <2>2. QED BY <2>1 DEF AgentGoesOn, Early, Resting, ProbesOf, Work, Jobs
<1>4. ASSUME NEW a \in Agents, CancelRead(a) \/ StopWriters(a) PROVE \A b \in Agents : AgentGoesOn(b)
  BY <1>4, NoThread DEF CancelRead, StopWriters
<1>5. ASSUME NEW c \in cancels, CancelApply(c) PROVE \A a \in Agents : AgentGoesOn(a)
  BY <1>5, NoThread DEF CancelApply
<1>6. CASE ManagerDown \/ ManagerUp \/ Reconcile
  BY <1>6, NoThread DEF ManagerDown, ManagerUp, Reconcile
<1>7. CASE Crash
  <2>1. UNCHANGED <<verdict, world>> /\ stage' = [w \in Work |-> IF stage[w] = "idle" THEN "idle" ELSE "over"]
    BY <1>7 DEF Crash
  <2>2. QED BY <2>1 DEF AgentGoesOn, Early, Resting, ProbesOf, Work, Jobs
<1>8. CASE Sweep
  <2>1. /\ UNCHANGED <<stage, verdict>>
        /\ world' = [w \in Worlds |-> IF world[w] \in {"MUTABLE", "FINALIZING"} THEN "DEAD" ELSE world[w]]
    BY <1>8 DEF Sweep
  <2>2. QED BY <2>1 DEF AgentGoesOn, Worlds
<1>9. CASE UNCHANGED vars
  BY <1>9, NoThread DEF vars
<1>10. QED
  BY <1>1, <1>2, <1>3, <1>a, <1>b, <1>4, <1>5, <1>6, <1>7, <1>8, <1>9, ThreadGoesOn DEF Next, Worlds

-----------------------------------------------------------------------------
(* Entries of the ledger.                                                  *)

Unlaunched == {"idle", "born", "forked", "starting", "measured", "reserved"}

(* Before the launch of an agent or a service no entry of it names a unit. *)
EntriesInv ==
  \A w \in Agents \cup Services : stage[w] \in Unlaunched => ledger[w] # "named"

(* What a step may do to the entry of w: it does not get its name before   *)
(* the launch, and does not lose it while the unit runs.                   *)
EntryGoesOn(w) ==
  /\ stage'[w] \in Unlaunched => stage[w] \in Unlaunched
  /\ stage'[w] \in Unlaunched /\ ledger'[w] = "named" => ledger[w] = "named"
  /\ ledger[w] = "named" /\ unit[w] = "active" => ledger'[w] = "named"

(* The daemon's first start. *)
LEMMA EntriesInit == Init => EntriesInv
  BY DEF Init, EntriesInv, Work, Jobs

(* An exception ends threads. *)
LEMMA RaiseEnds ==
  ASSUME TypeInv, NEW w \in Work, Raise(w)
  PROVE  \A v \in Work : stage'[v] = stage[v] \/ stage'[v] = "over"
  BY DEF Raise, TypeInv, TypeOK

(* Threads keep entries. *)
LEMMA ThreadKeepsEntries ==
  ASSUME TypeInv, EntriesInv, NEW w \in Work, ThreadStep(w) \/ Overdue(w),
         NEW v \in Agents \cup Services
  PROVE  EntryGoesOn(v)
<1> USE DEF unitVars, EntryGoesOn, Unlaunched
<1>0. v \in Work /\ v \notin Probes /\ v \notin Futures
  BY Sorts DEF Work, Jobs, Worlds
<1>1. CASE Measure(w)
  BY <1>0, <1>1 DEF Measure, TypeInv, TypeOK
<1>2. CASE Admit(w)
  <2>1. CASE Outcome(w) = "ADMITTED"
    BY <1>0, <1>2, <2>1 DEF Admit, TypeInv, TypeOK, EntriesInv
  <2>2. CASE Outcome(w) # "ADMITTED"
    BY <1>0, <1>2, <2>2, RaiseEnds DEF Admit
  <2>3. QED BY <2>1, <2>2
<1>3. CASE Launch(w)
  <2>1. CASE manager = "up"
    BY <1>0, <1>3, <2>1 DEF Launch, TypeInv, TypeOK
  <2>2. CASE manager # "up"
    <3>1. stage'[v] = stage[v] \/ stage'[v] = "over"
      BY <1>0, <1>3, <2>2, RaiseEnds DEF Launch
    <3>2. ledger' = [ledger EXCEPT ![w] = "none"] /\ stage[w] = "reserved"
      BY <1>3, <2>2 DEF Launch
    <3>3. QED BY <1>0, <3>1, <3>2 DEF EntriesInv, TypeInv, TypeOK
  <2>3. QED BY <2>1, <2>2
<1>4. CASE Attach(w)
  BY <1>0, <1>4 DEF Attach, TypeInv, TypeOK
<1>5. CASE Running(w)
  BY <1>0, <1>5 DEF Running, ProbesOf, TypeInv, TypeOK
<1>6. CASE StopIfCancelled(w) \/ AgentEnds(w) \/ JobEnds(w)
  <2>1. ledger' = ledger \/ (ledger' = [ledger EXCEPT ![w] = "none"] /\ unit[w] = "gone")
    BY <1>6 DEF StopIfCancelled, AgentEnds, JobEnds
  <2>2. \E next \in {"waiting", "ended", "over"} : stage' = [stage EXCEPT ![w] = next]
    BY <1>6 DEF StopIfCancelled, AgentEnds, JobEnds
  <2>3. QED BY <1>0, <2>1, <2>2 DEF TypeInv, TypeOK
<1>7. CASE Verdict(w)
  <2>1. ledger' = ledger
    BY <1>7 DEF Verdict
  <2>2. CASE Raise(w)
    BY <1>0, <2>1, <2>2, RaiseEnds
  <2>3. CASE ~Raise(w)
    <3>1. \E result \in {"cancelled", "timedout", "passed", "failed"} :
            stage' = [u \in Work |-> IF u = w THEN IF ChecksAfter(w, result) = {} THEN "finalizing" ELSE "checking"
                                     ELSE IF u \in ChecksAfter(w, result) THEN "starting" ELSE stage[u]]
      BY <1>7, <2>3 DEF Verdict
    <3>2. QED BY <1>0, <2>1, <3>1 DEF ChecksAfter, ProbesOf
  <2>4. QED BY <2>2, <2>3
<1>8. CASE CheckEnds(w)
  <2>1. /\ w \in Probes /\ ledger' = [ledger EXCEPT ![w] = "none"]
        /\ stage' = [stage EXCEPT ![w] = "over", ![Parent[w]] = "finalizing"]
    BY <1>8 DEF CheckEnds
  <2>2. QED BY <1>0, <2>1 DEF TypeInv, TypeOK
<1>9. CASE HealthEnds(w)
  <2>0. w \in Probes /\ ledger' = [ledger EXCEPT ![w] = "none"] /\ Parent[w] \in Work
    BY <1>9 DEF HealthEnds, Work, Jobs
  <2>1. CASE Raise(Parent[w])
    BY <1>0, <2>0, <2>1, RaiseEnds DEF TypeInv, TypeOK
  <2>2. CASE ~Raise(Parent[w])
    <3>1. stage' = [stage EXCEPT ![w] = "over", ![Parent[w]] = "over"]
      BY <1>9, <2>2 DEF HealthEnds
    <3>2. QED BY <1>0, <2>0, <3>1 DEF TypeInv, TypeOK
  <2>3. QED BY <2>1, <2>2
<1>10. CASE Finalize(w)
  <2>1. CASE Raise(w)
    BY <1>0, <1>10, <2>1, RaiseEnds DEF Finalize
  <2>2. CASE ~Raise(w)
    BY <1>0, <1>10, <2>2 DEF Finalize, TypeInv, TypeOK
  <2>3. QED BY <2>1, <2>2
<1>11. CASE FutureEnds(w) \/ Overdue(w)
  <2>1. w # v /\ ledger' = [ledger EXCEPT ![w] = "none"]
    BY <1>0, <1>11 DEF FutureEnds, Overdue
  <2>2. stage'[v] = stage[v] \/ stage'[v] = "over"
    <3>1. CASE Raise(w)
      BY <1>0, <3>1, RaiseEnds
    <3>2. CASE ~Raise(w)
      BY <1>0, <1>11, <3>2 DEF FutureEnds, Overdue, TypeInv, TypeOK
    <3>3. QED BY <3>1, <3>2
  <2>3. QED BY <1>0, <2>1, <2>2 DEF TypeInv, TypeOK
<1>12. CASE w \in Services /\ StartService(w)
  BY <1>0, <1>12 DEF StartService, TypeInv, TypeOK
<1>13. CASE RunWorld(w)
  <2>1. CASE Raise(w)
    BY <1>0, <1>13, <2>1, RaiseEnds DEF RunWorld
  <2>2. CASE ~Raise(w)
    BY <1>0, <1>13, <2>2 DEF RunWorld, TypeInv, TypeOK
  <2>3. QED BY <2>1, <2>2
<1>14. QED
  BY <1>1, <1>2, <1>3, <1>4, <1>5, <1>6, <1>7, <1>8, <1>9, <1>10, <1>11, <1>12, <1>13 DEF ThreadStep

(* Every step keeps entries. *)
LEMMA EntriesStep ==
  ASSUME TypeInv, EntriesInv, [Next]_vars, NEW v \in Agents \cup Services
  PROVE  EntryGoesOn(v)
<1> USE DEF unitVars, threadVars, EntryGoesOn, Unlaunched
<1>0. v \in Work
  BY DEF Work, Jobs
<1>1. ASSUME NEW w \in Work, UnitStep(w) \/ Expire(w) PROVE EntryGoesOn(v)
  BY <1>1 DEF UnitStep, UnitStarts, UnitGrows, UnitExits, Expire
<1>2. ASSUME NEW w \in Worlds, Fork(w) \/ Spawn(w) \/ Simulate(w) PROVE EntryGoesOn(v)
  BY <1>0, <1>2 DEF Fork, Spawn, Simulate, TypeInv, TypeOK
<1>3. ASSUME NEW a \in Agents, CancelRead(a) \/ StopWriters(a) PROVE EntryGoesOn(v)
  BY <1>3 DEF CancelRead, StopWriters
<1>4. ASSUME NEW c \in cancels, CancelApply(c) PROVE EntryGoesOn(v)
  BY <1>4 DEF CancelApply
<1>5. CASE ManagerDown \/ ManagerUp \/ Sweep
  BY <1>5 DEF ManagerDown, ManagerUp, Sweep
<1>6. CASE Crash \/ ForkRaises
  BY <1>0, <1>6 DEF Crash, ForkRaises
<1>7. CASE Reconcile
  BY <1>0, <1>7 DEF Reconcile, IsLive
<1>8. CASE UNCHANGED vars
  BY <1>8 DEF vars
<1>9. QED
  BY <1>1, <1>2, <1>3, <1>4, <1>5, <1>6, <1>7, <1>8, ThreadKeepsEntries DEF Next, Worlds

-----------------------------------------------------------------------------
(* The inductive invariant: each part needs the types, which need the      *)
(* second to know what a job may be set to.                                *)
JobsInv == TypeInv /\ SupervisedInv /\ StoppedInv /\ EntriesInv

(* It holds of every behaviour: nothing here depends on fairness. *)
THEOREM JobsInvariance == Spec => []JobsInv
<1>1. Init => JobsInv
  BY TypeInvInit, SupervisedInit, StoppedInit, EntriesInit DEF JobsInv
<1>2. JobsInv /\ [Next]_vars => JobsInv'
  <2> SUFFICES ASSUME JobsInv, [Next]_vars PROVE JobsInv'
    OBVIOUS
  <2>1. TypeInv' /\ SupervisedInv' /\ StoppedInv'
    BY TypeInvStep, SupervisedStep, StoppedStep DEF JobsInv
  <2>2. EntriesInv'
    BY EntriesStep DEF EntriesInv, EntryGoesOn, JobsInv
  <2>3. QED BY <2>1, <2>2 DEF JobsInv
<1>3. QED BY <1>1, <1>2, PTL DEF Spec

(* Every variable keeps its type; a job ends in a state that table jobs    *)
(* knows because its world is terminal by then (runner.py, run; store.py,  *)
(* update_job).                                                            *)
THEOREM SupervisionTypes == Spec => []TypeOK
<1>1. JobsInv => TypeOK
  BY DEF JobsInv, TypeInv
<1>2. QED BY <1>1, JobsInvariance, PTL

(* While the daemon serves, a forked world that is not terminal, or whose  *)
(* job is active, has a thread or a request under way, whatever was        *)
(* refused, raised or crashed; the exception is a request that raised      *)
(* before the thread was there, whose world never gets a job (fork.py,     *)
(* _terminate_failed_start; store.py, sweep_unsupervised; controller.py,   *)
(* _fork, _race).                                                          *)
THEOREM WorldsAreSupervised == Spec => []ForkedWorldsAreSupervised
<1>1. JobsInv => ForkedWorldsAreSupervised
  BY DEF JobsInv, SupervisedInv, ForkedWorldsAreSupervised, ActiveStates
<1>2. QED BY <1>1, JobsInvariance, PTL

(* A cancel or a timeout, whenever it came, never ends in a VALID world or *)
(* in a check of the half-finished tree (runner.py, run).                  *)
THEOREM StoppedIsNeverValid == Spec => []StoppedNeverValid
<1>1. JobsInv => StoppedNeverValid
  BY DEF JobsInv, StoppedInv, StoppedNeverValid, Stops
<1>2. QED BY <1>1, JobsInvariance, PTL

(* No admission, release or reconcile takes the entry of an agent or a     *)
(* service whose unit runs (admission.py, admit, reconcile).               *)
THEOREM EntriesOutliveOutages == Spec => RunningKeepsItsEntry
<1>1. JobsInv /\ [Next]_vars =>
        [\A w \in Agents \cup Services :
           ledger[w] = "named" /\ unit[w] = "active" => ledger'[w] = "named"]_vars
  BY EntriesStep DEF JobsInv, EntryGoesOn
<1>2. QED BY <1>1, JobsInvariance, PTL DEF Spec, RunningKeepsItsEntry

-----------------------------------------------------------------------------
(* Sums.  What a fold over a finite set computes is not defined by its     *)
(* recursion alone: that the recursion has a solution is shown first, by   *)
(* the least size of a set for which it would have none.                   *)

(* A set of naturals has a least member. *)
LEMMA LeastNatural ==
  ASSUME NEW T \in SUBSET Nat, T # {}
  PROVE  \E x \in T : \A y \in T : x <= y
<1> DEFINE R == {ss \in Nat \X Nat : ss[1] < ss[2]}
<1>1. IsWellFoundedOn(R, Nat)
  BY NatLessThanWellFounded, Zenon DEF OpToRel
<1>2. \E x \in T : \A y \in T : <<y, x>> \notin R
  BY <1>1, WFMin
<1>3. \A x, y \in Nat : <<y, x>> \in R <=> y < x
  OBVIOUS
<1> HIDE DEF R
<1>4. \A x \in T : x \in Nat
  OBVIOUS
<1>5. PICK x \in T : \A y \in T : <<y, x>> \notin R
  BY <1>2
<1>6. ASSUME NEW y \in T PROVE x <= y
  <2>1. x \in Nat /\ y \in Nat
    BY <1>4
  <2>2. ~(y < x)
    BY <1>3, <1>5, <2>1
  <2>3. QED BY <2>1, <2>2
<1>7. QED BY <1>6

(* The member that a fold takes out of a set first. *)
Pick(s) == CHOOSE x \in s : TRUE

(* g[s] is the sum of f over s, for every subset s of S with at most k     *)
(* members.                                                                *)
Sums(g, S, k, f) ==
  \A s \in SUBSET S : Cardinality(s) <= k =>
     /\ g[s] \in Int
     /\ g[s] = IF s = {} THEN 0 ELSE f[Pick(s)] + g[s \ {Pick(s)}]

(* There is such a function for every k: from k to k + 1 it is extended.   *)
LEMMA SumExists ==
  ASSUME NEW S, IsFiniteSet(S), NEW f, \A x \in S : f[x] \in Int, NEW k \in Nat
  PROVE  \E g \in [SUBSET S -> Int] : Sums(g, S, k, f)
<1>0. \A s \in SUBSET S : /\ IsFiniteSet(s) /\ Cardinality(s) \in Nat
                          /\ s # {} => /\ Pick(s) \in s
                                       /\ Cardinality(s \ {Pick(s)}) = Cardinality(s) - 1
                                       /\ Cardinality(s) # 0
  BY FS_Subset, FS_CardinalityType, FS_RemoveElement, FS_EmptySet DEF Pick
<1> DEFINE Bad == {n \in Nat : ~\E g \in [SUBSET S -> Int] : Sums(g, S, n, f)}
<1> SUFFICES ASSUME Bad # {} PROVE FALSE
  OBVIOUS
<1>1. PICK n \in Bad : \A m \in Bad : n <= m
  BY LeastNatural
<1>a. n \in Nat
  OBVIOUS
<1>2. n # 0
  <2>1. ASSUME NEW s \in SUBSET S, Cardinality(s) <= 0 PROVE s = {}
    <3>1. Cardinality(s) \in Nat
      BY <1>0
    <3>2. Cardinality(s) = 0
      BY <2>1, <3>1
    <3>3. QED BY <1>0, <3>2
  <2>4. Sums([s \in SUBSET S |-> 0], S, 0, f)
    BY <2>1 DEF Sums
  <2>2. [s \in SUBSET S |-> 0] \in [SUBSET S -> Int]
    OBVIOUS
  <2>3. QED BY <2>4, <2>2
<1>3. n - 1 \in Nat /\ n - 1 \notin Bad
  <2>1. n - 1 \in Nat /\ ~(n <= n - 1)
    BY <1>2, <1>a
  <2>2. QED BY <1>1, <2>1
<1>4. PICK g \in [SUBSET S -> Int] : Sums(g, S, n - 1, f)
  BY <1>3
<1> DEFINE h == [s \in SUBSET S |-> IF Cardinality(s) <= n - 1 \/ s = {} THEN g[s]
                                    ELSE f[Pick(s)] + g[s \ {Pick(s)}]]
<1>5. h \in [SUBSET S -> Int]
  BY <1>0
<1>6. Sums(h, S, n, f)
  <2> SUFFICES ASSUME NEW s \in SUBSET S, Cardinality(s) <= n
               PROVE  /\ h[s] \in Int
                      /\ h[s] = IF s = {} THEN 0 ELSE f[Pick(s)] + h[s \ {Pick(s)}]
    BY DEF Sums
  <2>1. h[s] \in Int
    BY <1>5
  <2>2. CASE s = {}
    BY <1>0, <1>3, <1>4, <2>2, FS_EmptySet DEF Sums
  <2>3. CASE s # {}
    <3>1. /\ s \ {Pick(s)} \in SUBSET S
          /\ Cardinality(s \ {Pick(s)}) <= n - 1
      BY <1>0, <2>3
    <3>2. h[s \ {Pick(s)}] = g[s \ {Pick(s)}]
      BY <3>1
    <3>3. CASE Cardinality(s) <= n - 1
      BY <1>4, <2>3, <3>2, <3>3 DEF Sums
    <3>4. CASE ~(Cardinality(s) <= n - 1)
      <4>1. h[s] = f[Pick(s)] + g[s \ {Pick(s)}]
        BY <2>3, <3>4
      <4> HIDE DEF h
      <4>2. QED BY <2>1, <2>3, <3>2, <4>1
    <3>5. QED BY <2>1, <2>3, <3>3, <3>4
  <2>4. QED BY <2>1, <2>2, <2>3
<1>7. QED BY <1>1, <1>5, <1>6

(* g solves the recursion that defines a sum over S. *)
IsSum(g, S, f) ==
   g = [s \in SUBSET S |-> IF s = {} THEN 0 ELSE f[Pick(s)] + g[s \ {Pick(s)}]]

(* Over a finite set the recursion has a solution. *)
LEMMA SumRecursion ==
  ASSUME NEW S, IsFiniteSet(S), NEW f, \A x \in S : f[x] \in Int
  PROVE  \E g : IsSum(g, S, f)
<1>1. Cardinality(S) \in Nat
  BY FS_CardinalityType
<1>2. PICK g \in [SUBSET S -> Int] : Sums(g, S, Cardinality(S), f)
  BY <1>1, SumExists
<1>3. \A s \in SUBSET S : Cardinality(s) <= Cardinality(S)
  BY FS_Subset
<1>4. QED BY <1>2, <1>3 DEF Sums, IsSum

(* What SumFunction is. *)
LEMMA SumIs ==
  ASSUME NEW f
  PROVE  SumFunction(f) = (CHOOSE g : IsSum(g, DOMAIN f, f))[DOMAIN f]
  BY Zenon DEF SumFunction, SumFunctionOnSet, FoldFunctionOnSet, MapThenFoldSet, IsSum, Pick

(* g is the recursion of the sum of f over the subsets of S. *)
Unfolds(g, S, f) ==
  /\ SumFunction(f) = g[S]
  /\ \A s \in SUBSET S : g[s] = IF s = {} THEN 0 ELSE f[Pick(s)] + g[s \ {Pick(s)}]

(* The sum of naturals f over S, by its recursion. *)
LEMMA SumUnfolds ==
  ASSUME NEW S, IsFiniteSet(S), NEW f \in [S -> Nat]
  PROVE  \E g : Unfolds(g, S, f)
<1> DEFINE g == CHOOSE h : IsSum(h, S, f)
<1>1. IsSum(g, S, f)
  <2>1. \E h : IsSum(h, S, f)
    <3>1. \A x \in S : f[x] \in Int
      OBVIOUS
    <3>2. QED BY <3>1, SumRecursion
  <2>2. QED BY <2>1
<1>2. DOMAIN f = S
  OBVIOUS
<1>3. SumFunction(f) = g[S]
  BY <1>2, SumIs
<1> HIDE DEF g
<1>4. Unfolds(g, S, f)
  BY <1>1, <1>3 DEF IsSum, Unfolds
<1>5. QED BY <1>4

(* Two sums of naturals over S together are at least what any of their     *)
(* terms contribute together.                                              *)
LEMMA SumsAreAtLeast ==
  ASSUME NEW S, IsFiniteSet(S), NEW f \in [S -> Nat], NEW e \in [S -> Nat],
         NEW B \in SUBSET S, NEW b \in Nat, \A x \in B : f[x] + e[x] >= b
  PROVE  /\ SumFunction(f) \in Nat /\ SumFunction(e) \in Nat
         /\ SumFunction(f) + SumFunction(e) >= Cardinality(B) * b
<1>1. PICK g : Unfolds(g, S, f)
  BY SumUnfolds
<1>2. PICK h : Unfolds(h, S, e)
  BY SumUnfolds
<1> USE DEF Unfolds
<1>0. \A s \in SUBSET S : /\ IsFiniteSet(s) /\ Cardinality(s) \in Nat
                          /\ s # {} => Pick(s) \in s
  BY FS_Subset, FS_CardinalityType DEF Pick
<1> DEFINE Good(s) == g[s] \in Nat /\ h[s] \in Nat /\ g[s] + h[s] >= Cardinality(s \cap B) * b
<1>3. ASSUME NEW s \in SUBSET S, s # {}, Good(s \ {Pick(s)}) PROVE Good(s)
  <2> DEFINE x == Pick(s)
             t == s \ {x}
             n == Cardinality(t \cap B)
  <2>1. /\ x \in s /\ f[x] \in Nat /\ e[x] \in Nat
        /\ g[s] = f[x] + g[t] /\ h[s] = e[x] + h[t]
    BY <1>0, <1>1, <1>2, <1>3
  <2>2. n \in Nat /\ g[t] \in Nat /\ h[t] \in Nat /\ g[t] + h[t] >= n * b /\ n * b \in Nat
    BY <1>0, <1>3
  <2>3. CASE x \in B
    <3>1. t \cap B = (s \cap B) \ {x} /\ x \in s \cap B /\ s \cap B \in SUBSET S
      BY <2>1, <2>3
    <3>2. Cardinality(s \cap B) = n + 1
      <4>1. IsFiniteSet(s \cap B) /\ Cardinality(s \cap B) \in Nat
        BY <1>0, <3>1
      <4>2. Cardinality((s \cap B) \ {x}) = Cardinality(s \cap B) - 1
        <5> HIDE DEF x
        <5> QED BY <3>1, <4>1, FS_RemoveElement
      <4>3. n = Cardinality(s \cap B) - 1
        BY <3>1, <4>2
      <4> HIDE DEF n
      <4>4. QED BY <4>1, <4>3
    <3>3. (n + 1) * b = n * b + b /\ f[x] + e[x] >= b
      BY <2>2, <2>3
    <3> HIDE DEF n, x, t
    <3>4. QED BY <2>1, <2>2, <3>2, <3>3
  <2>4. CASE x \notin B
    <3>1. s \cap B = t \cap B
      BY <2>1, <2>4
    <3>2. Cardinality(s \cap B) * b = n * b
      BY <3>1
    <3> HIDE DEF n, x, t
    <3>3. QED BY <2>1, <2>2, <3>2
  <2>5. QED BY <2>3, <2>4
<1>4. Good({})
  <2>1. g[{}] = 0 /\ h[{}] = 0
    BY <1>1, <1>2
  <2>2. {} \cap B = {} /\ Cardinality({}) = 0 /\ 0 * b = 0
    BY FS_EmptySet
  <2>3. QED BY <2>1, <2>2
<1> DEFINE Bad == {s \in SUBSET S : ~Good(s)}
<1>5. Bad = {}
  <2> HIDE DEF Good
  <2> SUFFICES ASSUME Bad # {} PROVE FALSE
    OBVIOUS
  <2> DEFINE Sizes == {Cardinality(s) : s \in Bad}
  <2>1. Sizes \in SUBSET Nat /\ Sizes # {}
    BY <1>0
  <2>2. PICK n \in Sizes : \A m \in Sizes : n <= m
    <3> HIDE DEF Sizes
    <3> QED BY <2>1, LeastNatural
  <2>3. PICK s \in Bad : n = Cardinality(s)
    OBVIOUS
  <2>4. s # {} /\ s \in SUBSET S /\ s \ {Pick(s)} \in SUBSET S
    BY <1>4
  <2>5. Pick(s) \in s /\ IsFiniteSet(s) /\ n \in Nat
    BY <1>0, <2>3, <2>4
  <2>6. Cardinality(s \ {Pick(s)}) = n - 1
    BY <2>3, <2>5, FS_RemoveElement
  <2>7. n - 1 \notin Sizes
    <3> HIDE DEF Sizes
    <3> QED BY <2>2, <2>5
  <2>8. Good(s \ {Pick(s)})
    BY <2>4, <2>6, <2>7
  <2>9. QED BY <1>3, <2>4, <2>8
<1>6. Good(S)
  <2> HIDE DEF Good
  <2> QED BY <1>5
<1>7. S \cap B = B
  OBVIOUS
<1>8. QED BY <1>1, <1>2, <1>6, <1>7

-----------------------------------------------------------------------------
(* Admission.  The memory a thread saw is never more than there is, a      *)
(* workload between its admission and its unit's name has an entry without *)
(* unit, and the promises fit.                                             *)
PromisesInv ==
  /\ \A w \in Work : seen[w] = None \/ seen[w].available \in 0..Total
  /\ \A w \in Work : stage[w] \in {"reserved", "launched"} => ledger[w] = "bare"
  /\ PromisesFit

(* What the ledger withholds and what the units have taken cover, between  *)
(* them, the promises to all that are counted.                             *)
LEMMA CountedAreCovered ==
  ASSUME TypeInv
  PROVE  LET withheld == Withheld(Counted, Requested(policy), [v \in Work |-> Usage(v)])
         IN  /\ withheld \in Nat /\ SumFunction(used) \in Nat
             /\ withheld + SumFunction(used) >= Cardinality(Counted) * Requested(policy)
<1> DEFINE b == Requested(policy)
           f == [r \in Work |-> IF r \in Counted THEN Unused(b, [v \in Work |-> Usage(v)][r]) ELSE 0]
<1>1. IsFiniteSet(Work) /\ Counted \subseteq Work
  BY SupervisionConstants DEF Counted, Reserved
<1>2. b \in Nat /\ used \in [Work -> Nat]
  BY DEF TypeInv, TypeOK
<1>3. ASSUME NEW r \in Work PROVE f[r] \in Nat /\ (r \in Counted => f[r] + used[r] >= b)
  <2>1. f[r] = IF r \in Counted THEN Unused(b, Usage(r)) ELSE 0
    OBVIOUS
  <2>2. Usage(r) = None \/ (Usage(r) = used[r] /\ Usage(r) \in 0..b)
    BY DEF Usage, TypeInv, TypeOK
  <2> HIDE DEF f, b
  <2>3. used[r] \in Nat
    BY <1>2
  <2>4. QED BY <1>2, <2>1, <2>2, <2>3, AdmissionConstants DEF Unused
<1>4. f \in [Work -> Nat]
  BY <1>3
<1>5. Withheld(Counted, b, [v \in Work |-> Usage(v)]) = SumFunction(f)
  BY DEF Withheld
<1> HIDE DEF f, b
<1>6. /\ SumFunction(f) \in Nat /\ SumFunction(used) \in Nat
      /\ SumFunction(f) + SumFunction(used) >= Cardinality(Counted) * b
  BY <1>1, <1>2, <1>3, <1>4, SumsAreAtLeast
<1>7. QED BY <1>5, <1>6 DEF b

(* Fewer promises need no more. *)
LEMMA FewerPromisesFit ==
  ASSUME TypeInv, PromisesFit, UNCHANGED <<policy, overtaken>>, Promised' \subseteq Promised
  PROVE  PromisesFit'
<1>1. IsFiniteSet(Promised) /\ Cardinality(Promised) \in Nat
  BY SupervisionConstants, FS_Subset, FS_CardinalityType DEF Promised, Reserved
<1>2. Cardinality(Promised') \in Nat /\ Cardinality(Promised') <= Cardinality(Promised)
  BY <1>1, FS_Subset, FS_CardinalityType
<1>3. Requested(policy) \in Nat /\ Requested(policy)' = Requested(policy)
  BY DEF TypeInv, Requested, Unmetered, Declared
<1>4. \A m, n, b \in Nat : m <= n => m * b <= n * b /\ m * b \in Nat /\ n * b \in Nat
  OBVIOUS
<1>5. SUFFICES ASSUME Promised' # {}, ~overtaken
               PROVE  Cardinality(Promised') * Requested(policy) + Floor <= Total
  BY <1>3 DEF PromisesFit
<1>6. Cardinality(Promised) * Requested(policy) + Floor <= Total
  BY <1>5 DEF PromisesFit
<1>7. QED
  BY <1>1, <1>2, <1>3, <1>4, <1>6, AdmissionConstants, SupervisionConstants

(* An admission that overlooks nothing fits beside all of them: what it    *)
(* saw was free is free, and whoever is promised something is counted.     *)
LEMMA AdmittedFits ==
  ASSUME TypeInv, PromisesInv, NEW w \in Work, Admit(w), Outcome(w) = "ADMITTED"
  PROVE  PromisesFit'
<1> SUFFICES ASSUME ~overtaken'
             PROVE  Cardinality(Promised') * Requested(policy)' + Floor <= Total
  BY DEF PromisesFit
<1> DEFINE b == Requested(policy)
           withheld == Withheld(Counted, b, [v \in Work |-> Usage(v)])
           c == Cardinality(Counted)
           taken == SumFunction(used)
<1>1. b \in Nat /\ withheld \in Nat /\ taken \in Nat /\ withheld + taken >= c * b
  BY CountedAreCovered DEF TypeInv
<1>2. b <= seen[w].available - withheld - Floor /\ seen[w] # None
  BY DEF Outcome, AdmissionOutcome
<1>3. seen[w].available \in 0..Total
  BY <1>2 DEF PromisesInv
<1>4. ~Overlooks(w)
  BY DEF Admit
<1>5. MemAvailable = IF Total - taken < 0 THEN 0 ELSE Total - taken
  BY DEF MemAvailable
<1>6. MemAvailable \in Nat /\ seen[w].available <= MemAvailable
  <2>1. MemAvailable \in Nat
    BY <1>1, <1>5, SupervisionConstants
  <2>2. ~(seen[w].available > MemAvailable)
    BY <1>4 DEF Overlooks
  <2>3. QED BY <1>3, <2>1, <2>2
<1>7. IsFiniteSet(Counted) /\ c \in Nat
  BY SupervisionConstants, FS_Subset, FS_CardinalityType DEF Counted, Reserved
<1>8. Promised' \subseteq Counted \cup {w}
  <2> SUFFICES ASSUME NEW v \in Promised', v # w PROVE v \in Counted
    OBVIOUS
  <2>1. v \in Work /\ unit'[v] = unit[v] /\ ledger'[v] = ledger[v]
    BY DEF Promised, Reserved, Admit, TypeInv, TypeOK, unitVars
  <2>2. v \in Reserved /\ (ledger[v] = "bare" \/ unit[v] \in {"requested", "active"})
    BY <2>1 DEF Promised, Reserved
  <2>3. unit[v] = "requested" => v \in Counted
    BY <1>4, <2>2 DEF Overlooks
  <2>4. QED BY <2>2, <2>3 DEF Counted, IsLive
<1>9. Cardinality(Promised') \in Nat /\ Cardinality(Promised') <= c + 1
  <2> HIDE DEF Counted
  <2>1. /\ IsFiniteSet(Counted \cup {w})
        /\ Cardinality(Counted \cup {w}) = IF w \in Counted THEN c ELSE c + 1
    BY <1>7, FS_AddElement
  <2>2. QED BY <1>7, <1>8, <2>1, FS_Subset, FS_CardinalityType
<1>10. Requested(policy)' = b
  BY DEF Admit, Requested, Unmetered, Declared
<1>11. Cardinality(Promised') * b + Floor <= Total
  <2> DEFINE n == Cardinality(Promised')
             free == MemAvailable
             observed == seen[w].available
  <2>0. n \in Nat /\ n <= c + 1 /\ free \in Nat /\ observed <= free /\ observed \in 0..Total
    BY <1>3, <1>6, <1>9
  <2>a. free = IF Total - taken < 0 THEN 0 ELSE Total - taken
    BY <1>5
  <2>b. b <= observed - withheld - Floor
    BY <1>2
  <2> HIDE DEF b, c, withheld, taken, n, free, observed
  <2>1. (c + 1) * b = c * b + b /\ c * b \in Nat /\ n * b \in Nat
    BY <1>1, <1>7, <2>0
  <2>2. n * b <= (c + 1) * b
    BY <1>1, <1>7, <2>0
  <2>3. CASE Total - taken < 0
    <3>1. b = 0 /\ Floor = 0
      BY <1>1, <2>0, <2>a, <2>b, <2>3, AdmissionConstants
    <3>2. n * b = 0
      BY <2>0, <3>1
    <3>3. n * b + Floor <= Total
      BY <3>1, <3>2, SupervisionConstants
    <3>4. QED BY <3>3 DEF n
  <2>4. CASE ~(Total - taken < 0)
    <3>1. n * b + Floor <= Total
      BY <1>1, <1>7, <2>0, <2>a, <2>b, <2>1, <2>2, <2>4, AdmissionConstants, SupervisionConstants
    <3>2. QED BY <3>1 DEF n
  <2>5. QED BY <2>3, <2>4
<1>12. QED BY <1>10, <1>11

(* Between admission and name, an entry stays without unit. *)
LEMMA PendingIsKept ==
  ASSUME TypeInv, PromisesInv, [Next]_vars, NEW v \in Work, stage'[v] \in {"reserved", "launched"}
  PROVE  ledger'[v] = "bare"
<1> USE DEF threadVars
<1> DEFINE Held == stage[v] \in {"reserved", "launched"} => ledger[v] = "bare"
<1>0. Held
  BY DEF PromisesInv
<1>1. ASSUME NEW w \in Work, UnitStep(w) \/ Expire(w) PROVE ledger'[v] = "bare"
  BY <1>0, <1>1 DEF UnitStep, UnitStarts, UnitGrows, UnitExits, Expire
<1>2. ASSUME NEW w \in Work, Raise(w), ledger' = ledger \/ ledger' = [ledger EXCEPT ![w] = "none"]
      PROVE  ledger'[v] = "bare"
  <2>1. stage'[v] = stage[v] /\ v # w
    BY <1>2 DEF Raise, TypeInv, TypeOK
  <2>2. QED BY <1>0, <1>2, <2>1 DEF TypeInv, TypeOK
<1>3. ASSUME NEW w \in Work, RunWorld(w) \/ Finalize(w) \/ Verdict(w) PROVE ledger'[v] = "bare"
  <2>1. ledger' = ledger
    BY <1>3 DEF RunWorld, Finalize, Verdict
  <2>2. CASE Raise(w)
    BY <1>2, <2>1, <2>2
  <2>3. CASE ~Raise(w)
    <3>1. stage'[v] = stage[v]
      BY <1>3, <2>3 DEF RunWorld, Finalize, Verdict, TypeInv, TypeOK
    <3>2. QED BY <1>0, <2>1, <3>1
  <2>4. QED BY <2>2, <2>3
<1>4. ASSUME NEW w \in Work, Measure(w) \/ Running(w) \/ StopIfCancelled(w) \/ JobEnds(w)
      PROVE  ledger'[v] = "bare"
  <2>1. ledger' = ledger /\ stage'[v] = stage[v]
    BY <1>4 DEF Measure, Running, StopIfCancelled, JobEnds, TypeInv, TypeOK
  <2>2. QED BY <1>0, <2>1
<1>5. ASSUME NEW w \in Work, Admit(w) PROVE ledger'[v] = "bare"
  <2>1. CASE Outcome(w) = "ADMITTED"
    BY <1>0, <1>5, <2>1 DEF Admit, TypeInv, TypeOK
  <2>2. CASE Outcome(w) # "ADMITTED"
    BY <1>2, <1>5, <2>2 DEF Admit
  <2>3. QED BY <2>1, <2>2
<1>6. ASSUME NEW w \in Work, Launch(w) PROVE ledger'[v] = "bare"
  <2>1. CASE manager = "up"
    BY <1>0, <1>6, <2>1 DEF Launch, TypeInv, TypeOK
  <2>2. CASE manager # "up"
    BY <1>2, <1>6, <2>2 DEF Launch
  <2>3. QED BY <2>1, <2>2
<1>7. ASSUME NEW w \in Work, Attach(w) \/ AgentEnds(w) \/ CheckEnds(w) PROVE ledger'[v] = "bare"
  <2>1. v # w /\ stage'[v] = stage[v]
    BY <1>7 DEF Attach, AgentEnds, CheckEnds, TypeInv, TypeOK
  <2>2. QED BY <1>0, <1>7, <2>1 DEF Attach, AgentEnds, CheckEnds, TypeInv, TypeOK
<1>8. ASSUME NEW w \in Work, FutureEnds(w) \/ Overdue(w) PROVE ledger'[v] = "bare"
  <2>1. ledger' = [ledger EXCEPT ![w] = "none"]
    BY <1>8 DEF FutureEnds, Overdue
  <2>2. CASE Raise(w)
    BY <1>2, <2>1, <2>2
  <2>3. CASE ~Raise(w)
    <3>1. v # w /\ stage'[v] = stage[v]
      BY <1>8, <2>3 DEF FutureEnds, Overdue, TypeInv, TypeOK
    <3>2. QED BY <1>0, <2>1, <3>1 DEF TypeInv, TypeOK
  <2>4. QED BY <2>2, <2>3
<1>9. ASSUME NEW w \in Work, HealthEnds(w) PROVE ledger'[v] = "bare"
  <2>0. /\ w \in Probes /\ Parent[w] \in Services /\ Parent[w] \in Work /\ stage[w] = "waiting"
        /\ ledger' = [ledger EXCEPT ![w] = "none"]
    BY <1>9 DEF HealthEnds, Work, Jobs
  <2>1. v # w /\ stage'[v] = stage[v]
    <3>1. CASE Raise(Parent[w])
      BY <2>0, <3>1 DEF Raise, TypeInv, TypeOK
    <3>2. CASE ~Raise(Parent[w])
      BY <1>9, <3>2 DEF HealthEnds, TypeInv, TypeOK
    <3>3. QED BY <3>1, <3>2
  <2>2. QED BY <1>0, <2>0, <2>1 DEF TypeInv, TypeOK
<1>10. ASSUME NEW s \in Services, StartService(s) PROVE ledger'[v] = "bare"
  BY <1>0, <1>10 DEF StartService, TypeInv, TypeOK
<1>11. ASSUME NEW w, Fork(w) \/ Spawn(w) \/ Simulate(w) \/ CancelRead(w) \/ StopWriters(w) \/ CancelApply(w)
       PROVE  ledger'[v] = "bare"
  <2>1. ledger' = ledger /\ stage'[v] = stage[v]
    BY <1>11 DEF Fork, Spawn, Simulate, CancelRead, StopWriters, CancelApply, TypeInv, TypeOK
  <2>2. QED BY <1>0, <2>1
<1>12. CASE ManagerDown \/ ManagerUp \/ Crash \/ Sweep \/ ForkRaises
  BY <1>0, <1>12 DEF ManagerDown, ManagerUp, Crash, Sweep, ForkRaises
<1>13. CASE Reconcile
  BY <1>0, <1>13 DEF Reconcile, IsLive
<1>14. CASE UNCHANGED vars
  BY <1>0, <1>14 DEF vars
<1>15. QED
  BY <1>1, <1>3, <1>4, <1>5, <1>6, <1>7, <1>8, <1>9, <1>10, <1>11, <1>12, <1>13, <1>14
     DEF Next, ThreadStep

(* Only an admission makes a promise, and nothing changes the policy. *)
LEMMA FewPromise ==
  ASSUME TypeInv, PromisesInv, [Next]_vars
  PROVE  /\ UNCHANGED policy
         /\ \/ Promised' \subseteq Promised /\ UNCHANGED overtaken
            \/ \E w \in Work : Admit(w) /\ Outcome(w) = "ADMITTED"
<1> USE DEF historyVars
<1> DEFINE Fewer == Promised' \subseteq Promised
<1>0. ASSUME \A v \in Work :
               /\ (ledger'[v] # "none") => (ledger[v] # "none")
               /\ (ledger'[v] = "bare") => (ledger[v] = "bare")
               /\ (ledger'[v] # "none" /\ unit'[v] \in {"requested", "active"})
                    => (ledger[v] = "bare" \/ unit[v] \in {"requested", "active"})
      PROVE  Fewer
  BY <1>0 DEF Promised, Reserved
<1>1. ASSUME NEW w \in Work, UnitStep(w) PROVE UNCHANGED <<policy, overtaken>> /\ Fewer
  <2>1. /\ UNCHANGED <<policy, overtaken, ledger>>
        /\ \A v \in Work : unit'[v] \in {"requested", "active"} => unit[v] \in {"requested", "active"}
    BY <1>1 DEF UnitStep, UnitStarts, UnitGrows, UnitExits, TypeInv, TypeOK
  <2> HIDE DEF Fewer
  <2>2. QED BY <1>0, <2>1
<1>2. ASSUME UNCHANGED <<policy, overtaken, ledger>>, UNCHANGED unit \/ \E S : Stopped(S)
      PROVE  UNCHANGED <<policy, overtaken>> /\ Fewer
  <2>1. \A v \in Work : unit'[v] \in {"requested", "active"} => unit[v] \in {"requested", "active"}
    BY <1>2 DEF Stopped
  <2> HIDE DEF Fewer
  <2>2. QED BY <1>0, <1>2, <2>1
<1>3. ASSUME NEW w \in Work, RunWorld(w) \/ Measure(w) \/ Running(w) \/ StopIfCancelled(w) \/ Expire(w)
                             \/ Verdict(w) \/ Finalize(w) \/ JobEnds(w)
      PROVE  UNCHANGED <<policy, overtaken>> /\ Fewer
  <2>1. UNCHANGED <<policy, overtaken, ledger>> /\ (UNCHANGED unit \/ \E S : Stopped(S))
    BY <1>3 DEF RunWorld, Measure, Running, StopIfCancelled, Expire, Verdict, Finalize, JobEnds, unitVars
  <2> HIDE DEF Fewer
  <2>2. QED BY <1>2, <2>1
<1>4. ASSUME NEW w \in Work, Admit(w), Outcome(w) # "ADMITTED"
      PROVE  UNCHANGED <<policy, overtaken>> /\ Fewer
  <2>1. UNCHANGED <<policy, overtaken, ledger, unit>>
    BY <1>4 DEF Admit, unitVars
  <2> HIDE DEF Fewer
  <2>2. QED BY <1>2, <2>1
<1>5. ASSUME NEW w \in Work, Launch(w) PROVE UNCHANGED <<policy, overtaken>> /\ Fewer
  <2>1. UNCHANGED <<policy, overtaken>> /\ ledger[w] = "bare"
    BY <1>5 DEF Launch, PromisesInv
  <2>2. \A v \in Work : v # w => ledger'[v] = ledger[v] /\ unit'[v] = unit[v]
    BY <1>5 DEF Launch, TypeInv, TypeOK
  <2> HIDE DEF Fewer
  <2>3. QED BY <1>0, <2>1, <2>2
<1>6. ASSUME NEW w \in Work, Attach(w) PROVE UNCHANGED <<policy, overtaken>> /\ Fewer
  <2>1. UNCHANGED <<policy, overtaken, unit>> /\ ledger[w] = "bare" /\ ledger'[w] = "named"
    BY <1>6 DEF Attach, PromisesInv, unitVars, TypeInv, TypeOK
  <2>2. \A v \in Work : v # w => ledger'[v] = ledger[v]
    BY <1>6 DEF Attach, TypeInv, TypeOK
  <2> HIDE DEF Fewer
  <2>3. QED BY <1>0, <2>1, <2>2
<1>7. ASSUME NEW w \in Work, AgentEnds(w) \/ CheckEnds(w) \/ HealthEnds(w) \/ FutureEnds(w) \/ Overdue(w)
      PROVE  UNCHANGED <<policy, overtaken>> /\ Fewer
  <2>1. /\ UNCHANGED <<policy, overtaken>> /\ ledger' = [ledger EXCEPT ![w] = "none"]
        /\ UNCHANGED unit \/ \E S : Stopped(S)
    BY <1>7 DEF AgentEnds, CheckEnds, HealthEnds, FutureEnds, Overdue, unitVars
  <2>2. \A v \in Work : unit'[v] \in {"requested", "active"} => unit[v] \in {"requested", "active"}
    BY <2>1 DEF Stopped
  <2>3. \A v \in Work : ledger'[v] = ledger[v] \/ ledger'[v] = "none"
    BY <2>1 DEF TypeInv, TypeOK
  <2> HIDE DEF Fewer
  <2>4. QED BY <1>0, <2>1, <2>2, <2>3
<1>8. ASSUME NEW s \in Services, StartService(s) PROVE UNCHANGED <<policy, overtaken>> /\ Fewer
  <2>1. UNCHANGED <<policy, overtaken, ledger, unit>>
    BY <1>8 DEF StartService, unitVars
  <2> HIDE DEF Fewer
  <2>2. QED BY <1>2, <2>1
<1>9. ASSUME NEW w, Fork(w) \/ Spawn(w) \/ Simulate(w) \/ CancelRead(w) \/ StopWriters(w) \/ CancelApply(w)
      PROVE  UNCHANGED <<policy, overtaken>> /\ Fewer
  <2>1. UNCHANGED <<policy, overtaken, ledger>> /\ (UNCHANGED unit \/ \E S : Stopped(S))
    BY <1>9 DEF Fork, Spawn, Simulate, CancelRead, StopWriters, CancelApply, unitVars
  <2> HIDE DEF Fewer
  <2>2. QED BY <1>2, <2>1
<1>10. ASSUME ManagerDown \/ ManagerUp \/ Crash \/ Sweep \/ ForkRaises
       PROVE  UNCHANGED <<policy, overtaken>> /\ Fewer
  <2>1. UNCHANGED <<policy, overtaken, ledger>> /\ (UNCHANGED unit \/ \E S : Stopped(S))
    BY <1>10 DEF ManagerDown, ManagerUp, Crash, Sweep, ForkRaises, unitVars
  <2> HIDE DEF Fewer
  <2>2. QED BY <1>2, <2>1
<1>11. ASSUME Reconcile PROVE UNCHANGED <<policy, overtaken>> /\ Fewer
  <2>1. /\ UNCHANGED <<policy, overtaken, unit>>
        /\ \A v \in Work : ledger'[v] = ledger[v] \/ ledger'[v] = "none"
    BY <1>11 DEF Reconcile, unitVars
  <2> HIDE DEF Fewer
  <2>2. QED BY <1>0, <2>1
<1>12. ASSUME UNCHANGED vars PROVE UNCHANGED <<policy, overtaken>> /\ Fewer
  <2>1. UNCHANGED <<policy, overtaken, ledger, unit>>
    BY <1>12 DEF vars, unitVars
  <2> HIDE DEF Fewer
  <2>2. QED BY <1>2, <2>1
<1>13. ASSUME NEW w \in Work, Admit(w), Outcome(w) = "ADMITTED" PROVE UNCHANGED policy
  BY <1>13 DEF Admit
<1> HIDE DEF Fewer
<1>14. \/ UNCHANGED <<policy, overtaken>> /\ Fewer
       \/ \E w \in Work : Admit(w) /\ Outcome(w) = "ADMITTED"
  BY <1>1, <1>3, <1>4, <1>5, <1>6, <1>7, <1>8, <1>9, <1>10, <1>11, <1>12 DEF Next, ThreadStep
<1>15. QED BY <1>13, <1>14 DEF Fewer

(* Only an observation shows a thread memory, and only what is plausible.  *)
LEMMA FewSee ==
  ASSUME TypeInv, [Next]_vars, NEW v \in Work
  PROVE  seen'[v] = seen[v] \/ seen'[v] = None \/ seen'[v].available \in 0..Total
<1> USE DEF threadVars
<1>1. ASSUME NEW w \in Work, UnitStep(w) PROVE UNCHANGED seen
  BY <1>1 DEF UnitStep, UnitStarts, UnitGrows, UnitExits
<1>2. ASSUME NEW w \in Work, Measure(w)
      PROVE  seen'[v] = seen[v] \/ seen'[v] = None \/ seen'[v].available \in 0..Total
  <2>1. PICK pressure : seen' = [seen EXCEPT ![w] =
          Observe([total |-> Total, available |-> MemAvailable,
                   pressure |-> pressure, disk |-> TRUE])]
    BY <1>2 DEF Measure
  <2> DEFINE m == [total |-> Total, available |-> MemAvailable,
                   pressure |-> pressure, disk |-> TRUE]
  <2>2. Observe(m) = None \/ Observe(m).available \in 0..Total
    BY DEF Observe, Plausible
  <2>3. QED BY <2>1, <2>2 DEF TypeInv, TypeOK
<1>3. ASSUME NEW w \in Work, Admit(w)
      PROVE  seen'[v] = seen[v] \/ seen'[v] = None
  BY <1>3 DEF Admit, TypeInv, TypeOK
<1>4. ASSUME NEW w \in Work, RunWorld(w) \/ Running(w) \/ StopIfCancelled(w) \/ Expire(w)
               \/ Verdict(w) \/ Finalize(w) \/ JobEnds(w) \/ Launch(w) \/ Attach(w) \/ AgentEnds(w)
               \/ CheckEnds(w) \/ HealthEnds(w) \/ FutureEnds(w) \/ Overdue(w)
      PROVE  UNCHANGED seen
  BY <1>4 DEF RunWorld, Running, StopIfCancelled, Expire, Verdict, Finalize, JobEnds, Launch,
              Attach, AgentEnds, CheckEnds, HealthEnds, FutureEnds, Overdue
<1>5. ASSUME NEW s \in Services, StartService(s) PROVE UNCHANGED seen
  BY <1>5 DEF StartService
<1>6. ASSUME NEW w, Fork(w) \/ Spawn(w) \/ Simulate(w) \/ CancelRead(w) \/ StopWriters(w) \/ CancelApply(w)
      PROVE  UNCHANGED seen
  BY <1>6 DEF Fork, Spawn, Simulate, CancelRead, StopWriters, CancelApply
<1>7. CASE ForkRaises \/ ManagerDown \/ ManagerUp \/ Crash \/ Sweep \/ Reconcile
  BY <1>7 DEF ForkRaises, ManagerDown, ManagerUp, Crash, Sweep, Reconcile
<1>8. CASE UNCHANGED vars
  BY <1>8 DEF vars
<1>9. QED
  BY <1>1, <1>2, <1>3, <1>4, <1>5, <1>6, <1>7, <1>8 DEF Next, ThreadStep

(* They hold in every reachable state. *)
THEOREM PromisesInvariance == Spec => []PromisesInv
<1>1. Init => PromisesInv
  BY DEF Init, PromisesInv, PromisesFit, Promised, Reserved
<1>2. JobsInv /\ PromisesInv /\ [Next]_vars => PromisesInv'
  <2> SUFFICES ASSUME JobsInv, PromisesInv, [Next]_vars PROVE PromisesInv'
    OBVIOUS
  <2>1. TypeInv
    BY DEF JobsInv
  <2>2. \A w \in Work : seen'[w] = None \/ seen'[w].available \in 0..Total
    BY <2>1, FewSee DEF PromisesInv
  <2>3. \A w \in Work : stage'[w] \in {"reserved", "launched"} => ledger'[w] = "bare"
    BY <2>1, PendingIsKept
  <2>4. PromisesFit'
    BY <2>1, FewPromise, FewerPromisesFit, AdmittedFits DEF PromisesInv
  <2>5. QED BY <2>2, <2>3, <2>4 DEF PromisesInv
<1>3. QED BY <1>1, <1>2, JobsInvariance, PTL DEF Spec

(* What is promised to all workloads that have not ended fits into the     *)
(* machine together, above the floor, unless an admission overlooked       *)
(* memory taken since it observed the machine or a unit not yet started:   *)
(* what a unit has taken is missing from MemAvailable, and what it has not *)
(* is withheld, so nothing is promised twice (admission.py, admit and      *)
(* outstanding_withheld of AdmissionAuthority).                            *)
THEOREM PromisesAreKept == Spec => []PromisesFit
<1>1. PromisesInv => PromisesFit
  BY DEF PromisesInv
<1>2. QED BY <1>1, PromisesInvariance, PTL
==============================================================================
