------------------------------ MODULE Admission ------------------------------
(***************************************************************************)
(* Resource admission: may this workload start now?                        *)
(* (runtime/worldline/admission.py).  Quantities are small naturals, None  *)
(* stands for a JSON null or a reading that is absent or cannot be parsed. *)
(* Only the decision is modelled; the arithmetic a Decision carries for    *)
(* the operator is left out.                                               *)
(***************************************************************************)
EXTENDS Integers, FiniteSets, Functions

CONSTANTS
  None,          \* null
  MaxMemory,     \* MAX_MEMORY_BYTES
  MaxConcurrent, \* MAX_CONCURRENT
  Floor,         \* Floors.min_free_memory_bytes
  MaxPressure    \* Floors.max_memory_pressure_hundredths

ASSUME AdmissionConstants ==
  /\ MaxMemory \in Nat \ {0} /\ MaxConcurrent \in Nat \ {0}
  /\ Floor \in Nat /\ MaxPressure \in Nat /\ None \notin Int

(* ResourcePolicy.from_mapping: every ceiling is null or an integer in     *)
(* 1..its maximum, and the high watermark does not exceed the maximum.     *)
Positive(v, ceiling) == v = None \/ v \in 1..ceiling

AcceptPolicy(p) ==
  /\ Positive(p.max, MaxMemory) /\ Positive(p.high, MaxMemory)
  /\ Positive(p.concurrent, MaxConcurrent)
  /\ (p.max # None /\ p.high # None) => p.high <= p.max

(* What the workload asks for: the declared ceiling, or nothing when the   *)
(* policy declares none (it is then admitted unmetered, not ungated).      *)
Declared(p)  == IF p.max # None THEN p.max ELSE p.high
Unmetered(p) == Declared(p) = None
Requested(p) == IF Unmetered(p) THEN 0 ELSE Declared(p)

(* observe(): one unreadable or implausible reading makes the whole state  *)
(* UNKNOWN.  A kernel without cpu or io pressure accounting is not such a  *)
(* reading; without memory pressure accounting it is.                      *)
Plausible(m) ==
  /\ m.total # None /\ m.available # None /\ m.pressure # None
  /\ m.total > 0 /\ m.available \in 0..m.total

Observe(m) == IF Plausible(m) /\ m.disk # None THEN m ELSE None

(* Mutant: a usage that cannot be read withholds nothing.                  *)
UnusedOptimistic(bytes, used) ==
  IF used = None THEN 0 ELSE IF bytes > used THEN bytes - used ELSE 0

(* The part of a reservation that MemAvailable does not show yet; a usage  *)
(* that cannot be read withholds all of it.                                *)
Unused(bytes, used) ==
  IF used = None THEN bytes ELSE IF bytes > used THEN bytes - used ELSE 0

Withheld(R, bytes, used) ==
  SumFunction([r \in DOMAIN used |-> IF r \in R THEN Unused(bytes, used[r]) ELSE 0])

(* AdmissionAuthority.admit, once the ledger is locked: obs is what was    *)
(* observed BEFORE the lock, counted the reservations that are not known   *)
(* to be dead, withheld what they still claim.                             *)
AdmissionOutcome(p, obs, readable, counted, withheld) ==
  CASE ~AcceptPolicy(p) -> "RESOURCE_POLICY_INVALID"
    [] obs = None \/ ~readable -> "RESOURCE_STATE_UNKNOWN"
    [] OTHER ->
         IF /\ p.concurrent = None \/ counted < p.concurrent
            /\ obs.pressure <= MaxPressure
            /\ obs.disk
            /\ Requested(p) <= obs.available - withheld - Floor
         THEN "ADMITTED" ELSE "RESOURCES_UNAVAILABLE"
==============================================================================
