----------------------------- MODULE Evaluation -----------------------------
(***************************************************************************)
(* The evaluation kernel (core/worldline-evaluation): what the observations*)
(* of one check establish, whether that admits it, and when a roster of    *)
(* checks is complete.                                                     *)
(***************************************************************************)
EXTENDS Naturals

(* The life of an attempt: nothing leaves a terminal state.                *)
Terminal == {"Interrupted", "Error_Before_Examiner", "Incomplete_Unknown", "Evaluator_Incomplete",
             "Unclassified", "Completed"}

TransitionAllowed(from, to) ==
  \/ from = "Not_Attempted" /\ to = "Prepared"
  \/ from = "Prepared" /\ to \in {"Started", "Interrupted", "Error_Before_Examiner", "Incomplete_Unknown",
                                  "Unclassified"}
  \/ from = "Started" /\ to \in {"Completed", "Interrupted", "Incomplete_Unknown", "Evaluator_Incomplete",
                                 "Unclassified"}

(* What the runtime reports of one check, the record Observations.         *)
Observed(f) ==
  /\ f.source \in {"Engine", "Agent", "External"}
  /\ f.status \in {"Absent", "Pass", "Fail", "Unassessed", "Other"}
  /\ f.channel \in {"Absent", "Empty", "Accepted", "Rejected", "Other", "Malformed"}
  /\ f.stage \in {"None", "Never_Started", "Manager_Stopped", "Harness_Signalled", "Other"}
  /\ f.supervisor \in {"None", "Supervised", "Stopped", "Other"}
  /\ {f.exitPresent, f.exitInteger, f.stopped, f.bundlePresent, f.bundleIsMapping, f.bundleStable,
      f.bundleChanged, f.unsatisfiedImports} \subseteq BOOLEAN

BundleOf(f) ==
  IF ~f.bundlePresent THEN "Not_Covered"
  ELSE IF ~f.bundleIsMapping THEN "Unknown_Integrity"
  ELSE IF f.bundleStable /\ ~f.bundleChanged THEN "Verified" ELSE "Compromised"

Definite(f) == f.status \in {"Pass", "Fail"}
Silent(f)   == f.channel \in {"Absent", "Empty"}

(* What a completed evaluation needs at the least.                         *)
CompletionPossible(f) ==
  /\ f.channel # "Malformed" /\ Definite(f) /\ ~(f.unsatisfiedImports /\ f.status = "Fail")
  /\ CASE f.source = "Engine" -> ~f.exitPresent /\ Silent(f) /\ ~f.bundlePresent
       [] f.source = "Agent"  -> f.supervisor = "Supervised" /\ ~f.stopped /\ f.exitInteger
       [] OTHER               -> f.channel = "Accepted" /\ f.exitInteger

(* The engine's own result, the agent's exit, a check's record.            *)
EngineExecution(f) ==
  IF Definite(f) /\ ~f.exitPresent /\ Silent(f) /\ ~f.bundlePresent THEN "Completed" ELSE "Unclassified"

AgentExecution(f) ==
  IF f.supervisor = "Supervised" /\ ~f.stopped /\ f.exitInteger /\ Definite(f) THEN "Completed"
  ELSE IF f.supervisor \in {"None", "Stopped"} \/ f.stopped THEN "Interrupted" ELSE "Incomplete_Unknown"

RejectedAt(stage) ==
  CASE stage = "Never_Started" -> "Error_Before_Examiner"
    [] stage \in {"Manager_Stopped", "Harness_Signalled"} -> "Interrupted"
    [] OTHER -> "Incomplete_Unknown"

ExternalExecution(f) ==
  IF f.status = "Unassessed" \/ (f.status = "Absent" /\ ~f.exitPresent /\ Silent(f)) THEN "Not_Attempted"
  ELSE IF f.channel = "Rejected" THEN RejectedAt(f.stage)
  ELSE IF f.channel = "Accepted" /\ f.exitInteger /\ Definite(f) THEN "Completed"
  ELSE IF ~f.exitPresent /\ (f.bundlePresent \/ f.status # "Absent") THEN "Incomplete_Unknown"
  ELSE "Unclassified"

Answered(f) ==
  IF f.channel = "Malformed" THEN "Unclassified"
  ELSE IF f.source = "Engine" THEN EngineExecution(f)
  ELSE IF f.source = "Agent" THEN AgentExecution(f)
  ELSE ExternalExecution(f)

ExecutionOf(f) ==
  IF Answered(f) = "Completed" /\ f.unsatisfiedImports /\ f.status = "Fail"
  THEN "Evaluator_Incomplete" ELSE Answered(f)

Classify(f) ==
  [execution |-> ExecutionOf(f),
   result    |-> IF ExecutionOf(f) # "Completed" THEN "No_Outcome"
                 ELSE IF f.status = "Pass" THEN "Passed" ELSE "Failed",
   bundle    |-> BundleOf(f)]

Admissible(c, report, evidenceComplete) ==
  /\ c.execution = "Completed" /\ c.result = "Passed"
  /\ c.bundle \in {"Not_Covered", "Verified"}
  /\ report \in {"Not_Applicable", "Verified_Report"}
  /\ evidenceComplete

(* An empty roster is complete only if the policy declares it.             *)
RosterComplete(n, admitted, emptyDeclared) ==
  IF n = 0 THEN emptyDeclared ELSE 1..n \subseteq admitted
=============================================================================
