------------------------------ MODULE Evidence ------------------------------
(***************************************************************************)
(* One evaluation of a world's bytes, from the policy in force to the      *)
(* promotion that relies on it: revalidate._evaluate_tree, the check       *)
(* runner (checks.py), the staged verifiers (executed.py), the classifying *)
(* and the roster (finalize.py) and the execution identity a collapse      *)
(* compares (transaction.py).  `truth' records what really happened in a   *)
(* check's unit; the code decides from `results' alone.                    *)
(***************************************************************************)
EXTENDS Evaluation, Integers, Sequences

CONSTANTS
  MaxChecks,        \* bound: checks of the policy
  MaxVerifierEdits, \* bound: changes of PRIME's verifiers, back and forth
  MaxUnitFaults     \* bound: stops, lost observations and changes under the evaluation

ASSUME EvidenceBounds == MaxChecks \in Nat /\ MaxVerifierEdits \in Nat /\ MaxUnitFaults \in Nat

VARIABLES
  policy,        \* the required checks, in order: [profile, format, bundle]
  emptyDeclared, \* a policy file was read
  verifiers,     \* the verifiers in PRIME now
  required,      \* the verifiers the evaluation's requirement states
  source,        \* the tree under evaluation: 0, or 1 once it moved
  scratched,     \* the legacy checks' one scratch overlay holds what a check left
  privateInput,  \* the private checks' copy of it: "none", or what it holds
  bundle,        \* the staged copy of the running check
  evaluation,    \* "idle", "next", "running", "ended", "aborted", "PASS", "FAIL",
                 \* "promoted", "refused"
  unit,          \* how the running check's unit ended: [stopped, found, boundary]
  truth,         \* history: what each unit did
  results,       \* the records of the runner
  unitFaults, verifierEdits \* counters of the bounds

unitVars     == <<bundle, unit, truth, results>>
inputVars    == <<source, scratched, privateInput>>
boundsUsed   == <<unitFaults, verifierEdits>>
evidenceVars == <<policy, emptyDeclared, verifiers, required, inputVars, unitVars, evaluation, boundsUsed>>

NoBundle == [holds |-> -1, moved |-> "no"]
NotEnded == [stopped |-> FALSE, found |-> "nothing", boundary |-> TRUE]

(* ProjectConfig.load: a private check reads a report and declares its     *)
(* verifiers, and comes after every other.                                 *)
CheckSpecs ==
  [profile: {"legacy"}, format: {"exit", "report"}, bundle: BOOLEAN]
    \cup {[profile |-> "private", format |-> "report", bundle |-> TRUE]}

Policies ==
  {p \in UNION {[1..n -> CheckSpecs] : n \in 0..MaxChecks} :
     \A i, j \in DOMAIN p : i < j /\ p[i].profile = "private" => p[j].profile = "private"}

EvidenceInit ==
  /\ policy \in Policies /\ emptyDeclared \in BOOLEAN /\ (policy # <<>> => emptyDeclared)
  /\ verifiers = 0 /\ required = 0 /\ source = 0 /\ scratched = FALSE /\ privateInput = "none"
  /\ bundle = NoBundle /\ unit = NotEnded /\ evaluation = "idle" /\ truth = <<>> /\ results = <<>>
  /\ unitFaults = 0 /\ verifierEdits = 0

(* Files a unit may execute, beside PRIME's verifiers, 0 or 1.             *)
Undeclared  == -1  \* what the argv of a check without verifiers starts
CandidateIs == 2   \* a file of the candidate
Substitute  == 3   \* what took the place of a staged verifier

Check == policy[Len(results) + 1]
Fault == unitFaults < MaxUnitFaults /\ unitFaults' = unitFaults + 1

-----------------------------------------------------------------------------
(* The requirement is read, and the tree is identified before any check.   *)
Begin ==
  /\ evaluation = "idle"
  /\ required' = verifiers
  /\ evaluation' = IF source = 0 THEN "next" ELSE "aborted" \* PAYLOAD_INTEGRITY_FAILED
  /\ UNCHANGED <<policy, emptyDeclared, verifiers, inputVars, unitVars, boundsUsed>>

More == evaluation = "next" /\ Len(results) < Len(policy)

(* _capture_private_input: a copy of the merged view, which must be the    *)
(* input itself.                                                           *)
CapturePrivateInput ==
  /\ More /\ Check.profile = "private" /\ privateInput = "none"
  /\ IF scratched \/ source # 0
     THEN evaluation' = "aborted" /\ UNCHANGED privateInput \* REVALIDATION_INPUT_CHANGED
     ELSE privateInput' = "same" /\ UNCHANGED evaluation
  /\ UNCHANGED <<policy, emptyDeclared, verifiers, required, source, scratched, unitVars, boundsUsed>>

(* What the tokens of a check's argv may resolve to (resolution.py): clean *)
(* names of declared verifiers, a path out of a root, none that names a    *)
(* verifier, or a file of the candidate that nothing declares.             *)
Argvs == {"named", "escape", "unnamed", "unaccounted"}

(* _run_one before anything runs: what the check would execute is known.   *)
Attributable(check, argv) == argv # "escape" /\ (check.bundle => argv = "named")

(* The verifiers are copied out of PRIME as it is now, and the unit starts.*)
(* A private check gets the private input itself; the legacy checks share  *)
(* one overlay over the tree, which nothing resets between them, so a      *)
(* later one also sees what an earlier one left.                           *)
RunOne ==
  /\ More /\ (Check.profile = "private" => privateInput # "none")
  /\ \E argv \in Argvs :
       IF ~Attributable(Check, argv)
       THEN evaluation' = "aborted" /\ UNCHANGED <<bundle, truth>> \* VERIFIER_UNIDENTIFIED
       ELSE /\ evaluation' = "running"
            /\ bundle' = IF Check.bundle THEN [holds |-> verifiers, moved |-> "no"] ELSE NoBundle
            /\ truth' = Append(truth, [ran |-> IF ~Check.bundle THEN Undeclared
                                               ELSE IF argv = "named" THEN verifiers ELSE CandidateIs,
                                       tree |-> IF Check.profile = "private" THEN privateInput = "same"
                                                ELSE source = 0,
                                       clean |-> Check.profile = "private" \/ ~scratched,
                                       left |-> FALSE, exit |-> 1, wrote |-> "other"])
  /\ UNCHANGED <<policy, emptyDeclared, verifiers, required, inputVars, unit, results, boundsUsed>>

-----------------------------------------------------------------------------
(* What may happen under an evaluation.                                    *)
Evaluating == evaluation \in {"idle", "next", "running", "ended"}
Latest == Len(truth)

(* PRIME's verifiers are edited, or put back.                              *)
VerifierEdited ==
  /\ Evaluating \/ evaluation = "PASS"
  /\ verifierEdits < MaxVerifierEdits /\ verifierEdits' = verifierEdits + 1
  /\ verifiers' = 1 - verifiers
  /\ UNCHANGED <<policy, emptyDeclared, required, inputVars, unitVars, evaluation, unitFaults>>

(* The tree under evaluation, or the private checks' copy, moves.          *)
InputMoves ==
  /\ Evaluating /\ Fault
  /\ \/ source' = 1 /\ UNCHANGED privateInput
     \/ privateInput = "same" /\ privateInput' = "moved" /\ UNCHANGED source
  /\ truth' = IF evaluation = "running"
              THEN [truth EXCEPT ![Latest].tree = @ /\ IF Check.profile = "private" THEN privateInput' = "same"
                                                     ELSE source' = 0]
              ELSE truth
  /\ UNCHANGED <<policy, emptyDeclared, verifiers, required, scratched, bundle, unit, results, evaluation,
                 verifierEdits>>

(* A staged verifier is rewritten, or its name leads to another file.      *)
StagedMoves ==
  /\ evaluation = "running" /\ bundle # NoBundle /\ Fault
  /\ \E how \in {"content", "rebound"} : bundle' = [bundle EXCEPT !.moved = how]
  /\ truth' = [truth EXCEPT ![Latest].ran = Substitute]
  /\ UNCHANGED <<policy, emptyDeclared, verifiers, required, inputVars, unit, results, evaluation,
                 verifierEdits>>

(* The unit ends: the examiner exits, with a report or without.  A process *)
(* of the candidate may put a report of its own in the place the runner    *)
(* reads, except where the private boundary keeps it out.  A stop by the   *)
(* manager and a boundary that is not established are faults.  A report    *)
(* the collector refuses (absent, not one file, over the limit, changing   *)
(* while it is read) is none.  A legacy check leaves the shared overlay    *)
(* with files or, having removed an earlier one's, without.                *)
Reports == {"nothing", "pass", "fail"}

(* What the history keeps of a report: whether it passes the candidate.    *)
Told(report) == IF report = "pass" THEN "pass" ELSE "other"

UnitEnds ==
  /\ evaluation = "running" /\ evaluation' = "ended"
  /\ \E exit \in {0, 1}, wrote, found \in Reports, stopped \in BOOLEAN, boundary \in BOOLEAN, leaves \in BOOLEAN :
       /\ IF stopped \/ ~boundary THEN Fault ELSE UNCHANGED unitFaults
       /\ ~boundary => Check.profile = "private"
       /\ Check.format = "exit" => wrote = "nothing" /\ found = "nothing"
       /\ Check.profile = "private" /\ boundary => found = wrote
       /\ leaves => Check.profile = "legacy"
       /\ scratched' = IF Check.profile = "legacy" THEN leaves ELSE scratched
       /\ truth' = [truth EXCEPT ![Latest].exit = exit, ![Latest].wrote = Told(wrote), ![Latest].left = leaves]
       /\ unit' = [stopped |-> stopped, found |-> found, boundary |-> boundary]
  /\ UNCHANGED <<policy, emptyDeclared, verifiers, required, source, privateInput, bundle, results, verifierEdits>>

(* communicate: the launcher has not ended in ten minutes, and the         *)
(* exception ends the evaluation.                                          *)
UnitTimesOut ==
  /\ evaluation = "running" /\ Fault
  /\ evaluation' = "aborted"
  /\ UNCHANGED <<policy, emptyDeclared, verifiers, required, inputVars, unitVars, verifierEdits>>

-----------------------------------------------------------------------------
(* SystemdAdapter.outcome: the journal shows everything, only that the     *)
(* unit started, nothing in its window, or cannot be read.                 *)
Journals == {"whole", "started", "nothing", "unreadable"}

KindOf(journal, launcher) ==
  CASE journal \in {"whole", "started"} -> "Supervised"
    [] journal = "nothing" /\ launcher # 0 -> "Launch_Failed"
    [] OTHER -> "Indeterminate"

(* _observed_exit: the journal has an exit entry for a failure only; -1    *)
(* where the two sources disagree.  A launcher that was killed returns 2.  *)
ObservedExit(journal, exit, launcher) ==
  LET entry == IF journal = "whole" /\ exit # 0 THEN exit ELSE launcher
  IN  IF entry = launcher THEN launcher ELSE -1

(* _parse: the exit status, and for a report format the report also.       *)
Parsed(check, exit, found) ==
  IF exit = 0 /\ (check.format = "report" => found = "pass") THEN "Pass" ELSE "Fail"

(* reread: the bytes, and what the names lead to, are as they were staged. *)
Reread(b) == b.moved = "no"

(* The refusals of _run_one, in order, and that of _run_private.           *)
Stage(check, journal, exit, launcher) ==
  LET kind    == KindOf(journal, launcher)
      stopped == journal = "whole" /\ unit.stopped
      lost    == ObservedExit(journal, exit, launcher) = -1
  IN  IF check.profile = "private"
      THEN IF kind # "Supervised" \/ stopped \/ lost \/ ~unit.boundary \/ unit.found = "nothing"
           THEN "Other" ELSE "None"
      ELSE IF kind = "Launch_Failed" THEN "Never_Started"
      ELSE IF stopped THEN "Manager_Stopped" ELSE IF lost THEN "Other" ELSE "None"

Result(check, journal, exit, launcher, gaps) ==
  LET stage == Stage(check, journal, exit, launcher)
      accepted == stage = "None"
  IN  [source |-> "External",
       status |-> IF accepted THEN Parsed(check, launcher, unit.found) ELSE "Fail",
       channel |-> IF accepted THEN "Accepted" ELSE "Rejected", stage |-> stage,
       exitPresent |-> accepted, exitInteger |-> accepted,
       supervisor |-> IF KindOf(journal, launcher) = "Supervised" THEN "Supervised" ELSE "Other",
       stopped |-> journal = "whole" /\ unit.stopped,
       bundlePresent |-> check.bundle, bundleIsMapping |-> check.bundle,
       bundleStable |-> check.bundle /\ Reread(bundle), bundleChanged |-> check.bundle /\ ~Reread(bundle),
       unsatisfiedImports |-> check.bundle /\ gaps,
       identity |-> bundle.holds, check |-> check]

RecordResult ==
  /\ evaluation = "ended" /\ evaluation' = "next"
  /\ \E journal \in Journals, launcher \in {truth[Latest].exit, 2}, gaps \in BOOLEAN :
       /\ IF journal # "whole" \/ launcher = 2 THEN Fault ELSE UNCHANGED unitFaults
       /\ results' = Append(results, Result(Check, journal, truth[Latest].exit, launcher, gaps))
  /\ bundle' = NoBundle /\ unit' = NotEnded
  /\ UNCHANGED <<policy, emptyDeclared, verifiers, required, inputVars, truth, verifierEdits>>

-----------------------------------------------------------------------------
(* _private_report_verified.                                               *)
ReportVerified(r) ==
  /\ r.check.profile = "private" /\ r.supervisor = "Supervised" /\ ~r.stopped
  /\ Classify(r).execution = "Completed" /\ Classify(r).bundle = "Verified"

ReportIntegrity(r) ==
  IF r.check.format # "report" THEN "Not_Applicable"
  ELSE IF ReportVerified(r) THEN "Verified_Report" ELSE "Untrusted_Report"

(* execution_binding and evaluation_presence against the declaration.      *)
EvidenceComplete(r, declared) ==
  /\ r.bundlePresent => r.bundleStable /\ ~r.bundleChanged
  /\ r.check.format = declared.format /\ r.check.profile = declared.profile
  /\ declared.bundle => r.identity # NoBundle.holds

Admitted ==
  {i \in DOMAIN results : Admissible(Classify(results[i]), ReportIntegrity(results[i]),
                                     EvidenceComplete(results[i], policy[i]))}

Roster == RosterComplete(Len(policy), Admitted, emptyDeclared)

(* Results of WORLDLINE itself: the protected paths, and the agent's exit. *)
Own(origin, status, supervised, stopped) ==
  [source |-> origin, status |-> status, channel |-> "Absent", stage |-> "None",
   exitPresent |-> origin = "Agent", exitInteger |-> origin = "Agent",
   supervisor |-> IF supervised THEN "Supervised" ELSE "None", stopped |-> stopped,
   bundlePresent |-> FALSE, bundleIsMapping |-> FALSE, bundleStable |-> FALSE, bundleChanged |-> FALSE,
   unsatisfiedImports |-> FALSE]

OwnAdmitted(r) == Admissible(Classify(r), "Not_Applicable", TRUE)

(* The inputs are looked at again after the last check; then the roster,   *)
(* the protected paths and the verifiers of the candidate decide.          *)
Judge ==
  /\ evaluation = "next" /\ Len(results) = Len(policy)
  /\ \E protected \in {"Pass", "Fail"}, tampered \in BOOLEAN :
       evaluation' =
         IF privateInput = "moved" \/ source # 0 THEN "aborted"
         ELSE IF Roster /\ OwnAdmitted(Own("Engine", protected, FALSE, FALSE)) /\ ~tampered THEN "PASS" ELSE "FAIL"
  /\ UNCHANGED <<policy, emptyDeclared, verifiers, required, inputVars, unitVars, boundsUsed>>

(* Mutant: what ran is read from the requirement the evaluation states.    *)
ActualFromRequirement(i) == IF policy[i].bundle THEN required ELSE NoBundle.holds

(* _execution_identity: what the runner recorded that it staged.           *)
ActualMember(i) == results[i].identity

ExpectedMember(i) == IF policy[i].bundle THEN verifiers ELSE NoBundle.holds

SameIdentity == \A i \in DOMAIN policy : ActualMember(i) = ExpectedMember(i)

(* A collapse relies on the entry: the requirement is the one in force,    *)
(* the roster and the agent's exit are judged again from the records.      *)
Promote ==
  /\ evaluation = "PASS"
  /\ \E agent \in {"Pass", "Fail"}, supervised \in BOOLEAN, stopped \in BOOLEAN :
       evaluation' =
         IF required = verifiers /\ Roster /\ SameIdentity /\ OwnAdmitted(Own("Agent", agent, supervised, stopped))
         THEN "promoted" ELSE "refused"
  /\ UNCHANGED <<policy, emptyDeclared, verifiers, required, inputVars, unitVars, boundsUsed>>

EvidenceNext ==
  \/ Begin \/ CapturePrivateInput \/ RunOne \/ VerifierEdited \/ InputMoves \/ StagedMoves
  \/ UnitEnds \/ UnitTimesOut \/ RecordResult \/ Judge \/ Promote

EvidenceSpec == EvidenceInit /\ [][EvidenceNext]_evidenceVars

-----------------------------------------------------------------------------
(* What a promotion relies on really happened: every required check's      *)
(* examiner itself ended with status 0, was given the tree that is         *)
(* promoted, with nothing over it but what an earlier legacy check left    *)
(* (finalize.py claims no more of those), a declared verifier ran as it is *)
(* in PRIME now, and a verdict read from a report was written by the       *)
(* examiner.                                                               *)
PromotedWasExamined ==
  evaluation = "promoted" =>
    \A i \in DOMAIN policy :
      /\ truth[i].exit = 0 /\ truth[i].tree
      /\ truth[i].clean \/ (policy[i].profile = "legacy" /\ \E j \in 1..(i - 1) : truth[j].left)
      /\ policy[i].bundle => truth[i].ran = verifiers
      /\ policy[i].format = "report" => truth[i].wrote = "pass"
=============================================================================
