--------------------------- MODULE EvidenceProofs ---------------------------
(***************************************************************************)
(* The contract of the evaluation kernel, and from it that a promotion     *)
(* rests on examinations that really happened, for policies of any length  *)
(* and any number of faults.                                               *)
(***************************************************************************)
EXTENDS Evidence, SequenceTheorems, TLAPS

(* The postcondition of Classify: an outcome exists exactly when the       *)
(* evaluation completed, it is the recorded verdict, and what was          *)
(* malformed, stopped or never started is refused by its own name.         *)
THEOREM ClassifyContract ==
  ASSUME NEW f, Observed(f)
  PROVE  /\ Classify(f).execution = "Completed" <=> Classify(f).result # "No_Outcome"
         /\ Classify(f).execution = "Completed" =>
              CompletionPossible(f) /\ (Classify(f).result = "Passed" <=> f.status = "Pass")
         /\ f.channel = "Malformed" => Classify(f).execution = "Unclassified"
         /\ f.unsatisfiedImports /\ f.status = "Fail" => Classify(f).execution # "Completed"
         /\ f.source = "Agent" /\ f.channel # "Malformed" /\ (f.stopped \/ f.supervisor \in {"None", "Stopped"})
              => Classify(f).execution = "Interrupted"
         /\ f.source = "External" /\ f.channel # "Malformed" /\ f.status = "Unassessed"
              => Classify(f).execution = "Not_Attempted"
         /\ f.source = "External" /\ f.status = "Absent" /\ ~f.exitPresent /\ Silent(f)
              => Classify(f).execution = "Not_Attempted"
         /\ f.source = "External" /\ f.status # "Unassessed" /\ f.channel = "Rejected" /\ f.stage = "Never_Started"
              => Classify(f).execution = "Error_Before_Examiner"
<1> USE DEF Observed, Definite, Silent
<1>1. CASE f.source = "Engine"
  BY <1>1 DEF Classify, ExecutionOf, Answered, EngineExecution, CompletionPossible
<1>2. CASE f.source = "Agent"
  BY <1>2 DEF Classify, ExecutionOf, Answered, AgentExecution, CompletionPossible
<1>3. CASE f.source = "External"
  BY <1>3 DEF Classify, ExecutionOf, Answered, ExternalExecution, RejectedAt, CompletionPossible
<1>4. QED BY <1>1, <1>2, <1>3

(* Classifying and the life of an attempt agree: what Classify answers is  *)
(* either that there was no attempt, or an end that a prepared or started  *)
(* attempt may come to and that nothing leaves; only a started one         *)
(* completes.                                                              *)
THEOREM ClassificationsAreFinal ==
  ASSUME NEW f, Observed(f), Classify(f).execution # "Not_Attempted"
  PROVE  /\ Classify(f).execution \in Terminal
         /\ \E s \in {"Prepared", "Started"} : TransitionAllowed(s, Classify(f).execution)
         /\ \A s : ~TransitionAllowed(Classify(f).execution, s)
         /\ \A s : Classify(f).execution = "Completed" /\ TransitionAllowed(s, "Completed") => s = "Started"
<1>1. Classify(f).execution \in Terminal
  <2>1. Answered(f) \in Terminal \cup {"Not_Attempted"}
    BY DEF Terminal, Answered, EngineExecution, AgentExecution, ExternalExecution, RejectedAt, Definite, Silent
  <2>2. QED BY <2>1 DEF Classify, ExecutionOf, Terminal
<1>2. QED BY <1>1 DEF Terminal, TransitionAllowed

-----------------------------------------------------------------------------
(* What an admission tells of the records it was made from.                *)
LEMMA AdmittedIsDefinite ==
  ASSUME NEW f, f.source = "External", NEW report, NEW complete, Admissible(Classify(f), report, complete)
  PROVE  /\ f.channel = "Accepted" /\ f.status = "Pass" /\ complete
         /\ report \in {"Not_Applicable", "Verified_Report"}
<1>1. Classify(f).execution = "Completed" /\ Classify(f).result = "Passed"
  BY DEF Admissible
<1>2. Answered(f) = "Completed" /\ f.status = "Pass"
  BY <1>1 DEF Classify, ExecutionOf
<1>3. f.channel = "Accepted"
  BY <1>2 DEF Answered, ExternalExecution, RejectedAt
<1>4. QED BY <1>2, <1>3 DEF Admissible

LEMMA PoliciesAreSequences ==
  ASSUME NEW p \in Policies
  PROVE  p \in Seq(CheckSpecs)
<1>1. PICK n \in 0..MaxChecks : p \in [1..n -> CheckSpecs]
  BY DEF Policies
<1>2. n \in Nat
  BY EvidenceBounds
<1>3. QED BY <1>1, <1>2, SeqDef

-----------------------------------------------------------------------------
(* The inductive invariant: what was recorded is what happened, and what   *)
(* could not be true any more is remembered in the tree or in the copy.    *)
Truths  == [ran: {Undeclared, 0, 1, CandidateIs, Substitute}, tree: BOOLEAN, clean: BOOLEAN, left: BOOLEAN,
            exit: {0, 1}, wrote: {"pass", "other"}]

Results ==
  [source: {"External"}, status: {"Pass", "Fail"}, channel: {"Accepted", "Rejected"},
   stage: {"None", "Never_Started", "Manager_Stopped", "Other"}, exitPresent: BOOLEAN, exitInteger: BOOLEAN,
   supervisor: {"Supervised", "Other"}, stopped: BOOLEAN, bundlePresent: BOOLEAN, bundleIsMapping: BOOLEAN,
   bundleStable: BOOLEAN, bundleChanged: BOOLEAN, unsatisfiedImports: BOOLEAN, identity: {-1, 0, 1},
   check: CheckSpecs]

EvidenceTypes ==
  /\ policy \in Seq(CheckSpecs) /\ truth \in Seq(Truths) /\ results \in Seq(Results)
  /\ verifiers \in {0, 1} /\ source \in {0, 1} /\ privateInput \in {"none", "same", "moved"}
  /\ bundle \in [holds: {-1, 0, 1}, moved: {"no", "content", "rebound"}]
  /\ unit \in [stopped: BOOLEAN, found: Reports, boundary: BOOLEAN]
  /\ evaluation \in {"idle", "next", "running", "ended", "aborted", "PASS", "FAIL", "promoted", "refused"}

InUnit == evaluation \in {"running", "ended"}

(* Every unit that ended has its record, and the one that runs has none.   *)
RecordsKeepUp ==
  evaluation # "aborted" =>
    /\ Len(truth) = Len(results) + (IF InUnit THEN 1 ELSE 0) /\ Len(truth) <= Len(policy)
    /\ evaluation \in {"PASS", "promoted"} => Len(results) = Len(policy)

RecordIsTrue(r, t, c) ==
  /\ r.check = c /\ r.bundlePresent = c.bundle
  /\ r.channel = "Accepted" /\ r.status = "Pass" =>
       t.exit = 0 /\ (c.profile = "private" => t.wrote = "pass")
  /\ r.bundlePresent /\ r.bundleStable => t.ran = r.identity

RecordsAreTrue ==
  evaluation # "aborted" => \A i \in 1..Len(results) : RecordIsTrue(results[i], truth[i], policy[i])

(* A unit that ran over another tree is given away by where it ran.        *)
TreesAreTrue ==
  evaluation # "aborted" => \A i \in 1..Len(truth) :
    ~truth[i].tree => IF policy[i].profile = "private" THEN privateInput = "moved" ELSE source = 1

(* What lies over the tree was left by a check that ended before.          *)
LeftBy(i) == \E j \in 1..(i - 1) : truth[j].left

ScratchIsTrue ==
  evaluation # "aborted" =>
    /\ \A i \in 1..Len(truth) : truth[i].clean \/ (policy[i].profile = "legacy" /\ LeftBy(i))
    /\ scratched => LeftBy(Len(truth) + 1)

UnitIsTrue ==
  InUnit =>
    /\ Check.profile = "private" => privateInput # "none"
    /\ evaluation = "running" => ~truth[Latest].left
    /\ Check.bundle /\ bundle.moved = "no" => truth[Latest].ran = bundle.holds
    /\ evaluation = "ended" /\ Check.profile = "private" /\ unit.boundary => truth[Latest].wrote = Told(unit.found)

JudgedAsItIs ==
  /\ evaluation \in {"PASS", "promoted"} => source = 0 /\ privateInput # "moved"
  /\ evaluation = "promoted" => Roster /\ SameIdentity

EvidenceInvariant ==
  EvidenceTypes /\ RecordsKeepUp /\ RecordsAreTrue /\ TreesAreTrue /\ ScratchIsTrue /\ UnitIsTrue
    /\ JudgedAsItIs

LEMMA EvidenceStarts == EvidenceInit => EvidenceInvariant
<1> SUFFICES ASSUME EvidenceInit PROVE EvidenceInvariant
  OBVIOUS
<1>1. policy \in Seq(CheckSpecs)
  BY PoliciesAreSequences DEF EvidenceInit
<1>2. EvidenceTypes
  BY <1>1 DEF EvidenceInit, EvidenceTypes, NoBundle, NotEnded, Reports
<1>3. RecordsKeepUp
  BY <1>1 DEF EvidenceInit, RecordsKeepUp, InUnit
<1>4. QED
  BY <1>2, <1>3 DEF EvidenceInit, EvidenceInvariant, RecordsAreTrue, TreesAreTrue, ScratchIsTrue, UnitIsTrue, JudgedAsItIs, InUnit

(* A step that touches neither records nor units keeps what they say.      *)
LEMMA BeginKeeps == EvidenceInvariant /\ Begin => EvidenceInvariant'
<1> SUFFICES ASSUME EvidenceInvariant, Begin PROVE EvidenceInvariant'
  OBVIOUS
<1> USE DEF Begin, EvidenceInvariant, unitVars, inputVars, boundsUsed
<1>1. EvidenceTypes'
  BY DEF EvidenceTypes
<1>2. RecordsKeepUp' /\ RecordsAreTrue' /\ TreesAreTrue' /\ ScratchIsTrue'
  BY DEF RecordsKeepUp, RecordsAreTrue, TreesAreTrue, ScratchIsTrue, LeftBy, InUnit
<1>3. QED
  BY <1>1, <1>2 DEF UnitIsTrue, JudgedAsItIs, InUnit

LEMMA CapturePrivateInputKeeps == EvidenceInvariant /\ CapturePrivateInput => EvidenceInvariant'
<1> SUFFICES ASSUME EvidenceInvariant, CapturePrivateInput PROVE EvidenceInvariant'
  OBVIOUS
<1> USE DEF CapturePrivateInput, More, EvidenceInvariant, unitVars, boundsUsed
<1>1. EvidenceTypes'
  BY DEF EvidenceTypes
<1>2. RecordsKeepUp' /\ RecordsAreTrue' /\ TreesAreTrue' /\ ScratchIsTrue'
  BY DEF RecordsKeepUp, RecordsAreTrue, TreesAreTrue, ScratchIsTrue, LeftBy, InUnit
<1>3. QED
  BY <1>1, <1>2 DEF UnitIsTrue, JudgedAsItIs, InUnit

LEMMA VerifierEditedKeeps == EvidenceInvariant /\ VerifierEdited => EvidenceInvariant'
<1> SUFFICES ASSUME EvidenceInvariant, VerifierEdited PROVE EvidenceInvariant'
  OBVIOUS
<1> USE DEF VerifierEdited, Evaluating, EvidenceInvariant, unitVars, inputVars
<1>1. EvidenceTypes'
  BY DEF EvidenceTypes
<1>2. RecordsKeepUp' /\ RecordsAreTrue' /\ TreesAreTrue' /\ ScratchIsTrue'
  BY DEF RecordsKeepUp, RecordsAreTrue, TreesAreTrue, ScratchIsTrue, LeftBy, InUnit
<1>3. QED
  BY <1>1, <1>2 DEF UnitIsTrue, JudgedAsItIs, InUnit, Check, Latest

LEMMA UnitTimesOutKeeps == EvidenceInvariant /\ UnitTimesOut => EvidenceInvariant'
<1> SUFFICES ASSUME EvidenceInvariant, UnitTimesOut PROVE EvidenceInvariant'
  OBVIOUS
<1> USE DEF UnitTimesOut, EvidenceInvariant, unitVars, inputVars
<1>1. EvidenceTypes'
  BY DEF EvidenceTypes
<1>2. QED
  BY <1>1 DEF RecordsKeepUp, RecordsAreTrue, TreesAreTrue, ScratchIsTrue, UnitIsTrue, JudgedAsItIs, InUnit

LEMMA CheckSpecFields ==
  ASSUME NEW c \in CheckSpecs
  PROVE  c.bundle \in BOOLEAN /\ c.format \in {"exit", "report"} /\ c.profile \in {"legacy", "private"}
<1>1. CASE c \in [profile: {"legacy"}, format: {"exit", "report"}, bundle: BOOLEAN]
  BY <1>1
<1>2. CASE c = [profile |-> "private", format |-> "report", bundle |-> TRUE]
  BY <1>2
<1>3. QED BY <1>1, <1>2 DEF CheckSpecs

LEMMA RunOneKeeps == EvidenceInvariant /\ RunOne => EvidenceInvariant'
<1> SUFFICES ASSUME EvidenceInvariant, RunOne PROVE EvidenceInvariant'
  OBVIOUS
<1> PICK argv \in Argvs :
      IF ~Attributable(Check, argv)
      THEN evaluation' = "aborted" /\ UNCHANGED <<bundle, truth>>
      ELSE /\ evaluation' = "running"
           /\ bundle' = IF Check.bundle THEN [holds |-> verifiers, moved |-> "no"] ELSE NoBundle
           /\ truth' = Append(truth, [ran |-> IF ~Check.bundle THEN Undeclared
                                              ELSE IF argv = "named" THEN verifiers ELSE CandidateIs,
                                      tree |-> IF Check.profile = "private" THEN privateInput = "same"
                                               ELSE source = 0,
                                      clean |-> Check.profile = "private" \/ ~scratched,
                                      left |-> FALSE, exit |-> 1, wrote |-> "other"])
  BY DEF RunOne
<1>0. /\ More /\ (Check.profile = "private" => privateInput # "none")
      /\ UNCHANGED <<policy, emptyDeclared, verifiers, required, inputVars, unit, results, boundsUsed>>
  BY DEF RunOne
<1>1. CASE ~Attributable(Check, argv)
  <2>1. EvidenceTypes'
    BY <1>0, <1>1 DEF EvidenceInvariant, EvidenceTypes, inputVars
  <2>2. QED
    BY <1>1, <2>1 DEF EvidenceInvariant, RecordsKeepUp, RecordsAreTrue, TreesAreTrue, ScratchIsTrue, UnitIsTrue, JudgedAsItIs, InUnit
<1>2. CASE Attributable(Check, argv)
  <2> DEFINE t == [ran |-> IF ~Check.bundle THEN Undeclared
                           ELSE IF argv = "named" THEN verifiers ELSE CandidateIs,
                   tree |-> IF Check.profile = "private" THEN privateInput = "same" ELSE source = 0,
                   clean |-> Check.profile = "private" \/ ~scratched, left |-> FALSE,
                   exit |-> 1, wrote |-> "other"]
  <2>0. /\ EvidenceTypes /\ evaluation = "next" /\ evaluation' = "running" /\ truth' = Append(truth, t)
        /\ Len(truth) = Len(results) /\ Len(results) < Len(policy)
    BY <1>0, <1>2 DEF EvidenceInvariant, More, RecordsKeepUp, InUnit
  <2>1. t \in Truths
    BY <2>0 DEF Truths, EvidenceTypes, Reports
  <2>2. /\ truth' \in Seq(Truths) /\ Len(truth') = Len(truth) + 1
        /\ \A i \in 1..Len(truth) : truth'[i] = truth[i]
        /\ truth'[Len(truth) + 1] = t
    BY <2>0, <2>1, AppendProperties DEF EvidenceTypes
  <2>3. EvidenceTypes'
    BY <1>0, <1>2, <2>0, <2>2 DEF EvidenceTypes, inputVars, NoBundle
  <2>4. RecordsKeepUp'
    BY <1>0, <2>0, <2>2 DEF RecordsKeepUp, InUnit, EvidenceTypes
  <2>5. RecordsAreTrue'
    BY <1>0, <2>0, <2>2 DEF EvidenceInvariant, RecordsAreTrue, EvidenceTypes
  <2>6. t.tree \/ IF Check.profile = "private" THEN privateInput = "moved" ELSE source = 1
    BY <1>0, <2>0 DEF EvidenceTypes
  <2>7. TreesAreTrue'
    <3> SUFFICES ASSUME NEW i \in 1..Len(truth'), ~truth'[i].tree
                 PROVE  IF policy[i].profile = "private" THEN privateInput = "moved" ELSE source = 1
      BY <1>0 DEF TreesAreTrue, inputVars
    <3>1. CASE i \in 1..Len(truth)
      BY <2>0, <2>2, <3>1 DEF EvidenceInvariant, TreesAreTrue
    <3>2. CASE i = Len(truth) + 1
      BY <2>0, <2>2, <2>6, <3>2 DEF Check
    <3>3. QED BY <2>0, <2>2, <3>1, <3>2 DEF EvidenceTypes
  <2>11. ScratchIsTrue'
    <3>1. ScratchIsTrue /\ evaluation # "aborted"
      BY <2>0 DEF EvidenceInvariant
    <3>2. scratched => LeftBy(Len(truth) + 1)
      BY <3>1 DEF ScratchIsTrue
    <3>3. \A i \in 1..(Len(truth) + 1) : LeftBy(i) => LeftBy(i)'
      BY <2>0, <2>2 DEF LeftBy, EvidenceTypes
    <3>4. \A i \in 1..Len(truth') : truth'[i].clean \/ (policy[i].profile = "legacy" /\ LeftBy(i)')
      <4> SUFFICES ASSUME NEW i \in 1..Len(truth'), ~truth'[i].clean
                   PROVE  policy[i].profile = "legacy" /\ LeftBy(i)'
        OBVIOUS
      <4>1. CASE i \in 1..Len(truth)
        BY <2>0, <2>2, <3>1, <3>3, <4>1 DEF ScratchIsTrue, EvidenceTypes
      <4>2. CASE i = Len(truth) + 1
        <5>1. Check = policy[i] /\ Check \in CheckSpecs
          BY <2>0, <4>2 DEF Check, EvidenceTypes
        <5>2. Check.profile # "private" /\ scratched
          <6>1. t.clean <=> (Check.profile = "private" \/ ~scratched)
            BY Zenon
          <6>2. ~t.clean
            BY <2>2, <4>2
          <6>3. QED BY <6>1, <6>2
        <5>3. Check.profile = "legacy"
          BY <5>1, <5>2, CheckSpecFields
        <5>4. QED BY <3>2, <3>3, <4>2, <5>1, <5>2, <5>3
      <4>3. QED BY <2>0, <2>2, <4>1, <4>2 DEF EvidenceTypes
    <3>5. scratched => LeftBy(Len(truth) + 1)'
      <4>1. ASSUME scratched PROVE LeftBy(Len(truth) + 1)'
        <5>1. PICK j \in 1..Len(truth) : truth[j].left
          BY <2>0, <3>2, <4>1 DEF LeftBy, EvidenceTypes
        <5>2. j \in 1..((Len(truth') + 1) - 1) /\ truth'[j].left
          BY <2>0, <2>2, <5>1 DEF EvidenceTypes
        <5>3. QED BY <5>2 DEF LeftBy
      <4>2. QED BY <4>1
    <3>6. QED BY <1>0, <2>0, <3>4, <3>5 DEF ScratchIsTrue, inputVars
  <2>8. Check.bundle => t.ran = verifiers
    BY <1>2 DEF Attributable
  <2>9. UnitIsTrue'
    BY <1>0, <1>2, <2>0, <2>2, <2>8 DEF UnitIsTrue, Check, Latest, inputVars
  <2>10. QED
    BY <2>0, <2>3, <2>4, <2>5, <2>7, <2>9, <2>11 DEF EvidenceInvariant, JudgedAsItIs
<1>3. QED BY <1>1, <1>2

(* A step that moves neither what was left nor what was seen.              *)
LEMMA ScratchKept ==
  ASSUME EvidenceInvariant, evaluation # "aborted", policy' = policy, scratched' = scratched,
         Len(truth') = Len(truth),
         \A i \in 1..Len(truth) : truth'[i].clean = truth[i].clean /\ truth'[i].left = truth[i].left
  PROVE  ScratchIsTrue'
<1>1. ScratchIsTrue /\ Len(truth) \in Nat
  BY DEF EvidenceInvariant, EvidenceTypes
<1>2. \A i \in 1..(Len(truth) + 1) : LeftBy(i) => LeftBy(i)'
  <2> SUFFICES ASSUME NEW i \in 1..(Len(truth) + 1), LeftBy(i) PROVE LeftBy(i)'
    OBVIOUS
  <2>1. PICK j \in 1..(i - 1) : truth[j].left
    BY DEF LeftBy
  <2>2. j \in 1..Len(truth)
    BY <1>1
  <2>3. truth'[j].left
    BY <2>1, <2>2
  <2>4. QED BY <2>3 DEF LeftBy
<1>3. \A i \in 1..Len(truth) : truth'[i].clean \/ (policy[i].profile = "legacy" /\ LeftBy(i)')
  <2> SUFFICES ASSUME NEW i \in 1..Len(truth), ~truth'[i].clean
               PROVE  policy[i].profile = "legacy" /\ LeftBy(i)'
    OBVIOUS
  <2>1. ~truth[i].clean
    OBVIOUS
  <2>2. policy[i].profile = "legacy" /\ LeftBy(i)
    BY <1>1, <2>1 DEF ScratchIsTrue
  <2>3. QED BY <1>1, <1>2, <2>2
<1>4. scratched => LeftBy(Len(truth) + 1)'
  <2>1. ASSUME scratched PROVE LeftBy(Len(truth) + 1)'
    <3>1. PICK j \in 1..Len(truth) : truth[j].left
      BY <1>1, <2>1 DEF ScratchIsTrue, LeftBy
    <3>2. j \in 1..((Len(truth') + 1) - 1) /\ truth'[j].left
      BY <1>1, <3>1
    <3>3. QED BY <3>2 DEF LeftBy
  <2>2. QED BY <2>1
<1>5. QED
  BY <1>3, <1>4 DEF ScratchIsTrue

LEMMA InputMovesKeeps == EvidenceInvariant /\ InputMoves => EvidenceInvariant'
<1> SUFFICES ASSUME EvidenceInvariant, InputMoves PROVE EvidenceInvariant'
  OBVIOUS
<1>0. /\ EvidenceTypes /\ Evaluating
      /\ \/ source' = 1 /\ privateInput' = privateInput
         \/ privateInput' = "moved" /\ source' = source
      /\ UNCHANGED <<policy, verifiers, scratched, bundle, unit, results, evaluation>>
  BY DEF EvidenceInvariant, InputMoves
<1>1. /\ truth' \in Seq(Truths) /\ Len(truth') = Len(truth)
      /\ \A i \in 1..Len(truth) : /\ truth'[i].ran = truth[i].ran /\ truth'[i].exit = truth[i].exit
                                  /\ truth'[i].wrote = truth[i].wrote
                                  /\ truth'[i].clean = truth[i].clean /\ truth'[i].left = truth[i].left
                                  /\ truth[i].tree /\ ~truth'[i].tree =>
                                       IF policy[i].profile = "private" THEN privateInput' = "moved" ELSE source' = 1
  <2>1. CASE evaluation = "running"
    <3> DEFINE t == [truth[Latest] EXCEPT !.tree = @ /\ IF Check.profile = "private" THEN privateInput' = "same"
                                                       ELSE source' = 0]
    <3>1. Latest \in 1..Len(truth) /\ Latest = Len(results) + 1
      BY <1>0, <2>1 DEF EvidenceInvariant, EvidenceTypes, RecordsKeepUp, InUnit, Latest
    <3>2. truth[Latest] \in Truths
      BY <1>0, <3>1 DEF EvidenceTypes
    <3>3. t \in Truths
      BY <3>2 DEF Truths
    <3>4. truth' = [truth EXCEPT ![Latest] = t]
      BY <2>1 DEF InputMoves
    <3>5. /\ truth' \in Seq(Truths) /\ Len(truth') = Len(truth)
          /\ \A i \in 1..Len(truth) : truth'[i] = IF i = Latest THEN t ELSE truth[i]
      BY <1>0, <3>1, <3>3, <3>4, ExceptSeq DEF EvidenceTypes
    <3>6. /\ t.ran = truth[Latest].ran /\ t.exit = truth[Latest].exit /\ t.wrote = truth[Latest].wrote
          /\ t.clean = truth[Latest].clean /\ t.left = truth[Latest].left
          /\ truth[Latest].tree /\ ~t.tree =>
               IF Check.profile = "private" THEN privateInput' = "moved" ELSE source' = 1
      BY <1>0, <2>1, <3>2 DEF Truths, EvidenceInvariant, EvidenceTypes, UnitIsTrue, InUnit
    <3>7. QED
      BY <3>1, <3>5, <3>6 DEF Check
  <2>2. CASE evaluation # "running"
    BY <1>0, <2>2 DEF InputMoves, EvidenceTypes
  <2>3. QED BY <2>1, <2>2
<1>2. EvidenceTypes'
  BY <1>0, <1>1 DEF EvidenceTypes
<1>3. RecordsKeepUp'
  BY <1>0, <1>1 DEF EvidenceInvariant, RecordsKeepUp, InUnit
<1>4. RecordsAreTrue'
  <2>1. evaluation # "aborted" => \A i \in 1..Len(results) : i \in 1..Len(truth)
    BY <1>0 DEF EvidenceInvariant, EvidenceTypes, RecordsKeepUp, InUnit
  <2>2. QED
    BY <1>0, <1>1, <2>1 DEF EvidenceInvariant, RecordsAreTrue, RecordIsTrue
<1>5. TreesAreTrue'
  <2> SUFFICES ASSUME evaluation # "aborted", NEW i \in 1..Len(truth), ~truth'[i].tree
               PROVE  IF policy[i].profile = "private" THEN privateInput' = "moved" ELSE source' = 1
    BY <1>0, <1>1 DEF TreesAreTrue
  <2>1. CASE truth[i].tree
    BY <1>0, <1>1, <2>1 DEF EvidenceTypes
  <2>2. CASE ~truth[i].tree
    BY <1>0, <2>2 DEF EvidenceInvariant, TreesAreTrue
  <2>3. QED BY <2>1, <2>2
<1>6. UnitIsTrue'
  <2>1. InUnit => Latest \in 1..Len(truth)
    BY <1>0 DEF EvidenceInvariant, EvidenceTypes, RecordsKeepUp, InUnit, Latest
  <2>2. InUnit' = InUnit /\ Check' = Check /\ Latest' = Latest
    BY <1>0, <1>1 DEF InUnit, Check, Latest
  <2>3. privateInput # "none" => privateInput' # "none"
    BY <1>0
  <2>4. QED
    BY <1>0, <1>1, <2>1, <2>2, <2>3 DEF EvidenceInvariant, UnitIsTrue
<1>7. ScratchIsTrue'
  <2>1. evaluation # "aborted"
    BY <1>0 DEF Evaluating
  <2>2. QED BY <1>0, <1>1, <2>1, ScratchKept
<1>8. QED
  BY <1>0, <1>2, <1>3, <1>4, <1>5, <1>6, <1>7 DEF EvidenceInvariant, JudgedAsItIs, Evaluating

LEMMA StagedMovesKeeps == EvidenceInvariant /\ StagedMoves => EvidenceInvariant'
<1> SUFFICES ASSUME EvidenceInvariant, StagedMoves PROVE EvidenceInvariant'
  OBVIOUS
<1> DEFINE t == [truth[Latest] EXCEPT !.ran = Substitute]
<1>0. /\ EvidenceTypes /\ evaluation = "running" /\ truth' = [truth EXCEPT ![Latest] = t]
      /\ bundle' \in [holds: {-1, 0, 1}, moved: {"content", "rebound"}]
      /\ UNCHANGED <<policy, verifiers, inputVars, unit, results, evaluation>>
  BY DEF EvidenceInvariant, EvidenceTypes, StagedMoves
<1>1. Latest \in 1..Len(truth) /\ Latest = Len(results) + 1
  BY <1>0 DEF EvidenceInvariant, EvidenceTypes, RecordsKeepUp, InUnit, Latest
<1>20. truth[Latest] \in Truths
  BY <1>0, <1>1 DEF EvidenceTypes
<1>2. /\ t \in Truths /\ t.tree = truth[Latest].tree
      /\ t.clean = truth[Latest].clean /\ t.left = truth[Latest].left
  BY <1>20 DEF Truths
<1>3. /\ truth' \in Seq(Truths) /\ Len(truth') = Len(truth)
      /\ \A i \in 1..Len(truth) : truth'[i] = IF i = Latest THEN t ELSE truth[i]
  BY <1>0, <1>1, <1>2, ExceptSeq DEF EvidenceTypes
<1>4. EvidenceTypes'
  BY <1>0, <1>3 DEF EvidenceTypes, inputVars
<1>5. RecordsKeepUp'
  BY <1>0, <1>3 DEF EvidenceInvariant, RecordsKeepUp, InUnit
<1>6. RecordsAreTrue'
  BY <1>0, <1>1, <1>3 DEF EvidenceInvariant, EvidenceTypes, RecordsAreTrue, RecordsKeepUp, InUnit
<1>7. TreesAreTrue'
  BY <1>0, <1>1, <1>2, <1>3 DEF EvidenceInvariant, TreesAreTrue, inputVars
<1>8. ScratchIsTrue'
  <2>1. \A i \in 1..Len(truth) : truth'[i].clean = truth[i].clean /\ truth'[i].left = truth[i].left
    BY <1>2, <1>3
  <2>2. QED
    BY <1>0, <1>3, <2>1, ScratchKept DEF inputVars
<1>9. ~truth'[Latest].left /\ Latest' = Latest
  BY <1>0, <1>1, <1>2, <1>3 DEF EvidenceInvariant, UnitIsTrue, InUnit, Latest
<1>10. QED
  BY <1>0, <1>4, <1>5, <1>6, <1>7, <1>8, <1>9 DEF EvidenceInvariant, UnitIsTrue, JudgedAsItIs, InUnit, Check, inputVars

LEMMA UnitEndsKeeps == EvidenceInvariant /\ UnitEnds => EvidenceInvariant'
<1> SUFFICES ASSUME EvidenceInvariant, UnitEnds PROVE EvidenceInvariant'
  OBVIOUS
<1>p. PICK exit \in {0, 1}, wrote, found \in Reports, stopped \in BOOLEAN, boundary \in BOOLEAN, leaves \in BOOLEAN :
      /\ IF stopped \/ ~boundary THEN Fault ELSE UNCHANGED unitFaults
      /\ ~boundary => Check.profile = "private"
      /\ Check.format = "exit" => wrote = "nothing" /\ found = "nothing"
      /\ Check.profile = "private" /\ boundary => found = wrote
      /\ leaves => Check.profile = "legacy"
      /\ scratched' = IF Check.profile = "legacy" THEN leaves ELSE scratched
      /\ truth' = [truth EXCEPT ![Latest].exit = exit, ![Latest].wrote = Told(wrote), ![Latest].left = leaves]
      /\ unit' = [stopped |-> stopped, found |-> found, boundary |-> boundary]
  BY Zenon DEF UnitEnds
<1> DEFINE t == [truth[Latest] EXCEPT !.exit = exit, !.wrote = Told(wrote), !.left = leaves]
<1>0. /\ EvidenceTypes /\ evaluation = "running" /\ evaluation' = "ended"
      /\ UNCHANGED <<policy, verifiers, source, privateInput, bundle, results>>
  BY DEF EvidenceInvariant, UnitEnds
<1>1. Latest \in 1..Len(truth) /\ Latest = Len(results) + 1
  BY <1>0 DEF EvidenceInvariant, EvidenceTypes, RecordsKeepUp, InUnit, Latest
<1>20. truth[Latest] \in Truths
  BY <1>0, <1>1 DEF EvidenceTypes
<1>2. /\ t \in Truths
      /\ t.tree = truth[Latest].tree /\ t.ran = truth[Latest].ran /\ t.wrote = Told(wrote)
      /\ t.clean = truth[Latest].clean /\ t.left = leaves
  BY <1>20 DEF Truths, Told
<1>3. truth' = [truth EXCEPT ![Latest] = t]
  BY <1>p
<1> HIDE DEF t
<1>4. /\ truth' \in Seq(Truths) /\ Len(truth') = Len(truth)
      /\ \A i \in 1..Len(truth) : truth'[i] = IF i = Latest THEN t ELSE truth[i]
  BY <1>0, <1>1, <1>2, <1>3, ExceptSeq DEF EvidenceTypes
<1>5. EvidenceTypes'
  BY <1>0, <1>4, <1>p DEF EvidenceTypes
<1>6. RecordsKeepUp'
  BY <1>0, <1>4 DEF EvidenceInvariant, RecordsKeepUp, InUnit
<1>7. RecordsAreTrue'
  <2>1. \A i \in 1..Len(results) : i \in 1..Len(truth) /\ i # Latest
    BY <1>0, <1>1 DEF EvidenceTypes
  <2>2. \A i \in 1..Len(results) : truth'[i] = truth[i]
    BY <1>4, <2>1
  <2>3. \A i \in 1..Len(results) : RecordIsTrue(results[i], truth[i], policy[i])
    BY <1>0 DEF EvidenceInvariant, RecordsAreTrue
  <2>4. QED BY <1>0, <2>2, <2>3 DEF RecordsAreTrue
<1>8. TreesAreTrue'
  BY <1>0, <1>1, <1>2, <1>4 DEF EvidenceInvariant, TreesAreTrue
<1>9. UnitIsTrue'
  BY <1>0, <1>1, <1>2, <1>4, <1>p DEF EvidenceInvariant, UnitIsTrue, InUnit, Check, Latest
<1>11. ScratchIsTrue'
  <2>1. ScratchIsTrue /\ Latest = Len(truth) /\ Len(truth) \in Nat
    BY <1>0 DEF EvidenceInvariant, EvidenceTypes, Latest
  <2>2. \A i \in 1..Len(truth) : truth'[i].clean = truth[i].clean
    BY <1>2, <1>4
  <2>3. \A j \in 1..(Len(truth) - 1) : truth'[j].left = truth[j].left
    BY <1>4, <2>1
  <2>4. \A i \in 1..Len(truth) : LeftBy(i) => LeftBy(i)'
    BY <2>1, <2>3 DEF LeftBy
  <2>5. \A i \in 1..Len(truth') : truth'[i].clean \/ (policy'[i].profile = "legacy" /\ LeftBy(i)')
    BY <1>0, <1>4, <2>1, <2>2, <2>4 DEF ScratchIsTrue
  <2>6. scratched' => LeftBy(Len(truth) + 1)'
    <3>1. CASE Check.profile = "legacy" /\ leaves
      <4>1. Latest \in 1..((Len(truth') + 1) - 1) /\ truth'[Latest].left
        <5>1. truth'[Latest] = t /\ t.left = leaves
          BY <1>1, <1>2, <1>4
        <5>2. truth'[Latest].left
          BY <3>1, <5>1
        <5>3. QED BY <1>1, <1>4, <2>1, <5>2
      <4>2. QED BY <4>1 DEF LeftBy
    <3>2. CASE Check.profile # "legacy" /\ scratched
      <4>1. PICK j \in 1..Len(truth) : truth[j].left
        BY <1>0, <2>1, <3>2 DEF ScratchIsTrue, LeftBy
      <4>2. CASE j = Latest
        BY <1>0, <4>1, <4>2 DEF EvidenceInvariant, UnitIsTrue, InUnit
      <4>3. CASE j # Latest
        <5>1. j \in 1..((Len(truth') + 1) - 1) /\ truth'[j].left
          BY <1>4, <2>1, <4>1, <4>3
        <5>2. QED BY <5>1 DEF LeftBy
      <4>4. QED BY <4>2, <4>3
    <3>3. QED BY <1>p, <3>1, <3>2
  <2>7. QED BY <1>0, <2>5, <2>6 DEF ScratchIsTrue
<1>10. QED
  BY <1>0, <1>5, <1>6, <1>7, <1>8, <1>9, <1>11 DEF EvidenceInvariant, JudgedAsItIs

(* The record of a unit says what the unit did.                            *)
LEMMA ResultIsTrue ==
  ASSUME EvidenceInvariant, evaluation = "ended",
         NEW journal \in Journals, NEW launcher \in {truth[Latest].exit, 2}, NEW gaps \in BOOLEAN
  PROVE  /\ Result(Check, journal, truth[Latest].exit, launcher, gaps) \in Results
         /\ RecordIsTrue(Result(Check, journal, truth[Latest].exit, launcher, gaps), truth[Latest], Check)
<1> DEFINE r == Result(Check, journal, truth[Latest].exit, launcher, gaps)
           s == Stage(Check, journal, truth[Latest].exit, launcher)
<1>1. /\ EvidenceTypes /\ Check \in CheckSpecs /\ truth[Latest] \in Truths
      /\ UnitIsTrue /\ InUnit
  BY DEF EvidenceInvariant, EvidenceTypes, RecordsKeepUp, InUnit, Check, Latest
<1>2. s \in {"None", "Never_Started", "Manager_Stopped", "Other"}
  BY DEF Stage
<1>3. Check.bundle \in BOOLEAN /\ Check.format \in {"exit", "report"} /\ Check.profile \in {"legacy", "private"}
  BY <1>1, CheckSpecFields
<1>4. Parsed(Check, launcher, unit.found) \in {"Pass", "Fail"}
  BY DEF Parsed
<1>5. bundle.holds \in {-1, 0, 1} /\ Reread(bundle) \in BOOLEAN /\ (journal = "whole" /\ unit.stopped) \in BOOLEAN
  BY <1>1 DEF EvidenceTypes, Reread
<1>6. r \in Results
  <2> HIDE DEF s
  <2>1. QED
    BY <1>1, <1>2, <1>3, <1>4, <1>5 DEF Result, Results, s
<1>7. /\ r.check = Check /\ r.bundlePresent = Check.bundle /\ r.identity = bundle.holds
      /\ r.channel = "Accepted" <=> s = "None"
      /\ r.channel = "Accepted" => r.status = Parsed(Check, launcher, unit.found)
      /\ r.bundleStable => Reread(bundle)
  BY DEF Result
<1>8. r.channel = "Accepted" /\ r.status = "Pass" =>
        truth[Latest].exit = 0 /\ (Check.profile = "private" => truth[Latest].wrote = "pass")
  <2> SUFFICES ASSUME s = "None", Parsed(Check, launcher, unit.found) = "Pass"
               PROVE  truth[Latest].exit = 0 /\ (Check.profile = "private" => truth[Latest].wrote = "pass")
    BY <1>7
  <2>1. launcher = 0 /\ (Check.format = "report" => unit.found = "pass")
    BY DEF Parsed
  <2>2. truth[Latest].exit = 0
    BY <2>1
  <2>3. Check.profile = "private" => Check.format = "report" /\ unit.boundary
    BY <1>1 DEF Stage, CheckSpecs
  <2>4. QED
    BY <1>1, <2>1, <2>2, <2>3 DEF UnitIsTrue, Told
<1>9. r.bundlePresent /\ r.bundleStable => truth[Latest].ran = r.identity
  BY <1>1, <1>7 DEF UnitIsTrue, Reread
<1>10. QED BY <1>6, <1>7, <1>8, <1>9 DEF RecordIsTrue

LEMMA RecordResultKeeps == EvidenceInvariant /\ RecordResult => EvidenceInvariant'
<1> SUFFICES ASSUME EvidenceInvariant, RecordResult PROVE EvidenceInvariant'
  OBVIOUS
<1> PICK journal \in Journals, launcher \in {truth[Latest].exit, 2}, gaps \in BOOLEAN :
      /\ IF journal # "whole" \/ launcher = 2 THEN Fault ELSE UNCHANGED unitFaults
      /\ results' = Append(results, Result(Check, journal, truth[Latest].exit, launcher, gaps))
  BY DEF RecordResult
<1> DEFINE r == Result(Check, journal, truth[Latest].exit, launcher, gaps)
<1>0. /\ EvidenceTypes /\ evaluation = "ended" /\ evaluation' = "next" /\ bundle' = NoBundle /\ unit' = NotEnded
      /\ UNCHANGED <<policy, verifiers, inputVars, truth>>
  BY DEF EvidenceInvariant, RecordResult
<1>1. r \in Results /\ RecordIsTrue(r, truth[Latest], Check)
  BY <1>0, ResultIsTrue
<1> HIDE DEF r
<1>2. Len(truth) = Len(results) + 1 /\ Latest = Len(results) + 1 /\ Len(truth) <= Len(policy)
  BY <1>0 DEF EvidenceInvariant, RecordsKeepUp, InUnit, Latest
<1>3. /\ results' \in Seq(Results) /\ Len(results') = Len(results) + 1
      /\ \A i \in 1..Len(results) : results'[i] = results[i]
      /\ results'[Len(results) + 1] = r
  BY <1>0, <1>1, AppendProperties DEF EvidenceTypes, r
<1>4. EvidenceTypes'
  BY <1>0, <1>3 DEF EvidenceTypes, inputVars, NoBundle, NotEnded, Reports
<1>5. RecordsKeepUp'
  BY <1>0, <1>2, <1>3 DEF RecordsKeepUp, InUnit
<1>6. RecordsAreTrue'
  <2> SUFFICES ASSUME NEW i \in 1..Len(results') PROVE RecordIsTrue(results'[i], truth[i], policy[i])
    BY <1>0 DEF RecordsAreTrue
  <2>1. CASE i \in 1..Len(results)
    BY <1>0, <1>3, <2>1 DEF EvidenceInvariant, RecordsAreTrue
  <2>2. CASE i = Len(results) + 1
    BY <1>1, <1>2, <1>3, <2>2 DEF Check
  <2>3. QED BY <1>0, <1>3, <2>1, <2>2 DEF EvidenceTypes
<1>7. TreesAreTrue' /\ ScratchIsTrue'
  BY <1>0 DEF EvidenceInvariant, TreesAreTrue, ScratchIsTrue, LeftBy, inputVars
<1>8. QED
  BY <1>0, <1>4, <1>5, <1>6, <1>7 DEF EvidenceInvariant, UnitIsTrue, JudgedAsItIs, InUnit

LEMMA JudgeKeeps == EvidenceInvariant /\ Judge => EvidenceInvariant'
<1> SUFFICES ASSUME EvidenceInvariant, Judge PROVE EvidenceInvariant'
  OBVIOUS
<1>1. /\ evaluation' \in {"aborted", "PASS", "FAIL"}
      /\ evaluation' = "PASS" => privateInput # "moved" /\ source = 0
      /\ evaluation = "next" /\ Len(results) = Len(policy)
      /\ UNCHANGED <<policy, verifiers, inputVars, unitVars>>
  BY DEF Judge
<1>2. EvidenceTypes'
  BY <1>1 DEF EvidenceInvariant, EvidenceTypes, inputVars, unitVars
<1>3. RecordsKeepUp' /\ RecordsAreTrue' /\ TreesAreTrue' /\ ScratchIsTrue'
  BY <1>1 DEF EvidenceInvariant, RecordsKeepUp, RecordsAreTrue, TreesAreTrue, ScratchIsTrue, LeftBy, InUnit, inputVars, unitVars
<1>4. QED
  BY <1>1, <1>2, <1>3 DEF EvidenceInvariant, UnitIsTrue, JudgedAsItIs, InUnit, inputVars

LEMMA PromoteKeeps == EvidenceInvariant /\ Promote => EvidenceInvariant'
<1> SUFFICES ASSUME EvidenceInvariant, Promote PROVE EvidenceInvariant'
  OBVIOUS
<1>1. /\ evaluation' \in {"promoted", "refused"} /\ evaluation = "PASS"
      /\ evaluation' = "promoted" => Roster /\ SameIdentity
      /\ UNCHANGED <<policy, emptyDeclared, verifiers, required, inputVars, unitVars>>
  BY DEF Promote
<1>2. EvidenceTypes'
  BY <1>1 DEF EvidenceInvariant, EvidenceTypes, inputVars, unitVars
<1>3. RecordsKeepUp' /\ RecordsAreTrue' /\ TreesAreTrue' /\ ScratchIsTrue'
  BY <1>1 DEF EvidenceInvariant, RecordsKeepUp, RecordsAreTrue, TreesAreTrue, ScratchIsTrue, LeftBy, InUnit, inputVars, unitVars
<1>4. evaluation' = "promoted" => Roster' /\ SameIdentity'
  <2>1. policy' = policy /\ results' = results /\ emptyDeclared' = emptyDeclared /\ verifiers' = verifiers
    BY <1>1 DEF unitVars
  <2>2. (Roster' <=> Roster) /\ (SameIdentity' <=> SameIdentity)
    BY <2>1 DEF Roster, RosterComplete, Admitted, EvidenceComplete, ReportIntegrity, ReportVerified,
                SameIdentity, ActualMember, ExpectedMember
  <2>3. QED BY <1>1, <2>2
<1>5. QED
  BY <1>1, <1>2, <1>3, <1>4 DEF EvidenceInvariant, UnitIsTrue, JudgedAsItIs, InUnit, inputVars

LEMMA EvidenceStutters == EvidenceInvariant /\ UNCHANGED evidenceVars => EvidenceInvariant'
<1> SUFFICES ASSUME EvidenceInvariant, UNCHANGED evidenceVars PROVE EvidenceInvariant'
  OBVIOUS
<1> USE DEF evidenceVars, inputVars, unitVars, EvidenceInvariant
<1>1. EvidenceTypes' /\ RecordsKeepUp' /\ RecordsAreTrue' /\ TreesAreTrue' /\ ScratchIsTrue'
  BY DEF EvidenceTypes, RecordsKeepUp, RecordsAreTrue, TreesAreTrue, ScratchIsTrue, LeftBy, InUnit
<1>2. UnitIsTrue'
  BY DEF UnitIsTrue, InUnit, Check, Latest
<1>3. JudgedAsItIs'
  <2>1. (Roster' <=> Roster) /\ (SameIdentity' <=> SameIdentity)
    BY DEF Roster, RosterComplete, Admitted, EvidenceComplete, ReportIntegrity, ReportVerified,
           SameIdentity, ActualMember, ExpectedMember
  <2>2. QED BY <2>1 DEF JudgedAsItIs
<1>4. QED BY <1>1, <1>2, <1>3

(* In a promoted state the records admit every check, and they are true.   *)
LEMMA InvariantSuffices == EvidenceInvariant => PromotedWasExamined
<1> SUFFICES ASSUME EvidenceInvariant, evaluation = "promoted", NEW i \in DOMAIN policy
             PROVE  /\ truth[i].exit = 0 /\ truth[i].tree
                    /\ truth[i].clean \/ (policy[i].profile = "legacy" /\ \E j \in 1..(i - 1) : truth[j].left)
                    /\ policy[i].bundle => truth[i].ran = verifiers
                    /\ policy[i].format = "report" => truth[i].wrote = "pass"
  BY DEF PromotedWasExamined
<1>1. /\ i \in 1..Len(policy) /\ i \in DOMAIN results /\ i \in 1..Len(results) /\ i \in 1..Len(truth)
      /\ Len(policy) # 0
  BY DEF EvidenceInvariant, EvidenceTypes, RecordsKeepUp, InUnit
<1>2. results[i] \in Results /\ policy[i] \in CheckSpecs /\ truth[i] \in Truths
  BY <1>1 DEF EvidenceInvariant, EvidenceTypes
<1>3. i \in Admitted
  BY <1>1 DEF EvidenceInvariant, JudgedAsItIs, Roster, RosterComplete
<1>4. RecordIsTrue(results[i], truth[i], policy[i])
  BY <1>1 DEF EvidenceInvariant, RecordsAreTrue
<1>5. /\ results[i].channel = "Accepted" /\ results[i].status = "Pass"
      /\ EvidenceComplete(results[i], policy[i])
      /\ ReportIntegrity(results[i]) \in {"Not_Applicable", "Verified_Report"}
  <2>1. results[i].source = "External"
    BY <1>2 DEF Results
  <2>2. QED BY <1>3, <2>1, AdmittedIsDefinite DEF Admitted
<1>6. truth[i].exit = 0 /\ (policy[i].profile = "private" => truth[i].wrote = "pass")
  BY <1>4, <1>5 DEF RecordIsTrue
<1>7. truth[i].tree
  BY <1>1 DEF EvidenceInvariant, TreesAreTrue, JudgedAsItIs
<1>8. policy[i].bundle => truth[i].ran = verifiers
  <2> SUFFICES ASSUME policy[i].bundle PROVE truth[i].ran = verifiers
    OBVIOUS
  <2>1. results[i].identity = verifiers
    BY DEF EvidenceInvariant, JudgedAsItIs, SameIdentity, ActualMember, ExpectedMember
  <2>2. results[i].bundlePresent /\ results[i].bundleStable
    BY <1>4, <1>5 DEF RecordIsTrue, EvidenceComplete
  <2>3. QED BY <1>4, <2>1, <2>2 DEF RecordIsTrue
<1>9. policy[i].format = "report" => policy[i].profile = "private"
  BY <1>4, <1>5 DEF RecordIsTrue, ReportIntegrity, ReportVerified
<1>10. truth[i].clean \/ (policy[i].profile = "legacy" /\ \E j \in 1..(i - 1) : truth[j].left)
  BY <1>1 DEF EvidenceInvariant, ScratchIsTrue, LeftBy
<1>11. QED BY <1>6, <1>7, <1>8, <1>9, <1>10

(* What a promotion relies on really happened, for a policy of any length  *)
(* and any number of edits, stops and lost observations (checks.py,        *)
(* finalize.py, transaction.py: _execution_identity).                      *)
THEOREM PromotionsAreExamined == EvidenceSpec => []PromotedWasExamined
<1>1. EvidenceInvariant /\ [EvidenceNext]_evidenceVars => EvidenceInvariant'
  <2> SUFFICES ASSUME EvidenceInvariant, [EvidenceNext]_evidenceVars PROVE EvidenceInvariant'
    OBVIOUS
  <2>1. QED
    BY BeginKeeps, CapturePrivateInputKeeps, RunOneKeeps, VerifierEditedKeeps, InputMovesKeeps, StagedMovesKeeps,
       UnitEndsKeeps, UnitTimesOutKeeps, RecordResultKeeps, JudgeKeeps, PromoteKeeps, EvidenceStutters
       DEF EvidenceNext
<1>2. QED
  BY <1>1, EvidenceStarts, InvariantSuffices, PTL DEF EvidenceSpec
=============================================================================
