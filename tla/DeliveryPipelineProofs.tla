------------------------ MODULE DeliveryPipelineProofs ------------------------
(***************************************************************************)
(* Proofs about DeliveryPipeline, for any number of runs, manual starts    *)
(* and faults.                                                             *)
(***************************************************************************)
EXTENDS DeliveryPipeline, TLAPS

USE DeliveryAssumption

LEMMA TypeInit == Init => TypeOK
  BY SMT DEF Init, TypeOK, Ids, Contents, Steps, NotApplied, Objects, Attempts

RunRecord == [commit: 0 .. MaxRuns, attempt: Nat \ {0}, step: Steps,
              failed: BOOLEAN, authed: BOOLEAN]

\* A run moves on: only its step and its flags change.
Moved(x, r, s, f, a) ==
  /\ x \in [Ids -> RunRecord]
  /\ \A q \in Ids : q # r => x[q] = run[q]
  /\ x[r].step = s /\ x[r].failed = f /\ x[r].authed = a
  /\ x[r].commit = run[r].commit /\ x[r].attempt = run[r].attempt

LEMMA MoveStep ==
  ASSUME TypeOK, NEW r \in Ids, NEW s \in Steps
  PROVE  Moved([run EXCEPT ![r].step = s], r, s, run[r].failed, run[r].authed)
  BY DEF TypeOK, Moved, RunRecord

LEMMA MoveFail ==
  ASSUME TypeOK, NEW r \in Ids, NEW s \in Steps
  PROVE  Moved([run EXCEPT ![r].step = s, ![r].failed = TRUE], r, s, TRUE, run[r].authed)
<1> DEFINE x == [run EXCEPT ![r].step = s]
           y == [x EXCEPT ![r].failed = TRUE]
<1>1. Moved(x, r, s, run[r].failed, run[r].authed)
  BY MoveStep
<1>2. [run EXCEPT ![r].step = s, ![r].failed = TRUE] = y
  OBVIOUS
<1> HIDE DEF x
<1>3. Moved(y, r, s, TRUE, run[r].authed)
  BY <1>1 DEF Moved, RunRecord
<1> QED
  BY <1>2, <1>3

LEMMA MoveAuth ==
  ASSUME TypeOK, NEW r \in Ids, NEW s \in Steps
  PROVE  Moved([run EXCEPT ![r].authed = TRUE, ![r].step = s], r, s, run[r].failed, TRUE)
<1> DEFINE x == [run EXCEPT ![r].step = s]
           y == [x EXCEPT ![r].authed = TRUE]
<1>1. Moved(x, r, s, run[r].failed, run[r].authed)
  BY MoveStep
<1>2. [run EXCEPT ![r].authed = TRUE, ![r].step = s] = y
  BY DEF TypeOK
<1> HIDE DEF x
<1>3. Moved(y, r, s, run[r].failed, TRUE)
  BY <1>1 DEF Moved, RunRecord
<1> QED
  BY <1>2, <1>3

-------------------------------------------------------------------------------
(***************************************************************************)
(* How each action moves its run on.                                       *)
(***************************************************************************)
Fails(r, s) == Moved(run', r, s, TRUE, run[r].authed)
Goes(r, s) == Moved(run', r, s, run[r].failed, run[r].authed)

\* The attempt leaves files behind, these among them.
Makes(r, files) ==
  /\ made \subseteq made'
  /\ \A m \in made' \ made : m \in Objects /\ m.run = r /\ m.attempt = run[r].attempt
  /\ \A f \in files : Object(Attempt(r), f) \in made'

LEMMA ObjectType ==
  ASSUME TypeOK, NEW r \in Ids, NEW f \in Reports
  PROVE  /\ Object(Attempt(r), f) \in Objects
         /\ Object(Attempt(r), f).run = r
         /\ Object(Attempt(r), f).attempt = run[r].attempt
         /\ Object(Attempt(r), f).file = f
         /\ Attempt(r) \in Attempts
  BY DEF TypeOK, Object, Attempt, Objects, Attempts

LEMMA SucceedGoes ==
  ASSUME TypeOK, NEW r \in Ids, NEW s \in Steps, NEW files \in SUBSET Reports,
         Succeed(r, s, files)
  PROVE  Goes(r, s) /\ Makes(r, files)
<1>1. Goes(r, s)
  BY MoveStep DEF Succeed, Step, Goes
<1>2. Makes(r, files)
  BY ObjectType DEF Succeed, Makes
<1> QED
  BY <1>1, <1>2

LEMMA FailToFails ==
  ASSUME TypeOK, NEW r \in Ids, NEW s \in Steps, NEW files \in SUBSET Reports,
         FailTo(r, s, files)
  PROVE  Fails(r, s) /\ Makes(r, {})
<1>1. Fails(r, s)
  BY MoveFail DEF FailTo, Fails
<1>2. Makes(r, {})
  BY ObjectType DEF FailTo, Makes
<1> QED
  BY <1>1, <1>2

LEMMA StepNames ==
  /\ {"waiting", "pending", "prepare", "auth", "build", "scan", "plan", "apply",
      "upload", "done"} \subseteq Steps
  /\ {} \in SUBSET Reports /\ {"validation"} \in SUBSET Reports
  /\ {"plan"} \in SUBSET Reports /\ {"outputs"} \in SUBSET Reports
  BY DEF Steps, Busy, Reports

LEMMA WithdrawMoves ==
  ASSUME TypeOK, NEW r \in Ids, Withdraw(r)
  PROVE  Fails(r, "done") /\ At(r, {"waiting", "pending"})
  BY MoveFail, StepNames DEF Withdraw, Fails

LEMMA StartMoves ==
  ASSUME TypeOK, NEW r \in Ids, Start(r)
  PROVE  Goes(r, "prepare") /\ At(r, {"pending"}) /\ \A q \in Ids : ~At(q, Busy)
  BY MoveStep, StepNames DEF Start, MayStart, Step, Goes

LEMMA PrepareMoves ==
  ASSUME TypeOK, NEW r \in Ids, Prepare(r)
  PROVE  /\ At(r, {"prepare"})
         /\ \/ Goes(r, "auth") /\ Makes(r, {"validation"})
            \/ Fails(r, "auth") /\ Makes(r, {})
<1>1. Succeed(r, "auth", {"validation"}) => Goes(r, "auth") /\ Makes(r, {"validation"})
  BY SucceedGoes, StepNames
<1>2. \A files \in SUBSET Reports :
        FailTo(r, "auth", files) => Fails(r, "auth") /\ Makes(r, {})
  BY FailToFails, StepNames
<1>3. SUBSET {"validation"} \subseteq SUBSET Reports
  BY DEF Reports
<1> QED
  BY <1>1, <1>2, <1>3, StepNames DEF Prepare

LEMMA AuthMoves ==
  ASSUME TypeOK, NEW r \in Ids, Auth(r)
  PROVE  /\ At(r, {"auth"})
         /\ \/ /\ Moved(run', r, IF run[r].failed THEN "upload" ELSE "build", run[r].failed, TRUE)
               /\ UNCHANGED excused
            \/ Fails(r, "upload") /\ excused' = excused \cup MadeBy(r)
         /\ UNCHANGED <<made, archived>>
<1> DEFINE next == IF run[r].failed THEN "upload" ELSE "build"
<1>1. next \in Steps
  BY StepNames
<1>2. run' = [run EXCEPT ![r].authed = TRUE, ![r].step = next]
        => Moved(run', r, next, run[r].failed, TRUE)
  BY <1>1, MoveAuth
<1>3. run' = [run EXCEPT ![r].step = "upload", ![r].failed = TRUE] => Fails(r, "upload")
  BY MoveFail, StepNames DEF Fails
<1> QED
  BY <1>2, <1>3 DEF Auth

LEMMA BuildMoves ==
  ASSUME TypeOK, NEW r \in Ids, Build(r)
  PROVE  /\ At(r, {"build"})
         /\ \/ Goes(r, "scan") /\ Makes(r, {}) /\ object' = run[r].commit
            \/ Fails(r, "upload") /\ Makes(r, {}) /\ object' \in {object, run[r].commit}
<1>1. Succeed(r, "scan", {}) => Goes(r, "scan") /\ Makes(r, {})
  BY SucceedGoes, StepNames
<1>2. FailTo(r, "upload", {}) => Fails(r, "upload") /\ Makes(r, {})
  BY FailToFails, StepNames
<1> QED
  BY <1>1, <1>2 DEF Build

LEMMA ScanMoves ==
  ASSUME TypeOK, NEW r \in Ids, Scan(r)
  PROVE  /\ At(r, {"scan"})
         /\ \/ Goes(r, "plan") /\ Makes(r, {}) /\ Content(r) # "rejected"
            \/ Fails(r, "upload") /\ Makes(r, {})
<1>1. Succeed(r, "plan", {}) => Goes(r, "plan") /\ Makes(r, {})
  BY SucceedGoes, StepNames
<1>2. FailTo(r, "upload", {}) => Fails(r, "upload") /\ Makes(r, {})
  BY FailToFails, StepNames
<1> QED
  BY <1>1, <1>2 DEF Scan

LEMMA PlanMoves ==
  ASSUME TypeOK, NEW r \in Ids, Plan(r)
  PROVE  /\ At(r, {"plan"})
         /\ \/ Goes(r, "apply") /\ Makes(r, {"plan"})
            \/ Fails(r, "upload") /\ Makes(r, {})
<1>1. Succeed(r, "apply", {"plan"}) => Goes(r, "apply") /\ Makes(r, {"plan"})
  BY SucceedGoes, StepNames
<1>2. \A files \in SUBSET Reports :
        FailTo(r, "upload", files) => Fails(r, "upload") /\ Makes(r, {})
  BY FailToFails, StepNames
<1>3. SUBSET {"plan"} \subseteq SUBSET Reports
  BY DEF Reports
<1> QED
  BY <1>1, <1>2, <1>3 DEF Plan

\* What an apply leaves in infra and function, if it changes them.
Leaves(r) ==
  /\ infra' \in {infra, Left(r, TRUE), Left(r, FALSE)}
  /\ infra' = Left(r, FALSE) => faults' > 0 \/ Content(r) = "broken"
  /\ function' \in {function, Deployed}
  /\ applied' \in {applied, applied \cup {Attempt(r)}}

LEMMA ApplyMoves ==
  ASSUME TypeOK, NEW r \in Ids, Apply(r)
  PROVE  /\ At(r, {"apply"})
         /\ \/ Goes(r, "upload") /\ Makes(r, {"outputs"}) /\ Attempt(r) \in applied'
            \/ Fails(r, "upload") /\ Makes(r, {})
         /\ Leaves(r)
<1>1. Succeed(r, "upload", {"outputs"}) => Goes(r, "upload") /\ Makes(r, {"outputs"})
  BY SucceedGoes, StepNames
<1>2. \A files \in SUBSET Reports :
        FailTo(r, "upload", files) => Fails(r, "upload") /\ Makes(r, {})
  BY FailToFails, StepNames
<1>3. SUBSET {"outputs"} \subseteq SUBSET Reports
  BY DEF Reports
<1>4. Breaks(r, "broken") => faults' > 0 \/ Content(r) = "broken"
  BY DEF Breaks, Fault, TypeOK
<1>5. Left(r, TRUE) # Left(r, FALSE)
  BY DEF Left
<1>6. CASE /\ Content(r) # "broken"
           /\ \/ Succeed(r, "upload", {"outputs"})
              \/ Fault /\ \E files \in SUBSET {"outputs"} : FailTo(r, "upload", files)
           /\ infra' = Left(r, TRUE) /\ applied' = applied \cup {Attempt(r)}
           /\ function' = Deployed
  <2>1. Leaves(r) /\ Attempt(r) \in applied'
    BY <1>5, <1>6 DEF Leaves
  <2> QED
    BY <1>1, <1>2, <1>3, <1>6, <2>1 DEF Apply
<1>7. CASE /\ Breaks(r, "broken") /\ FailTo(r, "upload", {})
           /\ \/ UNCHANGED <<infra, function>>
              \/ infra' = Left(r, FALSE) /\ function' \in {function, Deployed}
           /\ UNCHANGED applied
  <2>1. infra' = Left(r, FALSE) => faults' > 0 \/ Content(r) = "broken"
    BY <1>4, <1>7
  <2>2. Leaves(r)
    BY <1>7, <2>1 DEF Leaves
  <2> QED
    BY <1>2, <1>7, <2>2, StepNames DEF Apply
<1> QED
  BY <1>6, <1>7 DEF Apply

LEMMA RefuseMoves ==
  ASSUME TypeOK, NEW r \in Ids, Refuse(r)
  PROVE  Fails(r, "done") /\ At(r, {"upload"}) /\ excused' = excused \cup MadeBy(r)
  BY MoveFail, StepNames DEF Refuse, Fails

LEMMA UploadMoves ==
  ASSUME TypeOK, NEW r \in Ids, NEW m, Upload(r, m)
  PROVE  /\ At(r, {"upload"}) /\ run[r].authed /\ m \in MadeBy(r)
         /\ archived' \in {archived, archived \cup {m}}
         /\ \/ Goes(r, "upload") /\ UNCHANGED excused /\ archived' = archived \cup {m}
            \/ Fails(r, "upload") /\ excused' = excused \cup {m}
<1>1. At(r, {"upload"}) /\ run[r].authed /\ m \in MadeBy(r)
  BY DEF Upload, NextFile, Unsent
<1>2. CASE archived' = archived \cup {m} /\ UNCHANGED <<run, excused, faults>>
  <2>1. Goes(r, "upload")
    BY <1>1, <1>2 DEF Goes, Moved, TypeOK, RunRecord, At
  <2> QED
    BY <1>1, <1>2, <2>1
<1>3. CASE /\ archived' \in {archived, archived \cup {m}}
           /\ excused' = excused \cup {m}
           /\ run' = [run EXCEPT ![r].failed = TRUE]
  <2>1. Fails(r, "upload")
    BY <1>1, <1>3 DEF Fails, Moved, TypeOK, RunRecord, At
  <2> QED
    BY <1>1, <1>3, <2>1
<1> QED
  BY <1>2, <1>3 DEF Upload

LEMMA EndMoves ==
  ASSUME TypeOK, NEW r \in Ids, End(r)
  PROVE  /\ Goes(r, "done") /\ At(r, {"upload"})
         /\ run[r].authed => MadeBy(r) \subseteq archived \cup excused
  BY MoveStep, StepNames DEF End, MayEnd, Step, Goes, Unsent

LEMMA LoseMoves ==
  ASSUME TypeOK, NEW r \in Ids, Lose(r)
  PROVE  /\ Fails(r, "done") /\ At(r, Busy) /\ excused' = excused \cup MadeBy(r)
         /\ object' \in {object, run[r].commit}
         /\ \/ UNCHANGED <<infra, function, applied>>
            \/ At(r, {"apply"}) /\ Leaves(r) /\ UNCHANGED object
<1>1. Fails(r, "done") /\ excused' = excused \cup MadeBy(r) /\ faults' > 0
  <2>1. run' = [run EXCEPT ![r].step = "done", ![r].failed = TRUE] => Fails(r, "done")
    BY MoveFail, StepNames DEF Fails
  <2>2. Fault => faults' > 0
    BY DEF Fault, TypeOK
  <2> QED
    BY <2>1, <2>2 DEF Lose
<1>2. CASE UNCHANGED <<infraVars, applied>>
  BY <1>1, <1>2 DEF Lose, infraVars
<1>3. CASE At(r, {"build"}) /\ object' = run[r].commit /\ UNCHANGED <<infra, function, applied>>
  BY <1>1, <1>3 DEF Lose
<1>4. CASE /\ At(r, {"apply"})
           /\ infra' = Left(r, FALSE) /\ function' \in {function, Deployed}
           /\ UNCHANGED <<object, applied>>
  BY <1>1, <1>4 DEF Lose, Leaves
<1>5. CASE /\ At(r, {"apply"}) /\ Content(r) # "broken"
           /\ infra' = Left(r, TRUE) /\ applied' = applied \cup {Attempt(r)}
           /\ function' = Deployed /\ UNCHANGED object
  BY <1>1, <1>5 DEF Lose, Leaves
<1> QED
  BY <1>2, <1>3, <1>4, <1>5 DEF Lose

LEMMA CreateMoves ==
  ASSUME TypeOK, NEW commit \in 1 .. MaxRuns, Create(commit)
  PROVE  /\ runs + 1 \in Ids /\ runs' = runs + 1
         /\ run' \in [Ids -> RunRecord]
         /\ \A q \in Ids : q # runs + 1 => run'[q] = run[q]
         /\ run'[runs + 1].commit = commit /\ run'[runs + 1].step = "waiting"
         /\ run'[runs + 1].attempt = run[runs + 1].attempt
         /\ run'[runs + 1].failed = run[runs + 1].failed
         /\ run'[runs + 1].authed = run[runs + 1].authed
<1>1. runs + 1 \in Ids /\ runs' = runs + 1
  BY DEF Create, TypeOK, Ids
<1> DEFINE n == runs + 1
           x == [run EXCEPT ![n].commit = commit]
<1>2. x \in [Ids -> RunRecord]
  BY <1>1 DEF TypeOK, RunRecord
<1>3. run' = [x EXCEPT ![n].step = "waiting"]
  BY <1>1 DEF Create, TypeOK
<1>4. \A q \in Ids : q # n => x[q] = run[q]
  BY DEF TypeOK
<1>5. /\ x[n].commit = commit /\ x[n].attempt = run[n].attempt
      /\ x[n].failed = run[n].failed /\ x[n].authed = run[n].authed
  BY <1>1 DEF TypeOK
<1> HIDE DEF x
<1>6. /\ run' \in [Ids -> RunRecord]
      /\ \A q \in Ids : q # n => run'[q] = x[q]
      /\ run'[n].step = "waiting" /\ run'[n].commit = x[n].commit
      /\ run'[n].attempt = x[n].attempt
      /\ run'[n].failed = x[n].failed /\ run'[n].authed = x[n].authed
  BY <1>1, <1>2, <1>3, StepNames DEF RunRecord
<1> QED
  BY <1>1, <1>4, <1>5, <1>6

LEMMA RerunMoves ==
  ASSUME TypeOK, NEW r \in Ids, Rerun(r)
  PROVE  /\ At(r, {"done"})
         /\ run' \in [Ids -> RunRecord]
         /\ \A q \in Ids : q # r => run'[q] = run[q]
         /\ run'[r].commit = run[r].commit /\ run'[r].step = "waiting"
         /\ run'[r].attempt = run[r].attempt + 1
         /\ run'[r].failed = FALSE /\ run'[r].authed = FALSE
<1> DEFINE v == [commit |-> run[r].commit, attempt |-> run[r].attempt + 1,
                 step |-> "waiting", failed |-> FALSE, authed |-> FALSE]
<1>1. v \in RunRecord /\ run \in [Ids -> RunRecord]
  BY StepNames DEF TypeOK, RunRecord
<1>2. v.commit = run[r].commit /\ v.step = "waiting" /\ v.attempt = run[r].attempt + 1
      /\ v.failed = FALSE /\ v.authed = FALSE
  OBVIOUS
<1>3. At(r, {"done"}) /\ run' = [run EXCEPT ![r] = v]
  BY DEF Rerun
<1> HIDE DEF v
<1> QED
  BY <1>1, <1>2, <1>3

\* A job that is pending gives way to the one approved.
LEMMA ApproveMoves ==
  ASSUME TypeOK, NEW r \in Ids, Approve(r)
  PROVE  /\ At(r, {"waiting"})
         /\ run' \in [Ids -> RunRecord]
         /\ \A q \in Ids : /\ run'[q].commit = run[q].commit
                           /\ run'[q].attempt = run[q].attempt
                           /\ run'[q].authed = run[q].authed
         /\ run'[r].step = "pending" /\ run'[r].failed = run[r].failed
         /\ \A q \in Ids \ {r} :
              IF At(q, {"pending"}) THEN run'[q].step = "done" /\ run'[q].failed = TRUE
                                    ELSE run'[q] = run[q]
<1> DEFINE x(q) == IF q = r THEN [run[q] EXCEPT !.step = "pending"]
                   ELSE IF q \in Pending
                     THEN [run[q] EXCEPT !.step = "done", !.failed = TRUE]
                   ELSE run[q]
<1>1. \A q \in Ids : run[q] \in RunRecord
  BY DEF TypeOK, RunRecord
<1>2. \A q \in Ids : [run[q] EXCEPT !.step = "pending"] \in RunRecord
  BY <1>1, StepNames DEF RunRecord
<1>3. \A q \in Ids : [run[q] EXCEPT !.step = "done", !.failed = TRUE] \in RunRecord
  BY <1>1, StepNames DEF RunRecord
<1>4. run' = [q \in Ids |-> x(q)] /\ At(r, {"waiting"})
  BY DEF Approve
<1>5. \A q \in Ids : run'[q] = x(q) /\ run'[q] \in RunRecord
  BY <1>1, <1>2, <1>3, <1>4
<1>6. \A q \in Ids : q \in Pending <=> At(q, {"pending"})
  BY DEF Pending
<1>7. run' \in [Ids -> RunRecord]
  BY <1>1, <1>2, <1>3, <1>4
<1>8. \A q \in Ids : /\ x(q).commit = run[q].commit
                     /\ x(q).attempt = run[q].attempt
                     /\ x(q).authed = run[q].authed
  BY <1>1 DEF RunRecord
<1>9. run'[r].step = "pending" /\ run'[r].failed = run[r].failed
  BY <1>1, <1>5 DEF RunRecord
<1>10. \A q \in Ids \ {r} :
         IF At(q, {"pending"}) THEN run'[q].step = "done" /\ run'[q].failed = TRUE
                               ELSE run'[q] = run[q]
  <2> SUFFICES ASSUME NEW q \in Ids \ {r}
               PROVE  IF At(q, {"pending"}) THEN run'[q].step = "done" /\ run'[q].failed = TRUE
                                            ELSE run'[q] = run[q]
    OBVIOUS
  <2>1. CASE At(q, {"pending"})
    <3>1. run'[q] = [run[q] EXCEPT !.step = "done", !.failed = TRUE]
      BY <1>5, <1>6, <2>1
    <3>2. run'[q].step = "done" /\ run'[q].failed = TRUE
      BY <1>1, <3>1 DEF RunRecord
    <3> QED
      BY <2>1, <3>2
  <2>2. CASE ~At(q, {"pending"})
    BY <1>5, <1>6, <2>2
  <2> QED
    BY <2>1, <2>2
<1> HIDE DEF x
<1> QED
  BY <1>4, <1>5, <1>7, <1>8, <1>9, <1>10
-------------------------------------------------------------------------------
(***************************************************************************)
(* Types.                                                                  *)
(***************************************************************************)
FileTypes == made \subseteq Objects /\ archived \subseteq made /\ excused \subseteq made

InfraTypes ==
  /\ infra \in [run: 0 .. MaxRuns, attempt: Nat, whole: BOOLEAN]
  /\ object \in 0 .. MaxRuns /\ function \in 0 .. MaxRuns
  /\ applied \subseteq Attempts

EventTypes ==
  /\ content \in [Ids -> Contents] /\ main \in 0 .. runs /\ runs \in 0 .. MaxRuns
  /\ late \subseteq Ids /\ faults \in 0 .. MaxFaults

LEMMA TypeParts ==
  TypeOK <=> FileTypes /\ InfraTypes /\ EventTypes /\ run \in [Ids -> RunRecord]
  BY DEF TypeOK, FileTypes, InfraTypes, EventTypes, RunRecord

LEMMA TypePartsNext ==
  ASSUME FileTypes', InfraTypes', EventTypes', run' \in [Ids -> RunRecord]
  PROVE  TypeOK'
  BY DEF TypeOK, FileTypes, InfraTypes, EventTypes, RunRecord

LEMMA FaultTypes ==
  ASSUME EventTypes, UNCHANGED <<content, main, runs, late>>, UNCHANGED faults \/ Fault
  PROVE  EventTypes'
  BY DEF EventTypes, Fault

LEMMA MovedType ==
  ASSUME NEW r, NEW s, NEW f, NEW a, Moved(run', r, s, f, a)
  PROVE  run' \in [Ids -> RunRecord]
  BY DEF Moved

LEMMA MakesTypes ==
  ASSUME FileTypes, NEW r, NEW files, Makes(r, files), UNCHANGED <<archived, excused>>
  PROVE  FileTypes'
  BY DEF FileTypes, Makes

LEMMA InfraSame ==
  ASSUME InfraTypes, UNCHANGED <<infra, object, function, applied>>
  PROVE  InfraTypes'
  BY DEF InfraTypes

LEMMA LeavesTypes ==
  ASSUME TypeOK, NEW r \in Ids, Leaves(r), UNCHANGED object
  PROVE  InfraTypes'
<1>1. \A w \in BOOLEAN : Left(r, w) \in [run: 0 .. MaxRuns, attempt: Nat, whole: BOOLEAN]
  BY DEF Left, TypeOK, Ids
<1>2. Deployed \in 0 .. MaxRuns
  BY DEF Deployed, TypeOK
<1>3. Attempt(r) \in Attempts
  BY DEF Attempt, Attempts, TypeOK
<1>4. InfraTypes
  BY TypeParts
<1> QED
  BY <1>1, <1>2, <1>3, <1>4 DEF Leaves, InfraTypes

LEMMA FilesSame ==
  ASSUME FileTypes, UNCHANGED made,
         archived' \in SUBSET made, excused' \in SUBSET made
  PROVE  FileTypes'
  BY DEF FileTypes

LEMMA TypeStep == TypeOK /\ [Next]_vars => TypeOK'
<1> SUFFICES ASSUME TypeOK, [Next]_vars PROVE TypeOK'
  OBVIOUS
<1> USE TypeParts, TypePartsNext
<1>1. CASE Push
  <2>1. main + 1 \in 1 .. MaxRuns /\ Create(main + 1)
    BY <1>1 DEF Push, Create, TypeOK
  <2>2. run' \in [Ids -> RunRecord]
    BY <2>1, CreateMoves
  <2>3. EventTypes'
    BY <1>1, <2>1 DEF Push, Create, EventTypes, Ids
  <2>4. FileTypes' /\ InfraTypes'
    BY <2>1 DEF Create, FileTypes, InfraTypes, archiveVars, infraVars
  <2> QED
    BY <2>2, <2>3, <2>4
<1>2. CASE Dispatch
  <2>1. main \in 1 .. MaxRuns /\ Create(main)
    BY <1>2 DEF Dispatch, TypeOK
  <2>2. run' \in [Ids -> RunRecord]
    BY <2>1, CreateMoves
  <2>3. EventTypes'
    BY <1>2, <2>1 DEF Dispatch, Create, EventTypes
  <2>4. FileTypes' /\ InfraTypes'
    BY <2>1 DEF Create, FileTypes, InfraTypes, archiveVars, infraVars
  <2> QED
    BY <2>2, <2>3, <2>4
<1> DEFINE Quiet == UNCHANGED <<infraVars, archiveVars, applied>>
<1>3. ASSUME Quiet PROVE FileTypes' /\ InfraTypes'
  BY <1>3 DEF FileTypes, InfraTypes, archiveVars, infraVars
<1>4. ASSUME NEW r \in Ids, Rerun(r) PROVE TypeOK'
  <2>1. EventTypes' /\ Quiet
    BY <1>4 DEF Rerun, EventTypes
  <2> QED
    BY <1>3, <1>4, <2>1, RerunMoves
<1>5. ASSUME NEW r \in Ids, Approve(r) PROVE TypeOK'
  <2>1. EventTypes' /\ Quiet
    BY <1>5 DEF Approve, EventTypes
  <2> QED
    BY <1>3, <1>5, <2>1, ApproveMoves
<1>6. ASSUME NEW r \in Ids, Withdraw(r) PROVE TypeOK'
  <2>1. EventTypes' /\ Quiet
    BY <1>6, FaultTypes DEF Withdraw
  <2> QED
    BY <1>3, <1>6, <2>1, WithdrawMoves, MovedType DEF Fails
<1>7. ASSUME NEW r \in Ids, Start(r) PROVE TypeOK'
  <2>1. EventTypes' /\ Quiet
    BY <1>7, FaultTypes DEF Start
  <2> QED
    BY <1>3, <1>7, <2>1, StartMoves, MovedType DEF Goes
<1>8. ASSUME NEW r \in Ids, Prepare(r) PROVE TypeOK'
  <2>1. EventTypes' /\ InfraTypes'
    BY <1>8, FaultTypes, InfraSame DEF Prepare, Succeed, infraVars
  <2>2. FileTypes'
    BY <1>8, PrepareMoves, MakesTypes DEF Prepare
  <2> QED
    BY <1>8, <2>1, <2>2, PrepareMoves, MovedType DEF Goes, Fails
<1>9. ASSUME NEW r \in Ids, Auth(r) PROVE TypeOK'
  <2>1. EventTypes' /\ InfraTypes'
    BY <1>9, FaultTypes, InfraSame DEF Auth, infraVars
  <2>2. FileTypes'
    BY <1>9, AuthMoves, FilesSame DEF FileTypes, MadeBy
  <2> QED
    BY <1>9, <2>1, <2>2, AuthMoves, MovedType DEF Goes, Fails
<1>10. ASSUME NEW r \in Ids, Build(r) PROVE TypeOK'
  <2>1. EventTypes'
    BY <1>10, FaultTypes DEF Build, Succeed
  <2>2. FileTypes'
    BY <1>10, BuildMoves, MakesTypes DEF Build
  <2>3. object' \in 0 .. MaxRuns
    BY <1>10, BuildMoves DEF TypeOK
  <2>4. InfraTypes'
    BY <1>10, <2>3 DEF Build, InfraTypes
  <2> QED
    BY <1>10, <2>1, <2>2, <2>4, BuildMoves, MovedType DEF Goes, Fails
<1>11. ASSUME NEW r \in Ids, Scan(r) PROVE TypeOK'
  <2>1. EventTypes' /\ InfraTypes'
    BY <1>11, FaultTypes, InfraSame DEF Scan, Succeed, Breaks, infraVars
  <2>2. FileTypes'
    BY <1>11, ScanMoves, MakesTypes DEF Scan
  <2> QED
    BY <1>11, <2>1, <2>2, ScanMoves, MovedType DEF Goes, Fails
<1>12. ASSUME NEW r \in Ids, Plan(r) PROVE TypeOK'
  <2>1. EventTypes' /\ InfraTypes'
    BY <1>12, FaultTypes, InfraSame DEF Plan, Succeed, infraVars
  <2>2. FileTypes'
    BY <1>12, PlanMoves, MakesTypes DEF Plan
  <2> QED
    BY <1>12, <2>1, <2>2, PlanMoves, MovedType DEF Goes, Fails
<1>13. ASSUME NEW r \in Ids, Apply(r) PROVE TypeOK'
  <2>1. EventTypes'
    BY <1>13, FaultTypes DEF Apply, Succeed, Breaks
  <2>2. InfraTypes'
    BY <1>13, ApplyMoves, LeavesTypes DEF Apply
  <2>3. FileTypes'
    BY <1>13, ApplyMoves, MakesTypes DEF Apply
  <2> QED
    BY <1>13, <2>1, <2>2, <2>3, ApplyMoves, MovedType DEF Goes, Fails
<1>14. ASSUME NEW r \in Ids, NEW m, Upload(r, m) PROVE TypeOK'
  <2>1. EventTypes' /\ InfraTypes'
    BY <1>14, FaultTypes, InfraSame DEF Upload, infraVars
  <2>2. FileTypes'
    <3>1. archived' \in SUBSET made /\ excused' \in SUBSET made
      BY <1>14, UploadMoves DEF FileTypes, MadeBy
    <3> QED
      BY <1>14, <3>1, FilesSame DEF Upload
  <2> QED
    BY <1>14, <2>1, <2>2, UploadMoves, MovedType DEF Goes, Fails
<1>15. ASSUME NEW r \in Ids, Refuse(r) PROVE TypeOK'
  <2>1. EventTypes' /\ InfraTypes'
    BY <1>15, FaultTypes, InfraSame DEF Refuse, infraVars
  <2>2. FileTypes'
    BY <1>15, FilesSame DEF Refuse, FileTypes, MadeBy
  <2> QED
    BY <1>15, <2>1, <2>2, RefuseMoves, MovedType DEF Fails
<1>16. ASSUME NEW r \in Ids, End(r) PROVE TypeOK'
  <2>1. EventTypes' /\ Quiet
    BY <1>16, FaultTypes DEF End
  <2> QED
    BY <1>3, <1>16, <2>1, EndMoves, MovedType DEF Goes
<1>17. ASSUME NEW r \in Ids, Lose(r) PROVE TypeOK'
  <2>1. EventTypes'
    BY <1>17, FaultTypes DEF Lose
  <2>2. FileTypes'
    BY <1>17, FilesSame DEF Lose, FileTypes, MadeBy
  <2>3. InfraTypes'
    <3>1. CASE UNCHANGED <<infra, function, applied>>
      <4>1. object' \in 0 .. MaxRuns
        BY <1>17, LoseMoves DEF TypeOK
      <4> QED
        BY <3>1, <4>1 DEF InfraTypes
    <3>2. CASE Leaves(r) /\ UNCHANGED object
      BY <1>17, <3>2, LeavesTypes
    <3> QED
      BY <1>17, <3>1, <3>2, LoseMoves
  <2> QED
    BY <1>17, <2>1, <2>2, <2>3, LoseMoves, MovedType DEF Fails
<1>18. CASE UNCHANGED vars
  <2>1. FileTypes' /\ InfraTypes'
    BY <1>18 DEF vars, infraVars, archiveVars, FileTypes, InfraTypes
  <2>2. EventTypes' /\ run' \in [Ids -> RunRecord]
    BY <1>18 DEF vars, runVars, EventTypes
  <2> QED
    BY <2>1, <2>2
<1> QED
  BY <1>1, <1>2, <1>4, <1>5, <1>6, <1>7, <1>8, <1>9, <1>10, <1>11, <1>12, <1>13, <1>14,
     <1>15, <1>16, <1>17, <1>18 DEF Next, Job

(***************************************************************************)
(* Every variable keeps its type.                                          *)
(***************************************************************************)
THEOREM TypeCorrect == Spec => []TypeOK
  BY TypeInit, TypeStep, PTL DEF Spec
-------------------------------------------------------------------------------
(***************************************************************************)
(* The queue.  Whatever is done in an attempt leaves the other runs alone. *)
(***************************************************************************)
Works(r) == Withdraw(r) \/ Job(r) \/ Lose(r)

LEMMA NextActions ==
  Next <=> Push \/ Dispatch \/ \E r \in Ids : Rerun(r) \/ Approve(r) \/ Works(r)
  BY DEF Next, Works

LEMMA WorkKeeps ==
  ASSUME NEW r \in Ids, Works(r)
  PROVE  UNCHANGED <<content, main, runs, late>>
  BY DEF Works, Job, Withdraw, Start, Prepare, Auth, Build, Scan, Plan, Apply, Upload,
         Refuse, End, Lose

LEMMA WorkMoves ==
  ASSUME TypeOK, NEW r \in Ids, Works(r)
  PROVE  /\ ~At(r, {"none", "done"})
         /\ \E s \in Busy \cup {"done"} : \E f, a \in BOOLEAN :
              /\ Moved(run', r, s, f, a)
              /\ s \in Busy => At(r, Busy) \/ (At(r, {"pending"}) /\ \A q \in Ids : ~At(q, Busy))
<1> DEFINE Walk(s) == \E f, a \in BOOLEAN : Moved(run', r, s, f, a)
<1>1. run[r].failed \in BOOLEAN /\ run[r].authed \in BOOLEAN
  BY DEF TypeOK
<1>2. \A s : Goes(r, s) \/ Fails(r, s) \/ Moved(run', r, s, run[r].failed, TRUE) => Walk(s)
  BY <1>1 DEF Goes, Fails
<1> HIDE DEF Walk
<1>3. {"prepare", "auth", "build", "scan", "plan", "apply", "upload"} \subseteq Busy
  BY DEF Busy
<1>4. \A x \in {"waiting", "pending"} \cup Busy : x \notin {"none", "done"}
  BY DEF Busy
<1>5. CASE Withdraw(r)
  <2>1. Walk("done") /\ ~At(r, {"none", "done"}) /\ "done" \notin Busy
    BY <1>2, <1>4, <1>5, WithdrawMoves DEF At, Busy
  <2> QED
    BY <2>1 DEF Walk
<1>6. CASE Start(r)
  <2>1. Walk("prepare") /\ ~At(r, {"none", "done"}) /\ At(r, {"pending"}) /\ \A q \in Ids : ~At(q, Busy)
    BY <1>2, <1>4, <1>6, StartMoves DEF At
  <2> QED
    BY <1>3, <2>1 DEF Walk
<1>7. CASE /\ At(r, Busy)
           /\ \E s \in Busy \cup {"done"} : Walk(s)
  BY <1>4, <1>7 DEF At, Walk
<1>8. CASE Prepare(r) \/ Auth(r) \/ Build(r) \/ Scan(r)
  <2>1. At(r, Busy)
    BY <1>3, <1>8, PrepareMoves, AuthMoves, BuildMoves, ScanMoves DEF At
  <2>2. Walk("auth") \/ Walk("build") \/ Walk("scan") \/ Walk("plan") \/ Walk("upload")
    BY <1>2, <1>8, PrepareMoves, AuthMoves, BuildMoves, ScanMoves
  <2> QED
    BY <1>3, <1>7, <2>1, <2>2
<1>9. CASE Plan(r) \/ Apply(r) \/ Refuse(r) \/ End(r) \/ Lose(r) \/ \E m : Upload(r, m)
  <2>1. At(r, Busy)
    BY <1>3, <1>9, PlanMoves, ApplyMoves, RefuseMoves, EndMoves, LoseMoves, UploadMoves DEF At
  <2>2. Walk("apply") \/ Walk("upload") \/ Walk("done")
    BY <1>2, <1>9, PlanMoves, ApplyMoves, RefuseMoves, EndMoves, LoseMoves, UploadMoves
  <2> QED
    BY <1>3, <1>7, <2>1, <2>2
<1> QED
  BY <1>5, <1>6, <1>8, <1>9 DEF Works, Job

LEMMA WorkRunInv ==
  ASSUME TypeOK, RunInv, NEW r \in Ids, Works(r)
  PROVE  RunInv'
<1>1. /\ ~At(r, {"none", "done"})
      /\ \E s \in Busy \cup {"done"} : \E f, a \in BOOLEAN : Moved(run', r, s, f, a)
  BY WorkMoves
<1>2. UNCHANGED <<main, runs>>
  BY WorkKeeps
<1>3. \A q \in Ids : run'[q].commit = run[q].commit /\ (At(q, {"none"})' <=> At(q, {"none"}))
  BY <1>1 DEF Moved, At, Busy
<1> QED
  BY <1>2, <1>3 DEF RunInv, Ids

LEMMA CreateCommit ==
  ASSUME TypeOK, Push \/ Dispatch
  PROVE  \E commit \in 1 .. MaxRuns :
           Create(commit) /\ commit \in {main, main + 1} /\ main' = commit
<1>1. CASE Push
  <2>1. main + 1 \in 1 .. MaxRuns /\ Create(main + 1) /\ main' = main + 1
    BY <1>1 DEF Push, Create, TypeOK
  <2> QED
    BY <2>1
<1>2. CASE Dispatch
  <2>1. main \in 1 .. MaxRuns /\ Create(main) /\ main' = main
    BY <1>2 DEF Dispatch, TypeOK
  <2> QED
    BY <2>1
<1> QED
  BY <1>1, <1>2

LEMMA CreateRunInv ==
  ASSUME TypeOK, RunInv, NEW commit \in 1 .. MaxRuns, Create(commit),
         commit \in {main, main + 1}, main' = commit
  PROVE  RunInv'
<1>1. /\ runs + 1 \in Ids /\ runs' = runs + 1
      /\ \A q \in Ids : q # runs + 1 => run'[q] = run[q]
      /\ run'[runs + 1].commit = commit /\ run'[runs + 1].step = "waiting"
  BY CreateMoves
<1>2. runs \in Nat /\ main \in Nat /\ MaxRuns \in Nat /\ \A r \in Ids : r \in Nat
  BY DEF TypeOK, Ids
<1>3. \A r \in Ids : At(r, {"none"}) <=> r > runs
  BY DEF RunInv
<1>4. \A r \in Ids : r <= runs => run[r].commit \in 1 .. main
  BY DEF RunInv
<1>5. \A r \in Ids : \A q \in 1 .. r : r <= runs => run[q].commit <= run[r].commit
  BY DEF RunInv
<1>6. ASSUME NEW r \in Ids PROVE At(r, {"none"})' <=> r > runs'
  <2>1. CASE r = runs + 1
    BY <1>1, <1>2, <2>1 DEF At
  <2>2. CASE r # runs + 1
    BY <1>1, <1>2, <1>3, <2>2 DEF At
  <2> QED
    BY <2>1, <2>2
<1>7. ASSUME NEW r \in Ids, r <= runs' PROVE run'[r].commit \in 1 .. main'
  <2>1. CASE r = runs + 1
    BY <1>1, <1>2, <2>1
  <2>2. CASE r # runs + 1
    BY <1>1, <1>2, <1>4, <1>7, <2>2
  <2> QED
    BY <2>1, <2>2
<1>8. ASSUME NEW r \in Ids, NEW q \in 1 .. r, r <= runs' PROVE run'[q].commit <= run'[r].commit
  <2>1. q \in Ids /\ q \in Nat /\ q <= r
    BY <1>2 DEF Ids
  <2>2. CASE r # runs + 1
    BY <1>1, <1>2, <1>5, <1>8, <2>1, <2>2
  <2>3. CASE r = runs + 1 /\ q # r
    BY <1>1, <1>2, <1>4, <2>1, <2>3
  <2>4. CASE r = runs + 1 /\ q = r
    BY <1>1, <2>4
  <2> QED
    BY <2>2, <2>3, <2>4
<1> QED
  BY <1>6, <1>7, <1>8 DEF RunInv

LEMMA RunInvStep == TypeOK /\ RunInv /\ [Next]_vars => RunInv'
<1> SUFFICES ASSUME TypeOK, RunInv, [Next]_vars PROVE RunInv'
  OBVIOUS
<1>1. CASE Push \/ Dispatch
  BY <1>1, CreateCommit, CreateRunInv
<1>3. ASSUME NEW r \in Ids, Rerun(r) PROVE RunInv'
  <2>1. \A q \in Ids : run'[q].commit = run[q].commit /\ (At(q, {"none"})' <=> At(q, {"none"}))
    BY <1>3, RerunMoves DEF At
  <2>2. UNCHANGED <<main, runs>>
    BY <1>3 DEF Rerun
  <2> QED
    BY <2>1, <2>2 DEF RunInv, Ids
<1>4. ASSUME NEW r \in Ids, Approve(r) PROVE RunInv'
  <2>1. \A q \in Ids : run'[q].commit = run[q].commit /\ (At(q, {"none"})' <=> At(q, {"none"}))
    BY <1>4, ApproveMoves DEF At
  <2>2. UNCHANGED <<main, runs>>
    BY <1>4 DEF Approve
  <2> QED
    BY <2>1, <2>2 DEF RunInv, Ids
<1>5. CASE UNCHANGED vars
  BY <1>5 DEF vars, runVars, RunInv, At
<1> QED
  BY <1>1, <1>3, <1>4, <1>5, WorkRunInv, NextActions

LEMMA QueueInvStep == TypeOK /\ QueueInv /\ [Next]_vars => QueueInv'
<1> SUFFICES ASSUME TypeOK, QueueInv, [Next]_vars PROVE QueueInv'
  OBVIOUS
<1>1. ASSUME \A q \in Ids : /\ At(q, Busy)' => At(q, Busy)
                            /\ At(q, {"pending"})' => At(q, {"pending"})
      PROVE  QueueInv'
  BY <1>1 DEF QueueInv
<1>2. \A x \in {"waiting", "pending", "done"} : x \notin Busy
  BY DEF Busy
<1>3. ASSUME NEW commit \in 1 .. MaxRuns, Create(commit) PROVE QueueInv'
  BY <1>1, <1>2, <1>3, CreateMoves DEF At
<1>4. CASE Push \/ Dispatch
  <2>1. \E commit \in 1 .. MaxRuns : Create(commit)
    BY <1>4, CreateCommit
  <2> QED
    BY <1>3, <2>1
<1>5. ASSUME NEW r \in Ids, Rerun(r) PROVE QueueInv'
  <2>1. /\ \A q \in Ids : q # r => run'[q] = run[q]
        /\ run'[r].step = "waiting"
    BY <1>5, RerunMoves
  <2> QED
    BY <1>1, <1>2, <2>1 DEF At
<1>6. ASSUME NEW r \in Ids, Approve(r) PROVE QueueInv'
  <2>1. \A q \in Ids : At(q, Busy)' => At(q, Busy)
    BY <1>2, <1>6, ApproveMoves DEF At
  <2>2. \A q \in Ids : At(q, {"pending"})' => q = r
    BY <1>6, ApproveMoves DEF At
  <2> QED
    BY <2>1, <2>2 DEF QueueInv
<1>7. ASSUME NEW r \in Ids, Works(r) PROVE QueueInv'
  <2>1. PICK s \in Busy \cup {"done"}, f \in BOOLEAN, a \in BOOLEAN :
          /\ Moved(run', r, s, f, a)
          /\ s \in Busy => At(r, Busy) \/ (At(r, {"pending"}) /\ \A q \in Ids : ~At(q, Busy))
    BY <1>7, WorkMoves
  <2>2. \A q \in Ids : q # r => run'[q] = run[q]
    BY <2>1 DEF Moved
  <2>3. At(r, Busy)' => s \in Busy
    BY <2>1 DEF Moved, At
  <2>4. ~At(r, {"pending"})'
    BY <1>2, <2>1 DEF Moved, At, Busy
  <2>5. \A q, p \in Ids : At(q, Busy)' /\ At(p, Busy)' => q = p
    BY <2>1, <2>2, <2>3 DEF QueueInv, At
  <2>6. \A q, p \in Ids : At(q, {"pending"})' /\ At(p, {"pending"})' => q = p
    BY <2>2, <2>4 DEF QueueInv, At
  <2> QED
    BY <2>5, <2>6 DEF QueueInv
<1>8. CASE UNCHANGED vars
  BY <1>8 DEF vars, runVars, QueueInv, At
<1> QED
  BY <1>4, <1>5, <1>6, <1>7, <1>8, NextActions
-------------------------------------------------------------------------------
(***************************************************************************)
(* The flags of a run follow from its step.                                *)
(***************************************************************************)
FlagOK(s, f, a) ==
  /\ s \in Early \cup {"prepare"} => ~f /\ ~a
  /\ s = "auth" => ~a
  /\ s \in {"build", "scan", "plan", "apply"} => ~f /\ a
  /\ s = "upload" /\ ~f => a

LEMMA FlagParts ==
  FlagInv <=> \A r \in Ids : FlagOK(run[r].step, run[r].failed, run[r].authed)
  BY DEF FlagInv, FlagOK, At

LEMMA FlagPartsNext ==
  FlagInv' <=> \A r \in Ids : FlagOK(run'[r].step, run'[r].failed, run'[r].authed)
  BY DEF FlagInv, FlagOK, At, Early

LEMMA MovedFlagInv ==
  ASSUME FlagInv, NEW r \in Ids, NEW s, NEW f, NEW a, Moved(run', r, s, f, a), FlagOK(s, f, a)
  PROVE  FlagInv'
  BY FlagParts, FlagPartsNext DEF Moved

LEMMA WorkFlagInv ==
  ASSUME TypeOK, FlagInv, NEW r \in Ids, Works(r)
  PROVE  FlagInv'
<1> DEFINE f == run[r].failed
           a == run[r].authed
<1>1. \A s : Goes(r, s) /\ FlagOK(s, f, a) => FlagInv'
  BY MovedFlagInv DEF Goes
<1>2. \A s : Fails(r, s) /\ FlagOK(s, TRUE, a) => FlagInv'
  BY MovedFlagInv DEF Fails
<1>3. FlagOK("done", TRUE, a) /\ FlagOK("done", f, a) /\ FlagOK("upload", TRUE, a)
  BY DEF FlagOK, Early
<1>4. FlagOK(run[r].step, f, a)
  BY FlagParts
<1> HIDE DEF f, a
<1>5. CASE Withdraw(r) \/ Refuse(r) \/ Lose(r)
  BY <1>2, <1>3, <1>5, WithdrawMoves, RefuseMoves, LoseMoves
<1>6. CASE Start(r)
  <2>1. Goes(r, "prepare") /\ run[r].step = "pending"
    BY <1>6, StartMoves DEF At
  <2>2. FlagOK("prepare", f, a)
    BY <1>4, <2>1 DEF FlagOK, Early
  <2> QED
    BY <1>1, <2>1, <2>2
<1>7. CASE Prepare(r)
  <2>1. run[r].step = "prepare" /\ (Goes(r, "auth") \/ Fails(r, "auth"))
    BY <1>7, PrepareMoves DEF At
  <2>2. FlagOK("auth", f, a) /\ FlagOK("auth", TRUE, a)
    BY <1>4, <2>1 DEF FlagOK, Early
  <2> QED
    BY <1>1, <1>2, <2>1, <2>2
<1>8. CASE Auth(r)
  <2>1. \/ Moved(run', r, IF run[r].failed THEN "upload" ELSE "build", run[r].failed, TRUE)
        \/ Fails(r, "upload")
    BY <1>8, AuthMoves
  <2>2. FlagOK(IF run[r].failed THEN "upload" ELSE "build", run[r].failed, TRUE)
    BY DEF FlagOK, Early
  <2> QED
    BY <1>2, <1>3, <2>1, <2>2, MovedFlagInv
<1>9. CASE Build(r) \/ Scan(r) \/ Plan(r) \/ Apply(r)
  <2>1. /\ run[r].step \in {"build", "scan", "plan", "apply"}
        /\ \/ Goes(r, "scan") \/ Goes(r, "plan") \/ Goes(r, "apply") \/ Goes(r, "upload")
           \/ Fails(r, "upload")
    BY <1>9, BuildMoves, ScanMoves, PlanMoves, ApplyMoves DEF At
  <2>2. FlagOK("scan", f, a) /\ FlagOK("plan", f, a) /\ FlagOK("apply", f, a) /\ FlagOK("upload", f, a)
    BY <1>4, <2>1 DEF FlagOK, Early
  <2> QED
    BY <1>1, <1>2, <1>3, <2>1, <2>2
<1>10. CASE End(r) \/ \E m : Upload(r, m)
  <2>1. /\ run[r].step = "upload"
        /\ Goes(r, "upload") \/ Goes(r, "done") \/ Fails(r, "upload")
    BY <1>10, EndMoves, UploadMoves DEF At
  <2> QED
    BY <1>1, <1>2, <1>3, <1>4, <2>1
<1> QED
  BY <1>5, <1>6, <1>7, <1>8, <1>9, <1>10 DEF Works, Job

LEMMA FlagInvStep == TypeOK /\ RunInv /\ FlagInv /\ [Next]_vars => FlagInv'
<1> SUFFICES ASSUME TypeOK, RunInv, FlagInv, [Next]_vars PROVE FlagInv'
  OBVIOUS
<1>1. \A s \in {"waiting", "pending"}, x \in {"none", "waiting"}, f, a \in BOOLEAN :
        FlagOK(x, f, a) => FlagOK(s, f, a)
  BY DEF FlagOK, Early
<1>2. \A r \in Ids : /\ FlagOK(run[r].step, run[r].failed, run[r].authed)
                     /\ run[r].failed \in BOOLEAN /\ run[r].authed \in BOOLEAN
  BY FlagParts DEF TypeOK
<1>3. CASE Push \/ Dispatch
  <2>1. PICK commit \in 1 .. MaxRuns : Create(commit)
    BY <1>3, CreateCommit
  <2> DEFINE n == runs + 1
  <2>2. /\ n \in Ids
        /\ \A q \in Ids : q # n => run'[q] = run[q]
        /\ run'[n].step = "waiting"
        /\ run'[n].failed = run[n].failed /\ run'[n].authed = run[n].authed
    BY <2>1, CreateMoves
  <2>3. n > runs
    BY DEF TypeOK
  <2>4. run[n].step = "none"
    BY <2>2, <2>3 DEF RunInv, At
  <2> HIDE DEF n
  <2>5. FlagOK("waiting", run[n].failed, run[n].authed)
    BY <1>1, <1>2, <2>2, <2>4
  <2>6. \A q \in Ids : FlagOK(run'[q].step, run'[q].failed, run'[q].authed)
    BY <1>2, <2>2, <2>5
  <2> QED
    BY <2>6, FlagPartsNext
<1>4. ASSUME NEW r \in Ids, Rerun(r) PROVE FlagInv'
  <2>1. FlagOK("waiting", FALSE, FALSE)
    BY DEF FlagOK, Early
  <2>2. \A q \in Ids : FlagOK(run'[q].step, run'[q].failed, run'[q].authed)
    BY <1>2, <1>4, <2>1, RerunMoves
  <2> QED
    BY <2>2, FlagPartsNext
<1>5. ASSUME NEW r \in Ids, Approve(r) PROVE FlagInv'
  <2>1. run[r].step = "waiting" /\ run'[r].step = "pending"
        /\ run'[r].failed = run[r].failed /\ run'[r].authed = run[r].authed
    BY <1>5, ApproveMoves DEF At
  <2>2. FlagOK("pending", run[r].failed, run[r].authed)
    BY <1>1, <1>2, <2>1
  <2>3. \A a : FlagOK("done", TRUE, a)
    BY DEF FlagOK, Early
  <2>4. \A q \in Ids \ {r} : (run'[q].step = "done" /\ run'[q].failed = TRUE) \/ run'[q] = run[q]
    BY <1>5, ApproveMoves
  <2>5. \A q \in Ids : FlagOK(run'[q].step, run'[q].failed, run'[q].authed)
    BY <1>2, <2>1, <2>2, <2>3, <2>4
  <2> QED
    BY <2>5, FlagPartsNext
<1>6. CASE UNCHANGED vars
  BY <1>6 DEF vars, runVars, FlagInv, At, Early
<1> QED
  BY <1>3, <1>4, <1>5, <1>6, WorkFlagInv, NextActions
-------------------------------------------------------------------------------
(***************************************************************************)
(* What an attempt has produced.                                           *)
(***************************************************************************)
LEMMA FilesOf ==
  ASSUME TypeOK
  PROVE  /\ \A m \in made : m.run \in Ids /\ m.attempt \in Nat
         /\ \A r \in Ids : run[r].attempt \in Nat /\ run[r].attempt > 0
  BY DEF TypeOK, Objects

\* A run that waits and one that is over have nothing to lose.
LEMMA QuietMadeInv ==
  ASSUME TypeOK, MadeInv, UNCHANGED archiveVars,
         \A q \in Ids :
           \/ run'[q] = run[q]
           \/ At(q, Early) /\ run'[q].attempt = run[q].attempt
           \/ At(q, {"done"}) /\ run'[q].attempt = run[q].attempt + 1
  PROVE  MadeInv' /\ (FailuresAreReported => FailuresAreReported')
<1>1. UNCHANGED <<made, archived, excused>>
  BY DEF archiveVars
<1> SUFFICES ASSUME NEW m \in made
             PROVE  /\ m.attempt <= run'[m.run].attempt
                    /\ m.attempt = run'[m.run].attempt => ~At(m.run, Early)'
                    /\ Open(m)' /\ At(m.run, {"upload"})' => run'[m.run].authed \/ m \in excused
                    /\ (m \in archived \cup excused \/ Open(m)
                        => m \in archived \cup excused \/ Open(m)')
  BY <1>1 DEF MadeInv, FailuresAreReported
<1> DEFINE q == m.run
<1>2. q \in Ids /\ m.attempt \in Nat /\ run[q].attempt \in Nat
  BY FilesOf
<1>3. /\ m.attempt <= run[q].attempt
      /\ m.attempt = run[q].attempt => ~At(q, Early)
      /\ Open(m) /\ At(q, {"upload"}) => run[q].authed \/ m \in excused
  BY DEF MadeInv
<1>4. CASE run'[q] = run[q]
  BY <1>3, <1>4 DEF Open, At, Early
<1>5. CASE At(q, Early) /\ run'[q].attempt = run[q].attempt
  BY <1>2, <1>3, <1>5 DEF Open
<1>6. CASE At(q, {"done"}) /\ run'[q].attempt = run[q].attempt + 1
  <2>1. m.attempt <= run'[q].attempt /\ m.attempt # run'[q].attempt
    BY <1>2, <1>3, <1>6
  <2>2. ~Open(m) /\ ~Open(m)'
    BY <1>6, <2>1 DEF Open
  <2> QED
    BY <2>1, <2>2
<1> QED
  BY <1>2, <1>4, <1>5, <1>6

LEMMA WorkFiles ==
  ASSUME TypeOK, FlagInv, MadeInv, NEW r \in Ids, Works(r)
  PROVE  /\ Makes(r, {}) /\ archived \subseteq archived' /\ excused \subseteq excused'
         /\ excused' \subseteq excused \cup MadeBy(r)
         /\ At(r, {"upload"})' => run'[r].authed \/ (UNCHANGED made /\ MadeBy(r) \subseteq excused')
         /\ At(r, {"done"})' => UNCHANGED made /\ MadeBy(r) \subseteq archived' \cup excused'
<1>1. UNCHANGED made => Makes(r, {})
  BY DEF Makes
<1>2. /\ At(r, {"waiting", "pending"}) => MadeBy(r) = {}
      /\ At(r, {"upload"}) /\ ~run[r].authed => MadeBy(r) \subseteq excused
  BY DEF MadeInv, MadeBy, At, Early, Open
<1>3. At(r, {"build", "scan", "plan", "apply"}) => run[r].authed
  BY DEF FlagInv, At
<1>4. CASE Withdraw(r)
  <2>1. UNCHANGED <<made, archived, excused>>
    BY <1>4 DEF Withdraw, archiveVars
  <2>2. At(r, {"waiting", "pending"}) /\ run'[r].step = "done"
    BY <1>4, WithdrawMoves DEF Fails, Moved
  <2> QED
    BY <1>1, <1>2, <2>1, <2>2 DEF At
<1>5. CASE Start(r)
  <2>1. UNCHANGED <<made, archived, excused>>
    BY <1>5 DEF Start, archiveVars
  <2>2. run'[r].step = "prepare"
    BY <1>5, StartMoves DEF Goes, Moved
  <2> QED
    BY <1>1, <2>1, <2>2 DEF At
<1>6. CASE Prepare(r)
  <2>1. UNCHANGED <<archived, excused>>
    BY <1>6 DEF Prepare
  <2>2. run'[r].step = "auth" /\ Makes(r, {})
    BY <1>6, PrepareMoves DEF Goes, Fails, Moved, Makes
  <2> QED
    BY <2>1, <2>2 DEF At
<1>7. CASE Auth(r)
  <2>1. /\ UNCHANGED <<made, archived>>
        /\ \/ run'[r].step \in {"upload", "build"} /\ run'[r].authed = TRUE /\ UNCHANGED excused
           \/ run'[r].step = "upload" /\ excused' = excused \cup MadeBy(r)
    BY <1>7, AuthMoves DEF Fails, Moved
  <2> QED
    BY <1>1, <2>1 DEF At
<1>8. CASE Build(r) \/ Scan(r) \/ Plan(r) \/ Apply(r)
  <2>1. UNCHANGED <<archived, excused>>
    BY <1>8 DEF Build, Scan, Plan, Apply
  <2>2. /\ At(r, {"build", "scan", "plan", "apply"}) /\ Makes(r, {})
        /\ \E s \in {"scan", "plan", "apply", "upload"} : Goes(r, s) \/ Fails(r, s)
    BY <1>8, BuildMoves, ScanMoves, PlanMoves, ApplyMoves DEF At, Makes
  <2>3. run'[r].step \in {"scan", "plan", "apply", "upload"} /\ run'[r].authed = run[r].authed
    BY <2>2 DEF Goes, Fails, Moved
  <2> QED
    BY <1>3, <2>1, <2>2, <2>3 DEF At
<1>9. CASE Refuse(r) \/ Lose(r)
  <2>1. UNCHANGED <<made, archived>> /\ excused' = excused \cup MadeBy(r)
    BY <1>9 DEF Refuse, Lose
  <2>2. run'[r].step = "done"
    BY <1>9, RefuseMoves, LoseMoves DEF Fails, Moved
  <2> QED
    BY <1>1, <2>1, <2>2 DEF At
<1>10. CASE End(r)
  <2>1. UNCHANGED <<made, archived, excused>>
    BY <1>10 DEF End, archiveVars
  <2>2. /\ run'[r].step = "done" /\ At(r, {"upload"})
        /\ run[r].authed => MadeBy(r) \subseteq archived \cup excused
    BY <1>10, EndMoves DEF Goes, Moved
  <2> QED
    BY <1>1, <1>2, <2>1, <2>2 DEF At
<1>11. ASSUME NEW m, Upload(r, m) PROVE
          /\ UNCHANGED made /\ archived \subseteq archived' /\ excused \subseteq excused'
          /\ excused' \subseteq excused \cup MadeBy(r)
          /\ run'[r].step = "upload" /\ run'[r].authed
  <2>1. UNCHANGED made
    BY <1>11 DEF Upload
  <2>2. run[r].authed /\ m \in MadeBy(r) /\ archived' \in {archived, archived \cup {m}}
    BY <1>11, UploadMoves
  <2>3. (Goes(r, "upload") \/ Fails(r, "upload")) /\ excused' \in {excused, excused \cup {m}}
    BY <1>11, UploadMoves
  <2>4. run'[r].step = "upload" /\ run'[r].authed = run[r].authed
    BY <2>3 DEF Goes, Fails, Moved
  <2>5. run'[r].authed
    BY <2>2, <2>4
  <2> QED
    BY <2>1, <2>2, <2>3, <2>4, <2>5
<1>12. CASE \E m : Upload(r, m)
  BY <1>1, <1>11, <1>12 DEF At
<1> QED
  BY <1>4, <1>5, <1>6, <1>7, <1>8, <1>9, <1>10, <1>12 DEF Works, Job
LEMMA WorkMadeInv ==
  ASSUME TypeOK, FlagInv, MadeInv, NEW r \in Ids, Works(r)
  PROVE  MadeInv' /\ (FailuresAreReported => FailuresAreReported')
<1>1. PICK s \in Busy \cup {"done"}, f \in BOOLEAN, a \in BOOLEAN : Moved(run', r, s, f, a)
  BY WorkMoves
<1>2. /\ \A q \in Ids : q # r => run'[q] = run[q]
      /\ run'[r].step = s /\ run'[r].attempt = run[r].attempt
  BY <1>1 DEF Moved
<1>3. s \notin Early
  BY DEF Busy, Early
<1>4. /\ \A m \in made' \ made : m.run = r /\ m.attempt = run[r].attempt
      /\ archived \subseteq archived' /\ excused \subseteq excused'
      /\ At(r, {"upload"})' => run'[r].authed \/ (UNCHANGED made /\ MadeBy(r) \subseteq excused')
      /\ At(r, {"done"})' => UNCHANGED made /\ MadeBy(r) \subseteq archived' \cup excused'
  BY WorkFiles DEF Makes
<1> SUFFICES ASSUME NEW m \in made'
             PROVE  /\ m.attempt <= run'[m.run].attempt
                    /\ m.attempt = run'[m.run].attempt => ~At(m.run, Early)'
                    /\ Open(m)' /\ At(m.run, {"upload"})' => run'[m.run].authed \/ m \in excused'
                    /\ FailuresAreReported => m \in archived' \cup excused' \/ Open(m)'
  BY DEF MadeInv, FailuresAreReported
<1>5. CASE m.run # r
  <2>1. m \in made /\ m.run \in Ids
    BY <1>4, <1>5, FilesOf
  <2>2. run'[m.run] = run[m.run]
    BY <1>2, <1>5, <2>1
  <2>3. (Open(m)' <=> Open(m)) /\ (At(m.run, {"upload"})' <=> At(m.run, {"upload"}))
        /\ (At(m.run, Early)' <=> At(m.run, Early))
    BY <2>2 DEF Open, At, Early
  <2>4. /\ m.attempt <= run[m.run].attempt
        /\ m.attempt = run[m.run].attempt => ~At(m.run, Early)
        /\ Open(m) /\ At(m.run, {"upload"}) => run[m.run].authed \/ m \in excused
        /\ FailuresAreReported => m \in archived \cup excused \/ Open(m)
    BY <2>1 DEF MadeInv, FailuresAreReported
  <2> QED
    BY <1>4, <2>2, <2>3, <2>4
<1>6. CASE m.run = r
  <2>1. m.attempt <= run[r].attempt
    BY <1>4, <1>6, FilesOf DEF MadeInv
  <2>2. ~At(m.run, Early)'
    BY <1>2, <1>3, <1>6 DEF At, Early
  <2>3. Open(m)' <=> s # "done" /\ m.attempt = run[r].attempt
    BY <1>2, <1>6 DEF Open, At
  <2>4. Open(m)' /\ At(m.run, {"upload"})' => run'[m.run].authed \/ m \in excused'
    BY <1>4, <1>6, <2>3 DEF MadeBy, At
  <2>5. CASE m.attempt = run[r].attempt
    <3>1. s = "done" => m \in archived' \cup excused'
      BY <1>2, <1>4, <1>6, <2>5 DEF MadeBy, At
    <3>2. m \in archived' \cup excused' \/ Open(m)'
      BY <2>3, <2>5, <3>1
    <3>3. m.attempt <= run'[m.run].attempt
      BY <1>2, <1>6, <2>1
    <3> QED
      BY <2>2, <2>4, <3>2, <3>3
  <2>6. CASE m.attempt # run[r].attempt
    <3>1. m \in made /\ ~Open(m)
      BY <1>4, <1>6, <2>6 DEF Open
    <3>2. FailuresAreReported => m \in archived \cup excused
      BY <3>1 DEF FailuresAreReported
    <3> QED
      BY <1>2, <1>4, <1>6, <2>1, <2>2, <2>4, <3>2
  <2> QED
    BY <2>5, <2>6
<1> QED
  BY <1>5, <1>6

LEMMA MadeInvStep ==
  TypeOK /\ RunInv /\ FlagInv /\ MadeInv /\ [Next]_vars
    => MadeInv' /\ (FailuresAreReported => FailuresAreReported')
<1> SUFFICES ASSUME TypeOK, RunInv, FlagInv, MadeInv, [Next]_vars
             PROVE  MadeInv' /\ (FailuresAreReported => FailuresAreReported')
  OBVIOUS
<1>1. CASE Push \/ Dispatch
  <2>1. PICK commit \in 1 .. MaxRuns : Create(commit)
    BY <1>1, CreateCommit
  <2>2. /\ runs + 1 \in Ids
        /\ \A q \in Ids : q # runs + 1 => run'[q] = run[q]
        /\ run'[runs + 1].attempt = run[runs + 1].attempt
    BY <2>1, CreateMoves
  <2>3. runs + 1 > runs
    BY DEF TypeOK
  <2>4. At(runs + 1, Early)
    BY <2>2, <2>3 DEF RunInv, At, Early
  <2>5. UNCHANGED archiveVars
    BY <2>1 DEF Create
  <2> QED
    BY <2>2, <2>4, <2>5, QuietMadeInv
<1>2. ASSUME NEW r \in Ids, Rerun(r)
      PROVE  MadeInv' /\ (FailuresAreReported => FailuresAreReported')
  <2>1. UNCHANGED archiveVars
    BY <1>2 DEF Rerun
  <2> QED
    BY <1>2, <2>1, RerunMoves, QuietMadeInv
<1>3. ASSUME NEW r \in Ids, Approve(r)
      PROVE  MadeInv' /\ (FailuresAreReported => FailuresAreReported')
  <2>1. UNCHANGED archiveVars
    BY <1>3 DEF Approve
  <2>2. \A q \in Ids : run'[q] = run[q] \/ (At(q, Early) /\ run'[q].attempt = run[q].attempt)
    BY <1>3, ApproveMoves DEF At, Early
  <2> QED
    BY <2>1, <2>2, QuietMadeInv
<1>4. CASE UNCHANGED vars
  <2>1. UNCHANGED archiveVars /\ \A q \in Ids : run'[q] = run[q]
    BY <1>4 DEF vars, runVars
  <2> QED
    BY <2>1, QuietMadeInv
<1> QED
  BY <1>1, <1>2, <1>3, <1>4, WorkMadeInv, NextActions
-------------------------------------------------------------------------------
(***************************************************************************)
(* What an attempt that has not failed has produced, at each of its steps. *)
(***************************************************************************)
Produced(x, s, files, whole) ==
  /\ s \notin Early \cup {"prepare"} => Object(x, "validation") \in files
  /\ s \in {"apply", "upload", "done"} => Object(x, "plan") \in files
  /\ s \in {"upload", "done"} => Object(x, "outputs") \in files /\ x \in whole

LEMMA DoneParts ==
  DoneInv <=> \A r \in Ids : ~run[r].failed =>
                /\ \A m \in made : m.run = r /\ m.attempt = run[r].attempt => m \notin excused
                /\ Produced(Attempt(r), run[r].step, made, applied)
<1> SUFFICES ASSUME NEW r \in Ids
             PROVE  /\ MadeBy(r) \cap excused = {}
                       <=> \A m \in made : m.run = r /\ m.attempt = run[r].attempt => m \notin excused
                    /\ Produced(Attempt(r), run[r].step, made, applied) <=>
                         /\ ~At(r, Early \cup {"prepare"}) => Object(Attempt(r), "validation") \in made
                         /\ At(r, {"apply", "upload", "done"}) => Object(Attempt(r), "plan") \in made
                         /\ At(r, {"upload", "done"}) =>
                              Object(Attempt(r), "outputs") \in made /\ Attempt(r) \in applied
  BY DEF DoneInv
<1>1. MadeBy(r) \cap excused = {}
        <=> \A m \in made : m.run = r /\ m.attempt = run[r].attempt => m \notin excused
  BY DEF MadeBy
<1> QED
  BY <1>1 DEF Produced, At

\* An attempt of the next state, if its number is the same as before.
Next1(r) == [run |-> r, attempt |-> run'[r].attempt]

LEMMA DonePartsNext ==
  ASSUME \A r \in Ids : ~run'[r].failed =>
           /\ \A m \in made' : m.run = r /\ m.attempt = run'[r].attempt => m \notin excused'
           /\ Produced(Next1(r), run'[r].step, made', applied')
  PROVE  DoneInv'
<1> SUFFICES ASSUME NEW r \in Ids, ~run'[r].failed
             PROVE  /\ MadeBy(r)' \cap excused' = {}
                    /\ ~At(r, Early \cup {"prepare"})' => Object(Attempt(r), "validation")' \in made'
                    /\ At(r, {"apply", "upload", "done"})' => Object(Attempt(r), "plan")' \in made'
                    /\ At(r, {"upload", "done"})' =>
                         Object(Attempt(r), "outputs")' \in made' /\ Attempt(r)' \in applied'
  BY DEF DoneInv
<1>1. Attempt(r)' = Next1(r)
  BY DEF Attempt, Next1
<1>2. \A f : Object(Attempt(r), f)' = Object(Next1(r), f)
  BY <1>1 DEF Object
<1>3. MadeBy(r)' \cap excused' = {}
  BY DEF MadeBy
<1>4. Produced(Next1(r), run'[r].step, made', applied')
  OBVIOUS
<1>5. Early' = Early
  BY DEF Early
<1> QED
  BY <1>1, <1>2, <1>3, <1>4, <1>5 DEF Produced, At

LEMMA ProducedGrows ==
  ASSUME NEW x, NEW s, NEW files, NEW whole, NEW files2, NEW whole2,
         Produced(x, s, files, whole), files \subseteq files2, whole \subseteq whole2
  PROVE  Produced(x, s, files2, whole2)
  BY DEF Produced

\* The attempt goes on without having failed.
LEMMA WorkProduces ==
  ASSUME TypeOK, FlagInv, MadeInv, DoneInv, NEW r \in Ids, Works(r), ~run'[r].failed
  PROVE  /\ ~run[r].failed /\ UNCHANGED excused
         /\ Produced(Attempt(r), run'[r].step, made', applied')
<1> DEFINE x == Attempt(r)
           Had(s) == ~run[r].failed => Produced(x, s, made, applied)
           Has(s) == Produced(x, s, made', applied')
           Goal == ~run[r].failed /\ UNCHANGED excused /\ Has(run'[r].step)
<1>1. Had(run[r].step)
  BY DoneParts
<1>2. \A s : Goes(r, s) => run'[r].step = s /\ run'[r].failed = run[r].failed
  BY DEF Goes, Moved
<1>3. \A s : ~Fails(r, s)
  BY DEF Fails, Moved
<1>4. ASSUME NEW s, Goes(r, s), UNCHANGED excused, Has(s) PROVE Goal
  BY <1>2, <1>4
<1>5. made \subseteq made'
  BY WorkFiles DEF Makes
<1>6. CASE Withdraw(r) \/ Refuse(r) \/ Lose(r)
  BY <1>3, <1>6, WithdrawMoves, RefuseMoves, LoseMoves
<1>7. CASE Start(r)
  <2>1. Has("prepare")
    BY DEF Produced, Early
  <2>2. Goes(r, "prepare") /\ UNCHANGED excused
    BY <1>7, StartMoves DEF Start, archiveVars
  <2> QED
    BY <1>4, <2>1, <2>2
<1>8. CASE Prepare(r)
  <2>1. Goes(r, "auth") /\ Makes(r, {"validation"}) /\ UNCHANGED excused
    BY <1>3, <1>8, PrepareMoves DEF Prepare
  <2>2. Has("auth")
    BY <2>1 DEF Makes, Produced, Early
  <2> QED
    BY <1>4, <2>1, <2>2
<1>9. CASE Auth(r)
  <2>1. /\ Moved(run', r, IF run[r].failed THEN "upload" ELSE "build", run[r].failed, TRUE)
        /\ UNCHANGED <<excused, made>> /\ run[r].step = "auth"
    BY <1>3, <1>9, AuthMoves DEF At
  <2>2. run'[r].step = "build" /\ ~run[r].failed
    BY <2>1 DEF Moved
  <2>3. Has("build")
    BY <1>1, <2>1, <2>2 DEF Produced, Early
  <2> QED
    BY <2>1, <2>2, <2>3
<1>10. CASE Build(r) \/ Scan(r)
  <2>1. UNCHANGED excused
    BY <1>10 DEF Build, Scan
  <2>2. (Goes(r, "scan") \/ Goes(r, "plan")) /\ run[r].step \in {"build", "scan"}
    BY <1>3, <1>10, BuildMoves, ScanMoves DEF At
  <2>3. Object(x, "validation") \in made
    BY <1>1, <1>2, <2>2 DEF Produced, Early
  <2>4. Has("scan") /\ Has("plan")
    BY <1>5, <2>3 DEF Produced, Early
  <2> QED
    BY <1>4, <2>1, <2>2, <2>4
<1>11. CASE Plan(r)
  <2>1. Goes(r, "apply") /\ Makes(r, {"plan"}) /\ UNCHANGED excused /\ run[r].step = "plan"
    BY <1>3, <1>11, PlanMoves DEF Plan, At
  <2>2. Object(x, "validation") \in made'
    BY <1>1, <1>2, <1>5, <2>1 DEF Produced, Early
  <2>3. Has("apply")
    BY <2>1, <2>2 DEF Makes, Produced, Early
  <2> QED
    BY <1>4, <2>1, <2>3
<1>12. CASE Apply(r)
  <2>1. /\ Goes(r, "upload") /\ Makes(r, {"outputs"}) /\ x \in applied'
        /\ UNCHANGED excused /\ run[r].step = "apply"
    BY <1>3, <1>12, ApplyMoves DEF Apply, At
  <2>2. Object(x, "validation") \in made' /\ Object(x, "plan") \in made'
    BY <1>1, <1>2, <1>5, <2>1 DEF Produced, Early
  <2>3. Has("upload")
    BY <2>1, <2>2 DEF Makes, Produced, Early
  <2> QED
    BY <1>4, <2>1, <2>3
<1>13. CASE End(r) \/ \E m : Upload(r, m)
  <2>1. UNCHANGED <<made, applied>>
    BY <1>13 DEF End, Upload, archiveVars
  <2>2. UNCHANGED excused
    BY <1>3, <1>13, UploadMoves DEF End, archiveVars
  <2>3. (Goes(r, "upload") \/ Goes(r, "done")) /\ run[r].step = "upload"
    BY <1>3, <1>13, EndMoves, UploadMoves DEF At
  <2>4. Has("upload") /\ Has("done")
    BY <1>1, <1>2, <2>1, <2>3 DEF Produced, Early
  <2> QED
    BY <1>4, <2>2, <2>3, <2>4
<1> QED
  BY <1>6, <1>7, <1>8, <1>9, <1>10, <1>11, <1>12, <1>13 DEF Works, Job
\* What a step does not touch stays produced.
LEMMA KeepsProduced ==
  ASSUME DoneInv, NEW r \in Ids, ~run[r].failed, run'[r].attempt = run[r].attempt,
         run'[r].step = run[r].step,
         made \subseteq made', applied \subseteq applied'
  PROVE  Produced(Next1(r), run'[r].step, made', applied')
<1>1. Produced(Attempt(r), run[r].step, made, applied)
  BY DoneParts
<1>2. Next1(r) = Attempt(r)
  BY DEF Next1, Attempt
<1> QED
  BY <1>1, <1>2, ProducedGrows

LEMMA WorkDoneInv ==
  ASSUME TypeOK, FlagInv, MadeInv, DoneInv, NEW r \in Ids, Works(r)
  PROVE  DoneInv'
<1>1. PICK s \in Busy \cup {"done"}, f \in BOOLEAN, a \in BOOLEAN : Moved(run', r, s, f, a)
  BY WorkMoves
<1>2. (\A q \in Ids : q # r => run'[q] = run[q]) /\ run'[r].attempt = run[r].attempt
  BY <1>1 DEF Moved
<1>3. /\ made \subseteq made' /\ \A m \in made' \ made : m.run = r /\ m \in Objects
      /\ excused' \subseteq excused \cup MadeBy(r)
  BY WorkFiles DEF Makes
<1>4. applied \subseteq applied'
  BY DEF Works, Job, Withdraw, Start, Prepare, Auth, Build, Scan, Plan, Apply, Upload, Refuse,
         End, Lose
<1>5. ASSUME NEW q \in Ids, ~run'[q].failed
      PROVE  /\ \A m \in made' : m.run = q /\ m.attempt = run'[q].attempt => m \notin excused'
             /\ Produced(Next1(q), run'[q].step, made', applied')
  <2>1. CASE q = r
    <3>1. /\ ~run[r].failed /\ UNCHANGED excused
          /\ Produced(Attempt(r), run'[r].step, made', applied')
      BY <1>5, <2>1, WorkProduces
    <3>2. Next1(r) = Attempt(r)
      BY <1>2 DEF Next1, Attempt
    <3>3. excused \subseteq made
      BY DEF TypeOK
    <3>4. \A m \in made : m.run = r /\ m.attempt = run[r].attempt => m \notin excused
      BY <3>1, DoneParts
    <3> QED
      BY <1>2, <2>1, <3>1, <3>2, <3>3, <3>4
  <2>2. CASE q # r
    <3>1. run'[q] = run[q]
      BY <1>2, <2>2
    <3>2. Produced(Next1(q), run'[q].step, made', applied')
      BY <1>3, <1>4, <1>5, <3>1, KeepsProduced
    <3>3. ASSUME NEW m \in made', m.run = q, m.attempt = run'[q].attempt PROVE m \notin excused'
      <4>1. m \in made /\ m \notin MadeBy(r)
        BY <1>3, <2>2, <3>3 DEF MadeBy
      <4>2. m \notin excused
        BY <1>5, <3>1, <3>3, <4>1, DoneParts
      <4> QED
        BY <1>3, <4>1, <4>2
    <3> QED
      BY <3>2, <3>3
  <2> QED
    BY <2>1, <2>2
<1> QED
  BY <1>5, DonePartsNext

\* A run that waits owes nothing yet, nor does one that has failed.
LEMMA QuietDoneInv ==
  ASSUME TypeOK, MadeInv, DoneInv, UNCHANGED <<archiveVars, applied>>,
         \A q \in Ids :
           \/ run'[q] = run[q]
           \/ run'[q].failed = TRUE
           \/ /\ At(q, Early) /\ run'[q].attempt = run[q].attempt
              /\ run'[q].step \in Early
           \/ run'[q].attempt = run[q].attempt + 1 /\ run'[q].step \in Early
  PROVE  DoneInv'
<1>1. UNCHANGED <<made, excused>>
  BY DEF archiveVars
<1>2. ASSUME NEW q \in Ids, ~run'[q].failed
      PROVE  /\ \A m \in made' : m.run = q /\ m.attempt = run'[q].attempt => m \notin excused'
             /\ Produced(Next1(q), run'[q].step, made', applied')
  <2>1. CASE run'[q] = run[q]
    <3>1. Produced(Next1(q), run'[q].step, made', applied')
      BY <1>1, <1>2, <2>1, KeepsProduced
    <3>2. \A m \in made : m.run = q /\ m.attempt = run[q].attempt => m \notin excused
      BY <1>2, <2>1, DoneParts
    <3> QED
      BY <1>1, <2>1, <3>1, <3>2
  <2>2. ASSUME run'[q].step \in Early, \A m \in made : m.run = q => m.attempt # run'[q].attempt
        PROVE  /\ \A m \in made' : m.run = q /\ m.attempt = run'[q].attempt => m \notin excused'
               /\ Produced(Next1(q), run'[q].step, made', applied')
    <3>1. \A s \in Early : s \notin {"apply", "upload", "done"}
      BY DEF Early
    <3> QED
      BY <1>1, <2>2, <3>1 DEF Produced
  <2>3. CASE At(q, Early) /\ run'[q].attempt = run[q].attempt /\ run'[q].step \in Early
    <3>1. \A m \in made : m.run = q => m.attempt # run'[q].attempt
      BY <2>3 DEF MadeInv
    <3> QED
      BY <2>2, <2>3, <3>1
  <2>4. CASE run'[q].attempt = run[q].attempt + 1 /\ run'[q].step \in Early
    <3>1. \A m \in made : m.run = q => m.attempt <= run[q].attempt
      BY DEF MadeInv
    <3>2. \A m \in made : m.run = q => m.attempt # run'[q].attempt
      BY <2>4, <3>1, FilesOf
    <3> QED
      BY <2>2, <2>4, <3>2
  <2> QED
    BY <1>2, <2>1, <2>3, <2>4
<1> QED
  BY <1>2, DonePartsNext

LEMMA DoneInvStep ==
  TypeOK /\ RunInv /\ FlagInv /\ MadeInv /\ DoneInv /\ [Next]_vars => DoneInv'
<1> SUFFICES ASSUME TypeOK, RunInv, FlagInv, MadeInv, DoneInv, [Next]_vars
             PROVE  DoneInv'
  OBVIOUS
<1>1. CASE Push \/ Dispatch
  <2>1. PICK commit \in 1 .. MaxRuns : Create(commit)
    BY <1>1, CreateCommit
  <2>2. /\ runs + 1 \in Ids
        /\ \A q \in Ids : q # runs + 1 => run'[q] = run[q]
        /\ run'[runs + 1].attempt = run[runs + 1].attempt
        /\ run'[runs + 1].step = "waiting"
    BY <2>1, CreateMoves
  <2>3. runs + 1 > runs
    BY DEF TypeOK
  <2>4. At(runs + 1, Early) /\ "waiting" \in Early
    BY <2>2, <2>3 DEF RunInv, At, Early
  <2>5. UNCHANGED <<archiveVars, applied>>
    BY <2>1 DEF Create
  <2> QED
    BY <2>2, <2>4, <2>5, QuietDoneInv
<1>2. ASSUME NEW r \in Ids, Rerun(r) PROVE DoneInv'
  <2>1. UNCHANGED <<archiveVars, applied>> /\ "waiting" \in Early
    BY <1>2 DEF Rerun, Early
  <2> QED
    BY <1>2, <2>1, RerunMoves, QuietDoneInv
<1>3. ASSUME NEW r \in Ids, Approve(r) PROVE DoneInv'
  <2>1. UNCHANGED <<archiveVars, applied>> /\ "pending" \in Early /\ "waiting" \in Early
    BY <1>3 DEF Approve, Early
  <2>2. \A q \in Ids \ {r} : run'[q] = run[q] \/ run'[q].failed = TRUE
    BY <1>3, ApproveMoves
  <2>3. At(r, Early) /\ run'[r].attempt = run[r].attempt /\ run'[r].step \in Early
    BY <1>3, <2>1, ApproveMoves DEF At
  <2> QED
    BY <2>1, <2>2, <2>3, QuietDoneInv
<1>4. CASE UNCHANGED vars
  <2>1. UNCHANGED <<archiveVars, applied>> /\ \A q \in Ids : run'[q] = run[q]
    BY <1>4 DEF vars, runVars
  <2> QED
    BY <2>1, QuietDoneInv
<1> QED
  BY <1>1, <1>2, <1>3, <1>4, WorkDoneInv, NextActions

LEMMA SuccessFollows ==
  ASSUME TypeOK, DoneInv, FailuresAreReported
  PROVE  SuccessIsComplete
<1> SUFFICES ASSUME NEW r \in Ids, At(r, {"done"}), ~run[r].failed
             PROVE  /\ Attempt(r) \in applied
                    /\ \A f \in Reports : Object(Attempt(r), f) \in archived
  BY DEF SuccessIsComplete
<1>1. /\ \A m \in made : m.run = r /\ m.attempt = run[r].attempt => m \notin excused
      /\ Produced(Attempt(r), "done", made, applied)
  BY DoneParts DEF At
<1>2. Attempt(r) \in applied /\ \A f \in Reports : Object(Attempt(r), f) \in made
  BY <1>1 DEF Produced, Early, Reports
<1>3. ASSUME NEW f \in Reports PROVE Object(Attempt(r), f) \in archived
  <2>1. /\ Object(Attempt(r), f) \in made \ excused
        /\ Object(Attempt(r), f).run = r
    BY <1>1, <1>2, ObjectType
  <2> QED
    BY <2>1 DEF FailuresAreReported, Open
<1> QED
  BY <1>2, <1>3
-------------------------------------------------------------------------------
(***************************************************************************)
(* The commits, the source bucket and the function.                        *)
(***************************************************************************)
LEMMA CommitKept ==
  ASSUME TypeOK, RunInv, [Next]_vars
  PROVE  /\ main \in Nat /\ main' \in Nat /\ main <= main'
         /\ \A c \in 1 .. main : content'[c] = content[c]
         /\ \A r \in Ids : ~At(r, {"none"}) =>
              run'[r].commit = run[r].commit /\ run[r].commit \in 1 .. main
<1>1. main \in Nat
  BY DEF TypeOK
<1>2. \A r \in Ids : ~At(r, {"none"}) => run[r].commit \in 1 .. main
  BY DEF RunInv, Ids, TypeOK
<1>3. CASE Push \/ Dispatch
  <2>1. PICK commit \in 1 .. MaxRuns :
          Create(commit) /\ commit \in {main, main + 1} /\ main' = commit
    BY <1>3, CreateCommit
  <2>2. runs + 1 \in Ids /\ runs + 1 > runs /\ \A q \in Ids : q # runs + 1 => run'[q] = run[q]
    BY <2>1, CreateMoves DEF TypeOK
  <2>3. At(runs + 1, {"none"})
    BY <2>2 DEF RunInv
  <2>4. \A c \in 1 .. main : content'[c] = content[c]
    BY <1>1, <1>3 DEF Push, Dispatch, TypeOK, Ids
  <2> QED
    BY <1>1, <1>2, <2>1, <2>2, <2>3, <2>4
<1>4. ASSUME NEW r \in Ids, Rerun(r) \/ Approve(r)
      PROVE  UNCHANGED <<content, main>> /\ \A q \in Ids : run'[q].commit = run[q].commit
  <2>1. UNCHANGED <<content, main>>
    BY <1>4 DEF Rerun, Approve
  <2> QED
    BY <1>4, <2>1, RerunMoves, ApproveMoves
<1>5. ASSUME NEW r \in Ids, Works(r)
      PROVE  UNCHANGED <<content, main>> /\ \A q \in Ids : run'[q].commit = run[q].commit
  BY <1>5, WorkKeeps, WorkMoves DEF Moved
<1>6. CASE UNCHANGED vars
  BY <1>1, <1>2, <1>6 DEF vars, runVars
<1> QED
  BY <1>1, <1>2, <1>3, <1>4, <1>5, <1>6, NextActions

LEMMA WorkSource ==
  ASSUME TypeOK, SourceInv, NEW r \in Ids, Works(r)
  PROVE  /\ object' = object \/ (At(r, {"build"}) /\ object' = run[r].commit)
         /\ At(r, {"scan", "plan", "apply"})' => object' = run[r].commit
         /\ At(r, {"plan", "apply"})' => Content(r) # "rejected"
         /\ function' = function \/ (At(r, {"apply"}) /\ function' = Deployed)
<1>1. /\ At(r, {"scan", "plan", "apply"}) => object = run[r].commit
      /\ At(r, {"plan", "apply"}) => Content(r) # "rejected"
  BY DEF SourceInv
<1>2. \A s : Goes(r, s) \/ Fails(r, s) => run'[r].step = s
  BY DEF Goes, Fails, Moved
<1>3. CASE Withdraw(r) \/ Start(r) \/ Prepare(r) \/ Refuse(r) \/ End(r) \/ \E m : Upload(r, m)
  <2>1. UNCHANGED <<object, function>>
    BY <1>3 DEF Withdraw, Start, Prepare, Refuse, End, Upload, infraVars
  <2>2. run'[r].step \in {"done", "prepare", "auth", "upload"}
    BY <1>2, <1>3, WithdrawMoves, StartMoves, PrepareMoves, RefuseMoves, EndMoves, UploadMoves
  <2> QED
    BY <2>1, <2>2 DEF At
<1>4. CASE Auth(r)
  <2>1. UNCHANGED <<object, function>>
    BY <1>4 DEF Auth, infraVars
  <2>2. run'[r].step \in {"build", "upload"}
    BY <1>4, AuthMoves DEF Moved, Fails
  <2> QED
    BY <2>1, <2>2 DEF At
<1>5. CASE Build(r)
  <2>1. UNCHANGED function
    BY <1>5 DEF Build
  <2>2. /\ At(r, {"build"})
        /\ \/ run'[r].step = "scan" /\ object' = run[r].commit
           \/ run'[r].step = "upload" /\ object' \in {object, run[r].commit}
    BY <1>2, <1>5, BuildMoves
  <2> QED
    BY <2>1, <2>2 DEF At
<1>6. CASE Scan(r)
  <2>1. UNCHANGED <<object, function>>
    BY <1>6 DEF Scan, infraVars
  <2>2. /\ At(r, {"scan"})
        /\ \/ run'[r].step = "plan" /\ Content(r) # "rejected"
           \/ run'[r].step = "upload"
    BY <1>2, <1>6, ScanMoves
  <2> QED
    BY <1>1, <2>1, <2>2 DEF At
<1>7. CASE Plan(r)
  <2>1. UNCHANGED <<object, function>>
    BY <1>7 DEF Plan, infraVars
  <2>2. At(r, {"plan"}) /\ run'[r].step \in {"apply", "upload"}
    BY <1>2, <1>7, PlanMoves
  <2> QED
    BY <1>1, <2>1, <2>2 DEF At
<1>8. CASE Apply(r)
  <2>1. UNCHANGED object
    BY <1>8 DEF Apply
  <2>2. /\ At(r, {"apply"}) /\ run'[r].step = "upload"
        /\ function' \in {function, Deployed}
    BY <1>2, <1>8, ApplyMoves DEF Leaves
  <2> QED
    BY <2>1, <2>2 DEF At
<1>9. CASE Lose(r)
  <2>1. run'[r].step = "done"
    BY <1>2, <1>9, LoseMoves
  <2>2. object' = object \/ (At(r, {"build"}) /\ object' = run[r].commit)
    BY <1>9 DEF Lose, infraVars
  <2>3. function' = function \/ (At(r, {"apply"}) /\ function' = Deployed)
    BY <1>9, LoseMoves DEF Leaves
  <2> QED
    BY <2>1, <2>2, <2>3 DEF At
<1> QED
  BY <1>3, <1>4, <1>5, <1>6, <1>7, <1>8, <1>9 DEF Works, Job

LEMMA BusyNames ==
  /\ {"build", "scan", "plan", "apply"} \subseteq Busy
  /\ \A x \in Busy : x \notin {"none", "waiting", "pending", "done"}
  BY DEF Busy

\* Only a run at work changes what is in the bucket and what is deployed.
LEMMA QuietSource ==
  ASSUME TypeOK, RunInv, SourceInv, OnlyScannedCodeRuns, [Next]_vars,
         UNCHANGED <<object, function>>,
         \A q \in Ids : run'[q] = run[q] \/ run'[q].step \in {"waiting", "pending", "done"}
  PROVE  SourceInv' /\ OnlyScannedCodeRuns'
<1>1. /\ main \in Nat /\ main' \in Nat /\ main <= main' /\ object \in Nat /\ function \in Nat
      /\ object <= main /\ function <= main
  BY CommitKept DEF SourceInv, TypeOK
<1>2. ASSUME NEW q \in Ids
      PROVE  /\ At(q, {"scan", "plan", "apply"})' => object = run'[q].commit
             /\ At(q, {"plan", "apply"})' => content'[run'[q].commit] # "rejected"
  <2>1. CASE run'[q].step \in {"waiting", "pending", "done"}
    BY <2>1 DEF At
  <2>2. CASE run'[q] = run[q]
    <3>1. /\ At(q, {"scan", "plan", "apply"}) => object = run[q].commit
          /\ At(q, {"plan", "apply"}) => content[run[q].commit] # "rejected"
      BY DEF SourceInv, Content
    <3>2. At(q, {"plan", "apply"}) => content'[run[q].commit] = content[run[q].commit]
      BY CommitKept DEF At
    <3> QED
      BY <2>2, <3>1, <3>2 DEF At
  <2> QED
    BY <2>1, <2>2
<1>3. function # 0 => content'[function] = content[function]
  BY <1>1, CommitKept
<1>4. OnlyScannedCodeRuns'
  BY <1>3 DEF OnlyScannedCodeRuns
<1> QED
  BY <1>1, <1>2, <1>4 DEF SourceInv, Content

LEMMA SourceStep ==
  TypeOK /\ RunInv /\ QueueInv /\ SourceInv /\ OnlyScannedCodeRuns /\ [Next]_vars
    => SourceInv' /\ OnlyScannedCodeRuns'
<1> SUFFICES ASSUME TypeOK, RunInv, QueueInv, SourceInv, OnlyScannedCodeRuns, [Next]_vars
             PROVE  SourceInv' /\ OnlyScannedCodeRuns'
  OBVIOUS
<1>1. CASE Push \/ Dispatch
  <2>1. PICK commit \in 1 .. MaxRuns : Create(commit)
    BY <1>1, CreateCommit
  <2>2. UNCHANGED <<object, function>>
    BY <2>1 DEF Create, infraVars
  <2>3. \A q \in Ids : run'[q] = run[q] \/ run'[q].step \in {"waiting", "pending", "done"}
    BY <2>1, CreateMoves
  <2> QED
    BY <2>2, <2>3, QuietSource
<1>2. ASSUME NEW r \in Ids, Rerun(r) \/ Approve(r)
      PROVE  SourceInv' /\ OnlyScannedCodeRuns'
  <2>1. UNCHANGED <<object, function>>
    BY <1>2 DEF Rerun, Approve, infraVars
  <2>2. \A q \in Ids : run'[q] = run[q] \/ run'[q].step \in {"waiting", "pending", "done"}
    BY <1>2, RerunMoves, ApproveMoves
  <2> QED
    BY <2>1, <2>2, QuietSource
<1>3. ASSUME NEW r \in Ids, Works(r) PROVE SourceInv' /\ OnlyScannedCodeRuns'
  <2> DEFINE c == run[r].commit
  <2>1. /\ object' = object \/ (At(r, {"build"}) /\ object' = c)
        /\ At(r, {"scan", "plan", "apply"})' => object' = c
        /\ At(r, {"plan", "apply"})' => content[c] # "rejected"
        /\ function' = function \/ (At(r, {"apply"}) /\ function' = Deployed)
    BY <1>3, WorkSource DEF Content
  <2>2. c \in 1 .. main /\ UNCHANGED <<content, main>> /\ run'[r].commit = c
    <3>1. ~At(r, {"none"})
      BY <1>3, WorkMoves DEF At
    <3> QED
      BY <1>3, <3>1, CommitKept, WorkKeeps
  <2>3. /\ object \in Nat /\ function \in Nat /\ main \in Nat
        /\ object <= main /\ function <= main
    BY DEF SourceInv, TypeOK
  <2>4. At(r, {"apply"}) => object = c /\ content[c] # "rejected"
    BY DEF SourceInv, Content, At
  <2>5. ASSUME NEW q \in Ids
        PROVE  /\ At(q, {"scan", "plan", "apply"})' => object' = run'[q].commit
               /\ At(q, {"plan", "apply"})' => content[run'[q].commit] # "rejected"
    <3>1. CASE q = r
      BY <2>1, <2>2, <3>1
    <3>2. CASE q # r
      <4>1. run'[q] = run[q]
        BY <1>3, <3>2, WorkMoves DEF Moved
      <4>2. /\ At(q, {"scan", "plan", "apply"}) => object = run[q].commit /\ At(q, Busy)
            /\ At(q, {"plan", "apply"}) => content[run[q].commit] # "rejected"
        BY BusyNames DEF SourceInv, Content, At
      <4>3. At(q, Busy) => ~At(r, {"build"})
        BY <3>2, BusyNames DEF QueueInv, At
      <4> QED
        BY <2>1, <4>1, <4>2, <4>3 DEF At
    <3> QED
      BY <3>1, <3>2
  <2>6. object' <= main
    BY <2>1, <2>2, <2>3
  <2>7. function' = function \/ (function' = c /\ content[c] # "rejected")
    BY <2>1, <2>4 DEF Deployed
  <2>8. function' <= main /\ (function' # 0 => content[function'] # "rejected")
    BY <2>2, <2>3, <2>7 DEF OnlyScannedCodeRuns
  <2> QED
    BY <2>2, <2>5, <2>6, <2>8 DEF SourceInv, Content, OnlyScannedCodeRuns
<1>4. CASE UNCHANGED vars
  <2>1. UNCHANGED <<object, function>> /\ \A q \in Ids : run'[q] = run[q]
    BY <1>4 DEF vars, runVars, infraVars
  <2> QED
    BY <2>1, QuietSource
<1> QED
  BY <1>1, <1>2, <1>3, <1>4, NextActions
-------------------------------------------------------------------------------
(***************************************************************************)
(* What is applied.                                                        *)
(***************************************************************************)
LEMMA WorkInfra ==
  ASSUME TypeOK, NEW r \in Ids, Works(r)
  PROVE  \/ UNCHANGED infra
         \/ /\ At(r, {"apply"})
            /\ infra'.run = r /\ infra'.attempt = run[r].attempt
            /\ ~infra'.whole => faults' > 0 \/ Content(r) = "broken"
<1>1. CASE Apply(r) \/ Lose(r)
  <2>1. UNCHANGED infra \/ (At(r, {"apply"}) /\ Leaves(r))
    BY <1>1, ApplyMoves, LoseMoves
  <2>2. ASSUME At(r, {"apply"}), Leaves(r), infra' # infra
        PROVE  /\ infra'.run = r /\ infra'.attempt = run[r].attempt
               /\ ~infra'.whole => faults' > 0 \/ Content(r) = "broken"
    <3>1. infra' = Left(r, TRUE) \/ infra' = Left(r, FALSE)
      BY <2>2 DEF Leaves
    <3>2. infra' = Left(r, FALSE) => faults' > 0 \/ Content(r) = "broken"
      BY <2>2 DEF Leaves
    <3>3. \A w \in BOOLEAN : /\ Left(r, w).run = r /\ Left(r, w).attempt = run[r].attempt
                             /\ Left(r, w).whole = w
      BY DEF Left
    <3> QED
      BY <3>1, <3>2, <3>3
  <2> QED
    BY <2>1, <2>2
<1>2. CASE \/ Withdraw(r) \/ Start(r) \/ Prepare(r) \/ Auth(r) \/ Build(r) \/ Scan(r) \/ Plan(r)
           \/ Refuse(r) \/ End(r) \/ \E m : Upload(r, m)
  BY <1>2 DEF Withdraw, Start, Prepare, Auth, Build, Scan, Plan, Refuse, End, Upload, infraVars
<1> QED
  BY <1>1, <1>2 DEF Works, Job

LEMMA FaultsGrow == TypeOK /\ [Next]_vars => faults \in Nat /\ faults' \in Nat /\ faults <= faults'
<1> SUFFICES ASSUME TypeOK, [Next]_vars PROVE faults \in Nat /\ faults' \in Nat /\ faults <= faults'
  OBVIOUS
<1>1. faults \in Nat
  BY DEF TypeOK
<1>2. UNCHANGED faults \/ Fault => faults' \in Nat /\ faults <= faults'
  BY <1>1 DEF Fault
<1>3. Push \/ Dispatch => UNCHANGED faults
  BY DEF Push, Dispatch, Create
<1>4. \A r \in Ids : Rerun(r) \/ Approve(r) => UNCHANGED faults
  BY DEF Rerun, Approve
<1>5. \A r \in Ids : Works(r) => UNCHANGED faults \/ Fault
  BY DEF Works, Job, Withdraw, Start, Prepare, Auth, Build, Scan, Plan, Apply, Upload, Refuse,
         End, Lose, Succeed, Breaks
<1>6. UNCHANGED vars => UNCHANGED faults
  BY DEF vars
<1> QED
  BY <1>1, <1>2, <1>3, <1>4, <1>5, <1>6, NextActions

LEMMA InfraType ==
  ASSUME TypeOK
  PROVE  /\ infra.run \in 0 .. MaxRuns /\ infra.whole \in BOOLEAN /\ infra.attempt \in Nat
         /\ infra.run # 0 => infra.run \in Ids
         /\ runs \in 0 .. MaxRuns
  BY DEF TypeOK, Ids

LEMMA HalfAppliedStep ==
  TypeOK /\ RunInv /\ OrderInv /\ HalfAppliedHasCause /\ [Next]_vars => HalfAppliedHasCause'
<1> SUFFICES ASSUME TypeOK, RunInv, OrderInv, HalfAppliedHasCause, [Next]_vars, ~infra'.whole
             PROVE  faults' > 0 \/ content'[run'[infra'.run].commit] = "broken"
  BY DEF HalfAppliedHasCause
<1>1. faults > 0 => faults' > 0
  BY FaultsGrow
<1>2. CASE UNCHANGED infra
  <2>1. infra.run \in Ids /\ ~At(infra.run, {"none"})
    BY <1>2, InfraType DEF OrderInv, RunInv
  <2>2. content'[run'[infra.run].commit] = content[run[infra.run].commit]
    BY <2>1, CommitKept
  <2>3. faults > 0 \/ content[run[infra.run].commit] = "broken"
    BY <1>2 DEF HalfAppliedHasCause
  <2> QED
    BY <1>1, <1>2, <2>2, <2>3
<1>3. CASE infra' # infra
  <2>1. \A r \in Ids : ~(Rerun(r) \/ Approve(r))
    BY <1>3 DEF Rerun, Approve, infraVars
  <2>2. ~Push /\ ~Dispatch /\ ~UNCHANGED vars
    BY <1>3 DEF Push, Dispatch, Create, infraVars, vars
  <2>3. PICK r \in Ids : Works(r)
    BY <2>1, <2>2, NextActions
  <2>4. /\ At(r, {"apply"}) /\ infra'.run = r
        /\ ~infra'.whole => faults' > 0 \/ content[run[r].commit] = "broken"
    BY <1>3, <2>3, WorkInfra DEF Content
  <2>5. content'[run'[r].commit] = content[run[r].commit]
    BY <2>4, CommitKept DEF At
  <2> QED
    BY <2>4, <2>5
<1> QED
  BY <1>2, <1>3

LEMMA BackStep ==
  ASSUME TypeOK, RunInv, OrderInv, [Next]_vars, infra' # infra,
         CommitOf(infra') < CommitOf(infra)
  PROVE  infra'.attempt > 1 \/ infra'.run \in late
<1>1. \A r \in Ids : ~(Rerun(r) \/ Approve(r))
  BY DEF Rerun, Approve, infraVars
<1>2. ~Push /\ ~Dispatch /\ ~UNCHANGED vars
  BY DEF Push, Dispatch, Create, infraVars, vars
<1>3. PICK r \in Ids : Works(r)
  BY <1>1, <1>2, NextActions
<1>4. At(r, {"apply"}) /\ infra'.run = r /\ infra'.attempt = run[r].attempt
  BY <1>3, WorkInfra
<1>5. SUFFICES ASSUME run[r].attempt = 1, r \notin late PROVE FALSE
  BY <1>4, FilesOf DEF TypeOK
<1>6. At(r, Busy) /\ ~At(r, {"none"})
  BY <1>4, BusyNames DEF At
<1>7. infra.run <= r
  BY <1>5, <1>6 DEF OrderInv, At
<1>8. r # 0 /\ r \in Nat /\ r <= runs /\ runs \in Nat
  BY <1>6 DEF RunInv, Ids, TypeOK
<1>9. run[r].commit \in Nat
  BY DEF TypeOK
<1>10. CASE infra.run = 0
  BY <1>4, <1>8, <1>9, <1>10 DEF CommitOf
<1>11. CASE infra.run # 0
  <2>1. infra.run \in 1 .. r /\ infra.run \in Ids
    BY <1>7, <1>8, <1>11, InfraType
  <2>2. run[infra.run].commit <= run[r].commit
    BY <1>8, <2>1 DEF RunInv
  <2>3. run[infra.run].commit \in Nat
    BY <2>1 DEF TypeOK
  <2> QED
    BY <1>4, <1>8, <1>9, <1>11, <2>2, <2>3 DEF CommitOf
<1> QED
  BY <1>10, <1>11
\* The order, with what is applied left as it is.
LEMMA QuietOrder ==
  ASSUME TypeOK, OrderInv, UNCHANGED infra, runs <= runs', runs' \in Nat,
         late \subseteq late',
         \A q \in Ids :
           /\ run'[q].attempt >= run[q].attempt /\ run'[q].attempt \in Nat
           /\ q = infra.run /\ ~At(q, {"none", "waiting"}) =>
                run'[q].attempt > 1 \/ ~At(q, {"none", "waiting"})'
           /\ At(q, Busy)' => At(q, Busy),
         \A q \in Ids \ late' : run'[q].attempt = 1 =>
           /\ At(q, Busy)' => infra.run <= q
           /\ At(q, {"pending"})' => infra.run <= q /\ \A p \in Ids : At(p, Busy) => p <= q
  PROVE  OrderInv'
<1>1. /\ infra.run \in 0 .. MaxRuns /\ runs \in Nat
      /\ infra.run <= runs /\ (infra.run = 0 => infra.whole)
      /\ infra.run # 0 => infra.run \in Ids
      /\ infra.run # 0 => run[infra.run].attempt > 1 \/ ~At(infra.run, {"none", "waiting"})
  BY InfraType DEF OrderInv
<1>2. infra.run # 0 => run'[infra.run].attempt > 1 \/ ~At(infra.run, {"none", "waiting"})'
  BY <1>1, FilesOf
<1>3. \A q \in Ids \ late' : run'[q].attempt = 1 =>
        /\ At(q, Busy \cup {"pending"})' => infra.run <= q
        /\ At(q, {"pending"})' => \A p \in Ids : At(p, Busy)' => p <= q
  BY DEF At, Busy
<1>4. infra.run <= runs'
  BY <1>1
<1> QED
  BY <1>1, <1>2, <1>3, <1>4 DEF OrderInv

LEMMA OrderParts ==
  ASSUME OrderInv, NEW q \in Ids \ late, run[q].attempt = 1
  PROVE  /\ At(q, Busy) => infra.run <= q
         /\ At(q, {"pending"}) => infra.run <= q /\ \A p \in Ids : At(p, Busy) => p <= q
  BY DEF OrderInv, At
LEMMA WorkOrderInv ==
  ASSUME TypeOK, RunInv, QueueInv, OrderInv, NEW r \in Ids, Works(r)
  PROVE  OrderInv'
<1>1. PICK s \in Busy \cup {"done"}, f \in BOOLEAN, a \in BOOLEAN :
        /\ Moved(run', r, s, f, a)
        /\ s \in Busy => At(r, Busy) \/ (At(r, {"pending"}) /\ \A q \in Ids : ~At(q, Busy))
  BY WorkMoves
<1>2. /\ \A q \in Ids : q # r => run'[q] = run[q]
      /\ run'[r].step = s /\ run'[r].attempt = run[r].attempt
  BY <1>1 DEF Moved
<1>3. UNCHANGED <<runs, late>>
  BY WorkKeeps
<1>4. s \notin {"none", "waiting", "pending"}
  BY BusyNames
<1>5. \/ UNCHANGED infra
      \/ At(r, {"apply"}) /\ infra'.run = r
  BY WorkInfra
<1>6. r \in Nat /\ r # 0 /\ r <= runs
  <2>1. ~At(r, {"none"})
    BY WorkMoves DEF At
  <2>2. r \in Nat /\ r # 0 /\ runs \in Nat
    BY DEF Ids, TypeOK
  <2> QED
    BY <2>1, <2>2 DEF RunInv
<1>7. /\ infra.run <= runs /\ (infra.run = 0 => infra.whole)
      /\ infra.run # 0 => run[infra.run].attempt > 1 \/ ~At(infra.run, {"none", "waiting"})
      /\ infra.run # 0 => infra.run \in Ids
  BY InfraType DEF OrderInv
<1>8. /\ infra'.run <= runs' /\ (infra'.run = 0 => infra'.whole)
  BY <1>3, <1>5, <1>6, <1>7
<1>9. ~At(r, {"none", "waiting"})'
  BY <1>2, <1>4 DEF At
<1>10. infra'.run # 0 => run'[infra'.run].attempt > 1 \/ ~At(infra.run, {"none", "waiting"})'
  <2>1. CASE infra'.run = r
    BY <1>9, <2>1 DEF At
  <2>2. CASE infra'.run # r
    BY <1>2, <1>5, <1>7, <2>2 DEF At
  <2> QED
    BY <2>1, <2>2
<1>11. ASSUME NEW p \in Ids \ late, run'[p].attempt = 1
       PROVE  /\ At(p, Busy \cup {"pending"})' => infra'.run <= p
              /\ At(p, {"pending"})' => \A q \in Ids : At(q, Busy)' => q <= p
  <2>0. run[p].attempt = 1
    BY <1>2, <1>11
  <2>1. CASE p = r
    <3>1. ~At(p, {"pending"})'
      BY <1>2, <1>4, <2>1 DEF At
    <3>2. At(p, Busy \cup {"pending"})' => s \in Busy
      BY <1>2, <1>4, <2>1 DEF At, Busy
    <3>3. s \in Busy => infra.run <= r
      BY <1>1, <2>0, <2>1, OrderParts
    <3> QED
      BY <1>5, <1>6, <2>1, <3>1, <3>2, <3>3
  <2>2. CASE p # r
    <3>1. run'[p] = run[p]
      BY <1>2, <2>2
    <3>2. /\ At(p, Busy) => infra.run <= p
          /\ At(p, {"pending"}) => infra.run <= p /\ \A q \in Ids : At(q, Busy) => q <= p
      BY <2>0, OrderParts
    <3>3. CASE At(p, {"pending"})
      <4>1. ~At(r, {"pending"}) /\ (At(r, Busy) => r <= p)
        BY <2>2, <3>2, <3>3 DEF QueueInv
      <4>2. \A q \in Ids : At(q, Busy)' => q <= p
        BY <1>1, <1>2, <3>2, <3>3, <4>1 DEF At
      <4>3. infra'.run <= p
        BY <1>5, <3>2, <3>3, <4>1, BusyNames DEF At
      <4> QED
        BY <4>2, <4>3
    <3>4. CASE ~At(p, {"pending"})
      <4>1. ~At(p, {"pending"})' /\ (At(p, Busy \cup {"pending"})' => At(p, Busy))
        BY <3>1, <3>4 DEF At, Busy
      <4>2. At(p, Busy) => UNCHANGED infra
        BY <1>5, <2>2, BusyNames DEF QueueInv, At
      <4> QED
        BY <3>2, <4>1, <4>2
    <3> QED
      BY <3>3, <3>4
  <2> QED
    BY <2>1, <2>2
<1> QED
  BY <1>3, <1>8, <1>10, <1>11 DEF OrderInv

LEMMA OrderInvStep == TypeOK /\ RunInv /\ QueueInv /\ OrderInv /\ [Next]_vars => OrderInv'
<1> SUFFICES ASSUME TypeOK, RunInv, QueueInv, OrderInv, [Next]_vars PROVE OrderInv'
  OBVIOUS
<1>0. /\ \A q \in Ids : run[q].attempt \in Nat /\ q \in Nat
      /\ runs \in Nat /\ late \subseteq Ids
  BY DEF TypeOK, Ids
<1>1. CASE Push \/ Dispatch
  <2>1. PICK commit \in 1 .. MaxRuns : Create(commit)
    BY <1>1, CreateCommit
  <2>2. PICK n \in Ids :
          /\ n = runs + 1 /\ runs' = n
          /\ \A q \in Ids : q # n => run'[q] = run[q]
          /\ run'[n].attempt = run[n].attempt /\ run'[n].step = "waiting"
    BY <2>1, CreateMoves
  <2>3. UNCHANGED <<infra, late>>
    BY <2>1 DEF Create, infraVars
  <2>4. At(n, {"none"}) /\ ~At(n, Busy \cup {"pending"})'
    <3>1. n > runs
      BY <1>0, <2>2
    <3>2. At(n, {"none"})
      BY <2>2, <3>1 DEF RunInv
    <3> QED
      BY <2>2, <3>2 DEF At, Busy
  <2>5. \A q \in Ids : /\ run'[q].attempt = run[q].attempt
                       /\ ~At(q, {"none", "waiting"}) => run'[q] = run[q]
                       /\ At(q, Busy \cup {"pending"})' => run'[q] = run[q]
    BY <2>2, <2>4 DEF At
  <2>6. \A q \in Ids : At(q, Busy)' => At(q, Busy)
    BY <2>5 DEF At
  <2>7. \A q \in Ids \ late : run'[q].attempt = 1 =>
          /\ At(q, Busy)' => infra.run <= q
          /\ At(q, {"pending"})' => infra.run <= q /\ \A p \in Ids : At(p, Busy) => p <= q
    BY <2>5, OrderParts DEF At
  <2>8. \A q \in Ids : /\ run'[q].attempt >= run[q].attempt /\ run'[q].attempt \in Nat
                       /\ q = infra.run /\ ~At(q, {"none", "waiting"}) =>
                            run'[q].attempt > 1 \/ ~At(q, {"none", "waiting"})'
    BY <1>0, <2>5 DEF At
  <2>9. runs <= runs' /\ runs' \in Nat
    BY <1>0, <2>2
  <2> QED
    BY <2>3, <2>6, <2>7, <2>8, <2>9, QuietOrder
<1>2. ASSUME NEW r \in Ids, Rerun(r) PROVE OrderInv'
  <2>1. UNCHANGED <<infra, late, runs>>
    BY <1>2 DEF Rerun, infraVars
  <2>2. /\ \A q \in Ids : q # r => run'[q] = run[q]
        /\ run'[r].attempt = run[r].attempt + 1 /\ run'[r].step = "waiting"
    BY <1>2, RerunMoves
  <2>3. run'[r].attempt > 1 /\ run'[r].attempt \in Nat /\ run'[r].attempt >= run[r].attempt
    BY <2>2, FilesOf
  <2>4. \A q \in Ids : At(q, Busy)' => At(q, Busy)
    BY <2>2, BusyNames DEF At
  <2>5. \A q \in Ids \ late : run'[q].attempt = 1 =>
          /\ At(q, Busy)' => infra.run <= q
          /\ At(q, {"pending"})' => infra.run <= q /\ \A p \in Ids : At(p, Busy) => p <= q
    <3> SUFFICES ASSUME NEW q \in Ids \ late, run'[q].attempt = 1
                 PROVE  /\ At(q, Busy)' => infra.run <= q
                        /\ At(q, {"pending"})' => infra.run <= q /\ \A p \in Ids : At(p, Busy) => p <= q
      OBVIOUS
    <3>1. q # r
      BY <2>3
    <3>2. run'[q] = run[q]
      BY <2>2, <3>1
    <3> QED
      BY <3>2, OrderParts DEF At
  <2>6. \A q \in Ids : /\ run'[q].attempt >= run[q].attempt /\ run'[q].attempt \in Nat
                       /\ q = infra.run /\ ~At(q, {"none", "waiting"}) =>
                            run'[q].attempt > 1 \/ ~At(q, {"none", "waiting"})'
    BY <1>0, <2>2, <2>3 DEF At
  <2> QED
    BY <1>0, <2>1, <2>4, <2>5, <2>6, QuietOrder
<1>3. ASSUME NEW r \in Ids, Approve(r) PROVE OrderInv'
  <2>1. UNCHANGED <<infra, runs>> /\ late' = IF Overtaken(r) THEN late \cup {r} ELSE late
    BY <1>3 DEF Approve, infraVars
  <2>2. /\ At(r, {"waiting"})
        /\ \A q \in Ids : run'[q].attempt = run[q].attempt
        /\ run'[r].step = "pending"
        /\ \A q \in Ids \ {r} :
             IF At(q, {"pending"}) THEN run'[q].step = "done" /\ run'[q].failed = TRUE
                                   ELSE run'[q] = run[q]
    BY <1>3, ApproveMoves
  <2>3. \A q \in Ids : /\ At(q, Busy)' => At(q, Busy)
                       /\ At(q, {"pending"})' => q = r
                       /\ ~At(q, {"none", "waiting"}) => ~At(q, {"none", "waiting"})'
    BY <2>2, BusyNames DEF At
  <2>4. ASSUME ~Overtaken(r)
        PROVE  infra.run <= r /\ \A p \in Ids : At(p, Busy) => p <= r
    <3>1. \A q \in Ids : q > r => ~(run[q].attempt > 1) /\ At(q, {"none", "waiting"})
      BY <2>4 DEF Overtaken
    <3>2. \A p \in Ids : At(p, Busy) => ~(p > r)
      BY <3>1, BusyNames DEF At
    <3>3. infra.run # 0 => infra.run \in Ids /\ ~(infra.run > r)
      BY <3>1, InfraType DEF OrderInv
    <3>4. infra.run \in Nat /\ r \in Nat
      BY <1>0, InfraType
    <3> QED
      BY <1>0, <3>2, <3>3, <3>4
  <2>5. \A q \in Ids \ late' : run'[q].attempt = 1 =>
          /\ At(q, Busy)' => infra.run <= q
          /\ At(q, {"pending"})' => infra.run <= q /\ \A p \in Ids : At(p, Busy) => p <= q
    <3> SUFFICES ASSUME NEW q \in Ids \ late', run'[q].attempt = 1
                 PROVE  /\ At(q, Busy)' => infra.run <= q
                        /\ At(q, {"pending"})' => infra.run <= q /\ \A p \in Ids : At(p, Busy) => p <= q
      OBVIOUS
    <3>1. q \in Ids \ late /\ run[q].attempt = 1
      BY <2>1, <2>2
    <3>2. At(q, Busy)' => infra.run <= q
      BY <2>3, <3>1, OrderParts
    <3>3. At(q, {"pending"})' => q = r /\ ~Overtaken(r)
      BY <2>1, <2>3
    <3> QED
      BY <2>4, <3>2, <3>3
  <2>6. \A q \in Ids : /\ run'[q].attempt >= run[q].attempt /\ run'[q].attempt \in Nat
                       /\ q = infra.run /\ ~At(q, {"none", "waiting"}) =>
                            run'[q].attempt > 1 \/ ~At(q, {"none", "waiting"})'
    BY <1>0, <2>2, <2>3
  <2>7. late \subseteq late' /\ runs <= runs' /\ runs' \in Nat
    BY <1>0, <2>1
  <2>8. \A q \in Ids : At(q, Busy)' => At(q, Busy)
    BY <2>3
  <2> QED
    BY <2>1, <2>5, <2>6, <2>7, <2>8, QuietOrder
<1>4. CASE UNCHANGED vars
  <2>1. UNCHANGED <<infra, runs, late, run>>
    BY <1>4 DEF vars, infraVars, runVars
  <2> QED
    BY <2>1 DEF OrderInv, At, Busy
<1> QED
  BY <1>1, <1>2, <1>3, <1>4, WorkOrderInv, NextActions
-------------------------------------------------------------------------------
(***************************************************************************)
(* The newest run.                                                         *)
(***************************************************************************)
LEMMA NoFault ==
  ASSUME TypeOK, faults' = 0
  PROVE  ~Fault
  BY DEF TypeOK, Fault

\* What a run with a good commit does while nothing goes wrong.
LEMMA CleanWork ==
  ASSUME TypeOK, FlagInv, NEW r \in Ids, Works(r), faults' = 0,
         Content(r) = "good", ~run[r].failed
  PROVE  /\ run'[r].failed = FALSE /\ run'[r].attempt = run[r].attempt
         /\ At(r, {"apply"}) => infra' = Left(r, TRUE)
         /\ At(r, {"upload", "done"})' => At(r, {"apply", "upload"})
<1>1. ~Fault /\ ~Withdraw(r) /\ ~Refuse(r) /\ ~Lose(r)
  BY NoFault DEF Withdraw, Refuse, Lose
<1>2. \A s : Goes(r, s) => /\ run'[r].failed = FALSE /\ run'[r].step = s
                           /\ run'[r].attempt = run[r].attempt
  BY DEF Goes, Moved, TypeOK
<1>3. \A s \in Steps : \A files \in SUBSET Reports :
        Succeed(r, s, files) => Goes(r, s)
  BY SucceedGoes
<1>4. CASE Start(r)
  <2>1. Goes(r, "prepare") /\ At(r, {"pending"})
    BY <1>4, StartMoves
  <2>2. run'[r].failed = FALSE /\ run'[r].step = "prepare" /\ run'[r].attempt = run[r].attempt
    BY <1>2, <2>1
  <2> QED
    BY <2>1, <2>2 DEF At
<1>5. CASE Prepare(r)
  <2>1. Succeed(r, "auth", {"validation"}) /\ At(r, {"prepare"})
    BY <1>1, <1>5 DEF Prepare
  <2> QED
    BY <1>2, <1>3, <2>1, StepNames DEF At
<1>6. CASE Auth(r)
  <2>1. At(r, {"auth"}) /\ run' = [run EXCEPT ![r].authed = TRUE, ![r].step = "build"]
    BY <1>1, <1>6 DEF Auth
  <2>2. Moved(run', r, "build", run[r].failed, TRUE)
    BY <2>1, MoveAuth, StepNames
  <2> QED
    BY <2>1, <2>2 DEF At, Moved, TypeOK
<1>7. CASE Build(r)
  <2>1. Succeed(r, "scan", {}) /\ At(r, {"build"})
    BY <1>1, <1>7 DEF Build
  <2> QED
    BY <1>2, <1>3, <2>1, StepNames DEF At
<1>8. CASE Scan(r)
  <2>1. Succeed(r, "plan", {}) /\ At(r, {"scan"})
    BY <1>1, <1>8 DEF Scan, Breaks
  <2> QED
    BY <1>2, <1>3, <2>1, StepNames DEF At
<1>9. CASE Plan(r)
  <2>1. Succeed(r, "apply", {"plan"}) /\ At(r, {"plan"})
    BY <1>1, <1>9 DEF Plan
  <2> QED
    BY <1>2, <1>3, <2>1, StepNames DEF At
<1>10. CASE Apply(r)
  <2>1. Succeed(r, "upload", {"outputs"}) /\ At(r, {"apply"}) /\ infra' = Left(r, TRUE)
    BY <1>1, <1>10 DEF Apply, Breaks
  <2> QED
    BY <1>2, <1>3, <2>1, StepNames DEF At
<1>11. ASSUME NEW m, Upload(r, m)
       PROVE  UNCHANGED run /\ At(r, {"upload"})
  BY <1>1, <1>11, UploadMoves DEF Upload
<1>12. CASE End(r)
  BY <1>2, <1>12, EndMoves DEF At
<1>13. CASE \E m : Upload(r, m)
  <2>1. UNCHANGED run /\ At(r, {"upload"})
    BY <1>11, <1>13
  <2> QED
    BY <2>1 DEF At, TypeOK
<1> QED
  BY <1>1, <1>4, <1>5, <1>6, <1>7, <1>8, <1>9, <1>10, <1>12, <1>13 DEF Works, Job

\* Nothing goes wrong backwards in time.
LEMMA UndisturbedBefore ==
  ASSUME TypeOK, [Next]_vars, Undisturbed'
  PROVE  Undisturbed
<1>1. faults = 0
  BY FaultsGrow DEF Undisturbed
<1>2. \A r \in Ids : run[r].attempt \in Nat \ {0}
  BY DEF TypeOK
<1>3. CASE Push \/ Dispatch
  <2>1. PICK commit \in 1 .. MaxRuns : Create(commit)
    BY <1>3, CreateCommit
  <2>2. \A q \in Ids : run'[q].attempt = run[q].attempt
    BY <2>1, CreateMoves
  <2>3. UNCHANGED late
    BY <2>1 DEF Create
  <2> QED
    BY <1>1, <2>2, <2>3 DEF Undisturbed
<1>4. ASSUME NEW r \in Ids, Rerun(r) PROVE FALSE
  <2>1. run'[r].attempt = run[r].attempt + 1
    BY <1>4, RerunMoves
  <2> QED
    BY <1>2, <2>1 DEF Undisturbed
<1>5. ASSUME NEW r \in Ids, Approve(r) PROVE Undisturbed
  <2>1. \A q \in Ids : run'[q].attempt = run[q].attempt
    BY <1>5, ApproveMoves
  <2>2. late \subseteq late'
    BY <1>5 DEF Approve
  <2> QED
    BY <1>1, <2>1, <2>2 DEF Undisturbed
<1>6. ASSUME NEW r \in Ids, Works(r) PROVE Undisturbed
  <2>1. \A q \in Ids : run'[q].attempt = run[q].attempt
    BY <1>6, WorkMoves DEF Moved
  <2>2. UNCHANGED late
    BY <1>6, WorkKeeps
  <2> QED
    BY <1>1, <2>1, <2>2 DEF Undisturbed
<1>7. CASE UNCHANGED vars
  BY <1>7 DEF vars, runVars, Undisturbed
<1> QED
  BY <1>3, <1>4, <1>5, <1>6, <1>7, NextActions

LEMMA NewestInvStep ==
  TypeOK /\ RunInv /\ FlagInv /\ OrderInv /\ NewestInv /\ [Next]_vars => NewestInv'
<1> SUFFICES ASSUME TypeOK, RunInv, FlagInv, OrderInv, NewestInv, [Next]_vars,
                    Undisturbed', runs' > 0, Content(runs)' = "good"
             PROVE  /\ ~run'[runs'].failed
                    /\ At(runs, {"upload", "done"})' =>
                         infra' = [run |-> runs', attempt |-> 1, whole |-> TRUE]
  BY DEF NewestInv
<1>1. Undisturbed
  BY UndisturbedBefore
<1>2. runs \in 0 .. MaxRuns /\ MaxRuns \in Nat
  BY DEF TypeOK
<1>3. CASE Push \/ Dispatch
  <2>1. PICK commit \in 1 .. MaxRuns : Create(commit)
    BY <1>3, CreateCommit
  <2>2. PICK n \in Ids : /\ n = runs + 1 /\ runs' = n
                         /\ run'[n].step = "waiting" /\ run'[n].failed = run[n].failed
    BY <2>1, CreateMoves
  <2>3. At(n, {"none"})
    BY <1>2, <2>2 DEF RunInv
  <2>4. ~run[n].failed
    BY <2>3 DEF FlagInv, At, Early
  <2> QED
    BY <2>2, <2>4 DEF At
<1>4. CASE UNCHANGED vars
  BY <1>1, <1>4 DEF vars, runVars, infraVars, NewestInv, At, Content
<1>5. ASSUME NEW r \in Ids, Rerun(r) \/ Approve(r) \/ Works(r), UNCHANGED <<content, runs>>
      PROVE  /\ ~run'[runs].failed
             /\ run'[runs].step \in {"upload", "done"} =>
                  infra' = [run |-> runs, attempt |-> 1, whole |-> TRUE]
  <2>1. runs \in Ids /\ runs \in Nat /\ ~At(runs, {"none"})
    BY <1>2, <1>5 DEF RunInv, Ids
  <2>2. Content(runs) = "good"
    BY <1>5, <2>1, CommitKept DEF Content
  <2>3. ~run[runs].failed
    BY <1>1, <1>2, <1>5, <2>2 DEF NewestInv
  <2>4. At(runs, {"upload", "done"}) => infra = [run |-> runs, attempt |-> 1, whole |-> TRUE]
    BY <1>1, <1>2, <1>5, <2>2 DEF NewestInv
  <2>5. ~Rerun(r)
    <3>1. run[r].attempt \in Nat \ {0} /\ run'[r].attempt = 1
      BY DEF TypeOK, Undisturbed
    <3>2. Rerun(r) => run'[r].attempt = run[r].attempt + 1
      BY RerunMoves
    <3> QED
      BY <3>1, <3>2
  <2>6. CASE Approve(r)
    <3>1. ~Overtaken(r) /\ UNCHANGED infra
      BY <2>6 DEF Approve, Undisturbed, infraVars
    <3>2. At(runs, {"pending"}) => r = runs
      <4>0. At(r, {"waiting"})
        BY <2>6 DEF Approve
      <4>1. r \in Nat /\ At(r, {"waiting"})
        BY <4>0 DEF Ids
      <4>2. r <= runs
        BY <4>1, <2>1 DEF RunInv, At
      <4> QED
        BY <2>1, <3>1, <4>1, <4>2 DEF Overtaken, At
    <3>3. CASE r = runs
      <4>1. run'[r].step = "pending" /\ run'[r].failed = run[r].failed
        BY <2>6, ApproveMoves
      <4> QED
        BY <2>3, <3>3, <4>1
    <3>4. CASE r # runs
      <4>1. run'[runs] = run[runs]
        BY <2>1, <2>6, <3>2, <3>4, ApproveMoves
      <4> QED
        BY <2>3, <2>4, <3>1, <4>1 DEF At
    <3> QED
      BY <3>3, <3>4
  <2>7. CASE Works(r) /\ r = runs
    <3>1. /\ run'[r].failed = FALSE
          /\ At(r, {"apply"}) => infra' = Left(r, TRUE)
          /\ At(r, {"upload", "done"})' => At(r, {"apply", "upload"})
      BY <2>2, <2>3, <2>7, CleanWork DEF Undisturbed
    <3>2. run[r].attempt = 1
      BY <1>1 DEF Undisturbed
    <3>3. At(r, {"upload"}) => UNCHANGED infra
      BY <2>7, WorkInfra DEF At
    <3> QED
      BY <2>4, <2>7, <3>1, <3>2, <3>3 DEF At, Left
  <2>8. CASE Works(r) /\ r # runs
    <3>1. run'[runs] = run[runs]
      BY <2>1, <2>8, WorkMoves DEF Moved
    <3>2. SUFFICES ASSUME At(runs, {"upload", "done"}) PROVE UNCHANGED infra
      BY <2>3, <2>4, <3>1 DEF At
    <3>3. SUFFICES ASSUME At(r, {"apply"}) PROVE FALSE
      BY <2>8, WorkInfra
    <3>4. infra.run <= r
      <4>1. r \in Ids \ late /\ run[r].attempt = 1
        BY <1>1 DEF Undisturbed
      <4> QED
        BY <3>3, <4>1, OrderParts, BusyNames DEF At
    <3>5. r \in Nat /\ r <= runs
      BY <2>1, <3>3 DEF RunInv, At, Ids
    <3>6. infra.run = runs
      BY <2>4, <3>2
    <3> QED
      BY <2>1, <2>8, <3>4, <3>5, <3>6
  <2> QED
    BY <1>5, <2>5, <2>6, <2>7, <2>8
<1>6. \A r \in Ids : Rerun(r) \/ Approve(r) \/ Works(r) => UNCHANGED <<content, runs>>
  BY WorkKeeps DEF Rerun, Approve
<1>7. ASSUME NEW r \in Ids, Rerun(r) \/ Approve(r) \/ Works(r)
      PROVE  /\ ~run'[runs'].failed
             /\ At(runs, {"upload", "done"})' =>
                  infra' = [run |-> runs', attempt |-> 1, whole |-> TRUE]
  <2>1. UNCHANGED <<content, runs>>
    BY <1>6, <1>7
  <2> QED
    BY <1>5, <1>7, <2>1 DEF At
<1> QED
  BY <1>3, <1>4, <1>7, NextActions

LEMMA NewestFollows ==
  ASSUME TypeOK, RunInv, NewestInv
  PROVE  NewestIsApplied
<1> SUFFICES ASSUME AtRest, Undisturbed, runs > 0, Content(runs) = "good"
             PROVE  infra = [run |-> runs, attempt |-> 1, whole |-> TRUE]
  BY DEF NewestIsApplied
<1>1. runs \in Ids /\ runs \in Nat
  BY DEF TypeOK, Ids
<1>2. At(runs, {"done"})
  BY <1>1 DEF AtRest, RunInv, At
<1> QED
  BY <1>2 DEF NewestInv, At
-------------------------------------------------------------------------------
(***************************************************************************)
(* The inductive invariant, and what follows from it.                      *)
(***************************************************************************)
PipelineInv ==
  /\ RunInv /\ FlagInv /\ QueueInv /\ MadeInv /\ DoneInv /\ SourceInv /\ OrderInv /\ NewestInv
  /\ FailuresAreReported /\ OnlyScannedCodeRuns /\ HalfAppliedHasCause

LEMMA PipelineInit == Init => PipelineInv
<1> SUFFICES ASSUME Init PROVE PipelineInv
  OBVIOUS
<1>1. /\ main = 0 /\ runs = 0 /\ object = 0 /\ function = 0 /\ made = {} /\ infra = NotApplied
      /\ \A r \in Ids : /\ r \in Nat /\ r > 0
                        /\ run[r].step = "none" /\ ~run[r].failed /\ ~run[r].authed
  BY DEF Init, Ids
<1>2. RunInv /\ FlagInv /\ QueueInv
  BY <1>1 DEF RunInv, FlagInv, QueueInv, At, Busy
<1>3. MadeInv /\ DoneInv /\ FailuresAreReported
  BY <1>1 DEF MadeInv, DoneInv, FailuresAreReported, MadeBy, At, Early
<1>4. SourceInv /\ OnlyScannedCodeRuns
  BY <1>1 DEF SourceInv, OnlyScannedCodeRuns, At
<1>5. OrderInv /\ HalfAppliedHasCause /\ NewestInv
  BY <1>1 DEF OrderInv, HalfAppliedHasCause, NewestInv, NotApplied, At, Busy
<1> QED
  BY <1>2, <1>3, <1>4, <1>5 DEF PipelineInv

LEMMA PipelineStep == TypeOK /\ PipelineInv /\ [Next]_vars => PipelineInv'
  BY RunInvStep, FlagInvStep, QueueInvStep, MadeInvStep, DoneInvStep, SourceStep, OrderInvStep,
     NewestInvStep, HalfAppliedStep DEF PipelineInv

LEMMA PipelineCorrect == Spec => [](TypeOK /\ PipelineInv)
<1>1. Init => TypeOK /\ PipelineInv
  BY TypeInit, PipelineInit
<1>2. TypeOK /\ PipelineInv /\ [Next]_vars => (TypeOK /\ PipelineInv)'
  BY TypeStep, PipelineStep
<1> QED
  BY <1>1, <1>2, PTL DEF Spec

(***************************************************************************)
(* However many runs there are and however often they fail, are lost or    *)
(* are run again: every file that an attempt left is in the archive when   *)
(* the attempt is over, unless its own upload, the credentials or the      *)
(* runner failed.                                                          *)
(***************************************************************************)
THEOREM ReportsReachTheArchive == Spec => []FailuresAreReported
<1>1. PipelineInv => FailuresAreReported
  BY DEF PipelineInv
<1> QED
  BY <1>1, PipelineCorrect, PTL

(***************************************************************************)
(* A green attempt applied its commit completely and left all its reports  *)
(* in the archive.                                                         *)
(***************************************************************************)
THEOREM GreenIsComplete == Spec => []SuccessIsComplete
<1>1. TypeOK /\ PipelineInv => SuccessIsComplete
  BY SuccessFollows DEF PipelineInv
<1> QED
  BY <1>1, PipelineCorrect, PTL

(***************************************************************************)
(* Queueing never cuts an apply short: what is half applied has failed by  *)
(* itself.                                                                 *)
(***************************************************************************)
THEOREM QueueingCutsNothing == Spec => []HalfAppliedHasCause
<1>1. PipelineInv => HalfAppliedHasCause
  BY DEF PipelineInv
<1> QED
  BY <1>1, PipelineCorrect, PTL

(***************************************************************************)
(* Although runs share the source object and upload to it before the scan, *)
(* the function never runs the source of a commit that the scan rejects.   *)
(***************************************************************************)
THEOREM RejectedCodeNeverRuns == Spec => []OnlyScannedCodeRuns
<1>1. PipelineInv => OnlyScannedCodeRuns
  BY DEF PipelineInv
<1> QED
  BY <1>1, PipelineCorrect, PTL

(***************************************************************************)
(* What is applied goes back to an older commit only through a run that is *)
(* run again or that was approved after a newer one.                       *)
(***************************************************************************)
THEOREM NothingElseGoesBack == Spec => OnlyRerunsGoBack
<1>1. TypeOK /\ PipelineInv /\ [Next]_vars
        => [CommitOf(infra') < CommitOf(infra) => infra'.attempt > 1 \/ infra'.run \in late]_infra
  BY BackStep DEF PipelineInv
<1> QED
  BY <1>1, PipelineCorrect, PTL DEF Spec, OnlyRerunsGoBack

(***************************************************************************)
(* With any number of merges, approved in order and run without a fault:   *)
(* when all is quiet, what is applied is the newest commit, unless that    *)
(* one cannot be.                                                          *)
(***************************************************************************)
THEOREM NewestGetsThrough == Spec => []NewestIsApplied
<1>1. TypeOK /\ PipelineInv => NewestIsApplied
  BY NewestFollows DEF PipelineInv
<1> QED
  BY <1>1, PipelineCorrect, PTL
-------------------------------------------------------------------------------
(***************************************************************************)
(* The pipeline implements Environment.  What is seen from outside changes *)
(* with a merge and with an apply; everything else is at most trouble.     *)
(***************************************************************************)
LEMMA EnvironmentInit == Init => Production!Init
<1>1. NotApplied.run = 0 /\ NotApplied.whole = TRUE
  BY DEF NotApplied
<1> QED
  BY <1>1 DEF Init, Production!Init, CommitOf

LEMMA InfraKept ==
  ASSUME TypeOK, RunInv, OrderInv, [Next]_vars, UNCHANGED infra
  PROVE  CommitOf(infra)' = CommitOf(infra)
<1>1. CASE infra.run = 0
  BY <1>1 DEF CommitOf
<1>2. CASE infra.run # 0
  <2>1. infra.run \in Ids /\ ~At(infra.run, {"none"})
    BY <1>2, InfraType DEF OrderInv, RunInv
  <2>2. run'[infra.run].commit = run[infra.run].commit
    BY <2>1, CommitKept
  <2> QED
    BY <1>2, <2>2 DEF CommitOf
<1> QED
  BY <1>1, <1>2

LEMMA QuietEnvironment ==
  ASSUME TypeOK, RunInv, OrderInv, [Next]_vars, UNCHANGED <<content, main, infra, function>>,
         faults' \in {faults, faults + 1}
  PROVE  [Production!Next]_(Production!vars)
<1>1. CommitOf(infra)' = CommitOf(infra) /\ infra'.whole = infra.whole
  BY InfraKept
<1>2. CASE faults' = faults
  BY <1>1, <1>2 DEF Production!vars
<1>3. CASE faults' = faults + 1
  BY <1>1, <1>3 DEF Production!Next, Production!Fail
<1> QED
  BY <1>2, <1>3

\* The source in the bucket is the one the apply belongs to, and was scanned.
LEMMA ApplyIsChecked ==
  ASSUME TypeOK, RunInv, SourceInv, NEW r \in Ids, At(r, {"apply"})
  PROVE  /\ run[r].commit \in Ids /\ Content(r) = content[run[r].commit]
         /\ Production!Checked(run[r].commit)
         /\ Deployed = Production!CodeAfter(run[r].commit)
<1>1. ~At(r, {"none"})
  BY DEF At
<1>2. run[r].commit \in 1 .. main /\ main \in 0 .. runs /\ runs \in 0 .. MaxRuns
  BY <1>1 DEF RunInv, TypeOK, Ids
<1>3. object = run[r].commit /\ Content(r) # "rejected"
  BY DEF SourceInv, At
<1> QED
  BY <1>2, <1>3 DEF Content, Ids, Deployed, Production!Checked, Production!CodeAfter

LEMMA LeftOf ==
  ASSUME NEW r \in Ids, NEW whole \in BOOLEAN, infra' = Left(r, whole),
         run'[r].commit = run[r].commit
  PROVE  CommitOf(infra)' = run[r].commit /\ infra'.whole = whole
BY DEF Left, CommitOf, Ids

LEMMA DeployEnvironment ==
  ASSUME TypeOK, RunInv, SourceInv, NEW r \in Ids, At(r, {"apply"}), Content(r) # "broken",
         infra' = Left(r, TRUE), run'[r].commit = run[r].commit, function' = Deployed,
         faults' \in {faults, faults + 1}, UNCHANGED <<content, main>>
  PROVE  Production!Next
<1>1. Production!Deploy(run[r].commit)
  BY ApplyIsChecked, LeftOf DEF Production!Deploy
<1> QED
  BY <1>1, ApplyIsChecked DEF Production!Next

LEMMA StopEnvironment ==
  ASSUME TypeOK, RunInv, SourceInv, NEW r \in Ids, At(r, {"apply"}),
         infra' = Left(r, FALSE), run'[r].commit = run[r].commit,
         function' \in {function, Deployed}, UNCHANGED <<content, main>>,
         (Content(r) = "broken" /\ faults' = faults) \/ faults' = faults + 1
  PROVE  Production!Next
<1>1. Production!Stop(run[r].commit)
  BY ApplyIsChecked, LeftOf DEF Production!Stop
<1> QED
  BY <1>1, ApplyIsChecked DEF Production!Next

LEMMA WorkEnvironment ==
  ASSUME TypeOK, RunInv, SourceInv, OrderInv, NEW r \in Ids, Works(r)
  PROVE  [Production!Next]_(Production!vars)
<1>1. UNCHANGED <<content, main>> /\ run'[r].commit = run[r].commit
  BY WorkKeeps, WorkMoves DEF Moved
<1>2. [Next]_vars
  BY NextActions
<1>3. \A s, files : Succeed(r, s, files) => faults' = faults
  BY DEF Succeed
<1>4. Fault => faults' = faults + 1
  BY DEF Fault
<1>5. CASE \/ Withdraw(r) \/ Start(r) \/ Prepare(r) \/ Auth(r) \/ Build(r) \/ Scan(r) \/ Plan(r)
           \/ Refuse(r) \/ End(r) \/ \E m : Upload(r, m)
  <2>1. UNCHANGED <<infra, function>>
    BY <1>5 DEF Withdraw, Start, Prepare, Auth, Build, Scan, Plan, Refuse, End, Upload, infraVars
  <2>2. faults' \in {faults, faults + 1}
    BY <1>3, <1>4, <1>5
       DEF Withdraw, Start, Prepare, Auth, Build, Scan, Plan, Refuse, End, Upload, Breaks
  <2> QED
    BY <1>1, <1>2, <2>1, <2>2, QuietEnvironment
<1>6. CASE Apply(r)
  <2>1. At(r, {"apply"})
    BY <1>6 DEF Apply
  <2>2. CASE /\ Content(r) # "broken"
             /\ \/ Succeed(r, "upload", {"outputs"})
                \/ Fault /\ \E files \in SUBSET {"outputs"} : FailTo(r, "upload", files)
             /\ infra' = Left(r, TRUE) /\ function' = Deployed
    BY <1>1, <1>3, <1>4, <2>1, <2>2, DeployEnvironment
  <2>3. CASE /\ Breaks(r, "broken")
             /\ \/ UNCHANGED <<infra, function>>
                \/ infra' = Left(r, FALSE) /\ function' \in {function, Deployed}
    <3>1. (Content(r) = "broken" /\ faults' = faults) \/ faults' = faults + 1
      BY <1>4, <2>3 DEF Breaks
    <3> QED
      BY <1>1, <1>2, <2>1, <2>3, <3>1, QuietEnvironment, StopEnvironment
  <2> QED
    BY <1>6, <2>2, <2>3 DEF Apply
<1>7. CASE Lose(r)
  <2>1. faults' = faults + 1
    BY <1>4, <1>7 DEF Lose
  <2>2. CASE UNCHANGED <<infra, function>>
    BY <1>1, <1>2, <2>1, <2>2, QuietEnvironment
  <2>3. CASE At(r, {"apply"}) /\ infra' = Left(r, FALSE) /\ function' \in {function, Deployed}
    BY <1>1, <2>1, <2>3, StopEnvironment
  <2>4. CASE /\ At(r, {"apply"}) /\ Content(r) # "broken"
             /\ infra' = Left(r, TRUE) /\ function' = Deployed
    BY <1>1, <2>1, <2>4, DeployEnvironment
  <2> QED
    BY <1>7, <2>2, <2>3, <2>4 DEF Lose, infraVars
<1> QED
  BY <1>5, <1>6, <1>7 DEF Works, Job

LEMMA PushEnvironment ==
  ASSUME TypeOK, RunInv, OrderInv, Push
  PROVE  Production!Next
<1>1. runs + 1 \in Ids /\ UNCHANGED <<infraVars, faults>>
  BY CreateCommit, CreateMoves DEF Push, Create
<1>2. main + 1 \in Ids
  BY <1>1 DEF TypeOK, Ids
<1>3. CommitOf(infra)' = CommitOf(infra) /\ infra'.whole = infra.whole
  <2>1. [Next]_vars /\ UNCHANGED infra
    BY <1>1 DEF Next, infraVars
  <2> QED
    BY <2>1, InfraKept
<1>4. main' = main + 1 /\ \E what \in Contents : content' = [content EXCEPT ![main + 1] = what]
  BY DEF Push
<1>5. Production!Merge
  BY <1>1, <1>2, <1>3, <1>4 DEF Production!Merge, Production!Fates, Contents, infraVars
<1> QED
  BY <1>5 DEF Production!Next

LEMMA EnvironmentStep ==
  TypeOK /\ PipelineInv /\ [Next]_vars => [Production!Next]_(Production!vars)
<1> SUFFICES ASSUME TypeOK, RunInv, SourceInv, OrderInv, [Next]_vars
             PROVE  [Production!Next]_(Production!vars)
  BY DEF PipelineInv
<1>1. CASE Dispatch \/ UNCHANGED vars \/ \E r \in Ids : Rerun(r) \/ Approve(r)
  <2>1. Dispatch => UNCHANGED <<content, main, infra, function, faults>>
    BY DEF Dispatch, Create, infraVars
  <2>2. \A r \in Ids : Rerun(r) \/ Approve(r) => UNCHANGED <<content, main, infra, function, faults>>
    BY DEF Rerun, Approve, infraVars
  <2>3. UNCHANGED vars => UNCHANGED <<content, main, infra, function, faults>>
    BY DEF vars, runVars, infraVars
  <2>4. UNCHANGED <<content, main, infra, function, faults>>
    BY <1>1, <2>1, <2>2, <2>3
  <2>5. faults' \in {faults, faults + 1}
    BY <2>4
  <2> QED
    BY <2>4, <2>5, QuietEnvironment
<1> QED
  BY <1>1, PushEnvironment, WorkEnvironment, NextActions

(***************************************************************************)
(* Seen from outside, the queue, the shared source object and the retries  *)
(* are invisible: one checked commit after the other is applied.           *)
(***************************************************************************)
THEOREM ImplementsEnvironment == Spec => EnvironmentSpec
<1>1. Init => Production!Init
  BY EnvironmentInit
<1> QED
  BY <1>1, EnvironmentStep, PipelineCorrect, PTL DEF Spec, EnvironmentSpec, Production!Spec

LEMMA CheckedStays ==
  ASSUME Production!Merge, main \in Nat, content \in [Ids -> Contents],
         NEW c \in Nat, Production!Checked(c)
  PROVE  Production!Checked(c)' /\ content'[c] = content[c]
<1>1. c \in 1 .. main /\ content[c] # "rejected" /\ main' = main + 1
  BY DEF Production!Checked, Production!Merge
<1>2. PICK what \in Contents : content' = [content EXCEPT ![main + 1] = what]
  BY DEF Production!Merge, Production!Fates, Contents
<1>3. content'[c] = content[c]
  BY <1>1, <1>2
<1> QED
  BY <1>1, <1>3 DEF Production!Checked

LEMMA DeployedIsChecked ==
  ASSUME faults \in Nat, faults' \in Nat, NEW c, UNCHANGED <<main, content>>,
         Production!OnlyCheckedIsDeployed, Production!Checked(c), c # 0,
         CommitOf(infra)' = c, function' \in {function, Production!CodeAfter(c)},
         infra'.whole \/ faults' > 0 \/ content[c] = "broken"
  PROVE  Production!OnlyCheckedIsDeployed'
<1>1. c \in 1 .. main' /\ content'[c] # "rejected"
  BY DEF Production!Checked
<1>2. function' # 0 => function' \in 1 .. main' /\ content'[function'] # "rejected"
  BY <1>1 DEF Production!CodeAfter, Production!OnlyCheckedIsDeployed, Production!Checked
<1>3. infra'.whole \/ faults' > 0 \/ content'[c] = "broken"
  OBVIOUS
<1> QED
  BY <1>1, <1>2, <1>3 DEF Production!OnlyCheckedIsDeployed, Production!Checked

LEMMA EnvironmentKeeps ==
  TypeOK /\ TypeOK' /\ Production!OnlyCheckedIsDeployed /\ [Production!Next]_(Production!vars)
    => Production!OnlyCheckedIsDeployed'
<1> SUFFICES ASSUME TypeOK, TypeOK', Production!OnlyCheckedIsDeployed,
                    [Production!Next]_(Production!vars)
             PROVE  Production!OnlyCheckedIsDeployed'
  OBVIOUS
<1>1. faults \in Nat /\ faults' \in Nat /\ main \in Nat /\ content \in [Ids -> Contents]
  BY DeliveryAssumption DEF TypeOK
<1>2. CASE UNCHANGED Production!vars
  BY <1>2 DEF Production!vars, Production!OnlyCheckedIsDeployed, Production!Checked
<1>3. CASE Production!Merge
  <2>1. UNCHANGED <<CommitOf(infra), infra.whole, function, faults>>
    BY <1>3 DEF Production!Merge
  <2>2. ASSUME NEW c \in {CommitOf(infra), function}, c # 0
        PROVE  /\ c \in 1 .. main' /\ content'[c] # "rejected"
               /\ content'[c] = content[c]
    <3>1. Production!Checked(c)
      BY <2>2 DEF Production!OnlyCheckedIsDeployed
    <3>2. c \in Nat
      BY <1>1, <3>1 DEF Production!Checked
    <3> QED
      BY <1>1, <1>3, <3>1, <3>2, CheckedStays DEF Production!Checked
  <2>3. /\ CommitOf(infra) # 0 => /\ CommitOf(infra) \in 1 .. main'
                                 /\ content'[CommitOf(infra)] # "rejected"
                                 /\ content'[CommitOf(infra)] = content[CommitOf(infra)]
        /\ function # 0 => function \in 1 .. main' /\ content'[function] # "rejected"
    BY <2>2
  <2> QED
    BY <2>1, <2>3 DEF Production!OnlyCheckedIsDeployed, Production!Checked
<1>4. CASE Production!Fail
  BY <1>1, <1>4 DEF Production!Fail, Production!OnlyCheckedIsDeployed, Production!Checked
<1>5. ASSUME NEW c \in Ids, Production!Deploy(c) \/ Production!Stop(c)
      PROVE  Production!OnlyCheckedIsDeployed'
  <2>1. Production!Checked(c) /\ c # 0 /\ UNCHANGED <<main, content>>
    BY <1>5 DEF Production!Deploy, Production!Stop, Ids
  <2>2. /\ CommitOf(infra)' = c /\ function' \in {function, Production!CodeAfter(c)}
        /\ infra'.whole \/ faults' > 0 \/ content[c] = "broken"
    BY <1>1, <1>5 DEF Production!Deploy, Production!Stop
  <2> QED
    BY <1>1, <2>1, <2>2, DeployedIsChecked
<1> QED
  BY <1>2, <1>3, <1>4, <1>5 DEF Production!Next

(***************************************************************************)
(* So, with any number of runs in any order: neither the infrastructure    *)
(* nor the function is ever that of a commit that the checks reject.       *)
(***************************************************************************)
THEOREM OnlyCheckedIsServed == Spec => []Production!OnlyCheckedIsDeployed
<1>1. Init => Production!OnlyCheckedIsDeployed
  BY EnvironmentInit DEF Production!Init, Production!OnlyCheckedIsDeployed
<1>2. /\ TypeOK /\ TypeOK' /\ PipelineInv /\ [Next]_vars /\ Production!OnlyCheckedIsDeployed
      => Production!OnlyCheckedIsDeployed'
  BY EnvironmentStep, EnvironmentKeeps
<1> QED
  BY <1>1, <1>2, PipelineCorrect, PTL DEF Spec
-------------------------------------------------------------------------------
(***************************************************************************)
(* SomeRunMayGo.  The busy run bars the pending one, and itself waits for  *)
(* nothing: while it uploads, there is a first file among those left.      *)
(***************************************************************************)
LEMMA UnsentFiles ==
  ASSUME TypeOK, NEW r \in Ids, NEW m \in Unsent(r)
  PROVE  m.file \in Reports /\ m = Object(Attempt(r), m.file)
<1>1. m \in Objects /\ m.run = r /\ m.attempt = run[r].attempt
  BY DEF Unsent, MadeBy, TypeOK
<1> QED
  BY <1>1 DEF Objects, Object, Attempt

LEMMA FirstFile ==
  ASSUME TypeOK, NEW r \in Ids, Unsent(r) # {}
  PROVE  \E m \in Unsent(r) : \A o \in Unsent(r) : Before(m.file, o.file)
<1>1. CASE \E m \in Unsent(r) : m.file = "validation"
  BY <1>1 DEF Before
<1>2. CASE \A o \in Unsent(r) : o.file # "validation"
  <2>1. \A o \in Unsent(r) : o.file \in {"plan", "outputs"}
    BY <1>2, UnsentFiles DEF Reports
  <2>2. CASE \E m \in Unsent(r) : m.file = "plan"
    BY <2>1, <2>2 DEF Before
  <2>3. CASE \A o \in Unsent(r) : o.file = "outputs"
    BY <2>3 DEF Before
  <2> QED
    BY <2>1, <2>2, <2>3
<1> QED
  BY <1>1, <1>2

LEMMA BusyMayGo ==
  ASSUME TypeOK, NEW r \in Ids, At(r, Busy)
  PROVE  MayGo(r)
<1>1. CASE ~At(r, {"upload"})
  BY <1>1 DEF MayGo, At
<1>2. CASE At(r, {"upload"}) /\ (run[r].authed => Unsent(r) = {})
  BY <1>2 DEF MayGo, MayEnd
<1>3. CASE At(r, {"upload"}) /\ run[r].authed /\ Unsent(r) # {}
  <2>1. PICK m \in Unsent(r) : \A o \in Unsent(r) : Before(m.file, o.file)
    BY <1>3, FirstFile
  <2>2. m.file \in Reports /\ m = Object(Attempt(r), m.file)
    BY UnsentFiles
  <2>3. NextFile(r, m)
    BY <1>3, <2>1 DEF NextFile
  <2> QED
    BY <2>2, <2>3 DEF MayGo
<1> QED
  BY <1>1, <1>2, <1>3

(***************************************************************************)
(* Whatever failed, was cancelled or lost before, in any number of runs:   *)
(* some approved run has a step that it may take, until all have ended.    *)
(***************************************************************************)
THEOREM SomeRunIsReady == Spec => []SomeRunMayGo
<1>1. TypeOK => SomeRunMayGo
  <2> SUFFICES ASSUME TypeOK, NEW r \in Ids, ~At(r, {"none", "waiting", "done"})
               PROVE  \E q \in Ids : MayGo(q)
    BY DEF SomeRunMayGo, NoneApproved
  <2>1. CASE \E q \in Ids : At(q, Busy)
    BY <2>1, BusyMayGo
  <2>2. CASE \A q \in Ids : ~At(q, Busy)
    <3>1. At(r, {"pending"})
      BY <2>2 DEF TypeOK, Steps, At
    <3> QED
      BY <2>2, <3>1 DEF MayGo, MayStart
  <2> QED
    BY <2>1, <2>2
<1> QED
  BY <1>1, TypeCorrect, PTL
===============================================================================
