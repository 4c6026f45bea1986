--------------------------- MODULE DeliveryPipeline ---------------------------
(***************************************************************************)
(* How a merge reaches the infrastructure: .github/workflows/apply.yml and *)
(* scripts/archive_upload.py, which keeps the reports of every attempt.    *)
(*                                                                         *)
(* Many runs of the apply workflow exist at once: waiting for a reviewer,  *)
(* pending in the concurrency group, in progress, ended and run again.     *)
(* Each checks out the commit it was created for.  The steps of a job are  *)
(* skipped once one has failed, except those under always().               *)
(***************************************************************************)
EXTENDS Integers, FiniteSets

CONSTANTS
  MaxRuns,       \* bound: runs of the workflow
  MaxAttempts,   \* bound: attempts of all runs together
  MaxFaults      \* bound: failed or interrupted steps, lost runners

ASSUME DeliveryAssumption ==
  MaxRuns \in Nat \ {0} /\ MaxAttempts \in Nat /\ MaxFaults \in Nat

VARIABLES
  content,   \* what is wrong with each commit, or "good"
  main,      \* commits merged
  runs,      \* runs created
  run,       \* the latest attempt of each run
  infra,     \* what terraform last applied; not whole: it was cut short
  object,    \* the commit whose function source is in the source bucket
  function,  \* the commit whose source the deployed function runs
  made,      \* files the attempts produced
  archived,  \* objects under deployments/<env>/<run>/attempts/<attempt>/
  excused,   \* files lost by a fault of their own
  applied,   \* attempts that applied their commit completely
  late,      \* runs approved after a newer run was
  faults

runVars == <<main, runs, run>>
infraVars == <<infra, object, function>>
archiveVars == <<made, archived, excused>>
vars == <<content, runVars, infraVars, archiveVars, applied, late, faults>>

Ids == 1 .. MaxRuns
\* "rejected" by validation or by the secret scan; "broken": terraform apply fails.
Contents == {"good", "rejected", "broken"}
Busy == {"prepare", "auth", "build", "scan", "plan", "apply", "upload"}
Steps == {"none", "waiting", "pending", "done"} \cup Busy
Reports == {"validation", "plan", "outputs"}
Attempts == [run: Ids, attempt: Nat]
Objects == [run: Ids, attempt: Nat, file: Reports]
NotApplied == [run |-> 0, attempt |-> 0, whole |-> TRUE]

TypeOK ==
  /\ content \in [Ids -> Contents]
  /\ main \in 0 .. runs /\ runs \in 0 .. MaxRuns
  /\ run \in [Ids -> [commit: 0 .. MaxRuns, attempt: Nat \ {0}, step: Steps,
                      failed: BOOLEAN, authed: BOOLEAN]]
  /\ infra \in [run: 0 .. MaxRuns, attempt: Nat, whole: BOOLEAN]
  /\ object \in 0 .. MaxRuns /\ function \in 0 .. MaxRuns
  /\ made \subseteq Objects /\ archived \subseteq made /\ excused \subseteq made
  /\ applied \subseteq Attempts
  /\ late \subseteq Ids
  /\ faults \in 0 .. MaxFaults

Init ==
  /\ content = [c \in Ids |-> "good"]
  /\ main = 0 /\ runs = 0
  /\ run = [r \in Ids |-> [commit |-> 0, attempt |-> 1, step |-> "none",
                           failed |-> FALSE, authed |-> FALSE]]
  /\ infra = NotApplied /\ object = 0 /\ function = 0
  /\ made = {} /\ archived = {} /\ excused = {}
  /\ applied = {} /\ late = {} /\ faults = 0
-------------------------------------------------------------------------------
At(r, steps) == run[r].step \in steps
Attempt(r) == [run |-> r, attempt |-> run[r].attempt]
Object(x, f) == [run |-> x.run, attempt |-> x.attempt, file |-> f]
MadeBy(r) == {m \in made : m.run = r /\ m.attempt = run[r].attempt}
Content(r) == content[run[r].commit]
Left(r, whole) == [run |-> r, attempt |-> run[r].attempt, whole |-> whole]

Fault == faults < MaxFaults /\ faults' = faults + 1

Reruns == {x \in Ids \X (2 .. MaxAttempts) : run[x[1]].attempt >= x[2]}
Bounded == runs + Cardinality(Reruns) < MaxAttempts

Create(commit) ==
  /\ runs < MaxRuns /\ Bounded
  /\ runs' = runs + 1
  /\ run' = [run EXCEPT ![runs + 1].commit = commit, ![runs + 1].step = "waiting"]
  /\ UNCHANGED <<infraVars, archiveVars, applied, late, faults>>

\* A merge to main that touches one of the workflow's paths.
Push ==
  /\ main' = main + 1
  /\ Create(main + 1)
  /\ \E what \in Contents : content' = [content EXCEPT ![main + 1] = what]

\* Somebody starts the workflow for main as it is.
Dispatch ==
  /\ main > 0
  /\ Create(main)
  /\ UNCHANGED <<content, main>>

\* Somebody runs an ended run again, for the commit it was created for.
Rerun(r) ==
  /\ At(r, {"done"})
  /\ Bounded
  /\ run' = [run EXCEPT ![r] = [commit |-> run[r].commit, attempt |-> run[r].attempt + 1,
                                step |-> "waiting", failed |-> FALSE, authed |-> FALSE]]
  /\ UNCHANGED <<content, main, runs, infraVars, archiveVars, applied, late, faults>>

Pending == {r \in Ids : At(r, {"pending"})}

\* A newer run has been through here.
Overtaken(r) ==
  \E q \in Ids : q > r /\ (run[q].attempt > 1 \/ ~At(q, {"none", "waiting"}))

Step(r, step) == run' = [run EXCEPT ![r].step = step]

\* Mutant: a run that finds one pending gives up itself.
ApproveDropsNewer(r) ==
  /\ At(r, {"waiting"})
  /\ IF Pending = {}
       THEN Step(r, "pending")
       ELSE run' = [run EXCEPT ![r].step = "done", ![r].failed = TRUE]
  /\ late' = IF Overtaken(r) THEN late \cup {r} ELSE late
  /\ UNCHANGED <<content, main, runs, infraVars, archiveVars, applied, faults>>

\* Mutant: cancel-in-progress: true.
ApproveCancels(r) ==
  LET cut == {q \in Ids : At(q, {"apply"})}
  IN /\ At(r, {"waiting"})
     /\ run' = [q \in Ids |->
                 IF q = r THEN [run[q] EXCEPT !.step = "pending"]
                 ELSE IF q \in cut THEN [run[q] EXCEPT !.step = "upload", !.failed = TRUE]
                 ELSE run[q]]
     /\ infra' \in IF cut = {} THEN {infra}
                   ELSE {Left(q, FALSE) : q \in cut}
     /\ late' = IF Overtaken(r) THEN late \cup {r} ELSE late
     /\ UNCHANGED <<content, main, runs, object, function, archiveVars, applied, faults>>

(***************************************************************************)
(* A reviewer approves the job, in any order.  It enters the concurrency   *)
(* group, where it takes the place of a job that is pending there; the one *)
(* in progress goes on.                                                    *)
(***************************************************************************)
Approve(r) ==
  /\ At(r, {"waiting"})
  /\ run' = [q \in Ids |-> IF q = r THEN [run[q] EXCEPT !.step = "pending"]
                           ELSE IF q \in Pending
                             THEN [run[q] EXCEPT !.step = "done", !.failed = TRUE]
                           ELSE run[q]]
  /\ late' = IF Overtaken(r) THEN late \cup {r} ELSE late
  /\ UNCHANGED <<content, main, runs, infraVars, archiveVars, applied, faults>>

\* A run is rejected, or cancelled before it starts.
Withdraw(r) ==
  /\ Fault
  /\ At(r, {"waiting", "pending"})
  /\ run' = [run EXCEPT ![r].step = "done", ![r].failed = TRUE]
  /\ UNCHANGED <<content, main, runs, infraVars, archiveVars, applied, late>>

\* Mutant: the jobs are in no concurrency group.
StartAnyway(r) ==
  /\ At(r, {"pending"})
  /\ Step(r, "prepare")
  /\ UNCHANGED <<content, main, runs, infraVars, archiveVars, applied, late, faults>>

\* Mutant: a failed run holds the group.
StartAfterSuccess(r) ==
  /\ At(r, {"pending"})
  /\ \A q \in Ids : ~At(q, Busy) /\ (At(q, {"done"}) => ~run[q].failed)
  /\ Step(r, "prepare")
  /\ UNCHANGED <<content, main, runs, infraVars, archiveVars, applied, late, faults>>

MayStart(r) == At(r, {"pending"}) /\ \A q \in Ids : ~At(q, Busy)

Start(r) ==
  /\ MayStart(r)
  /\ Step(r, "prepare")
  /\ UNCHANGED <<content, main, runs, infraVars, archiveVars, applied, late, faults>>
-------------------------------------------------------------------------------
\* A step of the job ends, leaving files behind; the next one is due.
Succeed(r, next, files) ==
  /\ Step(r, next)
  /\ made' = made \cup {Object(Attempt(r), f) : f \in files}
  /\ UNCHANGED faults

\* A step fails; only steps under always() are left.
FailTo(r, next, files) ==
  /\ run' = [run EXCEPT ![r].step = next, ![r].failed = TRUE]
  /\ made' = made \cup {Object(Attempt(r), f) : f \in files}

\* What can be wrong with the step: the commit, or something else.
Breaks(r, what) == (Content(r) = what /\ UNCHANGED faults) \/ Fault

\* ci_prepare leaves validation.json whether or not it refuses.
Prepare(r) ==
  /\ At(r, {"prepare"})
  /\ \/ Succeed(r, "auth", {"validation"})
     \/ Content(r) = "rejected" /\ FailTo(r, "auth", {"validation"}) /\ UNCHANGED faults
     \/ Fault /\ \E files \in SUBSET {"validation"} : FailTo(r, "auth", files)
  /\ UNCHANGED <<content, main, runs, infraVars, archived, excused, applied, late>>

\* Mutant: the step is not under always().
AuthUnlessFailed(r) ==
  /\ At(r, {"auth"})
  /\ IF run[r].failed THEN Step(r, "upload")
     ELSE run' = [run EXCEPT ![r].authed = TRUE, ![r].step = "build"]
  /\ UNCHANGED <<content, main, runs, infraVars, archiveVars, applied, late, faults>>

\* Google credentials and gcloud: under always(), for the reports' sake.
Auth(r) ==
  /\ At(r, {"auth"})
  /\ \/ /\ run' = [run EXCEPT ![r].authed = TRUE,
                              ![r].step = IF run[r].failed THEN "upload" ELSE "build"]
        /\ UNCHANGED <<faults, excused>>
     \/ /\ run' = [run EXCEPT ![r].step = "upload", ![r].failed = TRUE]
        /\ excused' = excused \cup MadeBy(r)
        /\ Fault
  /\ UNCHANGED <<content, main, runs, infraVars, made, archived, applied, late>>

\* cmd_build_function_source uploads the commit's source, or fails on the way.
Build(r) ==
  /\ At(r, {"build"})
  /\ \/ Succeed(r, "scan", {}) /\ object' = run[r].commit
     \/ Fault /\ FailTo(r, "upload", {}) /\ object' \in {object, run[r].commit}
  /\ UNCHANGED <<content, main, runs, infra, function, archived, excused, applied, late>>

\* The repository is scanned for secrets.
Scan(r) ==
  /\ At(r, {"scan"})
  /\ \/ Content(r) # "rejected" /\ Succeed(r, "plan", {})
     \/ Breaks(r, "rejected") /\ FailTo(r, "upload", {})
  /\ UNCHANGED <<content, main, runs, infraVars, archived, excused, applied, late>>

\* terraform init, validate, plan and show.
Plan(r) ==
  /\ At(r, {"plan"})
  /\ \/ Succeed(r, "apply", {"plan"})
     \/ Fault /\ \E files \in SUBSET {"plan"} : FailTo(r, "upload", files)
  /\ UNCHANGED <<content, main, runs, infraVars, archived, excused, applied, late>>

\* Terraform creates the function from the object; later it compares the names
\* of bucket and object, which stay the same.
Deployed == IF function = 0 THEN object ELSE function

(***************************************************************************)
(* terraform apply: done, cut short, or refused before it began; then, in  *)
(* the same step, terraform output.                                        *)
(***************************************************************************)
Apply(r) ==
  /\ At(r, {"apply"})
  /\ \/ /\ Content(r) # "broken"
        /\ \/ Succeed(r, "upload", {"outputs"})
           \/ Fault /\ \E files \in SUBSET {"outputs"} : FailTo(r, "upload", files)
        /\ infra' = Left(r, TRUE) /\ applied' = applied \cup {Attempt(r)}
        /\ function' = Deployed
     \/ /\ Breaks(r, "broken") /\ FailTo(r, "upload", {})
        /\ \/ UNCHANGED <<infra, function>>
           \/ infra' = Left(r, FALSE) /\ function' \in {function, Deployed}
        /\ UNCHANGED applied
  /\ UNCHANGED <<content, main, runs, object, archived, excused, late>>
-------------------------------------------------------------------------------
Unsent(r) == MadeBy(r) \ (archived \cup excused)

\* The workflow lists the files in the order they are produced.
Before(f, g) == f = "validation" \/ g = "outputs" \/ f = g

NextFile(r, m) ==
  /\ At(r, {"upload"}) /\ run[r].authed
  /\ m \in Unsent(r) /\ \A o \in Unsent(r) : Before(m.file, o.file)

\* main has no token: nothing is uploaded.
Refuse(r) ==
  /\ At(r, {"upload"}) /\ run[r].authed
  /\ Unsent(r) = MadeBy(r)
  /\ Fault
  /\ run' = [run EXCEPT ![r].step = "done", ![r].failed = TRUE]
  /\ excused' = excused \cup MadeBy(r)
  /\ UNCHANGED <<content, main, runs, infraVars, made, archived, applied, late>>

\* Mutant: main returns 0 although a file failed.
UploadForgets(r, m) ==
  /\ NextFile(r, m)
  /\ \/ archived' = archived \cup {m} /\ UNCHANGED <<run, excused, faults>>
     \/ /\ archived' \in {archived, archived \cup {m}}
        /\ excused' = excused \cup {m}
        /\ UNCHANGED run
        /\ Fault
  /\ UNCHANGED <<content, main, runs, infraVars, made, applied, late>>

(***************************************************************************)
(* One turn of archive_upload.main's loop.  upload_file creates the object *)
(* or finds that an earlier try did; when its tries are used up, the       *)
(* object may be there all the same, and the other files still follow.     *)
(***************************************************************************)
Upload(r, m) ==
  /\ NextFile(r, m)
  /\ \/ archived' = archived \cup {m} /\ UNCHANGED <<run, excused, faults>>
     \/ /\ archived' \in {archived, archived \cup {m}}
        /\ excused' = excused \cup {m}
        /\ run' = [run EXCEPT ![r].failed = TRUE]
        /\ Fault
  /\ UNCHANGED <<content, main, runs, infraVars, made, applied, late>>

MayEnd(r) == At(r, {"upload"}) /\ (run[r].authed => Unsent(r) = {})

End(r) ==
  /\ MayEnd(r)
  /\ Step(r, "done")
  /\ UNCHANGED <<content, main, runs, infraVars, archiveVars, applied, late, faults>>

\* The runner is lost, possibly in the middle of terraform apply.
Lose(r) ==
  /\ At(r, Busy)
  /\ Fault
  /\ run' = [run EXCEPT ![r].step = "done", ![r].failed = TRUE]
  /\ excused' = excused \cup MadeBy(r)
  /\ \/ UNCHANGED <<infraVars, applied>>
     \/ At(r, {"build"}) /\ object' = run[r].commit /\ UNCHANGED <<infra, function, applied>>
     \/ /\ At(r, {"apply"})
        /\ infra' = Left(r, FALSE) /\ function' \in {function, Deployed}
        /\ UNCHANGED <<object, applied>>
     \/ /\ At(r, {"apply"}) /\ Content(r) # "broken"
        /\ infra' = Left(r, TRUE) /\ applied' = applied \cup {Attempt(r)}
        /\ function' = Deployed /\ UNCHANGED object
  /\ UNCHANGED <<content, main, runs, made, archived, late>>
-------------------------------------------------------------------------------
Job(r) ==
  \/ Start(r) \/ Prepare(r) \/ Auth(r) \/ Build(r) \/ Scan(r) \/ Plan(r) \/ Apply(r)
  \/ \E f \in Reports : Upload(r, Object(Attempt(r), f))
  \/ Refuse(r) \/ End(r)

Next ==
  \/ Push \/ Dispatch
  \/ \E r \in Ids : Rerun(r) \/ Approve(r) \/ Withdraw(r) \/ Job(r) \/ Lose(r)

Spec == Init /\ [][Next]_vars
-------------------------------------------------------------------------------
Open(m) == ~At(m.run, {"done"}) /\ m.attempt = run[m.run].attempt

(***************************************************************************)
(* "plan.yml and apply.yml upload reports even after a failed step": when  *)
(* an attempt is over, every file it produced is in its own directory of   *)
(* the archive, unless the runner, the credentials or that very upload     *)
(* failed.                                                                 *)
(***************************************************************************)
FailuresAreReported == \A m \in made : m \in archived \cup excused \/ Open(m)

(***************************************************************************)
(* A green attempt applied its commit completely, and all of its reports   *)
(* are in the archive.                                                     *)
(***************************************************************************)
SuccessIsComplete ==
  \A r \in Ids : At(r, {"done"}) /\ ~run[r].failed =>
    /\ Attempt(r) \in applied
    /\ {Object(Attempt(r), f) : f \in Reports} \subseteq archived

(***************************************************************************)
(* "Never cancel an in-flight apply (that could leave infrastructure       *)
(* half-applied)": whatever is queued meanwhile, an apply is cut short     *)
(* only by its own failure.                                                *)
(***************************************************************************)
HalfAppliedHasCause ==
  ~infra.whole => faults > 0 \/ content[run[infra.run].commit] = "broken"

(***************************************************************************)
(* The source is uploaded before the secret scan, to an object that all    *)
(* runs share: still, what runs as the function is never the source of a   *)
(* commit that the scan rejects, however the runs are queued and lost.     *)
(***************************************************************************)
OnlyScannedCodeRuns == function # 0 => content[function] # "rejected"

CommitOf(i) == IF i.run = 0 THEN 0 ELSE run[i.run].commit

(***************************************************************************)
(* The infrastructure goes back to an older commit only when a run is run  *)
(* again, or is approved after a newer one.                                *)
(***************************************************************************)
OnlyRerunsGoBack ==
  [][CommitOf(infra') < CommitOf(infra) => infra'.attempt > 1 \/ infra'.run \in late]_infra

(***************************************************************************)
(* Many runs, one queue, one source object and steps that fail anywhere:   *)
(* seen from outside, the environment is what Environment says.            *)
(***************************************************************************)
Production == INSTANCE Environment WITH
  Commits <- Ids,
  merged <- main,
  fate <- content,
  applied <- CommitOf(infra),
  whole <- infra.whole,
  code <- function,
  trouble <- faults

EnvironmentSpec == Production!Spec

Undisturbed == faults = 0 /\ late = {} /\ \A r \in Ids : run[r].attempt = 1

AtRest == \A r \in Ids : At(r, {"none", "done"})

(***************************************************************************)
(* "Just queue the next one behind it": as long as nothing fails and       *)
(* nothing is run again or approved out of order, no commit that counts is *)
(* lost in the queue.  When all runs have ended, what is applied is the    *)
(* newest commit, unless that one cannot be.                               *)
(***************************************************************************)
NewestIsApplied ==
  AtRest /\ Undisturbed /\ runs > 0 /\ Content(runs) = "good" =>
    infra = [run |-> runs, attempt |-> 1, whole |-> TRUE]

\* The guards of the steps of a job that depend on nobody's mistake.
MayGo(r) ==
  \/ MayStart(r)
  \/ At(r, Busy \ {"upload"})
  \/ \E f \in Reports : NextFile(r, Object(Attempt(r), f))
  \/ MayEnd(r)

NoneApproved == \A r \in Ids : At(r, {"none", "waiting", "done"})

(***************************************************************************)
(* No approved run waits for ever, be it for a reviewer, for a run that    *)
(* failed or was lost, or for one that waits for it: some job has a step   *)
(* that it may take by itself, until all have ended.                       *)
(***************************************************************************)
SomeRunMayGo == NoneApproved \/ \E r \in Ids : MayGo(r)

\* The same, with what the actions themselves say of the run.
SomeRunMoves == NoneApproved \/ \E r \in Ids : MayGo(r) /\ ENABLED Job(r)
-------------------------------------------------------------------------------
(***************************************************************************)
(* docs/modules.md of build-function-source: "terraform apply always       *)
(* deploys the artifact this command most recently built".                 *)
(***************************************************************************)
ApplyDeploysTheBuild == [][applied' # applied => function' = object]_vars
-------------------------------------------------------------------------------
(***************************************************************************)
(* The inductive invariant.  Runs are created in the order of their        *)
(* commits; one job is busy and one pending; what an attempt has produced  *)
(* follows from its step and its flags.                                    *)
(***************************************************************************)
Early == {"none", "waiting", "pending"}

RunInv ==
  \A r \in Ids :
    /\ At(r, {"none"}) <=> r > runs
    /\ r <= runs => run[r].commit \in 1 .. main
    /\ \A q \in 1 .. r : r <= runs => run[q].commit <= run[r].commit

FlagInv ==
  \A r \in Ids :
    /\ At(r, Early \cup {"prepare"}) => ~run[r].failed /\ ~run[r].authed
    /\ At(r, {"auth"}) => ~run[r].authed
    /\ At(r, {"build", "scan", "plan", "apply"}) => ~run[r].failed /\ run[r].authed
    /\ At(r, {"upload"}) /\ ~run[r].failed => run[r].authed

QueueInv ==
  \A r, q \in Ids :
    \/ At(r, Busy) /\ At(q, Busy)
    \/ At(r, {"pending"}) /\ At(q, {"pending"})
    => r = q

MadeInv ==
  \A m \in made :
    /\ m.attempt <= run[m.run].attempt
    /\ m.attempt = run[m.run].attempt => ~At(m.run, Early)
    /\ Open(m) /\ At(m.run, {"upload"}) => run[m.run].authed \/ m \in excused

DoneInv ==
  \A r \in Ids : ~run[r].failed =>
    /\ MadeBy(r) \cap excused = {}
    /\ ~At(r, Early \cup {"prepare"}) => Object(Attempt(r), "validation") \in made
    /\ At(r, {"apply", "upload", "done"}) => Object(Attempt(r), "plan") \in made
    /\ At(r, {"upload", "done"}) =>
         Object(Attempt(r), "outputs") \in made /\ Attempt(r) \in applied

SourceInv ==
  /\ object <= main /\ function <= main
  /\ \A r \in Ids : /\ At(r, {"scan", "plan", "apply"}) => object = run[r].commit
                    /\ At(r, {"plan", "apply"}) => Content(r) # "rejected"

\* A run that is neither late nor run again comes after what is applied.
OrderInv ==
  /\ infra.run <= runs
  /\ infra.run = 0 => infra.whole
  /\ infra.run # 0 => run[infra.run].attempt > 1 \/ ~At(infra.run, {"none", "waiting"})
  /\ \A r \in Ids \ late : run[r].attempt = 1 =>
       /\ At(r, Busy \cup {"pending"}) => infra.run <= r
       /\ At(r, {"pending"}) => \A q \in Ids : At(q, Busy) => q <= r

\* As long as nothing goes wrong, the newest run neither fails nor is replaced,
\* and what it has applied stays.
NewestInv ==
  Undisturbed /\ runs > 0 /\ Content(runs) = "good" =>
    /\ ~run[runs].failed
    /\ At(runs, {"upload", "done"}) => infra = [run |-> runs, attempt |-> 1, whole |-> TRUE]
===============================================================================
