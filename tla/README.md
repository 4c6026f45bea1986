# A verification project for terraform-gcp-framework-2

The repository turns a `deployment.yaml` into Google Cloud infrastructure: a Python engine loads,
checks and renders a configuration, Terraform applies what was rendered, GitHub workflows run both,
and a few scripts on the VM and in scheduled workflows install Redis, watch it and archive what
happened. This directory holds TLA+ models of the parts that keep state and can be interrupted,
overtaken or raced, the TLC runs that check them on small instances, and proofs that hold for every
instance.

Contents: [1 inventory](#1-inventory), [2 modules](#2-modules), [3 runs](#3-runs),
[4 fairness and deadlock](#4-fairness-and-deadlock), [5 proofs](#5-proofs),
[6 disagreements found](#6-disagreements-found), [7 what is not modelled](#7-what-is-not-modelled),
[8 plan](#8-plan).

To repeat a check: `tlc -workers 2 -config <run>.cfg <module>.tla`; to repeat a proof:
`tlapm <module>Proofs.tla`. `PROJECT.json` lists runs, mutants, theorems, hazards, and the source
lines of every definition.

## 1 Inventory

| part (source) | state it keeps | operations | what makes it hard | what makes it correct |
|---|---|---|---|---|
| Cloud Logging archive (`scripts/archive_cloud_logging.py`) | a checkpoint object and snapshot objects in a bucket; the log itself is Cloud Logging's | load checkpoint, list a window page by page, upload entries and manifest, replace the checkpoint by compare-and-swap | entries listed late, skewed clocks, retention, runs that overlap or are killed, lost answers and late requests | no entry left behind the checkpoint; nothing refers to what is not there; the checkpoint never moves back; it is written in the end |
| Snapshot upload (`scripts/archive_upload.py`) | objects in a bucket, created once | `upload_file` with retries; `main` over a list of files | an upload applied although its answer is lost; one of several files failing | success means everything is there; one failure does not cost the other files |
| Redis metrics collector (`scripts/monitoring/redis_metrics.py`, its unit and timer) | the counters of the last saved sample, on disk | load, read Redis, identify the VM, publish, save | Redis restarts and forgets its counters, the run dies between publishing and saving, a timed-out point is stored late | no event lost, none repeated without a fault, an unreachable Redis is shown |
| Render gate (`engine/cli.py`, `engine/ci_prepare.py`) | the rendered file, the override audit log | `render`, `render --force-security`, `ci_prepare` | each reads the configuration two to four times while people edit it; several write one file; interruptions | nothing reaches Terraform that its command may not let through; overrides are recorded |
| Dependency engine (`engine/dependency_engine.py`) | colours and path of a depth-first search; none between calls | cycle search, type check, reference checks | one search from several roots with an early exit | reports are cycles, no report means a build order exists |
| Configuration loader (`engine/config_loader.py`) | none between calls; a dict built in four passes | interpolate, merge defaults, add labels | each pass sees what the earlier ones left | every field has the value its precedence gives |
| Schema validator (`engine/schema_validator.py`) | none | required fields, JSON schema | its checks and those of the dependency engine each leave out what the other is to report | together they let only consistent deployments through |
| Redis bootstrap (`scripts/startup/redis.sh`, `digitap-redis.sh`) | password, configuration, completion marker, systemd unit, all on the VM's disk | about twenty commands under a lock | every command can be the last one; boot, operator and systemd interleave | Redis is never reachable without the password, which never changes; the marker is true; a rerun completes |
| Delivery workflows (`.github/workflows/apply.yml`, `plan.yml`, `archive-logs.yml`) | queue of runs, infrastructure, the function's source, archived reports | queue, check out, prepare, build the function's source, scan, plan, apply, archive | approvals in any order, a queue of one, re-runs, lost runners, failure of any step, one source object for all runs | the newest commit wins, an apply is not cut short, rejected code never runs, reports survive failures |
| Security, naming, region and cost engines | none | one finding per rule, graded by a policy file | what a rule sees was written, merged or filled in | a rule nobody configured still blocks; what is accepted is where it may be |
| Repository scanners (`hardcode_scanner.py`, `secret_scanner.py`) | none | regular expressions over files | – | – |
| Live cost check (`live_cost.py`, `cli.py` `cost-check-live`) | the catalog, once read | list page by page, price each VM, fall back to the static table | pages that fail or repeat, a cache that must be whole or absent | a price of the whole catalog or the reason there is none; the same total as `validate` but for live rates; it ends |
| Monitoring installer (`scripts/monitoring/install.sh`) | agent configuration, its backup, units | stop, back up, install, start | interrupted and run again | the operator's original configuration is not lost |
| Terraform platform, modules, stacks, bootstrap | Terraform state | declarative | Terraform's own | – |
| Example function (`functions/process-upload`) | none | one handler | – | – |

How they meet: the **workflow** runs `ci_prepare` (**gate**), which calls **loader**, **validator**,
**dependency engine** and the rule engines and writes the file **Terraform** reads; the workflow then
archives its reports with **snapshot upload**, which the **log archive** also uses for its own objects;
Terraform puts the **bootstrap** on the VM as a startup script; the **collector** reads the Redis that
the bootstrap installed, with the password file it wrote. The parts share only files and objects: the
rendered file, the bucket's objects, the password file. No two of them run in one process.

## 2 Modules

Every component has a specification (`X.tla`), an `MCX.tla` that gives TLC its instances, and, where
something is proved, `XProofs.tla`. In every module an action is one step of the program between two
points at which something else can happen (a request, a file operation, a second reading), and each
bound on the state space is a constant named `Max...`. A definition whose comment begins with
*Mutant* is not part of the specification: it is the same definition with a plausible mistake in it,
and shows, put in its place, that a property can fail (`PROJECT.json`, "mutants").

### LogArchive, ArchiveLedger

`LogArchive` is the hourly export. State: the log (`clock`, `stage`, `receivedAt`), the bucket
(`checkpoint` with its generation, `store`), the requests in flight (`wire`), and each run (`pc`,
`loaded`, `cutoff`, `must`, `batch`, `attempt`, `reply`).

| action | code |
|---|---|
| `LoadMetadata`, `LoadMedia` | the two requests of `load_checkpoint`; the second names the generation of the first |
| `Query` | `run_export`: clock, cutoff, refusal when behind the checkpoint, window |
| `Page`, `LastPage` | the loop over `nextPageToken`; what must be on the pages is fixed when the listing begins |
| `Send`, `Serve`, `Retry`, `Conflict`, `Uploaded`, `Saved` | `upload_file` and `save_checkpoint`, with `GoogleClient.json`'s retries |
| `Abort` | every other end, a killed runner included |
| `Receive`, `List`, `Expire`, `Tick` | Cloud Logging: stamping, indexing delay, retention, time |

A request stays on the wire when its run gives up or dies; it may be served at any later time or
never. Requests may be reordered. A generation grows by one per replacement (Google's only grows).
Time is in units of the delay; `Skew` bounds the error of a runner's clock.

The design rests on one assumption on the constants, `LatenessAssumption`: an entry is visible no later
than delay plus overlap after its receipt, less the skew. In the code these are ten minutes and one
day. It is the assumption the docs make in words; nothing in the program checks it.

`ArchiveLedger` is the abstract promise to the archive's readers: a set of archived entries that only
grows and a mark that never moves back and never passes an entry that is neither archived nor expired.
`LogArchive!LedgerSpec` is the refinement: the archive is the union of the batches that have a
manifest, the mark is the checkpoint's cutoff.

### RedisMetrics

Redis's counters (`total` events ever, `base` events it has forgotten, so that the counter is their
difference), the state `file`, a run (`pc`, `previous`, `sample`, `attempt`, `point`) and the server
(`late` points, newest `health`, `reports` per event). An event is identified by its number, so
"reported" and "reported twice" are statements about events and not about sums. `LoadState` to
`SaveState` are the functions of that name; `Store` and `StoreLate` are Cloud Monitoring.
One run at a time, as systemd guarantees for a oneshot unit. `timeSeries.create` is atomic: the code
sends all metrics of a sample in one request. `save_state` is one step because it writes a temporary
file and renames it. `excused`, `outgrown` and `reports` are history variables: they are never read
by an action of the program.

### RenderGate

A configuration directory (`config`) that `Edit` may change at any time, the rendered file
(`artifact`), the audit log, what Terraform applied (`infra`), and one record of progress per command.
`Approve` is `ci_prepare`'s own decision, `Validate` to `Audit` are `cmd_render`. Each reads `config`
anew, as the code loads the directory anew. `write_text` is two steps, truncation (`Open`) and
writing (`Write`). Findings are data: "approved" is `SEC_PUBLIC_VM` of callgenie's Redis VM, the one
finding `unapproved_errors` accepts; "yaml" is a file that cannot be loaded, which validation reports
and the second load raises.

### DependencyGraph

`validate_dependency_graph_integrity`, one step per dependency looked at, the nested calls of `visit`
as a stack. The order of Python's dicts and lists is left open, so every search order is covered.
`Report` ends all calls at once and leaves their nodes GRAY, as `return True` does. `Missing` is
`validate_type_dependencies`. `AcceptedIsBuildable` reads "no report" as the user does: there is an
order, each type in it once, in which an accepted deployment can be built. `SilenceIsAcyclic` is the same
said of the graph alone, over paths of any length, and `Closer` what every step of the search uses up;
both are there for the proofs.

### DeploymentChecks, DeploymentConfig

`DeploymentChecks` is what `run_validation` makes of loaded instances: `CheckRequired`, `CheckTypes`,
`CheckReferences`, `CheckSecurity`, `CheckRegions`, in the order of `validate`, each adding to the
findings. Its loader, `Load`, may do anything to the instances but add or remove some. A check that
does not ask what it has before it (`.get` of an instance that is no dict, `.lower()` of a place that
is no text) ends the command with a traceback (`Raise`, `pc = "raised"`) and without a verdict.

`DeploymentConfig` extends it by the real loader: `InterpolateAll`, then one `LoadInstance` (merge and
labels) per instance, in any order; `RaiseAt` is the TypeError of `{**required, **labels}` when the
labels are a text. `CheckSpec`, the specification of the checks under any loader, is a property of
`DeploymentConfig`: its loader is one of those.

YAML is a tree of texts, nulls, false and dicts; a text is a single lower-case word, which may be a
token; lists behave like texts for merge and labels. `_interpolate` and `deep_merge` recurse over such
trees; here they are recursive functions over the nodes of one (`Nodes`), which are finitely many
levels deep (`Level`, up to the bound `Depth`). The paths that properties look at (`Paths`) are any
sequences of keys. Five resource types stand for all: vpc, subnet and cloudrun, the longest chain in
the tables, and vm with service_accounts, whose requirement depends on another field. How a zone
splits into region and suffix is a table of words (`Split`). `Lookups` says what the Terraform modules
of subnet, cloudrun and vm look up for an instance: `LookupsResolve` compares the checks' conditions
in Python with those. Of the security rules, the one on deletion protection stands for all that the
policy file grades. The loader is sequential and deterministic: what is hard here is the interplay of
passes on many inputs, and TLC's initial states are those inputs.

### RedisBootstrap, RedisInstallation

The disk (`installed`, `secret`, `conf`, `included`, `enabled`, `recorded`, `marker`), the running
`daemon` with the settings it was started with, and the step of each run. One action per command that
changes one of them; a redirection is two steps, opening (the file is empty) and writing. `Started`
is what redis-server makes of the files: it refuses a missing include and a `requirepass` without a
value. `Install` leaves open whether the package enables, starts or restarts the service. `Fail`
ends a run before any command, `Reboot` ends all of them, `Die` is systemd's restart. File modes,
sysctl and the loss of the disk's cache at a crash are left out.

`RedisInstallation` is what the users of that Redis are promised: one password for good, a Redis they
can reach asks for it, nothing is installed between completion and reopening. `InstallationSpec` is the
refinement: a password counts when it is in the file, not when the file is open or empty, and Redis is
reachable when it was started with callgenie.conf, whatever the files say by now.

### DeliveryPipeline, Environment

The apply workflow. `run[r]` is the latest attempt of a run: the commit it was created for, its
attempt number, the step it is at, whether it has failed. `Push`, `Dispatch` and `Rerun` create
attempts, `Approve` takes them into the concurrency group, where a new job replaces a pending one,
`Start` lets one in; `Prepare` to `Apply` are the steps of the job, and a failed step leads to the
next one under `always()`. `Upload` is one turn of `archive_upload.main`'s loop; the retries within
`upload_file` are `LogArchive`'s subject and one step here. `Lose` is a lost runner. Of a commit only
its fate matters: it is good, rejected (by validation or secret scan), or fails in terraform apply.

`Build` is `build-function-source`: it writes the commit's source to one object of the source bucket,
before `Scan` looks for secrets. `object` is the commit whose source is there and `function` the one
whose source the deployed function runs: Terraform creates the function from the object and afterwards
compares names, which stay the same (`Deployed`). A `build-function-source` that somebody runs from a
shell is left out: it may upload anything.

`Environment` is the same seen from outside: commits are merged, one that passed the checks is deployed
or stops half-way, and the function's source changes once. `EnvironmentSpec` is the refinement: what is
applied is the commit of the run that `infra` names, whose attempt may long be over or replaced, trouble
is the number of faults. Approvals, the queue, the shared object, reports and re-runs are invisible in
it, which is what has to be shown.

How GitHub queues jobs (approval first, then one pending job per group, which a newer one replaces)
and that `actions/checkout` takes the commit of the triggering event is taken from how the workflow
and its comments use them.

### LiveCost

`cost-check-live`: `Load`, `Authenticate`, then one turn of the loop per instance. `Unsupported` and
`Price` print a VM's line, `List` and `Fetch` are `_list_skus` page by page, `Sql` is the static rate
of a database. `Repeat`, `HttpError` and `Crash` are what the service may do: hand out a page token a
second time, answer with a status (a `LiveCostError`, for which the VM falls back and the next one
lists again), or time out or answer something unexpected. Exceptions of requests itself are not turned
into a `LiveCostError` (although its docstring, `live_cost.py:92`, speaks of "credentials, network, or API-shape problem")
and end the command, as does `machine_type: null`. A machine type is the sequence of its parts; rates
are counted in quarters, since N1 has 3.75 GB to a vCPU. `Matches` leaves open which of several
matching SKUs comes first. The catalog does not change while it is read, and the closing remark on
drift is left out.

`Estimated` is `cost_engine.validate_cost`'s sum over the same deployment, so that
`AgreesWithValidate` compares two programs that add up the same instances in two ways. `Phase` and
`Nearer` say what every step of the command uses up.

## 3 Runs

| run | what it checks | bounds |
|---|---|---|
| `archive` | `Coverage`, `ManifestHasEntries`, `CheckpointNamesSnapshot`, `SuccessIsDurable`, `CheckpointAdvances`, `LedgerSpec`, `EventuallySaved` | one entry, two runs, one fault, two ticks |
| `live_cost` | `LiveIfOffered`, `ListedOnce`, `AgreesWithValidate`, `CheckEnds` | up to three VMs, two databases, catalogs of one to three pages, two faults |
| `metrics` | `NothingMissed`, `RepeatsAreFaults`, `EventuallyReported`, `HealthSettles` | three events, one restart, two faults, any number of runs |
| `metrics_reset` | finding: `FreshDelta` fails | no faults needed |
| `gate` | `OnlyEditsEscape`, `SuccessIsAudited` | one command of each kind, five configurations, two edits, one fault |
| `gate_stale` | finding: `RefusalStopsTerraform` fails | two renders, one edit |
| `graph` | `FirstReportIsCircular`, `AcceptedIsBuildable`, `SearchEnds` | every graph on three types and an unlisted one |
| `config` | `CheckSpec`, `FieldsByPrecedence`, `LabelsComplete`, `TokensResolved`, `DirectVpcIsConsistent`, `LookupsResolve`, `PlacesApproved`, `TypoNeverDisables` | the families of inputs in `MCDeploymentConfig` |
| `config_defaults` | finding: `DefaultTokensResolved` fails | the same |
| `delivery` | `FailuresAreReported`, `SuccessIsComplete`, `OnlyScannedCodeRuns`, `NewestIsApplied`, `SomeRunMoves`, `OnlyRerunsGoBack`, `EnvironmentSpec` | three attempts of up to three runs, one fault |
| `delivery_function` | finding: `ApplyDeploysTheBuild` fails | two runs, no faults |
| `bootstrap` | `PublicNeedsPassword`, `CompleteIsComplete`, `CompletedIsRetained`, `InstallationSpec`, `EventuallyComplete` | two runs at a time, two passwords, three releases, five faults |

Not run, because they are proved for every instance and would add nothing here: the type invariants
`TypeOK`; `HalfAppliedHasCause` and `PasswordKept`, which the refinements of `Environment` and
`RedisInstallation` contain; `SomeRunMayGo`, a part of `SomeRunMoves`; the measures `EachStepIsCloser`
and `EachStepIsNearer`, of which `SearchEnds` and `CheckEnds` show the effect. `SilenceIsAcyclic` speaks
of paths of any length and can only be proved.

Why these bounds are enough:

- *archive.* Properties speak of one entry at a time, and entries do not influence each other except
  through the batch, so one entry shows every order of its life against two runs. Two runs are what a
  compare-and-swap conflict needs, and with one fault the least for `EventuallySaved`. The units are
  as small as the order of delay, overlap and retention allows: an entry is received, listed a tick
  late, owed by one window and out of the next; two tries per upload and per save show a retry that
  meets its own write. The safety properties are also proved for any number of entries, runs and
  faults and any time.
- *live_cost.* Three VMs are one that lists, one that lists again after a failure and one that uses
  the cache. Three pages allow a failure or a repetition at the first, a middle and the last page; the
  core and the memory of a shape are on one page, on two, or only one of them is offered. Two faults
  are a listing that fails twice, or repeats and then fails. Each catalog has the decoys the code
  skips beside what it wants.
- *config.* The inputs are five families, each complete over what its checks can tell apart, with the
  rest of the deployment in order: wirings of service and subnet with defaults, labels and disabled
  types; VMs with every kind of service account; places written, by token or by default; policies
  of up to two entries on deletion protection; and instances, fields and defaults that are not what
  the file should have there. `Depth` is more than any of the inputs nests. Every property of
  this run is also proved, for trees of any depth.
- *metrics.* Each counter is computed from its own previous value only, so one field shows all. Three
  events and one restart are the least with which a counter can pass its old value after a reset and
  still grow.
- *gate.* Two edits let the configuration change and change back, which is what a comparison of two
  readings would miss.
- *graph.* Three types give self-loops, cycles of two and three, and cycles reached from outside; the
  fourth is required but not listed.
- *delivery.* Three runs are one in progress, one pending and one that replaces it. An attempt that is
  not a run's first takes the place of a third run: an old commit that comes back behind a newer one, or
  comes back twice. The fault is any failed step, rejected approval or lost runner, each alone. All but
  the `ENABLED` of `SomeRunMoves` is also proved for any number of runs, attempts and faults.
- *bootstrap.* Two runs race for the lock; five faults interrupt the script, the rerun and the run
  after that, with a reboot and a removed marker between them.

What the properties say beyond their names is written above each of them in its module. Some need a
remark. `NothingMissed` excepts the events before a first sample, those Redis forgot before
they were ever read, and a field of which a restart went unnoticed; the last exception is the finding
of `metrics_reset`, and without it the property is false. `OnlyEditsEscape` excepts an edit during
the very command that wrote the file: the code does read the configuration more than once, and the
property says that this is the only way round the gate. `OnlyRerunsGoBack` likewise names the only
two ways in which the infrastructure can go back to an older commit, a re-run and a late approval.
`OnlyScannedCodeRuns` holds although the source is uploaded before the scan, because a run's own
upload comes between any other's and its apply and the group admits one run at a time: its mutant
removes the group, not the scan. `LookupsResolve` ignores whether a lookup's instance has all it
needs itself, which is what the other findings are about.

## 4 Fairness and deadlock

- `LogArchive!Fairness`: a run that can take a step, or whose latest request the bucket can answer,
  does not stand still for ever: the schedule starts each run, requests have timeouts, and an answer
  that does not come is one of the faults. Nothing is assumed of entries, of earlier requests, or of
  faults. `EventuallySaved` needs fewer faults than runs.
- `LiveCost!FairSpec`: the command is one process that nothing holds up, and every request has a
  timeout. `CheckEnds` rests on `MaxFaults`: the code does not notice a page token it has seen
  before, so it ends only if the service repeats one finitely often. The log export checks for that
  (`archive_cloud_logging.py:188`).
- `RedisMetrics!Fairness`: the timer (`OnUnitActiveSec`) starts a run again and again, its steps
  follow, and the server stores the point. Failures are not fair and bounded by `MaxFaults`. Late
  points and Redis's own events carry no fairness.
- `RedisBootstrap!Fairness`: there is a release to install, the script runs on, and it is run again
  until it has completed, by the guest agent at boot or as `docs/redis-callgenie.md` tells the
  operator ("If installation failed, fix …, then run").
- `DependencyGraph!FairSpec`: the function keeps executing.
- `RenderGate`, `DeploymentConfig` and `DeliveryPipeline` have no fairness. In the last, `SomeRunMoves`
  is the absence of deadlock among the approved runs: while one is pending or in progress, one of them
  can go on by itself. It is stated with `ENABLED` over the steps of jobs only, so that neither a
  further push, an approval nor a fault can hide a queue that is stuck.

`CHECK_DEADLOCK FALSE` is set where the system is meant to stop: finitely many export runs, commands
or workflow runs that have all ended, a search that is over, a configuration that has been checked, a
cost check that has printed its total.
The collector and the bootstrap never stop and are checked for deadlock.

## 5 Proofs

All safety theorems have the form `Spec => []Inv` or `Spec => [][A]_v`, for every value of the
constants that satisfies the module's named assumptions. Each proof module proves a type invariant,
then an inductive invariant, one step per action, then the properties.

| module | theorems | the invariant behind them |
|---|---|---|
| `LogArchiveProofs` | `TypeCorrect`, `UploadOrder`, `ArchiveCovers`, `CheckpointIsComplete`, `SuccessLasts`, `CheckpointMovesForward`, `ArchiveImplementsLedger`, `LedgerHasNoGap` | `UploadInv`: a request is sent only after what it relies on is in the bucket. `CoverInv`: no cutoff is ahead of what a skewed clock can show, the loaded checkpoint vouches for all before the window, the listing owes what was visible in it, and what was not visible yet was received too late to matter; here `LatenessAssumption` is used. `OrderInv`: a run that can still replace the checkpoint loaded the present one. For the ledger, `NoGap` itself is inductive. |
| `RedisMetricsProofs` | `TypeCorrect`, `SavedIsReported`, `RepeatsArePaid` | `ReadingInv` orders the readings of file, sample and Redis; `SampleInv` says what a sample carries and what is known once it is stored. `RepeatInv`: for each event, its reports and the retries under way are no more than the faults so far and the points stored for it, late ones included; `DatedInv`: a reading is of the counters Redis has now or forgot later |
| `RenderGateProofs` | `TypeCorrect`, `OnlyEditsGetThrough`, `OverridesAreAudited` | `GateInv`: on an unchanged configuration a command carries what it validated from step to step |
| `DependencyGraphProofs` | `TypeCorrect`, `AcceptedCanBeBuilt`, `NoCycleIsMissed`, `FirstReportIsRight`, `StepsRunOut` | `SearchInv`: the stack is a path of distinct GRAY nodes, the only GRAY ones before a report; what a BLACK node requires precedes it in `order`, where only BLACK nodes are, each once |
| `LiveCostProofs` | `TypeCorrect`, `RatesAreOffers`, `OneCatalog`, `TotalsAgree`, `StepsRunOut` | `ListingInv`: a listing has found all of the pages before the next one and nothing but the catalog, and a cache is the whole catalog; `CachedInv`: it is there once a row relied on it; `CountedInv`: the total so far is the sum of the rows printed, and a row that is not live has the static table's rate |
| `DeploymentConfigProofs` | `TypeCorrect`, `DirectVpcChecked`, `LookupsChecked`, `PlacesChecked`, `TyposChecked` of the checks under any loader; `LoaderServesChecks`, `DefaultsFillIn`, `LabelsArrive`, `TokensArrive` of the loader; `AcceptedIsSound` of both | `FoundInv`: what a check found for these instances is in the findings from then on. `LoaderInv`: an instance is as written with its tokens replaced, or merged and labelled as well, and then its labels could be unpacked |
| `DeliveryPipelineProofs` | `TypeCorrect`, `ReportsReachTheArchive`, `GreenIsComplete`, `QueueingCutsNothing`, `RejectedCodeNeverRuns`, `NothingElseGoesBack`, `NewestGetsThrough`, `ImplementsEnvironment`, `OnlyCheckedIsServed`, `SomeRunIsReady` | `RunInv`: runs follow the order of their commits; `QueueInv`: one job is busy and one pending; `FlagInv`, `MadeInv`, `DoneInv`: what an attempt has produced follows from its step and flags; `SourceInv`: past its build, the object is the busy run's own; `OrderInv`: what is applied is no newer than a run that is neither late nor run again; `NewestInv`: undisturbed, the newest run with a good commit has not failed, and what it applied is still there |
| `RedisBootstrapProofs` | `TypeCorrect`, `PublicIsProtected`, `MarkerIsTrue`, `CompletedStays`, `PasswordStays`, `ImplementsInstallation` | `BootstrapInv`: one run holds the lock, its step says what is on the disk, a written configuration holds the stored password |

None of the properties is inductive by itself. `Coverage`, for one, speaks of the checkpoint only,
and the step that replaces the checkpoint relies on what the run had loaded, listed and uploaded, long
before and possibly from a process that is dead by then: `CoverInv` carries that along.

In `DeliveryPipeline`, `OnlyScannedCodeRuns` needs the whole chain: one job at a time keeps the object
what the busy run put there, that run's scan is what stands between it and the apply, and a commit's
fate does not change once it is merged. The proof treats every step of a job through one predicate,
`Moved`, since a step of a job changes only that run's step and flags.

Three refinements are proved step by step: `LogArchive` of `ArchiveLedger`, `DeliveryPipeline` of
`Environment`, `RedisBootstrap` of `RedisInstallation`. A step of the program maps to a step of the
abstract specification or to a stutter, and each needs the inductive invariant to say so. An apply is a
`Deploy` of a checked commit only because of `SourceInv`, and any other step leaves the applied commit
alone only because `RunInv` and `OrderInv` keep the run that `infra` names, and its commit, in place. A
restart of Redis is a `Serve` with the right password only because of `ConfInv`, in spite of the include
being removed and the configuration being truncated on the way. `OnlyCheckedIsServed` is then proved of
`Environment`'s own steps, an induction that knows nothing of queues.

`NoCycleIsMissed` is a statement about paths, which are not in the state: along a path of listed types
the place in `order` falls from each type to the next (`EdgesComeDown`), so a path that comes back would
be below itself (`DownIsAcyclic`, by a least counterexample). `StepsRunOut`, in two modules, is the
safety half of termination: a lexicographic measure over finite sets and bounded numbers that every step
lowers. With the fairness of `FairSpec` it is the reason why `SearchEnds` and `CheckEnds` hold; that last
inference, which needs ENABLED, is not proved. `SomeRunIsReady` is likewise the part of `SomeRunMoves`
without ENABLED: that the guard of one run's step holds. Its only case that is not a matter of names is
the upload, where a first file among the unsent ones exists in the order of the workflow (`FirstFile`).

The loader's theorems hold for every tree of defaults and instances. `LoaderInv` reduces them to
statements about three functions of trees, and those are proved in two parts. First the recursion:
`InterpolateIs` and `MergeIs` show that the recursive functions exist, by going up the levels of the
tree, from the empty one at `Depth` to the root. Then the places: a path is walked part by part
(`Walk`, `Along`), beside each other in default, instance and result (`MergeByPrecedence`), in a tree
and its interpolation (`TokenAt`), and before and after labelling (`LabelledElsewhere`).
`LoaderServesChecks` is a refinement, so the theorems on the checks, stated for any loader, hold for
this one: `AcceptedIsSound`. The assumption is `ConfigAssumption`: a file nests finitely, and
`resource_defaults` has for each type a dict or something falsy, which is all the code tells apart
(`if type_defaults`) without merging a text into an instance.

Induction over the natural numbers is done by a least element: the prover's library has it as a fact
about well-founded relations (`Least`, `Induct`).

Model-checked only: what is temporal under fairness (`EventuallySaved`, `EventuallyReported`,
`HealthSettles`, `SearchEnds`, `EventuallyComplete`, `CheckEnds`) and `SomeRunMoves`, which uses
`ENABLED`; both are beyond the prover. What is proved in their place is said above. Every other property
of the passing runs is a theorem.

## 6 Disagreements found

Each is a run that ends in a counterexample.

1. **A restart that outgrows the old counter** (`metrics_reset`, `redis_metrics.py:92`). A reset is
   recognised only when the counter is below its saved value.
   `docs/monitoring-callgenie.md:122` promises that "a counter reset starts a fresh delta".
2. **A refused render leaves the old file** (`gate_stale`, `cli.py:131`), although `cli.py:104-107` and
   `docs/architecture.md:28-32` say that Terraform then fails on a missing file.
3. **A function that keeps its first source** (`delivery_function`,
   `modules/compute/cloudfunctions/main.tf:17`). The module names an object without its generation, so
   Terraform has nothing to compare when only the object's content changes. `docs/modules.md:110`:
   "`terraform apply` always deploys the artifact this command most recently built".
4. **Tokens in defaults** (`config_defaults`, `config_loader.py:149`). The comment at lines 140-141
   says tokens are resolved before the merge so that defaults can use them; only the instances are
   interpolated.

Read in the code while modelling, and not the subject of a run:

- `ci_prepare.py:37-42` forces the Redis exception through, while `docs/validation.md:103-106` says
  that the workflows never force.
- A forced render that stops between `cli.py:141` and `:153` leaves a usable file and no audit record
  (`docs/validation.md:98`: "every use is audited"). `SuccessIsAudited` therefore speaks of commands
  that report success.
- An export that reports failure may have moved the checkpoint: the answer to its compare-and-swap
  was lost and the retry met its own write. `SuccessIsDurable` has no converse.
- `docs/cicd.md:109-113` says apply validates current main; the workflow checks out the commit of its
  trigger, so that a re-run or a late approval applies an older one. `OnlyRerunsGoBack` shows that
  these are the only two ways.
- A rule's severity is taken from the policy file as it stands, and a report blocks on "ERROR" and
  shows "ERROR" and "WARNING" only (`errors.py:53-62`): a mistyped severity turns its rule off without
  a trace, whereas `security_engine.py:7` says that "a typo in the policy file can't silently disable
  a check". `TypoNeverDisables` holds for rule ids.
- `region: false` and `region: {}` pass both the required-field check, which wants neither null nor
  "", and the region check, which skips what is falsy. `PlacesApproved` and `DirectVpcIsConsistent`
  say so (`PlaceIn`).
- Labels that are a text, an instance that is no dict, a reference that is a dict: the loader or a
  check raises, with a traceback instead of a finding (`RaiseAt`, `Raise`).
- `docs/configuration.md:65-67` says that labels are added only to instances that declare some; the
  code adds them to all (`LabelsComplete`).
- After a first cycle the nodes of its path stay GRAY (`dependency_engine.py:81`), so that later
  searches may report paths that do not close. Only the first report is claimed to be a cycle
  (`FirstReportIsCircular`).

## 7 What is not modelled

- Naming rules, the security rules other than deletion protection, the two scanners: each looks at one
  instance or one file by itself, without state, order or another part's result. A model would repeat
  the table; the repository's tests enumerate it. `RenderGate` takes such findings as data.
- Terraform modules, stacks, the state bootstrap: declarative; ordering and retries are Terraform's.
  What the modules read of an instance is in `DeploymentChecks!Lookups`, what they compare of the
  function's source in `DeliveryPipeline!Deployed`.
- `plan.yml` changes nothing and is cancelled freely. `archive-logs.yml` fetches one log and makes one
  call of the upload that `LogArchive` models, into a directory no other run or attempt uses.
- The monitoring installer: a sequence of idempotent commands started by hand, which reads the
  bootstrap's password file and changes nothing the bootstrap or the collector's state depends on.
- The example function: a sample without state of its own.
- Parts of modelled files: references nested in maps and lists (they take the same check as the ones
  modelled), required fields of other resource types, the gauges of the collector other than `up`,
  exit codes and wording.

## 8 Plan

Done in the order of sections 2 and 5. Considered and left: an abstract gate that `RenderGate` would
implement. With an edit possible between any two readings, such a specification would have to let an
edit through exactly when `OnlyEditsEscape` does, and would only repeat it.

What remains worth doing is the liveness of the export, the collector and the bootstrap, should the
prover learn to reason about ENABLED: their measures are not as plain as the two that are proved, since
faults take a run back to its start.
