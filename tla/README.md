# Verification of formol

formol is a Kubernetes operator that backs up and restores workloads with
restic. This directory holds TLA+ specifications of its controllers, the TLC
configurations that model-check them, and proofs checked by TLAPS.

## 1. Inventory

### The parts of the system

| part | source | state it keeps | operations |
|---|---|---|---|
| Session scheduler | `controllers/session.go` | none of its own: it rewrites the `TargetStatus` list of a session | `initSession`, `checkSessionState` and its three uses, `isBackupOngoing` |
| BackupSession controller | `controllers/backupsession_controller.go`, `..._helper.go` | BackupSession objects: finalizer, `Status.SessionState`, `StartTime`, `Targets`, `Keep` | `Reconcile`, `deleteSnapshots`, `cleanupSessions` |
| Retention rules | `cleanupSessions` in the helper | counters and marks of one cleanup | keep or delete each successful session |
| RestoreSession controller | `controllers/restoresession_controller.go` | RestoreSession objects | `Reconcile` |
| BackupConfiguration controller | `controllers/backupconfiguration_controller.go`, `..._helpers.go` | BackupConfiguration objects, a CronJob each, sidecars in Deployments and StatefulSets, roles and bindings of the namespace | `Reconcile`, `AddCronJob`, `DeleteCronJob`, `addSidecar`, `DeleteSidecar`, `createBSCreatorRBAC`, `createSidecarRBAC`, `deleteRBAC` |
| Sidecar assembly | `api/v1alpha1/common.go`, `addSidecar` and `DeleteSidecar` in the helpers | the pod template of a workload: containers, variables, mounts, volumes | `GetVolumeMounts`, `GetSharedPath`, `GetSidecar`, `removeTags` |
| API types | `api/v1alpha1/*_types.go` | - | - |
| Manager | `main.go` | one process, one cache, three controllers with a worker each | start, restart |
| formolcli | another repository | the sidecars and Jobs that do the work and report it in the statuses | external here |

### How they interact

Everything goes through objects on the API server. A controller reads from an
informer cache that lags behind, and an update carries the resource version
that was read, so that an update of an old version is refused; a delete request
carries none. An event queues the name of the object; a pass of `Reconcile`
that returns an error is queued again. The cron job of a configuration creates
BackupSessions. The BackupSession controller tells one target at a time to
initialize, run and finalize by writing its state; the sidecar of that target
answers by writing the next state, and the event of that write brings the next
pass. A session that has succeeded triggers the retention rules, which delete
older sessions; a session that is deleted first gets a Job that deletes its
restic snapshots.

### What is hard

* Controllers and sidecars write the same status; every read may be stale.
* `isBackupOngoing` checks and acts later, on a cached list.
* The configuration is read again in each pass and may have been edited since
  the session copied its targets: `Spec.Targets[i]` may be another target, or
  out of range, which kills the process.
* Passes with many writes (deletion, cleanup, the whole BackupConfiguration
  controller) may fail or die between any two, and many errors are dropped.
* The deferred result for `WaitingForJob` overrides every return of the loop.
* Each cleanup sees only what earlier cleanups left.
* Progress depends on every report leading to the pass that acts on it.
* What one controller makes, the other needs: cron job, roles, sidecars and the
  finalizer of a configuration come and go in an order that sessions depend on.
* The pod of a workload is rewritten in place and must come back unharmed; the
  mounts of the sidecar are guessed from the items of paths.

`PROJECT.json` lists the hazards with their lines, and the properties against
them.

## 2. Modules

| module | models | composes |
|---|---|---|
| `SessionState` | the scheduler, as operators over a sequence of target statuses | |
| `TargetPipeline` | abstract specification: what sessions promise to their targets | `SessionState` (names of states) |
| `Retention` | the keep rules, as a function of dates and a policy | |
| `RetentionHistory` | a history of backups and cleanups of one configuration | `Retention` |
| `BackupSession` | the BackupSession controller | `SessionState`, `Retention`; implements `TargetPipeline` |
| `RestoreSession` | the RestoreSession controller | `SessionState` |
| `Namespace` | both session controllers in one process | `BackupSession`, `RestoreSession`; restores implement `TargetPipeline` |
| `BackupConfiguration` | the BackupConfiguration controller | |
| `Sidecar` | what `addSidecar` and `DeleteSidecar` make of a pod | |
| `Cluster` | both the BackupConfiguration and the BackupSession controller, cron jobs and sidecars | `BackupConfiguration`, `BackupSession` |
| `AlgorithmProofs` | theorems about the scheduler and the pass of the keep rules | `SessionState`, `Retention` |
| `BackupSessionProofs`, `SessionResultProofs` | theorems about `BackupSession`; the second is about its results: successes, failures and what the cleanup leaves | `AlgorithmProofs` |
| `PromiseProofs` | the refinement of `TargetPipeline`, and theorems about `Namespace` | `BackupSessionProofs` |
| `RetentionHistoryProofs` | theorems about `RetentionHistory` | `AlgorithmProofs` |
| `BackupConfigurationProofs` | theorems about `BackupConfiguration` | |
| `ClusterProofs` | theorems about `Cluster` | `BackupConfigurationProofs` |
| `SidecarProofs` | theorems about `Sidecar` | `AlgorithmProofs` |
| `MC...` | small instances for TLC | |

Definitions called a *faulty variant* are wrong on purpose: each is what a
plausible mistake would make of the definition below it, and shows that a
property notices the mistake. No specification uses them.

### SessionState

A target status keeps the backup kind, the state, `Try` and whether a snapshot
id is recorded; names, times and durations are dropped. `CheckSessionState`
states the loop without a loop: `Stops` says at which targets the switch
returns, `Visit` what it returns at the first of them and how it changes the
status there, `PassedJob` when the deferred function overrides the result.
`IndexPanics` is the out-of-range index of line 66. `Advance` adds the one
thing that `Reconcile` changes in the result: in `Finalize` a failure becomes a
success.

`Finalized` is a state that exists only in a comment of `session.go`: the Job
of a volume snapshot writes it.

### BackupSession

`api`, `cache`, `queue` and `pending` are the API server, the informer cache,
the work queue and the remaining writes of the pass under way; `purged`,
`unpurged`, `recorded` and `created` record history for properties. Each
branch of `Reconcile` is an action. A branch that ends in one write is one
atomic step, because a write that was overtaken is refused and the pass
repeated: such a pass is a stuttering step. The two branches with several
writes are not atomic: `ReconcileDeletion` creates the delete Job and leaves
the removal of the finalizer (`Unfinalize`) pending, and `ReconcileSuccess`
reads the list and leaves one `CleanupDelete` or `CleanupKeep` per session.

Abstractions:

* The resource version is the value of the object: nobody in this system writes
  a value back that the object had before.
* `Sync` brings one object of the cache up to date in one step. Events of an
  object may be merged and those of different objects arrive in any order,
  which is more than the watch does.
* Only the controller's finalizer is on a session, and names are not used
  again.
* A restarted process lists before it works. A panic is a restart.
* The configuration is read without a lag; an edit may come at any time, which
  covers a read of the older version.
* Sidecars answer in any order and at any time, also while the session is being
  deleted. `Reported` is what `session.go` and `deleteSnapshots` expect of
  formolcli.

### Namespace

The two session controllers step independently; `RestoreSession` reads the
configurations and the BackupSession cache. `ProcessDies` restarts both.

### BackupConfiguration

`pass` is the place the worker has reached. A workload keeps only whether it
exists and which image its sidecar has; a cron job its plan (schedule and
suspend together); the role binding the set of accounts it names. Up to
`MaxRefusals` requests come to nothing (`refused`): they are refused by the API
server, or their `Repo` or object cannot be read, or they conflict with a user's
change of a workload. A target of kind `Pod` can never be read (`Found`):
`GetTargetObjects` has no object for it.

Configurations are read from a copy that lags (`seen`). `r.Get` reads cron jobs,
roles and workloads from the same informer cache, but the model has no lagging
copies of these. What the lag can do to them is counted with the refused
requests: an object that is not seen yet is not deleted, or created in vain, and
the update of a workload from an old copy is a conflict, whose error
`DeleteSidecar` drops. So `refused = 0` in a property means that no request was
refused and no read was late.

### Sidecar

A pod template is a sequence of containers (name, variables, mounts) and a
sequence of volumes. `WithSidecar` and `WithoutSidecar` are the two rewrites;
they are one step each, because the update carries the version that was read.
Paths are sequences of items, so that the comparison by position
(`Agreement`), `filepath.Rel` and `filepath.Join` (`Rebase`) keep their meaning:
a mount that does not hold the path leads out of its directory. `Valid` is the
part of the API server's validation that is modelled: no volume twice, a volume
and a directory of its own for each mount, and no `ShareProcessNamespace` in a
pod with `hostPID`. Mounts have a `SubPath`; a `SubPathExpr`, which
`GetVolumeMounts` drops (`common.go:71`), is not modelled. Variables
keep their names, and `BACKUP_PATHS` its list of paths. The names of the
containers of a target differ (`TargetLists`), paths are absolute, and users do
not call their containers, volumes and variables by the names formol uses
(`Untouched`). `BackupDir` gives the directories `/backup0`, `/backup1` and so
on, as a constant because only two things about them matter: they differ, and
each has one item.

### Cluster

`C` and `B` are instances of the two controllers. They share the cache of
configurations: `B` reads what `C` has `seen`, as they do in one manager. Beside
them are the steps that join them: a cron job starts a pod (`CronFires`), which
creates a session if the creator's account, role and binding are there
(`CreateSession`) or gives up; a sidecar reports (`Reports`) if it is in the pods
of the workload, its role and binding exist and the binding names its account.
A user may apply a workload anew (`Replace`), which takes its sidecar away; none
is deleted for good. A restart hits both controllers. Configurations are not
edited here, and targets are Online with one try: edits and retries are in the
modules of their own. Up to `MaxRefusals` requests of the configuration
controller come to nothing, those of `deleteRBAC` included, whose errors
`Reconcile` drops; the session controller's requests are refused only for old
versions (`ApiMayFail` is off in `B`: refused requests are in the run `targets`).

## 3. Runs

| run | instance | what it shows |
|---|---|---|
| `targets` | one session, three targets (online with 2 tries, volume snapshot with 2, online with `Retry` 0), two edits, deletion of session and configuration, refused requests, one restart | safety of the scheduler and of deletion, refinement of `TargetPipeline` |
| `concurrent` | two sessions of two configurations, of which one may have no targets and the other may be deleted, with a session deleted by a user | every session ends but in two cases the property names; deleted ones go away |
| `retention` | two sessions about to succeed and a third that starts later, days around a month's end with a Sunday | the cleanup never takes the newest; it converges to the policy's choice |
| `retention_history` | five policies over six dates, histories of up to six sessions | the pass over the list is the reference definition of the rules; early cleanups cost nothing |
| `restore` | one backup and one restore of two targets, an edit that makes either panic, one restart | restores end and implement `TargetPipeline` |
| `upkeep` | one configuration, two workloads with different accounts and a Pod, two changes by users, one refused request, one restart | convergence, roles before sidecars, removal of all but what a request that came to nothing left |
| `sidecar` | 421 setups: pods with up to two mounts per target container (nested, look-alike, with a sub-path), lists of one or two paths, three backup types, both kinds of repository, and a pod with `hostPID`; three edits by users | the sidecar has the place where each path lies, the pod is accepted, and it comes back as it was |
| `cluster` | one configuration with one target, one session, the workload replaced, one failing request, one restart | no session without its configuration; every session of one that stays ends |
| `ended_finalized`, `one_backup`, `role_kept`, `mounts` | | violations: see the findings |

Why the bounds are enough. The scheduler looks at the first target that stops
the loop and at those before it, so three targets have one before, one at and
one behind; a fourth comes by an edit. Retry values 0, 1 and 2 are all the
cases of `Try < Retry` with `Try` starting at 1. `isBackupOngoing` is an
existential over sessions: two suffice to make one wait for another. The
cleanup works pairwise on a sorted list with counters of one; three sessions
let one end between two writes of another one's cleanup. One restart can fall
between any two steps, and the state it leaves is like that of a first start.
The upkeep loop treats targets one by one, so two have one before and one
behind; different accounts make the second one depend on the update of the
binding. The choice of a mount compares two mounts at a time; paths of up to
three items have one item above, one at and one below the point where two mounts
part. `cluster` has one target: what the run adds to those of the two controllers
is what one makes and the other needs, for each target alike, and the order among
targets is in `targets` and `upkeep`, with different accounts. Its one failing
request can leave the creator half of what it needs, or the sidecar half of its
roles; that `NoOrphanSession` holds up to the second is the theorem. With three
failures it does not: the creator's account, role and binding may all be left.

`CHECK_DEADLOCK FALSE` is set where every session or configuration may be gone
or ended and no bounded environment step is left: the system rests.

### Fairness

* Watch events arrive, and a pass that has begun makes its writes: weak
  fairness of `Sync` and `NextWrite` (`Continue`).
* The work queue is first in, first out with one worker: an item in it gets its
  turn although other items make the worker busy again and again. Hence strong
  fairness of `Reconcile` of each object. The requeue after 30 seconds and the
  requeue of failed passes keep the item in the queue.
* Sidecars and Jobs answer: weak fairness of `Targets`. The code has no
  timeout; a sidecar that never reports holds its session for ever.
* The informers resync (controller-runtime's default, 10 hours): weak fairness of
  `Resync`, for workloads that are re-created, which the controller does not
  watch. `ConfigurationConverges` needs it, and `SessionsServed` for a workload
  that is replaced. Nothing is asked of the garbage collector.

Nothing is assumed of users and of restarts. The API server refuses a finite
number of requests for reasons of its own: the bound `MaxRefusals` is what lets
a retried pass succeed in the end.

### Findings

* `ended_finalized`: comments say that all targets are moved to `Finalize` when
  a target is given up. They are left as they are.
* `one_backup`: the check for a running backup does not keep two sessions from
  running at the same time. The restore controller makes the same check, and
  backups do not look at restores at all.
* `role_kept`: `deleteRBAC` deletes the roles of a namespace that other
  configurations still use.
* `mounts`: `GetVolumeMounts` compares a path with the mounts item by item at
  the same depth and takes the longest match, whatever comes before it. With
  `/data` and `/cache/db` mounted, `/data/db` is looked for on the wrong volume;
  with `/data/db` listed before `/data`, `/data` becomes the root directory of
  the sidecar. `PathsAreFound` says when the choice is right.

Behaviour the models contain and that no text of the repository contradicts, so
that it is no finding:

* a session without targets stays `Initializing`; a session cannot be deleted
  once its configuration is gone; and if it was `Running` then, no other session
  of the namespace is ever begun (`Starved` and `CutOff` in `BackupSession`);
* a session that panics on a shortened list of targets kills the process again
  after each restart, and does not end (`SessionTerminates` is checked without
  edits);
* a session may be created for a configuration that is gone, and then neither run
  nor be deleted: when three requests of `deleteRBAC`, whose errors are dropped,
  leave the creator's account, role and binding; and, with no failure at all,
  when the upkeep of a second configuration makes them again for a pod that the
  cron job of the first one started before it was deleted. `NoOrphanSession` is
  about one configuration and fewer than three failures;
* sessions that are created while the controller is down get the same start, to
  the second, when it comes up, and two cleanups may sort them differently;
* the daily rule takes 1 January for a day it has already kept;
* a target of kind `Pod`, or a path on no volume, keeps the targets behind it
  from ever getting their sidecars;
* a missing target, or a missing `Repo`, makes the deletion of a configuration
  leave the sidecars of the targets behind it for ever, and a target that is
  taken out of a configuration keeps its sidecar;
* of several containers of an Online target only the last is backed up, and a
  sidecar that is there never learns of new paths;
* the sidecar gets one mount for each path: with volumes mounted at `/data` and
  `/data/db` and the path `/data`, it has the first one at `/backup0` and nothing
  of the second, whose files are left out of the backup. `PathsAreFound`
  therefore compares where a path itself lies (volume and directory in it), and
  of what is mounted below it says only that the sidecar has nothing there which
  the container has not;
* `ShareProcessNamespace` is set with the sidecar and never reset.

## 4. Theorems

`AlgorithmProofs` proves facts about the two algorithms of the session
controller: the scheduler, for every sequence of statuses and every
configuration, and the pass of `cleanupSessions`, for every list of dates and
every policy.

* `AdvanceOutcome`: the possible results of a pass over a phase, without the
  loop. A failed target that is put to work again has one try more, and a
  session is given up only when a failed target has used up its tries.
* `AdvanceCoherent`: a pass over coherent statuses leaves coherent ones.
* `PassKeepsFirst`: the pass, which has a counter and a mark per rule, keeps for
  each rule the first session of each of its first periods, and as many as the
  limit of the rule. It is an induction over the list, done with the least
  element of a set of numbers (a list position at which the tally is not as
  `RuleTallied` says, and before which it is). `TellsApart` is what it asks of
  the dates: that what the code compares tells apart the periods of any two of
  them that the rule looks at.

`BackupSessionProofs` proves invariants of `Spec` for any sessions,
configurations, edits, calendar and number of restarts.

* `TypeCorrect`: `Spec => []TypeOK`.
* `PipelineInvariant`: `Spec => []Pipeline`.
* `OneBusy`: `Spec => []OneBusyTarget`.
* `WorkNeverUndone`: `Spec => WorkIsNeverUndone`, an action property.
* `NoSnapshotForgotten`: `Spec => []SnapshotsPurged`.

`OneBusyTarget` is not inductive: a state in which a target in the middle is
busy and one behind it is done satisfies it, and the next steps break it. The
inductive invariant is `Pipeline`: the statuses are `Coherent` with the state
of the session, that is, in a phase they are *done ... done, one that has been
given the phase, untouched ... untouched*, and after the end nobody is busy.
Three facts carry the proof. A write of the controller starts from the current
object (`Fresh`), so the induction hypothesis about `api` applies to the cached
copy it was computed from. `StepOnObject` shows that any step of the system
changes an object in one of a few ways: a scheduler step, an answer of a busy
target or of a Job, a change of metadata, a deletion. And the scheduler keeps
statuses coherent (`AdvanceCoherent`), as does an answer (`ReportCoherent`).

`WorkIsNeverUndone` follows step by step from `StepOnObject` and
`AdvanceOutcome`. Two writes could undo work, and invariants rule it out: the
fresh list of targets written at the end of `New` replaces an empty one
(`Pipeline`), and a blank object is written only where there is none
(`OnlyCreated`).

`SnapshotsPurged` speaks of sessions that are gone. Its inductive invariant has
two parts. `Accounted`: a recorded snapshot is still in the status of its
session or has been purged, and a session has targets only under our finalizer,
so that a deletion without the finalizer loses nothing. `ReleasesPurged`: a pass
about to remove the finalizer has purged every snapshot of the copy it read; a
snapshot recorded since then changes the object, and the write is refused. That
recorded snapshots stay in the status is the theorem before.

`SessionResultProofs` proves what the final state of a session means.

* `SuccessBackedUp`: `Spec => []SuccessIsBackedUp`. Nothing is known of the
  snapshots of a session that becomes a `Success` unless it was known all along:
  the inductive invariant `AllBackedUp` says of each target that is
  through with its backup that it has its snapshot id or is a volume snapshot,
  which gets it from its Job, and of a session in `Finalize` that every target
  of another kind has one.
* `FailureExhausted`: `NoWayBack` implies `Spec => []FailureIsExhausted`. The
  property compares the tries of a session with a configuration that may have
  been edited since, and speaks only of configurations whose targets are the
  initial ones. `NoWayBack` says that no edit leads back to the initial list:
  otherwise a session could start and fail under an edited list and then be
  measured against the restored one. The edits of the run `targets` satisfy it.
  The inductive invariant `AllCounted` keeps, for a running session, one status
  per target and tries between 1 and what is granted.

* `NewestSpared`: `UserDeletes = {}` and `SameLast` imply
  `Spec /\ []DistinctStarts => []CleanupSparesNewest`: a cleanup never takes one
  of the `Keep.Last` newest successes of its configuration. A cleanup works from
  cached copies and makes its writes one by one, while sessions end, its process
  is restarted, and with requests that carry no version. What makes it safe, and
  inductive (`Spared`), is that a session it marks, or is about to mark, has
  `Keep.Last` newer ones beside it, and that this stays so: a newer one leaves
  the count only if it is marked itself, and then there are enough that are newer
  still (`CoveredStays`). The invariant must also speak of sessions that only a
  copy remembers (`CopySpared`), because a cleanup counts them too.
  The theorem has three hypotheses, and without each of them the code does take
  one of the newest. A user deletes a newer session between the decision of a
  cleanup and its request (`UserDeletes`). A user raises `Keep.Last` there
  (`SameLast`). Two successes start in the same second, and two cleanups sort
  them differently (`DistinctStarts`). That a cron job does not fire twice in a
  second does not exclude it: the start is set by the controller when it first
  sees the session (`backupsession_controller.go:133`), and sessions that are
  created while it is down start together when it comes up. The run `retention`,
  which checks the property, has no deletions and no edits by users, and distinct
  starts.

`RetentionHistoryProofs` proves the three properties of `RetentionHistory`, for
any policies, any days and any number of backups, by two assumptions on the
constants: `OrderAssumption`, the days come in order, and `ComparedAssumption`,
the fields the code compares (`YearDay`, `Month` or `Year`, without the others)
tell the periods of the rules that are used apart, and from those of
`time.Time{}`. They are what the properties need: a daily rule over a year and a
day, or one that meets a first of January, is wrong, as the last list of section
3 says.

* `TagsRight`: `Spec => []TagsAreTheRules`. `PassKeepsFirst`, taken from places
  in the list to sessions.
* `CleanupStable`: `Spec => []CleanupIsStable`. A rule that keeps a session
  among the survivors of a cleanup, but did not before, has lost one of the
  periods it counted. Consider the newest session of a lost period: its newer
  periods are all still there and too few to exclude it, so the cleanup kept it.
* `NothingTooSoon`: `Spec => []NothingDeletedTooSoon`. The inductive invariant is
  that what the rules want of the whole history (`Wanted`) has been kept. A new
  backup only makes that smaller, and a cleanup of what is left keeps more than
  one of the whole would (`FewerRules`).

`PromiseProofs` proves the two refinements of `TargetPipeline`.

* `KeepsThePromise`: `Spec => KeepsPromise`, the abstract specification
  `TargetPipeline` under the refinement mapping of `BackupSession`. `OneObject`
  shows that a step changes what the targets see of at most one session, and
  `ShowsStep` that the change, one of those of `StepOnObject`, is a step of the
  pipeline or none; `Pipeline`, `OnlyCreated` and `Accounted` exclude the states
  from which it would not be.

* `BackupsUndisturbed`, about `Namespace`, where the two session controllers do
  not get in each other's way: beside restores, and through the deaths of the
  process that they cause, backups still satisfy `SnapshotsPurged`,
  `WorkIsNeverUndone` and `KeepsPromise`. Every step of the namespace is one of `BackupSession` for
  its variables, or leaves them alone; `BackupsSafe` collects the invariants.
* `RestoresKeepThePromise`: `RestoreKeepsPromise`, the refinement for restores.
  Its invariant `RestoresSafe` is the same coherence, for restores;
  `SameScheduler` carries the theorems about the scheduler over to the instance
  that restores use.

`BackupConfigurationProofs` proves invariants of `BackupConfiguration` for any
configurations, workloads, edits, refused requests and restarts. `Changes` is
its counterpart of `StepOnObject`: the ways in which a step may change a
configuration. `Copies` says what a copy of a configuration, in the cache or in
the pass under way, still tells however old it is: if it says *deleting*, so it
is, and the specification is the last one; if it has the finalizer, the
configuration has it or is gone, and in that case the copy says *deleting*.
Every write of a pass is judged by it.

* `ConfTypeCorrect`: `Spec => []TypeOK`. The inductive invariant adds `PassOK`:
  a pass that works on a target has a copy with that many targets.
* `AccessUntilDeletion`: `Spec => []Access`. As long as no configuration is
  being deleted, every sidecar of the namespace, of whatever configuration, has
  its role and a binding that names its account.
* `SidecarsHaveAccess`: `SoleConf` implies `Spec => []SidecarHasAccess`.
* `RolesGoFirst`: `SoleConf` implies `Spec => []Made`: the cron job and the
  roles exist only while the configuration has its finalizer, but for what is
  left when it goes, which is at most one object for each request that came to
  nothing (`Remains(c) <= refused`). Nothing is assumed of the targets. The
  inductive invariant `RolesTidy` adds `Erasure`: what a pass that deletes has
  got rid of stays away until it ends, and the rest is counted.
* `NothingIsLeftBehind`: `SoleConf` and `Steadfast` imply
  `Spec => []NothingLeftBehind`: that count, and no sidecars of its targets if
  every request was granted. `Tidy` adds to `RolesTidy` what it says of
  sidecars: `Purge` for a pass that deletes, `Unharmed` for the configuration,
  `Absentees` because a workload that cannot be read has no sidecar to remove,
  and `SpecsKnown`. One request that comes to nothing is enough to leave any
  number of sidecars, because the first error ends `DeleteSidecar`.

`SoleConf`, one configuration in the namespace, is needed because `deleteRBAC`
takes the roles of all: the finding `role_kept` is the counterexample.
`Steadfast`, of the targets only the last may be missing or be a Pod, is needed
because the first target that cannot be read ends `DeleteSidecar`. The run
`upkeep` satisfies both, and the run `cluster` satisfies `SoleConf`.

`ClusterProofs` carries the proofs of `BackupConfiguration` over to the composition.

* `ClusterConfigures`: `Spec => P!Spec`, where `P` is `BackupConfiguration` with
  the variables of the cluster: each step of the cluster is a step of the
  configuration controller or leaves its variables alone.
* `NoSessionIsOrphaned`: `SoleConf` implies `Spec => NoOrphanSession`, for any
  number of failing requests; the property speaks of the time until the third
  one. The pod of a cron job needs three objects to create a session: the
  creator's account, role and binding. By `Made` they are there for a
  configuration with its finalizer, which exists, or no more of them are left
  than requests came to nothing, which is fewer than three.

`SidecarProofs` proves the three properties of `Sidecar`, for any pods, targets,
repositories, variables and number of edits.

* `ShapeInvariant`: `Spec => []Shape`, the inductive invariant. `RoundTrip`
  speaks only of pods without a sidecar, and `AddSidecar` makes one of which it
  says nothing. `Shape` relates the pod to its user's in all states: the user's
  containers come first (`PodKeeps`), and the mounts and volumes that are not
  formol's are the user's, at the places they had; the variables without the
  tags are a permutation of the user's, because the last variable may take the
  place of the tag; and a container has exactly one tag while the sidecar is
  there and the target lists it, else none, unless the target was changed
  meanwhile (`TagsCounted`).
* `ComesBack`: `Spec => []RoundTrip`.
* `PathsFound`: `Spec => []PathsAreFound`. `SidecarServes`, inductive beside
  `Shape`, says that the sidecar has the mounts and the paths that
  `GetVolumeMounts` made for the last container that the target lists, however
  the pod was edited since. The rest is about paths: if no other mount agrees
  with a path by accident, the one that is chosen is the deepest that holds it.
  The sidecar mounts it at a directory of one item, so that of its mounts only
  this one holds the path that is made of that directory and of what is below
  the mount; the place in the volume is the same. Nothing is mounted below that
  path, because the other directories are not in it (`NothingBelow`).
* `Accepted`: `Spec => []PodIsAccepted`. By `Shape` a pod without a sidecar has
  the mounts and volumes of its user, which are valid and not named as formol's,
  whatever additions and removals came before. `MountAdded` and `VolumesJoined`
  say what appending a mount and a volume needs to leave them valid, and
  `PodIsAccepted` says just that of the shared volume, which may neither go
  where the container has a mount nor, in the sidecar of a Job, where the
  repository is, and of pods that have the processes of the host.

The assumptions on constants are those named in the modules: in `BackupSession`
finitely many sessions, a configuration for each, and constants of the right
type; in `BackupConfiguration` an account for each workload and specifications
of the right type; in `Cluster` both; in `RetentionHistory` the two above; in `Sidecar` that the
pods to begin with are valid and use none of formol's names, that a target lists
a container once, that users do not add a variable called like the tag, and the
two facts about directories above. TLC evaluates them on every run.

Only model-checked are the liveness properties (`SessionTerminates`,
`DeletedIsCollected`, `RetentionConverges`, `RestoreTerminates`,
`ConfigurationConverges`, `DeletedConfGoes` and `SessionsServed`): temporal reasoning under fairness is out of the prover's
reach. Every safety property that a passing run checks is a theorem, under the
hypotheses named above.

## 5. Not modelled

* `Repo` and `Function` objects beyond whether a `Repo` can be read and is local:
  no controller of this repository handles them.
* Other namespaces: the cluster role and its binding are shared by all of them,
  are deleted with any configuration, and name the account of the first sidecar
  only. `bound` keeps that account; no text says whom the role is for.
* Sessions that start in the same second, which two cleanups may sort
  differently, and successes that are being deleted while a cleanup counts them.
* Lagging copies of cron jobs, roles and workloads, other than as requests that
  come to nothing; and roles that are still seen after another configuration's
  deletion took them.
* `SubPathExpr` of a mount, and whatever else the API server validates of a pod.
* The image in the cron job, which is never updated, and repeated subjects in
  the role binding.
* Leader election, metrics, health checks, flags, logging.
* Generated code (`zz_generated.deepcopy.go`) and the manifests.
* `initRestore`, which nothing calls, and `Status.Suspended`, which `AddCronJob`
  assigns to a copy.
* Restic and the contents of snapshots: a delete Job that exists is taken to do
  its work.

## 6. Plan

1. Done: the scheduler, BackupSession with retention, the restore controller
   and their composition, the configuration controller, sidecar assembly, the
   composition of the configuration controller with sessions, cron jobs and
   sidecars; theorems about all of these.
2. Larger compositions: two configurations that name the same workload, and
   restores beside configurations that come and go.
3. Theorems about two configurations in a namespace beyond
   `AccessUntilDeletion`, once `deleteRBAC` leaves roles that are still used.
