------------------------ MODULE BackupConfiguration -------------------------
(***************************************************************************)
(* The BackupConfiguration controller                                      *)
(* (controllers/backupconfiguration_controller.go and its helpers).  For   *)
(* each configuration it keeps a cron job that creates BackupSessions, the *)
(* roles and role bindings of the namespace, and a sidecar container in    *)
(* the pods of each target (a Deployment or StatefulSet, here a workload; *)
(* what the sidecar is made of is in module Sidecar).                      *)
(*                                                                         *)
(* One worker; a pass makes many writes, any of which may be refused, and  *)
(* "pass" says how far it has come.  Users act between two writes, and the *)
(* process may die there.  The controller watches configurations only: a   *)
(* workload that changes brings no event.                                  *)
(*                                                                         *)
(* Configurations are read from the informer cache, which lags (seen).  So *)
(* are cron jobs, roles and workloads, for which there is no such copy     *)
(* here.  What the cache does not show yet is not deleted, or is created   *)
(* in vain, and an update of an old copy is a conflict: a request that     *)
(* comes to nothing, which is counted with those that are refused.  A      *)
(* workload that is still seen with the sidecar it had before a user       *)
(* replaced it is as one that is replaced after it was looked at.  Roles   *)
(* that are still seen after another configuration's deletion took them    *)
(* are left out.                                                           *)
(***************************************************************************)
EXTENDS Integers, Sequences, FiniteSets

CONSTANTS
  Confs,          \* names of BackupConfigurations of one namespace
  Workloads,      \* names of Deployments, StatefulSets and Pods of it
  Pods,           \* those that targets name with kind Pod
  Account,        \* the service account of the pods of each workload
  Images,         \* images of formolcli
  Plans,          \* values of Spec.Schedule and Spec.Suspend
  InitialSpecs,   \* the specification each configuration is created with
  SpecEdits,      \* the specifications a user may change one to
  Redeployed,     \* the workloads that users delete and create again
  MaxChanges,     \* bound: edits of configurations and changes of workloads
  MaxRefusals,    \* bound: requests that fail or that a late cache keeps back
  MaxRestarts     \* bound: restarts of the process

ConfSpec == [image : Images, plan : Plans, targets : Seq(Workloads)]

ASSUME AccountAssumption == DOMAIN Account = Workloads /\ (Redeployed \cup Pods) \subseteq Workloads
ASSUME SpecsAssumption   == InitialSpecs \in [Confs -> ConfSpec] /\ SpecEdits \subseteq ConfSpec
ASSUME BoundsAssumption  == {MaxChanges, MaxRefusals, MaxRestarts} \subseteq Nat

\* What the controller creates for the jobs that create BackupSessions, and
\* for the sidecars, in the order of creation.
CreatorRBAC == <<"creator account", "creator role", "creator binding">>
SidecarRBAC == <<"sidecar role", "sidecar binding", "sidecar cluster role",
                 "sidecar cluster binding">>

RBAC == {CreatorRBAC[i] : i \in 1..3} \cup {SidecarRBAC[i] : i \in 1..4}

None == "none"

VARIABLES
  confs,        \* the API server's BackupConfigurations
  seen,         \* the informer cache's copies of them
  queue,        \* the work queue
  pass,         \* the pass in progress
  cronJobs,     \* the plan of the cron job of each configuration, or None
  workloads,    \* the workloads: do they exist, which sidecar image have they
  rbac,         \* the accounts, roles and bindings that exist
  subjects,     \* the accounts that the sidecar role binding names
  bound,        \* the account that the sidecar cluster role binding names
  changes,      \* changes made by users so far
  refused,      \* requests that came to nothing so far
  restarts      \* restarts so far

vars == <<confs, seen, queue, pass, cronJobs, workloads, rbac, subjects, bound,
          changes, refused, restarts>>

made   == <<cronJobs, workloads, rbac, subjects, bound>>
bounds == <<changes, refused, restarts>>

Object == [exists : BOOLEAN, deleting : BOOLEAN, finalizer : BOOLEAN,
           spec : ConfSpec, cronJob : BOOLEAN, sidecar : BOOLEAN]

Blank(c, exists) == [exists |-> exists, deleting |-> FALSE, finalizer |-> FALSE,
                     spec |-> InitialSpecs[c], cronJob |-> FALSE, sidecar |-> FALSE]

\* The places in a pass.  "target" is the target whose turn it is.
Places == {"cronjob", "creator", "sidecar", "status",
           "delete sidecar", "delete cronjob", "delete rbac", "finalizer"}

NoPass == [at |-> None]

At(place) == pass.at = place

Pass(c, place, target) == [at |-> place, conf |-> c, seen |-> seen[c], target |-> target]

\* A request is granted, or it comes to nothing.
Answers == IF refused < MaxRefusals THEN BOOLEAN ELSE {TRUE}

Answered(ok) ==
  /\ refused' = refused + (IF ok THEN 0 ELSE 1)
  /\ UNCHANGED <<changes, restarts>>

\* How many of n requests are granted before one comes to nothing.
Granted(n) == IF refused < MaxRefusals THEN 0..n ELSE {n}

-----------------------------------------------------------------------------
(* Users, the informers, the garbage collector.                            *)

Create(c) ==
  /\ confs[c] = Blank(c, FALSE)
  /\ confs' = [confs EXCEPT ![c] = Blank(c, TRUE)]
  /\ UNCHANGED <<seen, queue, pass, made, bounds>>

Edit(c) ==
  /\ confs[c].exists /\ ~ confs[c].deleting
  /\ changes < MaxChanges
  /\ changes' = changes + 1
  /\ \E spec \in SpecEdits : confs' = [confs EXCEPT ![c].spec = spec]
  /\ UNCHANGED <<seen, queue, pass, made, refused, restarts>>

\* The configuration is gone for good: names are not used again.
Gone(o) == [o EXCEPT !.exists = FALSE, !.deleting = TRUE, !.finalizer = FALSE]

Delete(c) ==
  /\ confs[c].exists /\ ~ confs[c].deleting
  /\ confs' = [confs EXCEPT ![c] = IF @.finalizer THEN [@ EXCEPT !.deleting = TRUE] ELSE Gone(@)]
  /\ UNCHANGED <<seen, queue, pass, made, bounds>>

\* A workload is deleted, or created anew without a sidecar.
Redeploy(w) ==
  /\ w \in Redeployed
  /\ changes < MaxChanges
  /\ changes' = changes + 1
  /\ \E exists \in BOOLEAN :
       workloads' = [workloads EXCEPT ![w] = [exists |-> exists, sidecar |-> None]]
  /\ UNCHANGED <<confs, seen, queue, pass, cronJobs, rbac, subjects, bound, refused, restarts>>

Sync(c) ==
  /\ seen[c] # confs[c]
  /\ seen' = [seen EXCEPT ![c] = confs[c]]
  /\ queue' = queue \cup {c}
  /\ UNCHANGED <<confs, pass, made, bounds>>

\* Every ten hours.
Resync ==
  /\ queue' = queue \cup {c \in Confs : seen[c].exists}
  /\ queue' # queue
  /\ UNCHANGED <<confs, seen, pass, made, bounds>>

Restart ==
  /\ restarts < MaxRestarts
  /\ restarts' = restarts + 1
  /\ seen' = confs
  /\ queue' = {c \in Confs : confs[c].exists}
  /\ pass' = NoPass
  /\ UNCHANGED <<confs, made, changes, refused>>

\* The garbage collector deletes what has lost its owner: AddCronJob makes
\* the configuration the owner of the cron job.
Collect(c) ==
  /\ confs[c].deleting /\ ~ confs[c].exists
  /\ cronJobs[c] # None
  /\ cronJobs' = [cronJobs EXCEPT ![c] = None]
  /\ UNCHANGED <<confs, seen, queue, pass, workloads, rbac, subjects, bound, bounds>>
-----------------------------------------------------------------------------
(* Reconcile.                                                              *)

\* The pass ends with an error, and the configuration is queued again.
Abort ==
  /\ pass' = NoPass
  /\ queue' = queue \cup {pass.conf}

GoTo(place) ==
  /\ pass' = [pass EXCEPT !.at = place]
  /\ queue' = queue

\* Faulty variant: the loop goes past the last target.
NextTargetPastLast(here, after) ==
  /\ pass' = [pass EXCEPT !.target = @ + 1,
                          !.at = IF pass.target > Len(pass.seen.spec.targets) THEN after ELSE here]
  /\ queue' = queue

\* On to the next target, or to the place after the last one.
NextTarget(here, after) ==
  /\ pass' = [pass EXCEPT !.target = @ + 1,
                          !.at = IF pass.target = Len(pass.seen.spec.targets) THEN after ELSE here]
  /\ queue' = queue

\* Where a loop over the targets starts; with no targets it is over.
Loop(here, after) == IF pass.seen.spec.targets = <<>> THEN after ELSE here

ReconcileGone(c) ==
  /\ pass = NoPass /\ c \in queue
  /\ ~ seen[c].exists
  /\ queue' = queue \ {c}
  /\ UNCHANGED <<confs, seen, pass, made, bounds>>

\* Being deleted: take everything away, then remove the finalizer.
ReconcileDeletion(c) ==
  /\ pass = NoPass /\ c \in queue
  /\ seen[c].exists /\ seen[c].deleting
  /\ queue' = queue \ {c}
  /\ pass' = Pass(c, IF seen[c].spec.targets = <<>> THEN "delete cronjob" ELSE "delete sidecar", 1)
  /\ UNCHANGED <<confs, seen, made, bounds>>

ReconcileFinalizer(c) ==
  /\ pass = NoPass /\ c \in queue
  /\ seen[c].exists /\ ~ seen[c].deleting /\ ~ seen[c].finalizer
  /\ seen[c] = confs[c]
  /\ confs' = [confs EXCEPT ![c].finalizer = TRUE]
  /\ queue' = queue \ {c}
  /\ UNCHANGED <<seen, pass, made, bounds>>

\* Faulty variant: the finalizer is not waited for.
ReconcileUnfinalized(c) ==
  /\ pass = NoPass /\ c \in queue
  /\ seen[c].exists /\ ~ seen[c].deleting
  /\ queue' = queue \ {c}
  /\ pass' = Pass(c, "cronjob", 1)
  /\ UNCHANGED <<confs, seen, made, bounds>>

ReconcileUpkeep(c) ==
  /\ pass = NoPass /\ c \in queue
  /\ seen[c].exists /\ ~ seen[c].deleting /\ seen[c].finalizer
  /\ queue' = queue \ {c}
  /\ pass' = Pass(c, "cronjob", 1)
  /\ UNCHANGED <<confs, seen, made, bounds>>

\* Faulty variant: an existing cron job is left as it is.
AddCronJobOnce(ok) ==
  /\ At("cronjob")
  /\ IF cronJobs[pass.conf] = None
       THEN cronJobs' = [cronJobs EXCEPT ![pass.conf] = pass.seen.spec.plan]
       ELSE cronJobs' = cronJobs
  /\ GoTo("creator")
  /\ Answered(ok)
  /\ UNCHANGED <<confs, seen, workloads, rbac, subjects, bound>>

\* The cron job is created, or brought up to date: Spec.Suspend is compared
\* as a pointer, so that every pass writes the cron job.
AddCronJob(ok) ==
  /\ At("cronjob")
  /\ cronJobs' = IF ok THEN [cronJobs EXCEPT ![pass.conf] = pass.seen.spec.plan] ELSE cronJobs
  /\ IF ok THEN GoTo("creator") ELSE Abort
  /\ Answered(ok)
  /\ UNCHANGED <<confs, seen, workloads, rbac, subjects, bound>>

CreateBSCreatorRBAC ==
  /\ At("creator")
  /\ \E n \in Granted(3) :
       /\ rbac' = rbac \cup {CreatorRBAC[i] : i \in 1..n}
       /\ IF n = 3 THEN GoTo(Loop("sidecar", "status")) ELSE Abort
       /\ Answered(n = 3)
  /\ UNCHANGED <<confs, seen, cronJobs, workloads, subjects, bound>>

\* Faulty variant: an existing role binding is left as it is.
CreateSidecarRBACOnce(account, n) ==
  /\ rbac' = rbac \cup {SidecarRBAC[i] : i \in 1..4 \cap 1..n}
  /\ subjects' = IF n >= 2 /\ "sidecar binding" \notin rbac THEN {account} ELSE subjects
  /\ bound' = IF n >= 4 /\ "sidecar cluster binding" \notin rbac THEN account ELSE bound

\* Faulty variant: where the role is, the rest is taken to be.
CreateSidecarRBACByRole(account, n) ==
  /\ rbac' = IF "sidecar role" \in rbac THEN rbac
             ELSE rbac \cup {SidecarRBAC[i] : i \in 1..4 \cap 1..n}
  /\ subjects' = IF n >= 2 /\ "sidecar role" \notin rbac THEN {account} ELSE subjects
  /\ bound' = IF n >= 4 /\ "sidecar role" \notin rbac THEN account ELSE bound

\* The first n requests of addSidecar, of which createSidecarRBAC makes four:
\* the account is added to the role binding, but a cluster role binding that
\* exists is left as it is.
CreateSidecarRBAC(account, n) ==
  /\ rbac' = rbac \cup {SidecarRBAC[i] : i \in 1..4 \cap 1..n}
  /\ subjects' = IF n < 2 THEN subjects
                 ELSE IF "sidecar binding" \in rbac THEN subjects \cup {account}
                 ELSE {account}
  /\ bound' = IF n >= 4 /\ "sidecar cluster binding" \notin rbac THEN account ELSE bound

Target == pass.seen.spec.targets[pass.target]

\* GetTargetObjects knows Deployments and StatefulSets; reading a target of
\* kind Pod fails.
Found(w) == workloads[w].exists /\ w \notin Pods

SetSidecar(w, image) == workloads' = [workloads EXCEPT ![w].sidecar = image]

\* A sidecar with the image of the configuration: nothing to do.
KeepSidecar ==
  /\ At("sidecar")
  /\ Found(Target) /\ workloads[Target].sidecar = pass.seen.spec.image
  /\ NextTarget("sidecar", "status")
  /\ UNCHANGED <<confs, seen, made, bounds>>

\* With another image: it is updated.
UpdateSidecar(ok) ==
  /\ At("sidecar")
  /\ Found(Target) /\ workloads[Target].sidecar \notin {None, pass.seen.spec.image}
  /\ IF ok
       THEN SetSidecar(Target, pass.seen.spec.image) /\ NextTarget("sidecar", "status")
       ELSE UNCHANGED workloads /\ Abort
  /\ Answered(ok)
  /\ UNCHANGED <<confs, seen, cronJobs, rbac, subjects, bound>>

\* No sidecar yet: first the roles, then the sidecar, the fifth request.  A
\* Repo that cannot be read counts as a refusal of the first one.
AddSidecar ==
  /\ At("sidecar")
  /\ Found(Target) /\ workloads[Target].sidecar = None
  /\ \E n \in Granted(5) :
       /\ CreateSidecarRBAC(Account[Target], n)
       /\ IF n = 5
            THEN SetSidecar(Target, pass.seen.spec.image) /\ NextTarget("sidecar", "status")
            ELSE UNCHANGED workloads /\ Abort
       /\ Answered(n = 5)
  /\ UNCHANGED <<confs, seen, cronJobs>>

NoTarget ==
  /\ At("sidecar")
  /\ ~ Found(Target)
  /\ Abort
  /\ UNCHANGED <<confs, seen, made, bounds>>

UpdateStatus(ok) ==
  /\ At("status")
  /\ LET c == pass.conf
     IN  IF ok /\ pass.seen = confs[c]
           THEN /\ confs' = [confs EXCEPT ![c].cronJob = TRUE,
                                          ![c].sidecar = @ \/ pass.seen.spec.targets # <<>>]
                /\ pass' = NoPass
                /\ queue' = queue
           ELSE UNCHANGED confs /\ Abort
  /\ Answered(ok)
  /\ UNCHANGED <<seen, made>>

\* Faulty variant: a target that cannot be cleaned up fails the pass.
DeleteSidecarStrict(ok) ==
  /\ At("delete sidecar")
  /\ IF ok /\ Found(Target)
       THEN SetSidecar(Target, None) /\ NextTarget("delete sidecar", "delete cronjob")
       ELSE UNCHANGED workloads /\ Abort
  /\ Answered(ok)
  /\ UNCHANGED <<confs, seen, cronJobs, rbac, subjects, bound>>

\* The first target that cannot be read or written ends DeleteSidecar; the
\* error is dropped and the pass goes on.
DeleteSidecar(ok) ==
  /\ At("delete sidecar")
  /\ IF ok /\ Found(Target)
       THEN SetSidecar(Target, None) /\ NextTarget("delete sidecar", "delete cronjob")
       ELSE UNCHANGED workloads /\ GoTo("delete cronjob")
  /\ Answered(ok)
  /\ UNCHANGED <<confs, seen, cronJobs, rbac, subjects, bound>>

\* Faulty variant: the roles are left to the garbage collector.
DeleteCronJobLast(ok) ==
  /\ At("delete cronjob")
  /\ cronJobs' = IF ok THEN [cronJobs EXCEPT ![pass.conf] = None] ELSE cronJobs
  /\ GoTo("finalizer")
  /\ Answered(ok)
  /\ UNCHANGED <<confs, seen, workloads, rbac, subjects, bound>>

DeleteCronJob(ok) ==
  /\ At("delete cronjob")
  /\ cronJobs' = IF ok THEN [cronJobs EXCEPT ![pass.conf] = None] ELSE cronJobs
  /\ GoTo("delete rbac")
  /\ Answered(ok)
  /\ UNCHANGED <<confs, seen, workloads, rbac, subjects, bound>>

\* All the roles of the namespace, whoever uses them.  Each request stands
\* on its own, and errors are dropped.
DeleteRBAC ==
  /\ At("delete rbac")
  /\ \E left \in {S \in SUBSET rbac : refused + Cardinality(S) <= MaxRefusals} :
       /\ refused' = refused + Cardinality(left)
       /\ rbac' = left
       /\ subjects' = IF "sidecar binding" \in left THEN subjects ELSE {}
       /\ bound' = IF "sidecar cluster binding" \in left THEN bound ELSE None
  /\ GoTo("finalizer")
  /\ UNCHANGED <<confs, seen, cronJobs, workloads, changes, restarts>>

RemoveFinalizer(ok) ==
  /\ At("finalizer")
  /\ LET c == pass.conf
     IN  IF ok /\ pass.seen = confs[c]
           THEN /\ confs' = [confs EXCEPT ![c] = Gone(@)]
                /\ pass' = NoPass
                /\ queue' = queue
           ELSE UNCHANGED confs /\ Abort
  /\ Answered(ok)
  /\ UNCHANGED <<seen, made>>

-----------------------------------------------------------------------------
Init ==
  /\ confs     = [c \in Confs |-> Blank(c, FALSE)]
  /\ seen      = confs
  /\ queue     = {}
  /\ pass      = NoPass
  /\ cronJobs  = [c \in Confs |-> None]
  /\ workloads = [w \in Workloads |-> [exists |-> TRUE, sidecar |-> None]]
  /\ rbac      = {}
  /\ subjects  = {}
  /\ bound     = None
  /\ changes   = 0
  /\ refused   = 0
  /\ restarts  = 0

Reconcile(c) ==
  ReconcileGone(c) \/ ReconcileDeletion(c) \/ ReconcileFinalizer(c) \/ ReconcileUpkeep(c)

Continue ==
  \/ CreateBSCreatorRBAC \/ AddSidecar \/ KeepSidecar \/ NoTarget \/ DeleteRBAC
  \/ \E ok \in Answers :
       \/ AddCronJob(ok) \/ UpdateSidecar(ok) \/ UpdateStatus(ok)
       \/ DeleteSidecar(ok) \/ DeleteCronJob(ok) \/ RemoveFinalizer(ok)

Users ==
  \/ \E c \in Confs : Create(c) \/ Edit(c) \/ Delete(c)
  \/ \E w \in Workloads : Redeploy(w)

Next ==
  \/ Users
  \/ \E c \in Confs : Sync(c) \/ Reconcile(c) \/ Collect(c)
  \/ Resync
  \/ Restart
  \/ Continue

Spec == Init /\ [][Next]_vars

\* Events arrive and the informers resync, the queue is first in, first out,
\* and a pass goes on.
Fairness ==
  /\ \A c \in Confs : WF_vars(Sync(c)) /\ SF_vars(Reconcile(c))
  /\ WF_vars(Resync)
  /\ WF_vars(Continue)

FairSpec == Spec /\ Fairness
-----------------------------------------------------------------------------
(* Properties.                                                             *)

\* The variables have their types; a pass in progress has a configuration
\* that was there when it began, and one of its targets at hand.
TypeOK ==
  /\ confs \in [Confs -> Object] /\ seen \in [Confs -> Object]
  /\ queue \subseteq Confs
  /\ \/ pass = NoPass
     \/ /\ pass.at \in Places
        /\ pass.seen \in Object /\ pass.seen.exists
        /\ pass.at \in {"sidecar", "delete sidecar"} =>
             pass.target \in DOMAIN pass.seen.spec.targets
  /\ cronJobs \in [Confs -> Plans \cup {None}]
  /\ refused \in 0..MaxRefusals
  /\ workloads \in [Workloads -> [exists : BOOLEAN, sidecar : Images \cup {None}]]
  /\ rbac \subseteq RBAC

Live(c) == confs[c].exists /\ ~ confs[c].deleting

TargetsOf(c) == {confs[c].spec.targets[i] : i \in DOMAIN confs[c].spec.targets}

\* With one configuration in the namespace, the sidecar of a target never
\* runs without the role it needs and a binding that names its account,
\* whichever requests were refused and wherever the process was killed.
SidecarHasAccess ==
  \A c \in Confs : Live(c) =>
    \A w \in TargetsOf(c) :
      workloads[w].sidecar # None =>
        /\ {"sidecar role", "sidecar binding"} \subseteq rbac
        /\ Account[w] \in subjects

\* What there still is of the cron job of c and of the roles.
Remains(c) == Cardinality(rbac) + (IF cronJobs[c] = None THEN 0 ELSE 1)

\* A configuration that goes takes with it its cron job, the sidecars of its
\* targets and the roles, even when it was edited, or deleted in the middle
\* of a pass that was still making them, and the process was killed in the
\* middle of another.  Errors are dropped: each leaves at most one object of
\* the cron job and the roles, but any of them may leave the sidecars (one
\* configuration; of the targets only the last may be missing).
NothingLeftBehind ==
  \A c \in Confs :
    confs[c].deleting /\ ~ confs[c].exists =>
      /\ Remains(c) <= refused
      /\ refused = 0 => \A w \in TargetsOf(c) : workloads[w].sidecar = None

\* In the end the cron job is as the configuration has it, and if all the
\* workloads are there each of them has the sidecar of the configuration:
\* edits during a pass, refused requests and workloads that come back are
\* caught up with.
ConfigurationConverges ==
  \A c \in Confs :
    <>[](Live(c) =>
           /\ cronJobs[c] = confs[c].spec.plan
           /\ (\A w \in TargetsOf(c) : Found(w)) =>
                \A w \in TargetsOf(c) : workloads[w].sidecar = confs[c].spec.image)

\* A configuration that is deleted does go away: a workload that is missing
\* is no obstacle.
DeletedConfGoes == \A c \in Confs : confs[c].deleting ~> ~ confs[c].exists

-----------------------------------------------------------------------------
(* What a comment says, and the code does not do.                          *)

\* "Delete the sidecar role is there is no more sidecar container in the
\* namespace" (deleteRBAC): as long as there is a sidecar its role is there.
RoleWhileSidecars ==
  (\E w \in Workloads : workloads[w].sidecar # None) => "sidecar role" \in rbac
=============================================================================
