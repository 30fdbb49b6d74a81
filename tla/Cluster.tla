------------------------------- MODULE Cluster -------------------------------
(***************************************************************************)
(* The whole of a backup, from a BackupConfiguration to the end of its     *)
(* sessions: the BackupConfiguration and the BackupSession controllers of  *)
(* one process (main.go) with the cron jobs that create sessions and the   *)
(* sidecars that work on them.                                             *)
(*                                                                         *)
(* The controllers meet in the cache of configurations, which both read,   *)
(* and in what one makes and the other needs: a cron job to create a       *)
(* session, the creator's role to be allowed to, a sidecar with its role   *)
(* and binding to report on a target.  The configurations are not edited.  *)
(***************************************************************************)
EXTENDS Integers, Sequences, FiniteSets

CONSTANTS
  Sessions,       \* names of BackupSessions of one namespace
  Confs,          \* names of BackupConfigurations of it
  Ref,            \* the configuration of each session
  Workloads,      \* names of Deployments and StatefulSets
  Account,        \* the service account of the pods of each workload
  InitialSpecs,   \* the specification of each configuration
  Keep,           \* the retention policy of all of them
  Calendar,       \* today
  UserDeletes,    \* the sessions a user may delete
  MaxChanges,     \* bound: workloads replaced by a new version
  MaxRefusals,    \* bound: requests of the BackupConfiguration controller that fail
  MaxRestarts     \* bound: restarts of the process

VARIABLES
  \* of the BackupConfiguration controller
  confs, seen, queue, pass, cronJobs, workloads, rbac, subjects, bound, changes,
  refused, restarts,
  \* of the BackupSession controller
  api, cache, sessionQueue, pending, created, recorded, purged, unpurged,
  starting     \* sessions whose pod was started by a cron job

C == INSTANCE BackupConfiguration WITH
       Images <- {"v1"}, Plans <- {"hourly"}, Pods <- {}, SpecEdits <- {},
       Redeployed <- Workloads

ASSUME ClusterAssumption ==
  /\ Ref \in [Sessions -> Confs]
  /\ DOMAIN Account = Workloads
  /\ InitialSpecs \in [Confs -> C!ConfSpec]
  /\ {MaxChanges, MaxRefusals, MaxRestarts} \subseteq Nat

\* A configuration as the BackupSession controller reads it.
Read(exists, spec) ==
  [exists |-> exists, keep |-> Keep,
   targets |-> [i \in DOMAIN spec.targets |-> [kind |-> "Online", retry |-> 1]]]

B == INSTANCE BackupSession WITH
       InitialConf <- [c \in Confs |-> Read(FALSE, InitialSpecs[c])],
       ConfEdits   <- {}, MaxRestarts <- 0, ApiMayFail <- FALSE,
       ConfDeletes <- {},
       conf        <- [c \in Confs |-> Read(seen[c].exists, seen[c].spec)],
       queue       <- sessionQueue, now <- 1, restarts <- 0

configuring == <<confs, seen, queue, pass, cronJobs, workloads, rbac, subjects, bound,
                 changes, refused, restarts>>
backingUp   == <<api, cache, sessionQueue, pending, created, recorded, purged, unpurged>>

vars == <<configuring, backingUp, starting>>

-----------------------------------------------------------------------------
(* Cron jobs and sidecars: where the controllers meet.                     *)

\* A cron job that is not suspended starts the pod that is to create s.
CronFires(s) ==
  /\ cronJobs[Ref[s]] \notin {C!None, "suspended"}
  /\ s \notin created \cup starting
  /\ starting' = starting \cup {s}
  /\ UNCHANGED <<configuring, backingUp>>

\* The pod may create sessions if its account, a role and a binding are there.
CreateSession(s) ==
  /\ s \in starting
  /\ \A i \in DOMAIN C!CreatorRBAC : C!CreatorRBAC[i] \in rbac
  /\ starting' = starting \ {s}
  /\ UNCHANGED configuring
  /\ B!Create(s)

\* It was not, or it was killed with its cron job.
GiveUp(s) ==
  /\ s \in starting
  /\ starting' = starting \ {s}
  /\ UNCHANGED <<configuring, backingUp>>

\* There is a sidecar in the pods of w and it may write to the session.
HasAccess(w) ==
  /\ workloads[w].sidecar # C!None
  /\ {"sidecar role", "sidecar binding"} \subseteq rbac
  /\ Account[w] \in subjects

\* The sidecar of a target reports on the phase the target was given.
Reports(s) ==
  /\ UNCHANGED <<configuring, starting>>
  /\ \E i \in DOMAIN api[s].targets :
       HasAccess(InitialSpecs[Ref[s]].targets[i]) /\ B!Sidecar(s, i)

\* A user applies the workload anew, as it was written: without the sidecar.
Replace(w) == C!Redeploy(w) /\ workloads'[w].exists

-----------------------------------------------------------------------------
(* The controllers of the process.                                         *)

Config(A) == A /\ UNCHANGED <<backingUp, starting>>
Session(A) == UNCHANGED <<configuring, starting>> /\ A

\* One process: when it dies, both controllers start again.
ProcessDies ==
  /\ C!Restart
  /\ B!Relist
  /\ UNCHANGED <<api, created, recorded, purged, unpurged, starting>>

Init ==
  /\ C!Init
  /\ B!Init
  /\ starting = {}

ConfigNext ==
  \/ C!Resync \/ C!Continue
  \/ \E c \in Confs : C!Create(c) \/ C!Delete(c) \/ C!Sync(c) \/ C!Reconcile(c) \/ C!Collect(c)
  \/ \E w \in Workloads : Replace(w)

SessionNext ==
  \/ B!NextWrite
  \/ \E s \in Sessions : B!UserDelete(s) \/ B!Sync(s) \/ B!Returns(s)

Next ==
  \/ \E s \in Sessions : CronFires(s) \/ CreateSession(s) \/ GiveUp(s) \/ Reports(s)
  \/ ConfigNext /\ UNCHANGED <<backingUp, starting>>
  \/ UNCHANGED <<configuring, starting>> /\ SessionNext
  \/ ProcessDies

Spec == Init /\ [][Next]_vars

\* The fairness of the two controllers; a sidecar that may report does.
Fairness ==
  /\ \A c \in Confs : WF_vars(Config(C!Sync(c))) /\ SF_vars(Config(C!Reconcile(c)))
  /\ WF_vars(Config(C!Resync)) /\ WF_vars(Config(C!Continue))
  /\ \A s \in Sessions : /\ WF_vars(Session(B!Sync(s))) /\ SF_vars(Session(B!Returns(s)))
                         /\ WF_vars(Reports(s))
  /\ WF_vars(Session(B!NextWrite))

FairSpec == Spec /\ Fairness
-----------------------------------------------------------------------------
(* Properties.                                                             *)

\* With one configuration in the namespace, and as long as fewer than three
\* requests of its controller have failed, a session is never created for a
\* configuration that is gone, although the pod that creates it was started
\* earlier and is not waited for: deleteRBAC takes the creator's account, role
\* and binding before the finalizer of the configuration goes.  Such a session
\* could neither be run nor deleted.
\*
\* Both conditions are needed.  Reconcile drops the errors of deleteRBAC, and
\* with three of them all that the creator needs outlives the configuration;
\* and the upkeep of a second one makes it again, for the pods of the first.
NoOrphanSession ==
  [][refused < 3 => \A s \in created' \ created : confs[Ref[s]].exists]_<<created, confs, refused>>

\* Every session of a configuration that stays ends: also one created before
\* its targets had their sidecars, one whose workload was replaced while it
\* was being backed up, and one the process died on or whose sidecars could
\* not be made at first (one configuration in the namespace: another one that
\* goes takes the roles of this one's sidecars).
SessionsServed ==
  <>[](\A s \in Sessions :
         /\ api[s].exists /\ ~ api[s].deleting
         /\ C!Live(Ref[s])
         => api[s].state \in {"Success", "Failure"})
=============================================================================
