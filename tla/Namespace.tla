------------------------------ MODULE Namespace ------------------------------
(***************************************************************************)
(* The BackupSession and the RestoreSession controllers of one process     *)
(* (main.go), at work in the same namespace.  Each has its own worker; the *)
(* RestoreSession controller reads the configurations and the cache of     *)
(* BackupSessions.  When the process dies, both start again.               *)
(***************************************************************************)
EXTENDS BackupSession

CONSTANTS
  Restores,       \* names of RestoreSessions
  RestoreRef      \* the configuration of the backup each of them restores

ASSUME RestoreRefAssumption == RestoreRef \in [Restores -> Confs]

VARIABLES
  restores,    \* the API server's RestoreSessions
  seen,        \* the informer cache's copies of them
  todo,        \* the work queue of the RestoreSession controller
  asked        \* history: restores that were ever created

R == INSTANCE RestoreSession WITH backups <- cache

restoring == <<restores, seen, todo, asked>>
namespace == <<vars, restoring>>

Start == Init /\ R!InitRestores

BackupStep(s) == (Sync(s) \/ Returns(s) \/ Targets(s)) /\ UNCHANGED restoring

OtherBackupStep == (Users \/ Tick \/ Resync \/ NextWrite) /\ UNCHANGED restoring

RestoreStep(r) == R!RestoreStep(r) /\ UNCHANGED vars

\* One of the controllers panics, or the process is restarted.
RestorePanic(r) ==
  /\ R!RestorePanics(r)
  /\ Relist
  /\ UNCHANGED <<api, world, history>>

ProcessDies ==
  /\ \/ Restart
     \/ \E s \in Sessions : ReconcilePanic(s)
     \/ \E r \in Restores : RestorePanic(r)
  /\ R!RelistRestores
  /\ UNCHANGED <<restores, asked>>

NamespaceNext ==
  \/ \E s \in Sessions : BackupStep(s)
  \/ \E r \in Restores : RestoreStep(r)
  \/ OtherBackupStep
  \/ ProcessDies

NamespaceSpec == Start /\ [][NamespaceNext]_namespace

\* The same fairness for both controllers.  A pass that finds a backup
\* running is repeated every 30 seconds.
NamespaceFairness ==
  /\ \A s \in Sessions : /\ WF_namespace(Sync(s) /\ UNCHANGED restoring)
                         /\ SF_namespace(Returns(s) /\ UNCHANGED restoring)
                         /\ WF_namespace(Targets(s) /\ UNCHANGED restoring)
  /\ WF_namespace(NextWrite /\ UNCHANGED restoring)
  /\ \A r \in Restores : /\ WF_namespace(R!Watch(r) /\ UNCHANGED vars)
                         /\ SF_namespace(R!RestoreReconcile(r) /\ UNCHANGED vars)
                         /\ WF_namespace(R!RestoreTargets(r) /\ UNCHANGED vars)

FairNamespaceSpec == NamespaceSpec /\ NamespaceFairness

-----------------------------------------------------------------------------
(* Properties.                                                             *)

\* Every restore ends, although it waits for the backups that it finds
\* running and the two controllers know nothing of each other's queue.  An
\* edited configuration is excepted: a session that panics on it keeps the
\* process from doing anything else.
RestoreTerminates ==
  \A r \in Restores :
    restores[r].exists ~> \/ ~ restores[r].exists
                          \/ restores[r].state \in {Success, Failure}
                          \/ conf # InitialConf

Promised == INSTANCE TargetPipeline WITH
              Sessions <- Restores,
              Absent <- "absent",
              stage  <- [r \in Restores |-> StageOf(restores[r])],
              size   <- [r \in Restores |-> SizeOf(restores[r])],
              turn   <- [r \in Restores |-> TurnOf(restores[r])],
              doing  <- [r \in Restores |-> DoingOf(restores[r])],
              jobs   <- [r \in Restores |-> JobsOf(restores[r])]

\* The RestoreSession controller keeps the promise to the targets that the
\* BackupSession controller keeps, through edits of the configuration and
\* deaths of the process that the other controller may cause.
RestoreKeepsPromise == Promised!Spec
=============================================================================
