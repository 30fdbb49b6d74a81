--------------------------- MODULE RestoreSession ---------------------------
(***************************************************************************)
(* The RestoreSession controller                                           *)
(* (controllers/restoresession_controller.go).  It drives the targets of a *)
(* configuration with the same scheduler as the BackupSession controller,  *)
(* through the same phases, but its objects have no finalizer and nothing  *)
(* is left to do once a restore has ended.  It has a worker of its own and *)
(* reads the configurations and the cache of BackupSessions that the other *)
(* controllers of the process read; it changes neither.                    *)
(***************************************************************************)
EXTENDS SessionState

CONSTANTS
  Restores,       \* names of RestoreSessions of one namespace
  RestoreRef      \* Spec.BackupSessionRef.Spec.Ref of each of them

VARIABLES
  restores,    \* the API server's RestoreSessions
  seen,        \* the informer cache's copies of them
  todo,        \* the work queue of the controller
  asked,       \* history: restores that were ever created
  conf,        \* the BackupConfigurations, as the controller sees them
  backups      \* the informer cache's BackupSessions

RestoreObject == [exists : BOOLEAN, state : SessionStates, targets : Seq(TargetStatus)]

Restore(exists, state, targets) == [exists |-> exists, state |-> state, targets |-> targets]

NoRestore == Restore(FALSE, NoState, <<>>)

InitRestores ==
  /\ restores = [r \in Restores |-> NoRestore]
  /\ seen     = [r \in Restores |-> NoRestore]
  /\ todo     = {}
  /\ asked    = {}

-----------------------------------------------------------------------------
(* Users, the informer and the sidecars of the targets.                    *)

Ask(r) ==
  /\ r \notin asked
  /\ asked' = asked \cup {r}
  /\ restores' = [restores EXCEPT ![r] = Restore(TRUE, NoState, <<>>)]
  /\ UNCHANGED <<seen, todo>>

\* No finalizer: the object goes at once.
Withdraw(r) ==
  /\ restores[r].exists
  /\ restores' = [restores EXCEPT ![r] = NoRestore]
  /\ UNCHANGED <<seen, todo, asked>>

Watch(r) ==
  /\ seen[r] # restores[r]
  /\ seen' = [seen EXCEPT ![r] = restores[r]]
  /\ todo' = todo \cup {r}
  /\ UNCHANGED <<restores, asked>>

RelistRestores ==
  /\ seen' = restores
  /\ todo' = {r \in Restores : restores[r].exists}

\* The sidecar of target i is done with the phase it was given, or failed.
\* Whether the restore of a volume snapshot goes on in a Job is the sidecar's
\* affair: both are allowed for.
TargetAnswers(r, i) ==
  /\ i \in DOMAIN restores[r].targets
  /\ Busy(restores[r].targets[i])
  /\ LET t == restores[r].targets[i]
     IN  \E state \in (Done(t.state) \ {Finalized}) \cup {Failure} :
           restores' = [restores EXCEPT ![r] =
             Restore(TRUE, @.state, [@.targets EXCEPT ![i] = SetTarget(t, state, t.try, t.snap)])]
  /\ UNCHANGED <<seen, todo, asked>>

RestoreJobDone(r, i) ==
  /\ i \in DOMAIN restores[r].targets
  /\ restores[r].targets[i].state = WaitingForJob
  /\ LET t == restores[r].targets[i]
     IN  restores' = [restores EXCEPT ![r] =
           Restore(TRUE, @.state, [@.targets EXCEPT ![i] = SetTarget(t, Finalized, t.try, t.snap)])]
  /\ UNCHANGED <<seen, todo, asked>>

-----------------------------------------------------------------------------
(* Reconcile.  As for BackupSessions, a pass that fails or that asks to be *)
(* called again in 30 seconds is a stuttering step.                        *)

\* The session in the given state and its configuration can be read.
RestoreInState(r, state) ==
  /\ r \in todo
  /\ seen[r].exists
  /\ conf[RestoreRef[r]].exists
  /\ seen[r].state = state

\* Faulty variant: the last write wins.
SaveRestoreAnyway(r, state, targets) ==
  /\ restores[r].exists
  /\ restores' = [restores EXCEPT ![r] = Restore(TRUE, state, targets)]
  /\ todo' = todo \ {r}
  /\ UNCHANGED <<seen, asked>>

\* The status is written, unless the cached copy is out of date.
SaveRestore(r, state, targets) ==
  /\ seen[r] = restores[r]
  /\ restores' = [restores EXCEPT ![r] = Restore(TRUE, state, targets)]
  /\ todo' = todo \ {r}
  /\ UNCHANGED <<seen, asked>>

DropRestore(r) ==
  /\ todo' = todo \ {r}
  /\ UNCHANGED <<restores, seen, asked>>

RestoreGone(r) == r \in todo /\ ~ seen[r].exists /\ DropRestore(r)

RestoreCreated(r) == RestoreInState(r, NoState) /\ SaveRestore(r, New, seen[r].targets)

\* Faulty variant: the list is not restricted to backups that are running.
AnyBackup == \E s \in DOMAIN backups : backups[s].exists

\* isBackupOngoing lists BackupSessions; other restores do not count.
BackupOngoing == \E s \in DOMAIN backups : backups[s].exists /\ backups[s].state = Running

RestoreNew(r) ==
  /\ RestoreInState(r, New)
  /\ ~ BackupOngoing
  /\ SaveRestore(r, Initializing, InitSession(conf[RestoreRef[r]].targets))

RestorePhase(r) ==
  \E phase \in Phases :
    /\ RestoreInState(r, phase)
    /\ ~ PhasePanics(phase, seen[r].targets, conf[RestoreRef[r]].targets)
    /\ LET result == Advance(phase, seen[r].targets, conf[RestoreRef[r]].targets)
       IN  IF result.state = NoState THEN DropRestore(r)
                                     ELSE SaveRestore(r, result.state, result.targets)

RestoreOver(r) ==
  /\ \E state \in {Success, Failure} : RestoreInState(r, state)
  /\ DropRestore(r)

\* The scheduler indexes the targets of the configuration out of range; the
\* whole process dies of it.
RestorePanics(r) ==
  \E phase \in Phases :
    /\ RestoreInState(r, phase)
    /\ PhasePanics(phase, seen[r].targets, conf[RestoreRef[r]].targets)

RestoreReconcile(r) ==
  \/ RestoreGone(r)
  \/ RestoreCreated(r)
  \/ RestoreNew(r)
  \/ RestorePhase(r)
  \/ RestoreOver(r)

RestoreTargets(r) ==
  \E i \in DOMAIN restores[r].targets : TargetAnswers(r, i) \/ RestoreJobDone(r, i)

RestoreStep(r) ==
  Ask(r) \/ Withdraw(r) \/ Watch(r) \/ RestoreReconcile(r) \/ RestoreTargets(r)
=============================================================================
