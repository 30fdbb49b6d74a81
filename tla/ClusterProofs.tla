--------------------------- MODULE ClusterProofs ----------------------------
(***************************************************************************)
(* The controllers of configurations and of sessions together: what is     *)
(* proved of the BackupConfiguration controller holds beside the sessions, *)
(* and keeps cron jobs from creating sessions too late.                    *)
(***************************************************************************)
EXTENDS Cluster, TLAPS

USE ClusterAssumption

P == INSTANCE BackupConfigurationProofs WITH
       Images <- {"v1"}, Plans <- {"hourly"}, Pods <- {}, SpecEdits <- {},
       Redeployed <- Workloads

\* The constants of the cluster are as the configuration controller needs them.
LEMMA Grounds == P!AccountAssumption /\ P!SpecsAssumption /\ P!BoundsAssumption
BY DEF P!AccountAssumption, P!SpecsAssumption, P!BoundsAssumption, P!ConfSpec, C!ConfSpec

-----------------------------------------------------------------------------
(* P and C are the same instance.                                          *)

\* The beginning of a pass.
LEMMA SameReconcile == ASSUME NEW c, C!Reconcile(c) PROVE P!Reconcile(c)
BY DEF C!Reconcile, C!ReconcileGone, C!ReconcileDeletion, C!ReconcileFinalizer, C!ReconcileUpkeep,
       C!Pass, C!NoPass, C!None, C!made, C!bounds,
       P!Reconcile, P!ReconcileGone, P!ReconcileDeletion, P!ReconcileFinalizer, P!ReconcileUpkeep,
       P!Pass, P!NoPass, P!None, P!made, P!bounds

\* Counting.
LEMMA SameCount == ASSUME NEW S PROVE C!Cardinality(S) = P!Cardinality(S)
BY DEF C!Cardinality, P!Cardinality

\* The steps of a pass.
LEMMA SameContinue == ASSUME C!Continue PROVE P!Continue
<1> USE DEF C!At, C!GoTo, C!Abort, C!NoPass, C!None, C!Answered, C!NextTarget, C!Target, C!Found,
            C!SetSidecar, C!made, C!bounds,
            P!At, P!GoTo, P!Abort, P!NoPass, P!None, P!Answered, P!NextTarget, P!Target, P!Found,
            P!SetSidecar, P!made, P!bounds
<1>1. CASE C!CreateBSCreatorRBAC
  <2>1. P!CreateBSCreatorRBAC
    BY <1>1 DEF C!CreateBSCreatorRBAC, C!Granted, C!CreatorRBAC, C!Loop,
                P!CreateBSCreatorRBAC, P!Granted, P!CreatorRBAC, P!Loop
  <2> QED
    BY <2>1 DEF P!Continue
<1>2. CASE C!AddSidecar
  <2>1. P!AddSidecar
    BY <1>2 DEF C!AddSidecar, C!Granted, C!CreateSidecarRBAC, C!SidecarRBAC,
                P!AddSidecar, P!Granted, P!CreateSidecarRBAC, P!SidecarRBAC
  <2> QED
    BY <2>1 DEF P!Continue
<1>3. CASE C!KeepSidecar \/ C!NoTarget
  <2>1. P!KeepSidecar \/ P!NoTarget
    BY <1>3 DEF C!KeepSidecar, C!NoTarget, P!KeepSidecar, P!NoTarget
  <2> QED
    BY <2>1 DEF P!Continue
<1>4. CASE C!DeleteRBAC
  <2>1. P!DeleteRBAC
    BY <1>4, SameCount DEF C!DeleteRBAC, P!DeleteRBAC
  <2> QED
    BY <2>1 DEF P!Continue
<1>5. ASSUME NEW ok \in C!Answers,
             \/ C!AddCronJob(ok) \/ C!UpdateSidecar(ok) \/ C!UpdateStatus(ok)
             \/ C!DeleteSidecar(ok) \/ C!DeleteCronJob(ok) \/ C!RemoveFinalizer(ok)
      PROVE  P!Continue
  <2>1. ok \in P!Answers
    BY DEF C!Answers, P!Answers
  <2>2. CASE C!AddCronJob(ok) \/ C!DeleteCronJob(ok)
    <3>1. P!AddCronJob(ok) \/ P!DeleteCronJob(ok)
      BY <2>2 DEF C!AddCronJob, C!DeleteCronJob, P!AddCronJob, P!DeleteCronJob
    <3> QED
      BY <2>1, <3>1 DEF P!Continue
  <2>3. CASE C!UpdateSidecar(ok) \/ C!DeleteSidecar(ok)
    <3>1. P!UpdateSidecar(ok) \/ P!DeleteSidecar(ok)
      BY <2>3 DEF C!UpdateSidecar, C!DeleteSidecar, P!UpdateSidecar, P!DeleteSidecar
    <3> QED
      BY <2>1, <3>1 DEF P!Continue
  <2>4. CASE C!UpdateStatus(ok) \/ C!RemoveFinalizer(ok)
    <3>1. P!UpdateStatus(ok) \/ P!RemoveFinalizer(ok)
      BY <2>4 DEF C!UpdateStatus, C!RemoveFinalizer, C!Gone,
                  P!UpdateStatus, P!RemoveFinalizer, P!Gone
    <3> QED
      BY <2>1, <3>1 DEF P!Continue
  <2> QED
    BY <1>5, <2>2, <2>3, <2>4
<1> QED
  BY <1>1, <1>2, <1>3, <1>4, <1>5 DEF C!Continue

-----------------------------------------------------------------------------
(* The configuration controller in the cluster.                            *)

\* The sessions, the cron jobs that fire and the sidecars that report are
\* nothing to the configuration controller; a workload that is replaced is
\* one that is redeployed.
LEMMA ClusterSees == ASSUME [Next]_vars PROVE [P!Next]_P!vars
<1>1. ASSUME UNCHANGED configuring PROVE UNCHANGED P!vars
  BY <1>1 DEF configuring, P!vars
<1>2. ASSUME NEW s \in Sessions, CronFires(s) \/ CreateSession(s) \/ GiveUp(s) \/ Reports(s)
      PROVE  UNCHANGED configuring
  BY <1>2 DEF CronFires, CreateSession, GiveUp, Reports
<1>3. ASSUME NEW c \in Confs,
             C!Create(c) \/ C!Delete(c) \/ C!Sync(c) \/ C!Reconcile(c) \/ C!Collect(c)
      PROVE  P!Next
  <2>1. CASE C!Reconcile(c)
    BY <2>1, SameReconcile DEF P!Next
  <2>2. CASE C!Create(c) \/ C!Delete(c) \/ C!Sync(c)
    <3>1. P!Create(c) \/ P!Delete(c) \/ P!Sync(c)
      BY <2>2 DEF C!Create, C!Delete, C!Sync, C!Blank, C!Gone, C!made, C!bounds,
                  P!Create, P!Delete, P!Sync, P!Blank, P!Gone, P!made, P!bounds
    <3> QED
      BY <3>1 DEF P!Next, P!Users
  <2>3. CASE C!Collect(c)
    <3>1. P!Collect(c)
      BY <2>3 DEF C!Collect, C!None, C!bounds, P!Collect, P!None, P!bounds
    <3> QED
      BY <3>1 DEF P!Next
  <2> QED
    BY <1>3, <2>1, <2>2, <2>3
<1>4. ASSUME NEW w \in Workloads, Replace(w) PROVE P!Next
  <2>1. P!Redeploy(w)
    BY <1>4 DEF Replace, C!Redeploy, P!Redeploy, C!None, P!None
  <2> QED
    BY <2>1 DEF P!Next, P!Users
<1>5. CASE C!Resync \/ C!Restart
  <2>1. P!Resync \/ P!Restart
    BY <1>5 DEF C!Resync, C!Restart, C!NoPass, C!None, C!made, C!bounds,
                P!Resync, P!Restart, P!NoPass, P!None, P!made, P!bounds
  <2> QED
    BY <2>1 DEF P!Next
<1>6. CASE C!Continue
  BY <1>6, SameContinue DEF P!Next
<1>7. CASE ConfigNext
  BY <1>3, <1>4, <1>5, <1>6, <1>7 DEF ConfigNext
<1>8. CASE ProcessDies
  BY <1>5, <1>8 DEF ProcessDies
<1>9. CASE UNCHANGED vars
  BY <1>1, <1>9 DEF vars
<1> QED
  BY <1>1, <1>2, <1>7, <1>8, <1>9 DEF Next

\* The cluster starts as its configuration controller does.
LEMMA ClusterStarts == ASSUME Init PROVE P!Init
BY DEF Init, C!Init, P!Init, C!Blank, P!Blank, C!NoPass, P!NoPass, C!None, P!None

\* Beside sessions, cron jobs and sidecars the configuration controller does
\* what BackupConfiguration says: what is proved of that module holds here.
THEOREM ClusterConfigures == Spec => P!Spec
<1>1. Init => P!Init
  BY ClusterStarts
<1>2. [Next]_vars => [P!Next]_P!vars
  BY ClusterSees
<1> QED
  BY <1>1, <1>2, PTL DEF Spec, P!Spec

-----------------------------------------------------------------------------
(* Sessions and the configuration they belong to.                          *)

\* Only the pod of a cron job creates a session, and only with its account,
\* its role and its binding.
LEMMA CreatedByRole ==
  ASSUME [Next]_vars, NEW s \in created' \ created
  PROVE  s \in Sessions /\ P!Creators \subseteq rbac
<1>1. ASSUME NEW t \in Sessions, CreateSession(t), s \in created' \ created
      PROVE  s \in Sessions /\ P!Creators \subseteq rbac
  <2>1. created' = created \cup {t}
    BY <1>1 DEF CreateSession, B!Create
  <2>2. P!Creators \subseteq rbac
    <3>1. /\ DOMAIN C!CreatorRBAC = 1..3
          /\ C!CreatorRBAC[1] = "creator account"
          /\ C!CreatorRBAC[2] = "creator role"
          /\ C!CreatorRBAC[3] = "creator binding"
      BY DEF C!CreatorRBAC
    <3>2. \A i \in 1..3 : C!CreatorRBAC[i] \in rbac
      BY <1>1, <3>1 DEF CreateSession
    <3>3. C!CreatorRBAC[1] \in rbac /\ C!CreatorRBAC[2] \in rbac /\ C!CreatorRBAC[3] \in rbac
      BY <3>2
    <3> QED
      BY <3>1, <3>3, Zenon DEF P!Creators
  <2> QED
    BY <1>1, <2>1, <2>2
<1>2. ASSUME NEW t \in Sessions, CronFires(t) \/ GiveUp(t) PROVE created' = created
  BY <1>2 DEF CronFires, GiveUp, backingUp
<1>3. ASSUME NEW t \in Sessions, Reports(t) PROVE created' = created
  BY <1>3 DEF Reports, B!Sidecar, B!TargetDone, B!TargetFails, B!Report
<1>4. CASE SessionNext
  <2>1. CASE B!NextWrite
    BY <2>1 DEF B!NextWrite, B!Unfinalize, B!CleanupDelete, B!CleanupKeep, B!history
  <2>2. ASSUME NEW t \in Sessions, B!UserDelete(t) \/ B!Sync(t) PROVE created' = created
    BY <2>2 DEF B!UserDelete, B!Sync, B!history
  <2>3. ASSUME NEW t \in Sessions, B!Returns(t) PROVE created' = created
    BY <2>3 DEF B!Returns, B!ReconcileGone, B!ReconcileDeletion, B!ReconcileFinalizer,
         B!ReconcileCreated, B!ReconcileNew, B!ReconcilePhase, B!ReconcileSuccess,
         B!ReconcileFailure, B!Save, B!Drop, B!history
  <2> QED
    BY <1>4, <2>1, <2>2, <2>3 DEF SessionNext
<1>5. CASE UNCHANGED backingUp \/ ProcessDies \/ UNCHANGED vars
  BY <1>5 DEF backingUp, ProcessDies, vars
<1> QED
  BY <1>1, <1>2, <1>3, <1>4, <1>5 DEF Next

\* With one configuration in the namespace, and as long as fewer than three
\* requests of its controller came to nothing, no session is created for a
\* configuration that is gone, although nothing waits for the pod that
\* creates it: what lets the pod do so is made for a configuration with its
\* finalizer only, and of what is left once that is gone each object is there
\* for a request that came to nothing.
THEOREM NoSessionIsOrphaned == ASSUME P!SoleConf PROVE Spec => NoOrphanSession
<1>1. Init => P!RolesTidy
  BY ClusterStarts, Grounds, P!TypedInit, P!CopiesInit, P!MadeInit DEF P!RolesTidy
<1>2. P!RolesTidy /\ [Next]_vars => P!RolesTidy'
  BY ClusterSees, Grounds, P!TypedStep, P!CopiesStep, P!ErasureStep, P!MadeStep DEF P!RolesTidy
<1>3. P!RolesTidy /\ [Next]_vars =>
        [refused < 3 => \A s \in created' \ created : confs[Ref[s]].exists]_<<created, confs, refused>>
  <2> SUFFICES ASSUME P!RolesTidy, [Next]_vars, refused < 3, NEW s \in created' \ created
               PROVE  confs[Ref[s]].exists
    OBVIOUS
  <2> DEFINE c == Ref[s]
  <2>1. P!Creators \subseteq rbac /\ c \in Confs
    BY CreatedByRole
  <2>2. refused \in Nat /\ P!Remains(c) \in Nat /\ 3 <= P!Remains(c)
    BY <2>1, Grounds, P!CreatorsRemain DEF P!RolesTidy
  <2>3. ~ P!IsGone(confs[c])
    <3>1. P!IsGone(confs[c]) => P!Remains(c) <= refused
      BY <2>1, Zenon DEF P!RolesTidy, P!Made
    <3> QED
      BY <2>2, <3>1
  <2>4. ~ P!Unmade(c)
    BY <2>1 DEF P!Unmade, P!Creators
  <2>5. confs[c].finalizer
    BY <2>1, <2>3, <2>4, Zenon DEF P!RolesTidy, P!Made
  <2> QED
    BY <2>1, <2>5 DEF P!RolesTidy, P!Copies
<1> QED
  BY <1>1, <1>2, <1>3, PTL DEF Spec, NoOrphanSession
=============================================================================
