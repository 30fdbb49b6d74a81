------------------------ MODULE BackupSessionProofs -------------------------
(***************************************************************************)
(* Proofs about BackupSession, for any sessions, configurations, number of *)
(* targets, calendar and number of restarts.                               *)
(***************************************************************************)
EXTENDS BackupSession, AlgorithmProofs

USE SessionsAssumption, RefAssumption, ConfAssumption, CalendarAssumption, RestartsAssumption

-----------------------------------------------------------------------------
(* Type correctness.                                                       *)

\* No object, and an object just created, are objects with an empty status.
LEMMA NoObjectType ==
  NoObject \in Object /\ NewObject \in Object
BY DEF NoObject, NewObject, Blank, Object, SessionStates, Rules

\* Status().Update leaves an object.
LEMMA SetStatusType ==
  ASSUME NEW o \in Object, NEW state \in SessionStates, NEW start \in Nat,
         NEW targets \in Seq(TargetStatus), NEW keep \in SUBSET Rules
  PROVE  SetStatus(o, state, start, targets, keep) \in Object
BY DEF SetStatus, Object

\* A delete request leaves an object, whether or not it has our finalizer.
LEMMA DeletedType ==
  ASSUME NEW o \in Object
  PROVE  Deleted(o) \in Object
BY NoObjectType DEF Deleted, SetMeta, Object

\* Update leaves an object.
LEMMA SetMetaType ==
  ASSUME NEW o \in Object, NEW deleting \in BOOLEAN, NEW finalizer \in BOOLEAN
  PROVE  SetMeta(o, deleting, finalizer) \in Object
BY DEF SetMeta, Object

\* The types of the fields of an object.
LEMMA ObjectFields ==
  ASSUME NEW o \in Object
  PROVE  /\ o.exists \in BOOLEAN /\ o.deleting \in BOOLEAN /\ o.finalizer \in BOOLEAN
         /\ o.state \in SessionStates /\ o.start \in Nat
         /\ o.targets \in Seq(TargetStatus) /\ o.keep \in SUBSET Rules
BY DEF Object

\* The types of the fields of a configuration.
LEMMA ConfFields ==
  ASSUME NEW c \in Conf
  PROVE  c.exists \in BOOLEAN /\ c.targets \in Seq(TargetSpec) /\ c.keep \in Policies
BY DEF Conf

\* initSession makes one status per target of the configuration.
LEMMA InitSessionType ==
  ASSUME NEW specs \in Seq(TargetSpec)
  PROVE  /\ InitSession(specs) \in Seq(TargetStatus)
         /\ DOMAIN InitSession(specs) = DOMAIN specs
         /\ \A i \in DOMAIN specs :
              InitSession(specs)[i] =
                [kind |-> specs[i].kind, state |-> NoState, try |-> 1, snap |-> FALSE]
<1>1. \A i \in DOMAIN specs :
        [kind |-> specs[i].kind, state |-> NoState, try |-> 1, snap |-> FALSE] \in TargetStatus
  <2>1. SUFFICES ASSUME NEW i \in DOMAIN specs
                 PROVE  [kind |-> specs[i].kind, state |-> NoState, try |-> 1, snap |-> FALSE]
                          \in TargetStatus
    OBVIOUS
  <2>2. specs[i] \in TargetSpec
    OBVIOUS
  <2>3. specs[i].kind \in BackupKinds
    BY <2>2 DEF TargetSpec
  <2> QED
    BY <2>3 DEF TargetStatus, TargetStates
<1>2. DOMAIN specs = 1..Len(specs) /\ Len(specs) \in Nat
  OBVIOUS
<1> QED
  BY <1>1, <1>2 DEF InitSession

\* The answer of a sidecar is a target status.
LEMMA ReportedType ==
  ASSUME NEW t \in TargetStatus
  PROVE  /\ Reported(t) \in TargetStatus
         /\ \A state \in TargetStates, snap \in BOOLEAN :
              SetTarget(t, state, t.try, snap) \in TargetStatus
<1>1. /\ t.kind \in BackupKinds /\ t.try \in Nat /\ t.snap \in BOOLEAN
      /\ (t.snap \/ t.kind # "Snapshot") \in BOOLEAN
  BY DEF TargetStatus
<1>2. \A state \in TargetStates, snap \in BOOLEAN :
        SetTarget(t, state, t.try, snap) \in TargetStatus
  BY <1>1 DEF SetTarget, TargetStatus
<1>3. {Initialized, Waiting, WaitingForJob, Success} \subseteq TargetStates
  BY DEF TargetStates
<1> QED
  BY <1>1, <1>2, <1>3 DEF Reported

\* The writes of a cleanup.
LEMMA CleanupWritesType ==
  ASSUME TypeOK, NEW S \in SUBSET Sessions, NEW order \in NewestFirst(S), NEW policy
  PROVE  CleanupWrites(order, policy) \in Seq(Write)
<1>1. IsFiniteSet(S) /\ Cardinality(S) \in Nat
  BY FS_Subset, FS_CardinalityType
<1>2. order \in [1..Cardinality(S) -> S]
  BY DEF NewestFirst, SetToSeqs
<1> DEFINE dates == [i \in DOMAIN order |-> Calendar[cache[order[i]].start]]
           tags  == KeepTags(dates, policy)
           write(i) == [do      |-> IF tags[i] = {} THEN "delete" ELSE "keep",
                        session |-> order[i], seen |-> cache[order[i]], keep |-> tags[i]]
<1>3. \A i \in DOMAIN order : tags[i] \in SUBSET Rules
  BY DEF KeepTags, KeptBy
<1>4. \A i \in DOMAIN order : order[i] \in Sessions /\ cache[order[i]] \in Object
  BY <1>2 DEF TypeOK
<1> HIDE DEF tags
<1>5. \A i \in DOMAIN order : write(i) \in Write
  BY <1>3, <1>4 DEF Write
<1>6. CleanupWrites(order, policy) = [i \in 1..Cardinality(S) |-> write(i)]
  BY <1>2 DEF CleanupWrites, tags
<1>7. \A i \in 1..Cardinality(S) : write(i) \in Write
  BY <1>2, <1>5
<1> HIDE DEF write
<1>8. \A n \in Nat : (\A i \in 1..n : write(i) \in Write) => [i \in 1..n |-> write(i)] \in Seq(Write)
  OBVIOUS
<1> QED
  BY <1>1, <1>6, <1>7, <1>8

-----------------------------------------------------------------------------
\* A head of the pending writes, and what is left, are writes again.
LEMMA PendingType ==
  ASSUME pending \in Seq(Write), pending # <<>>
  PROVE  /\ Tail(pending) \in Seq(Write)
         /\ Head(pending) \in Write
         /\ Head(pending).session \in Sessions
         /\ Head(pending).seen \in Object
         /\ Head(pending).keep \in SUBSET Rules
<1>1. Head(pending) \in Write /\ Tail(pending) \in Seq(Write)
  OBVIOUS
<1> QED
  BY <1>1 DEF Write

\* Every step of the environment, the sidecars and the controller keeps the
\* types.
LEMMA TypeStep ==
  ASSUME TypeOK, [Next]_vars
  PROVE  TypeOK'
<1>0. /\ \A s \in Sessions : api[s] \in Object /\ cache[s] \in Object
      /\ \A c \in Confs : conf[c] \in Conf
      /\ \A s \in Sessions : Ref[s] \in Confs
  BY DEF TypeOK
<1>1. ASSUME NEW s \in Sessions, Create(s) PROVE TypeOK'
  BY <1>1, NoObjectType DEF Create, TypeOK, world
<1>2. ASSUME NEW s \in Sessions, UserDelete(s) PROVE TypeOK'
  <2>1. Deleted(api[s]) \in Object
    BY <1>0, DeletedType
  <2> QED
    BY <1>2, <2>1 DEF UserDelete, TypeOK, world, history
<1>3. ASSUME NEW c \in Confs, EditConf(c) PROVE TypeOK'
  BY <1>3 DEF EditConf, TypeOK, history
<1>4. ASSUME NEW c \in Confs, DeleteConf(c) PROVE TypeOK'
  <2>1. [exists |-> FALSE, targets |-> conf[c].targets, keep |-> conf[c].keep] \in Conf
    BY <1>0 DEF Conf
  <2> QED
    BY <1>4, <2>1 DEF DeleteConf, TypeOK, history
<1>5. CASE Tick
  BY <1>5 DEF Tick, TypeOK, history
<1>6. CASE Resync
  BY <1>6 DEF Resync, TypeOK, history, world
<1>7. CASE Restart
  BY <1>7 DEF Restart, Relist, TypeOK, history
<1>8. ASSUME NEW s \in Sessions, Sync(s) PROVE TypeOK'
  BY <1>8, <1>0 DEF Sync, TypeOK, history, world
<1>9. ASSUME NEW s \in Sessions, Targets(s) PROVE TypeOK'
  <2>1. PICK i \in DOMAIN api[s].targets : Sidecar(s, i) \/ JobDone(s, i)
    BY <1>9 DEF Targets
  <2> DEFINE t == api[s].targets[i]
  <2>2. t \in TargetStatus /\ api[s].targets \in Seq(TargetStatus) /\ <<s, i>> \in Snapshots
    BY <1>0, ObjectFields DEF Snapshots
  <2>3. ASSUME NEW status \in TargetStatus, Report(s, i, status) PROVE TypeOK'
    <3>1. [api[s].targets EXCEPT ![i] = status] \in Seq(TargetStatus)
      BY <2>2
    <3>2. SetStatus(api[s], api[s].state, api[s].start,
                    [api[s].targets EXCEPT ![i] = status], api[s].keep) \in Object
      BY <1>0, <3>1, ObjectFields, SetStatusType
    <3> QED
      BY <2>2, <2>3, <3>2 DEF Report, TypeOK, world
  <2>4. CASE TargetDone(s, i)
    BY <2>2, <2>3, <2>4, ReportedType DEF TargetDone
  <2>5. CASE TargetFails(s, i)
    <3>1. SetTarget(t, Failure, t.try, t.snap) \in TargetStatus
      BY <2>2, ReportedType DEF TargetStatus, TargetStates
    <3> QED
      BY <2>3, <2>5, <3>1 DEF TargetFails
  <2>6. CASE JobDone(s, i)
    <3>1. SetTarget(t, Finalized, t.try, TRUE) \in TargetStatus
      BY <2>2, ReportedType DEF TargetStatus, TargetStates
    <3> QED
      BY <2>3, <2>6, <3>1 DEF JobDone
  <2> QED
    BY <2>1, <2>4, <2>5, <2>6 DEF Sidecar
<1>10. ASSUME NEW s \in Sessions, NEW o \in Object, Save(s, o) PROVE TypeOK'
  BY <1>10 DEF Save, TypeOK, world, history
<1>11. ASSUME NEW s \in Sessions, Drop(s) PROVE TypeOK'
  BY <1>11 DEF Drop, TypeOK, world, history
<1>12. ASSUME NEW s \in Sessions, Reconcile(s) PROVE TypeOK'
  <2>0. /\ cache[s] \in Object /\ cache[s].targets \in Seq(TargetStatus)
        /\ conf[Ref[s]].targets \in Seq(TargetSpec)
    BY <1>0, ObjectFields, ConfFields
  <2>1. CASE ReconcileGone(s)
    BY <2>1, <1>11 DEF ReconcileGone
  <2>2. CASE ReconcileDeletion(s)
    <3>1. [do |-> "unfinalize", session |-> s, seen |-> cache[s], keep |-> {}] \in Write
      BY <2>0 DEF Write
    <3>2. SnapshotsOf(s, cache[s]) \in SUBSET Snapshots
      BY <2>0 DEF SnapshotsOf, Snapshots
    <3>3. /\ pending' = <<[do |-> "unfinalize", session |-> s, seen |-> cache[s], keep |-> {}]>>
          /\ purged' \in SUBSET Snapshots /\ unpurged' \in SUBSET Snapshots
      BY <2>2, <3>2 DEF ReconcileDeletion, DeleteSnapshots, TypeOK
    <3>4. pending' \in Seq(Write)
      BY <3>1, <3>3
    <3> QED
      BY <2>2, <3>3, <3>4 DEF ReconcileDeletion, DeleteSnapshots, TypeOK, world
  <2>3. CASE ReconcileFinalizer(s)
    <3>1. SetMeta(cache[s], cache[s].deleting, TRUE) \in Object
      BY <2>0, ObjectFields, SetMetaType
    <3> QED
      BY <2>3, <3>1, <1>10 DEF ReconcileFinalizer
  <2>4. CASE ReconcileCreated(s)
    <3>1. now \in Nat /\ New \in SessionStates
      BY DEF TypeOK, SessionStates
    <3>2. SetStatus(cache[s], New, now, cache[s].targets, cache[s].keep) \in Object
      BY <2>0, <3>1, ObjectFields, SetStatusType
    <3> QED
      BY <2>4, <3>2, <1>10 DEF ReconcileCreated
  <2>5. CASE ReconcileNew(s)
    <3>1. Initializing \in SessionStates
      BY DEF SessionStates
    <3>2. SetStatus(cache[s], Initializing, cache[s].start,
                    InitSession(conf[Ref[s]].targets), cache[s].keep) \in Object
      BY <2>0, <3>1, ObjectFields, SetStatusType, InitSessionType
    <3> QED
      BY <2>5, <3>2, <1>10 DEF ReconcileNew
  <2>6. CASE ReconcilePhase(s)
    <3>1. PICK phase \in Phases :
            /\ ~ PhasePanics(phase, cache[s].targets, conf[Ref[s]].targets)
            /\ LET result == Advance(phase, cache[s].targets, conf[Ref[s]].targets)
               IN  IF result.state = NoState
                     THEN Drop(s)
                     ELSE Save(s, SetStatus(cache[s], result.state, cache[s].start,
                                            result.targets, cache[s].keep))
      BY <2>6 DEF ReconcilePhase
    <3> DEFINE result == Advance(phase, cache[s].targets, conf[Ref[s]].targets)
    <3>2. result.state \in SessionStates /\ result.targets \in Seq(TargetStatus)
      BY <2>0, <3>1, AdvanceType
    <3>3. SetStatus(cache[s], result.state, cache[s].start, result.targets, cache[s].keep)
            \in Object
      BY <2>0, <3>2, ObjectFields, SetStatusType
    <3>4. \/ Drop(s)
          \/ Save(s, SetStatus(cache[s], result.state, cache[s].start, result.targets,
                               cache[s].keep))
      BY <3>1
    <3> QED
      BY <3>3, <3>4, <1>10, <1>11
  <2>7. CASE ReconcilePanic(s)
    BY <2>7 DEF ReconcilePanic, Relist, TypeOK, world, history
  <2>8. CASE ReconcileSuccess(s)
    <3>1. pending' \in Seq(Write)
      <4>1. {t \in Successful : Ref[t] = Ref[s]} \in SUBSET Sessions
        BY DEF Successful, Indexed
      <4>2. \A order \in NewestFirst({t \in Successful : Ref[t] = Ref[s]}) :
              CleanupWrites(order, conf[Ref[s]].keep) \in Seq(Write)
        BY <4>1, CleanupWritesType
      <4> QED
        BY <2>8, <4>2 DEF ReconcileSuccess, CleanupSessions, TypeOK
    <3> QED
      BY <2>8, <3>1 DEF ReconcileSuccess, TypeOK, world, history
  <2>9. CASE ReconcileFailure(s)
    BY <2>9, <1>11 DEF ReconcileFailure
  <2> QED
    BY <1>12, <2>1, <2>2, <2>3, <2>4, <2>5, <2>6, <2>7, <2>8, <2>9 DEF Reconcile, Returns
<1>13. ASSUME NEW ok, Unfinalize(ok) PROVE TypeOK'
  <2>1. pending \in Seq(Write) /\ pending # <<>>
    BY <1>13 DEF Unfinalize, TypeOK
  <2> QED
    BY <1>13, <2>1, PendingType, NoObjectType DEF Unfinalize, TypeOK, world, history
<1>14. ASSUME NEW ok, CleanupDelete(ok) PROVE TypeOK'
  <2>1. pending \in Seq(Write) /\ pending # <<>>
    BY <1>14 DEF CleanupDelete, TypeOK
  <2>2. Deleted(api[Head(pending).session]) \in Object
    BY <1>0, <2>1, PendingType, DeletedType
  <2> QED
    BY <1>14, <2>1, <2>2, PendingType DEF CleanupDelete, TypeOK, world, history
<1>15. ASSUME NEW ok, CleanupKeep(ok) PROVE TypeOK'
  <2>1. pending \in Seq(Write) /\ pending # <<>>
    BY <1>15 DEF CleanupKeep, TypeOK
  <2> DEFINE w == Head(pending)
  <2>2. SetStatus(w.seen, w.seen.state, w.seen.start, w.seen.targets, w.keep) \in Object
    BY <2>1, PendingType, ObjectFields, SetStatusType
  <2> QED
    BY <1>15, <2>1, <2>2, PendingType DEF CleanupKeep, TypeOK, world, history
<1>16. CASE UNCHANGED vars
  BY <1>16 DEF vars, TypeOK
<1> QED
  BY <1>1, <1>2, <1>3, <1>4, <1>5, <1>6, <1>7, <1>8, <1>9, <1>12, <1>13, <1>14, <1>15, <1>16
     DEF Next, Environment, Users, NextWrite

\* The variables keep their types, whatever the environment, the sidecars and
\* the controller do.
THEOREM TypeCorrect == Spec => []TypeOK
<1>1. Init => TypeOK
  BY NoObjectType DEF Init, TypeOK, Snapshots
<1>2. TypeOK /\ [Next]_vars => TypeOK'
  BY TypeStep
<1> QED
  BY <1>1, <1>2, PTL DEF Spec

-----------------------------------------------------------------------------
(* What one step can do to the object of one session.  A write that the    *)
(* API server accepts was computed from the current object (Fresh), so the *)
(* cache and the copies held by a pass in progress drop out here.          *)

AcceptStep(s) ==
  /\ api[s].state = NoState
  /\ \E start \in Nat :
       api'[s] = SetStatus(api[s], New, start, api[s].targets, api[s].keep)

BeginStep(s) ==
  /\ api[s].state = New
  /\ api[s].finalizer
  /\ \E specs \in Seq(TargetSpec) :
       /\ specs = conf[Ref[s]].targets
       /\ api'[s] = SetStatus(api[s], Initializing, api[s].start, InitSession(specs),
                              api[s].keep)

PhaseStep(s) ==
  \E specs \in Seq(TargetSpec) :
    LET result == Advance(api[s].state, api[s].targets, specs)
    IN  /\ specs = conf[Ref[s]].targets
        /\ api[s].finalizer
        /\ api[s].state \in Phases
        /\ ~ PhasePanics(api[s].state, api[s].targets, specs)
        /\ result.state # NoState
        /\ api'[s] = SetStatus(api[s], result.state, api[s].start, result.targets, api[s].keep)

\* How the status of a target changes when it, or its Job, reports.
TargetAnswers(t, status) ==
  \/ Busy(t) /\ status = Reported(t)
  \/ Busy(t) /\ status = SetTarget(t, Failure, t.try, t.snap)
  \/ t.state = WaitingForJob /\ status = SetTarget(t, Finalized, t.try, TRUE)

ReportStep(s) ==
  \E i \in DOMAIN api[s].targets :
    \E status \in TargetStatus :
      /\ TargetAnswers(api[s].targets[i], status)
      /\ api'[s] = SetStatus(api[s], api[s].state, api[s].start,
                             [api[s].targets EXCEPT ![i] = status], api[s].keep)

\* The finalizer of the copy that was purged is removed.
UnfinalizeStep(s) ==
  /\ pending # <<>>
  /\ Head(pending).do = "unfinalize"
  /\ Head(pending).session = s
  /\ Head(pending).seen = api[s]
  /\ api'[s] = NoObject

ObjectStep(s) ==
  \/ api'[s] = api[s]
  \/ s \notin created /\ s \in created' /\ api'[s] = NewObject
  \/ ~ api[s].finalizer /\ api'[s] = NoObject
  \/ UnfinalizeStep(s)
  \/ \E deleting \in BOOLEAN :
       /\ api[s].exists \/ api[s].finalizer
       /\ api[s].deleting => deleting
       /\ api'[s] = SetMeta(api[s], deleting, TRUE)
  \/ \E keep \in SUBSET Rules :
       api'[s] = SetStatus(api[s], api[s].state, api[s].start, api[s].targets, keep)
  \/ AcceptStep(s)
  \/ BeginStep(s)
  \/ PhaseStep(s)
  \/ ReportStep(s)

\* Only these ten things happen to an object.
LEMMA StepOnObject ==
  ASSUME TypeOK, [Next]_vars, NEW s \in Sessions
  PROVE  ObjectStep(s)
<1>0. /\ \A t \in Sessions : api[t] \in Object /\ cache[t] \in Object
      /\ \A c \in Confs : conf[c] \in Conf
      /\ \A t \in Sessions : Ref[t] \in Confs
      /\ api \in [Sessions -> Object]
  BY DEF TypeOK
<1>1. CASE UNCHANGED api
  BY <1>1 DEF ObjectStep
<1>2. ASSUME NEW t \in Sessions, NEW o, api' = [api EXCEPT ![t] = o], t # s PROVE ObjectStep(s)
  BY <1>0, <1>2 DEF ObjectStep
<1>3. ASSUME NEW t \in Sessions, Create(t) PROVE ObjectStep(s)
  BY <1>0, <1>3 DEF Create, ObjectStep
<1>4. ASSUME NEW o, o = Deleted(api[s]), api' = [api EXCEPT ![s] = o] PROVE ObjectStep(s)
  BY <1>0, <1>4 DEF Deleted, ObjectStep
<1>5. ASSUME NEW t \in Sessions, UserDelete(t) PROVE ObjectStep(s)
  BY <1>2, <1>4, <1>5 DEF UserDelete
<1>6. ASSUME NEW t \in Sessions, Targets(t) PROVE ObjectStep(s)
  <2>1. PICK i \in DOMAIN api[t].targets : Sidecar(t, i) \/ JobDone(t, i)
    BY <1>6 DEF Targets
  <2>2. api[t].targets[i] \in TargetStatus
    BY <1>0, ObjectFields
  <2>3. PICK status \in TargetStatus :
          TargetAnswers(api[t].targets[i], status) /\ Report(t, i, status)
    <3>1. CASE TargetDone(t, i)
      BY <2>2, <3>1, ReportedType DEF TargetDone, TargetAnswers
    <3>2. CASE TargetFails(t, i)
      <4>1. SetTarget(api[t].targets[i], Failure, api[t].targets[i].try, api[t].targets[i].snap)
              \in TargetStatus
        BY <2>2, ReportedType DEF TargetStatus, TargetStates
      <4> QED
        BY <3>2, <4>1 DEF TargetFails, TargetAnswers
    <3>3. CASE JobDone(t, i)
      <4>1. SetTarget(api[t].targets[i], Finalized, api[t].targets[i].try, TRUE) \in TargetStatus
        BY <2>2, ReportedType DEF TargetStatus, TargetStates
      <4> QED
        BY <3>3, <4>1 DEF JobDone, TargetAnswers
    <3> QED
      BY <2>1, <3>1, <3>2, <3>3 DEF Sidecar
  <2>4. api' = [api EXCEPT ![t] =
                  SetStatus(api[t], api[t].state, api[t].start,
                            [api[t].targets EXCEPT ![i] = status], api[t].keep)]
    BY <2>3 DEF Report
  <2>5. CASE t = s
    <3>1. api'[s] = SetStatus(api[s], api[s].state, api[s].start,
                              [api[s].targets EXCEPT ![i] = status], api[s].keep)
      BY <1>0, <2>4, <2>5
    <3>2. ReportStep(s)
      BY <2>3, <2>5, <3>1 DEF ReportStep
    <3> QED
      BY <3>2 DEF ObjectStep
  <2> QED
    BY <1>2, <2>4, <2>5
<1>7. ASSUME NEW t \in Sessions, Reconcile(t) PROVE ObjectStep(s)
  <2>1. CASE UNCHANGED api
    BY <2>1, <1>1
  <2>2. ASSUME NEW o, Save(t, o), t # s PROVE ObjectStep(s)
    BY <2>2, <1>2 DEF Save
  <2>3. ASSUME NEW o, Save(s, o) PROVE cache[s] = api[s] /\ api'[s] = o
    BY <2>3, <1>0 DEF Save, Fresh
  <2>4. CASE ReconcileGone(t) \/ ReconcileDeletion(t) \/ ReconcilePanic(t)
             \/ ReconcileSuccess(t) \/ ReconcileFailure(t)
    BY <2>1, <2>4 DEF ReconcileGone, ReconcileDeletion, ReconcilePanic, ReconcileSuccess,
                      ReconcileFailure, Drop
  <2>5. CASE ReconcileFinalizer(t)
    <3>1. CASE t = s
      <4>1. api'[s] = SetMeta(api[s], api[s].deleting, TRUE) /\ api[s].exists
        BY <2>3, <2>5, <3>1 DEF ReconcileFinalizer, Takes
      <4>2. api[s].deleting \in BOOLEAN
        BY <1>0, ObjectFields
      <4> QED
        BY <4>1, <4>2 DEF ObjectStep
    <3> QED
      BY <2>2, <2>5, <3>1 DEF ReconcileFinalizer
  <2>6. CASE ReconcileCreated(t)
    <3>1. CASE t = s
      <4>1. /\ api[s].state = NoState
            /\ api'[s] = SetStatus(api[s], New, now, api[s].targets, api[s].keep)
        BY <2>3, <2>6, <3>1 DEF ReconcileCreated, InState
      <4>2. now \in Nat
        BY DEF TypeOK
      <4> QED
        BY <4>1, <4>2 DEF ObjectStep, AcceptStep
    <3> QED
      BY <2>2, <2>6, <3>1 DEF ReconcileCreated
  <2>7. CASE ReconcileNew(t)
    <3>1. CASE t = s
      <4>1. /\ api[s].state = New
            /\ api[s].finalizer
            /\ api'[s] = SetStatus(api[s], Initializing, api[s].start,
                                   InitSession(conf[Ref[s]].targets), api[s].keep)
        BY <2>3, <2>7, <3>1 DEF ReconcileNew, InState
      <4>2. conf[Ref[s]].targets \in Seq(TargetSpec)
        BY <1>0, ConfFields
      <4> QED
        BY <4>1, <4>2 DEF ObjectStep, BeginStep
    <3> QED
      BY <2>2, <2>7, <3>1 DEF ReconcileNew
  <2>8. CASE ReconcilePhase(t)
    <3>1. PICK phase \in Phases :
            /\ InState(t, phase)
            /\ ~ PhasePanics(phase, cache[t].targets, conf[Ref[t]].targets)
            /\ LET result == Advance(phase, cache[t].targets, conf[Ref[t]].targets)
               IN  IF result.state = NoState
                     THEN Drop(t)
                     ELSE Save(t, SetStatus(cache[t], result.state, cache[t].start,
                                            result.targets, cache[t].keep))
      BY <2>8 DEF ReconcilePhase
    <3> DEFINE specs  == conf[Ref[t]].targets
               result == Advance(phase, cache[t].targets, specs)
               saved  == SetStatus(cache[t], result.state, cache[t].start, result.targets,
                                   cache[t].keep)
    <3>2. CASE Drop(t)
      BY <3>2, <2>1 DEF Drop
    <3>3. CASE result.state # NoState /\ Save(t, saved) /\ t = s
      <4>1. cache[s] = api[s] /\ api'[s] = saved
        BY <2>3, <3>3
      <4>2. specs \in Seq(TargetSpec)
        BY <1>0, ConfFields
      <4>3. api[s].state = phase /\ api[s].finalizer
        BY <3>1, <3>3, <4>1 DEF InState
      <4>4. PhaseStep(s)
        BY <3>1, <3>3, <4>1, <4>2, <4>3 DEF PhaseStep
      <4> QED
        BY <4>4 DEF ObjectStep
    <3>4. Drop(t) \/ (result.state # NoState /\ Save(t, saved))
      BY <3>1
    <3> QED
      BY <2>2, <3>2, <3>3, <3>4
  <2> QED
    BY <1>7, <2>4, <2>5, <2>6, <2>7, <2>8 DEF Reconcile, Returns
<1>8. ASSUME NEW ok, Unfinalize(ok) PROVE ObjectStep(s)
  BY <1>0, <1>8 DEF Unfinalize, UnfinalizeStep, Fresh, ObjectStep
<1>9. ASSUME NEW ok, CleanupDelete(ok) PROVE ObjectStep(s)
  <2>1. Head(pending).session \in Sessions
    BY <1>9, PendingType DEF CleanupDelete, TypeOK
  <2> QED
    BY <1>1, <1>2, <1>4, <1>9, <2>1 DEF CleanupDelete
<1>10. ASSUME NEW ok, CleanupKeep(ok) PROVE ObjectStep(s)
  <2> DEFINE w == Head(pending)
  <2>1. w.session \in Sessions /\ w.keep \in SUBSET Rules
    BY <1>10, PendingType DEF CleanupKeep, TypeOK
  <2>2. \/ UNCHANGED api
        \/ /\ w.seen = api[w.session]
           /\ api' = [api EXCEPT ![w.session] =
                        SetStatus(w.seen, w.seen.state, w.seen.start, w.seen.targets, w.keep)]
    BY <1>10 DEF CleanupKeep, Fresh
  <2>3. CASE w.session = s /\ ~ UNCHANGED api
    <3>1. api'[s] = SetStatus(api[s], api[s].state, api[s].start, api[s].targets, w.keep)
      BY <1>0, <2>2, <2>3
    <3> QED
      BY <2>1, <3>1 DEF ObjectStep
  <2> QED
    BY <1>1, <1>2, <2>1, <2>2, <2>3
<1>11. CASE Tick \/ Resync \/ Restart \/ UNCHANGED vars \/ (\E t \in Sessions : Sync(t))
            \/ (\E c \in Confs : EditConf(c) \/ DeleteConf(c))
  <2>1. UNCHANGED api
    BY <1>11 DEF Tick, Resync, Restart, vars, Sync, EditConf, DeleteConf
  <2> QED
    BY <1>1, <2>1
<1> QED
  BY <1>3, <1>5, <1>6, <1>7, <1>8, <1>9, <1>10, <1>11 DEF Next, Environment, Users, NextWrite

-----------------------------------------------------------------------------
(* One busy target.  OneBusyTarget is not inductive: the scheduler stops   *)
(* at the first target that is not through with the phase and never looks  *)
(* behind it, so one needs to know that nobody behind it is at work.       *)
(* Pipeline says so, and more: whoever has been given the phase comes      *)
(* after targets that are through with it.                                 *)

\* A report of a target, or of its Job, leaves a coherent session coherent.
LEMMA ReportCoherent ==
  ASSUME NEW state \in SessionStates, NEW tss \in Seq(TargetStatus), Coherent(state, tss),
         NEW i \in DOMAIN tss, NEW status \in TargetStatus, TargetAnswers(tss[i], status)
  PROVE  Coherent(state, [tss EXCEPT ![i] = status])
<1> DEFINE new == [tss EXCEPT ![i] = status]
<1>1. /\ DOMAIN new = DOMAIN tss
      /\ new[i] = status
      /\ \A j \in DOMAIN tss : j # i => new[j] = tss[j]
      /\ tss[i] \in TargetStatus
      /\ tss # <<>>
  OBVIOUS
<1>2. \/ tss[i].state = Initializing /\ status.state \in {Initialized, Failure}
      \/ tss[i].state = Running /\ status.state \in {Waiting, Failure}
      \/ tss[i].state = Finalize /\ status.state \in {WaitingForJob, Success, Failure}
      \/ tss[i].state = WaitingForJob /\ status.state = Finalized
  BY DEF TargetAnswers, Busy, Reported, SetTarget, Phases, Initializing, Running, Finalize
<1>3. CASE state \in Phases
  <2>1. \/ tss[i].state = state /\ status.state \in Done(state) \cup {Failure}
        \/ tss[i].state \in Done(state) /\ status.state \in Done(state)
    <3>1. tss[i].state \in Phases => tss[i].state = state
      BY <1>3, InOrderOneBusy DEF Coherent, Busy
    <3>2. tss[i].state = WaitingForJob => state = Finalize
      BY <1>3 DEF Coherent, InOrder, Phases, Before, Done, Initializing, Initialized, Running,
                  Waiting, Finalize, WaitingForJob, NoState, Failure
    <3> QED
      BY <1>2, <1>3, <3>1, <3>2 DEF Done, Phases, Initializing, Running, Finalize
  <2>2. InOrder(state, new)
    BY <1>3, <2>1, ReportInOrder DEF Coherent
  <2>3. state \notin {NoState, New, Success, Failure}
    BY <1>3, PhaseFacts
  <2> QED
    BY <2>2, <2>3 DEF Coherent
<1>4. CASE state = Failure
  <2>1. ~ Busy(status)
    BY <1>2, <1>4 DEF Coherent, Busy, Phases, Initializing, Running, Finalize, Finalized
  <2> QED
    BY <1>1, <1>4, <2>1
       DEF Coherent, Phases, Failure, Success, NoState, New, Initializing, Running, Finalize
<1>5. state \notin {NoState, New}
  BY <1>1 DEF Coherent
<1>6. state # Success
  BY <1>2 DEF Coherent, Busy, Phases
<1> QED
  BY <1>3, <1>4, <1>5, <1>6 DEF SessionStates, Phases

\* A session that the scheduler has just been given.
LEMMA InitSessionCoherent ==
  ASSUME NEW specs \in Seq(TargetSpec)
  PROVE  Coherent(Initializing, InitSession(specs))
<1> DEFINE tss == InitSession(specs)
<1>1. \A i \in DOMAIN tss : tss[i].state = NoState
  <2>1. SUFFICES ASSUME NEW i \in DOMAIN specs PROVE tss[i].state = NoState
    BY InitSessionType
  <2>2. tss[i] = [kind |-> specs[i].kind, state |-> NoState, try |-> 1, snap |-> FALSE]
    BY InitSessionType
  <2> QED
    BY <2>2
<1>2. Before(Initializing) = NoState
  BY DEF Before
<1> HIDE DEF tss
<1>3. InOrder(Initializing, tss)
  BY <1>1, <1>2 DEF InOrder
<1>4. Initializing \notin {NoState, New, Success, Failure}
  BY DEF Initializing, NoState, New, Success, Failure
<1> QED
  BY <1>3, <1>4 DEF Coherent, tss

\* Every step, of the controller, the sidecars or anybody else, leaves the
\* targets of every session coherent with its state.
LEMMA PipelineStep ==
  ASSUME TypeOK, Pipeline, [Next]_vars
  PROVE  Pipeline'
<1>1. SUFFICES ASSUME NEW s \in Sessions
               PROVE  Coherent(api'[s].state, api'[s].targets)
  BY DEF Pipeline
<1>2. ObjectStep(s)
  BY StepOnObject
<1>3. /\ api[s] \in Object /\ api[s].state \in SessionStates
      /\ api[s].targets \in Seq(TargetStatus)
      /\ Coherent(api[s].state, api[s].targets)
  BY ObjectFields DEF TypeOK, Pipeline
<1>4. Coherent(NoState, <<>>)
  BY DEF Coherent, Phases, NoState, New, Initializing, Running, Finalize, Success, Failure
<1>5. CASE api'[s] = NewObject \/ api'[s] = NoObject
  BY <1>4, <1>5 DEF NewObject, NoObject, Blank
<1>6. CASE api'[s].state = api[s].state /\ api'[s].targets = api[s].targets
  BY <1>3, <1>6
<1>7. CASE AcceptStep(s)
  <2>1. api'[s].state = New /\ api'[s].targets = <<>>
    BY <1>3, <1>7 DEF AcceptStep, SetStatus, Coherent
  <2> QED
    BY <2>1 DEF Coherent, Phases, NoState, New, Initializing, Running, Finalize, Success, Failure
<1>8. CASE BeginStep(s)
  BY <1>8, InitSessionCoherent DEF BeginStep, SetStatus
<1>9. CASE PhaseStep(s)
  <2>1. PICK specs \in Seq(TargetSpec) :
          /\ api[s].state \in Phases
          /\ ~ PhasePanics(api[s].state, api[s].targets, specs)
          /\ Advance(api[s].state, api[s].targets, specs).state # NoState
          /\ api'[s] = SetStatus(api[s], Advance(api[s].state, api[s].targets, specs).state,
                                 api[s].start, Advance(api[s].state, api[s].targets, specs).targets,
                                 api[s].keep)
    BY <1>9 DEF PhaseStep
  <2>2. InOrder(api[s].state, api[s].targets)
    BY <1>3, <2>1 DEF Coherent
  <2>3. Coherent(Advance(api[s].state, api[s].targets, specs).state,
                 Advance(api[s].state, api[s].targets, specs).targets)
    BY <1>3, <2>1, <2>2, AdvanceCoherent
  <2> QED
    BY <2>1, <2>3 DEF SetStatus
<1>10. CASE ReportStep(s)
  <2>1. PICK i \in DOMAIN api[s].targets, status \in TargetStatus :
          /\ TargetAnswers(api[s].targets[i], status)
          /\ api'[s] = SetStatus(api[s], api[s].state, api[s].start,
                                 [api[s].targets EXCEPT ![i] = status], api[s].keep)
    BY <1>10 DEF ReportStep
  <2>2. Coherent(api[s].state, [api[s].targets EXCEPT ![i] = status])
    BY <1>3, <2>1, ReportCoherent
  <2> QED
    BY <2>1, <2>2 DEF SetStatus
<1>11. ASSUME NEW deleting, api'[s] = SetMeta(api[s], deleting, TRUE)
       PROVE  api'[s].state = api[s].state /\ api'[s].targets = api[s].targets
  BY <1>11 DEF SetMeta
<1>12. ASSUME NEW keep,
              api'[s] = SetStatus(api[s], api[s].state, api[s].start, api[s].targets, keep)
       PROVE  api'[s].state = api[s].state /\ api'[s].targets = api[s].targets
  BY <1>12 DEF SetStatus
<1> QED
  BY <1>2, <1>5, <1>6, <1>7, <1>8, <1>9, <1>10, <1>11, <1>12 DEF ObjectStep, UnfinalizeStep

\* The targets of every session, for any configuration and any interleaving,
\* are coherent with its state at all times.
THEOREM PipelineInvariant == Spec => []Pipeline
<1>1. Init => Pipeline
  <2>1. NoObject.state = NoState /\ NoObject.targets = <<>>
    BY DEF NoObject, Blank
  <2>2. Coherent(NoState, <<>>)
    BY DEF Coherent, Phases, NoState, New, Initializing, Running, Finalize, Success, Failure
  <2> QED
    BY <2>1, <2>2 DEF Init, Pipeline
<1>2. TypeOK /\ Pipeline /\ [Next]_vars => Pipeline'
  BY PipelineStep
<1> QED
  BY <1>1, <1>2, TypeCorrect, PTL DEF Spec

\* No two sidecars of one session are ever at work, and none once the
\* session has ended.
THEOREM OneBusy == Spec => []OneBusyTarget
<1>1. TypeOK /\ Pipeline => OneBusyTarget
  <2>1. SUFFICES ASSUME TypeOK, Pipeline, NEW s \in Sessions,
                        NEW i \in DOMAIN api[s].targets, NEW j \in DOMAIN api[s].targets,
                        Busy(api[s].targets[i])
                 PROVE  /\ api[s].state \in Phases
                        /\ Busy(api[s].targets[j]) => i = j
    BY DEF OneBusyTarget
  <2>2. /\ api[s].state \in SessionStates /\ api[s].targets \in Seq(TargetStatus)
        /\ Coherent(api[s].state, api[s].targets)
    BY <2>1, ObjectFields DEF TypeOK, Pipeline
  <2>3. api[s].targets # <<>>
    BY <2>1
  <2>4. api[s].state \in Phases
    BY <2>1, <2>2, <2>3 DEF Coherent, SessionStates, Phases
  <2> QED
    BY <2>1, <2>2, <2>4, InOrderOneBusy DEF Coherent
<1> QED
  BY <1>1, TypeCorrect, PipelineInvariant, PTL

-----------------------------------------------------------------------------
(* No work is undone.  Every accepted write keeps or raises what it found; *)
(* the one write of a fresh list of targets, at the end of New, finds no   *)
(* target there (Pipeline), and the one write of a blank object finds no   *)
(* object there (OnlyCreated).                                             *)

\* A session that exists was created.
OnlyCreated == \A s \in Sessions : api[s].exists => s \in created

\* The histories only grow.
LEMMA HistoryGrows ==
  ASSUME [Next]_vars
  PROVE  created \subseteq created' /\ purged \cup unpurged \subseteq purged' \cup unpurged'
<1>1. ASSUME NEW s \in Sessions, Create(s) \/ UserDelete(s) \/ Sync(s) \/ Targets(s)
      PROVE  created \subseteq created' /\ UNCHANGED <<purged, unpurged>>
  BY <1>1 DEF Create, UserDelete, Sync, Targets, Sidecar, TargetDone, TargetFails, JobDone, Report,
              history
<1>2. ASSUME NEW s \in Sessions, ReconcileDeletion(s)
      PROVE  created' = created /\ purged \cup unpurged \subseteq purged' \cup unpurged'
  BY <1>2 DEF ReconcileDeletion, DeleteSnapshots
<1>3. ASSUME NEW s \in Sessions, Reconcile(s), ~ ReconcileDeletion(s)
      PROVE  UNCHANGED history
  BY <1>3 DEF Reconcile, Returns, ReconcileGone, ReconcileFinalizer, ReconcileCreated, ReconcileNew,
              ReconcilePhase, ReconcileSuccess, ReconcileFailure, ReconcilePanic, Drop, Save
<1>4. CASE Tick \/ Resync \/ Restart \/ UNCHANGED vars \/ NextWrite
           \/ (\E c \in Confs : EditConf(c) \/ DeleteConf(c))
  <2>1. UNCHANGED history
    BY <1>4 DEF Tick, Resync, Restart, vars, EditConf, DeleteConf, NextWrite, Unfinalize,
                CleanupDelete, CleanupKeep, history
  <2> QED
    BY <2>1 DEF history
<1> QED
  BY <1>1, <1>2, <1>3, <1>4 DEF Next, Environment, Users, history

\* What a step does to the metadata of an object, and when it may touch the
\* targets: an object is there, or not, as before, unless it is created,
\* deleted without our finalizer, or released by us.
MetaStep(s) ==
  \/ s \notin created /\ s \in created' /\ api'[s] = NewObject
  \/ ~ api[s].finalizer /\ api'[s] = NoObject
  \/ UnfinalizeStep(s)
  \/ /\ api'[s].exists = api[s].exists
     /\ api'[s].finalizer = api[s].finalizer
     /\ api'[s].targets = api[s].targets \/ api[s].finalizer \/ api[s].targets # <<>>
  \/ /\ api'[s].exists = api[s].exists
     /\ api[s].exists \/ api[s].finalizer
     /\ api'[s].finalizer
     /\ api'[s].targets = api[s].targets

\* Every step of an object is one of these.
LEMMA MetaOfStep ==
  ASSUME NEW s \in Sessions, ObjectStep(s)
  PROVE  MetaStep(s)
<1>1. ASSUME NEW state, NEW start, NEW targets, NEW keep,
             api'[s] = SetStatus(api[s], state, start, targets, keep)
      PROVE  /\ api'[s].exists = api[s].exists
             /\ api'[s].finalizer = api[s].finalizer
             /\ api'[s].targets = targets
  BY <1>1 DEF SetStatus
<1>2. CASE AcceptStep(s)
  BY <1>1, <1>2 DEF AcceptStep, MetaStep
<1>3. CASE BeginStep(s)
  BY <1>1, <1>3 DEF BeginStep, MetaStep
<1>4. CASE PhaseStep(s)
  BY <1>1, <1>4 DEF PhaseStep, MetaStep
<1>5. CASE ReportStep(s)
  <2>1. api[s].targets # <<>>
    BY <1>5 DEF ReportStep
  <2> QED
    BY <1>1, <1>5, <2>1 DEF ReportStep, MetaStep
<1>6. ASSUME NEW deleting, api[s].exists \/ api[s].finalizer,
             api'[s] = SetMeta(api[s], deleting, TRUE)
      PROVE  MetaStep(s)
  <2>1. /\ api'[s].exists = api[s].exists
        /\ api'[s].finalizer = TRUE
        /\ api'[s].targets = api[s].targets
    BY <1>6 DEF SetMeta
  <2> QED
    BY <1>6, <2>1 DEF MetaStep
<1>7. ASSUME NEW keep,
             api'[s] = SetStatus(api[s], api[s].state, api[s].start, api[s].targets, keep)
      PROVE  MetaStep(s)
  BY <1>1, <1>7 DEF MetaStep
<1>8. CASE api'[s] = api[s]
  BY <1>8 DEF MetaStep
<1>9. CASE \/ s \notin created /\ s \in created' /\ api'[s] = NewObject
           \/ ~ api[s].finalizer /\ api'[s] = NoObject
           \/ UnfinalizeStep(s)
  BY <1>9 DEF MetaStep
<1> QED
  BY <1>2, <1>3, <1>4, <1>5, <1>6, <1>7, <1>8, <1>9 DEF ObjectStep

\* Only sessions that were created exist.
LEMMA OnlyCreatedStep ==
  ASSUME TypeOK, OnlyCreated, [Next]_vars
  PROVE  OnlyCreated'
<1>1. SUFFICES ASSUME NEW s \in Sessions, api'[s].exists PROVE s \in created'
  BY DEF OnlyCreated
<1>2. MetaStep(s) /\ created \subseteq created'
  BY StepOnObject, MetaOfStep, HistoryGrows
<1>3. api'[s] # NoObject
  BY <1>1 DEF NoObject, Blank
<1>4. api[s].exists \/ s \in created'
  <2>1. CASE UnfinalizeStep(s)
    BY <1>3, <2>1 DEF UnfinalizeStep
  <2>2. CASE api'[s].exists = api[s].exists
    BY <1>1, <2>2
  <2> QED
    BY <1>2, <1>3, <2>1, <2>2 DEF MetaStep
<1> QED
  BY <1>2, <1>4 DEF OnlyCreated

\* The states of a session in the order of its life.
LEMMA Ranks ==
  /\ Rank(NoState) = 0 /\ Rank(New) = 1 /\ Rank(Initializing) = 2 /\ Rank(Running) = 3
  /\ Rank(Finalize) = 4 /\ Rank(Success) = 5 /\ Rank(Failure) = 5
  /\ \A state : Rank(state) \in 0..5
  /\ \A phase \in Phases : Rank(phase) < Rank(After(phase)) /\ Rank(phase) < 5
BY DEF Rank, After, Phases, NoState, New, Initializing, Running, Finalize, Success, Failure

\* The try of a target is a number.
LEMMA TryIsNat ==
  ASSUME NEW tss \in Seq(TargetStatus), NEW i \in DOMAIN tss
  PROVE  tss[i] \in TargetStatus /\ tss[i].try \in Nat
<1>1. tss[i] \in TargetStatus
  OBVIOUS
<1> QED
  BY <1>1 DEF TargetStatus

\* Whatever the scheduler writes keeps the work done.
LEMMA AdvanceKeepsWork ==
  ASSUME NEW phase \in Phases, NEW tss \in Seq(TargetStatus), NEW specs \in Seq(TargetSpec),
         ~ PhasePanics(phase, tss, specs), Advance(phase, tss, specs).state # NoState
  PROVE  LET result == Advance(phase, tss, specs)
         IN  /\ Rank(result.state) >= Rank(phase)
             /\ \A i \in DOMAIN tss :
                  /\ i \in DOMAIN result.targets
                  /\ result.targets[i].try >= tss[i].try
                  /\ tss[i].snap => result.targets[i].snap
                  /\ tss[i].state \in Done(phase) => result.targets[i].state \in Done(phase)
<1> DEFINE result == Advance(phase, tss, specs)
<1>1. Outcome(phase, tss, specs, result)
  BY AdvanceOutcome
<1>2. result.state # NoState
  OBVIOUS
<1>3. \A i \in DOMAIN tss : tss[i].try \in Nat
  BY TryIsNat
<1> HIDE DEF result
<1>4. Rank(result.state) >= Rank(phase)
  <2>1. result.state \in {phase, After(phase), Success, Failure}
    BY <1>1, <1>2 DEF Outcome
  <2>2. Rank(phase) < Rank(After(phase)) /\ Rank(phase) < 5 /\ Rank(phase) \in 0..5
        /\ Rank(After(phase)) \in 0..5
    BY Ranks
  <2> QED
    BY <2>1, <2>2, Ranks
<1>5. CASE result.targets = tss
  BY <1>3, <1>4, <1>5 DEF result
<1>6. CASE result.targets # tss
  <2>1. PICK i \in DOMAIN tss, n \in Nat :
          /\ tss[i].state \in {Before(phase), Failure}
          /\ n >= tss[i].try
          /\ result.targets = GiveTurn(tss, i, phase, n)
    BY <1>1, <1>6 DEF Outcome
  <2>2. /\ DOMAIN result.targets = DOMAIN tss
        /\ result.targets[i] =
             [kind |-> tss[i].kind, state |-> phase, try |-> n, snap |-> tss[i].snap]
        /\ \A j \in DOMAIN tss : j # i => result.targets[j] = tss[j]
    BY <2>1, GiveTurnType
  <2>3. tss[i].state \notin Done(phase)
    BY <2>1, PhaseFacts
  <2>4. /\ result.targets[i].try = n
        /\ result.targets[i].snap = tss[i].snap
    BY <2>2
  <2>5. ASSUME NEW j \in DOMAIN tss
        PROVE  /\ j \in DOMAIN result.targets
               /\ result.targets[j].try >= tss[j].try
               /\ tss[j].snap => result.targets[j].snap
               /\ tss[j].state \in Done(phase) => result.targets[j].state \in Done(phase)
    <3>1. CASE j = i
      BY <2>1, <2>2, <2>3, <2>4, <3>1
    <3>2. CASE j # i
      BY <1>3, <2>2, <3>2
    <3> QED
      BY <3>1, <3>2
  <2> QED
    BY <1>4, <2>5 DEF result
<1> QED
  BY <1>5, <1>6

\* So does the report of a target or of its Job.
LEMMA ReportKeepsWork ==
  ASSUME NEW phase \in Phases, NEW t \in TargetStatus, NEW status \in TargetStatus,
         TargetAnswers(t, status)
  PROVE  /\ status.try = t.try
         /\ t.snap => status.snap
         /\ t.state \in Done(phase) => status.state \in Done(phase)
<1>1. status.try = t.try /\ (t.snap => status.snap)
  <2>1. ASSUME NEW state, NEW snap, status = SetTarget(t, state, t.try, snap), t.snap => snap
        PROVE  status.try = t.try /\ (t.snap => status.snap)
    BY <2>1 DEF SetTarget
  <2>2. CASE Busy(t) /\ status = Reported(t)
    BY <2>1, <2>2 DEF Reported
  <2> QED
    BY <2>1, <2>2 DEF TargetAnswers
<1>2. t.state \in Done(phase) => t.state = WaitingForJob /\ status.state = Finalized
  <2>1. t.state \in Done(phase) => ~ Busy(t)
    BY PhaseFacts DEF Busy
  <2> QED
    BY <2>1 DEF TargetAnswers, SetTarget
<1>3. WaitingForJob \in Done(phase) => Finalized \in Done(phase)
  BY DEF Done, WaitingForJob, Initialized, Waiting, Finalized
<1> QED
  BY <1>1, <1>2, <1>3

\* Every step keeps the work done in every session.
LEMMA WorkStep ==
  ASSUME TypeOK, Pipeline, OnlyCreated, [Next]_vars, NEW s \in Sessions
  PROVE  WorkStays(api[s], api'[s])
<1>1. SUFFICES ASSUME api[s].exists, api'[s].exists PROVE WorkStays(api[s], api'[s])
  BY DEF WorkStays
<1>2. ObjectStep(s)
  BY StepOnObject
<1>3. /\ api[s].state \in SessionStates
      /\ api[s].deleting \in BOOLEAN
      /\ api[s].targets \in Seq(TargetStatus)
      /\ Coherent(api[s].state, api[s].targets)
      /\ s \in created
  BY <1>1, ObjectFields DEF TypeOK, Pipeline, OnlyCreated
<1>4. \A i \in DOMAIN api[s].targets :
        api[s].targets[i] \in TargetStatus /\ api[s].targets[i].try \in Nat
  BY <1>3, TryIsNat
<1>5. ASSUME api'[s].state = api[s].state, api'[s].targets = api[s].targets,
             api[s].deleting => api'[s].deleting
      PROVE  WorkStays(api[s], api'[s])
  BY <1>4, <1>5, Ranks DEF WorkStays
<1>6. CASE AcceptStep(s)
  <2>1. /\ api'[s].state = New /\ api[s].state = NoState
        /\ api[s].targets = <<>> /\ api'[s].deleting = api[s].deleting
    BY <1>3, <1>6 DEF AcceptStep, SetStatus, Coherent
  <2> QED
    BY <2>1, Ranks DEF WorkStays
<1>7. CASE BeginStep(s)
  <2>1. /\ api'[s].state = Initializing /\ api[s].state = New
        /\ api[s].targets = <<>> /\ api'[s].deleting = api[s].deleting
    BY <1>3, <1>7 DEF BeginStep, SetStatus, Coherent
  <2> QED
    BY <2>1, Ranks DEF WorkStays
<1>8. CASE PhaseStep(s)
  <2>1. PICK specs \in Seq(TargetSpec) :
          /\ api[s].state \in Phases
          /\ ~ PhasePanics(api[s].state, api[s].targets, specs)
          /\ Advance(api[s].state, api[s].targets, specs).state # NoState
          /\ api'[s] = SetStatus(api[s], Advance(api[s].state, api[s].targets, specs).state,
                                 api[s].start, Advance(api[s].state, api[s].targets, specs).targets,
                                 api[s].keep)
    BY <1>8 DEF PhaseStep
  <2> DEFINE result == Advance(api[s].state, api[s].targets, specs)
  <2>2. /\ api'[s].state = result.state
        /\ api'[s].targets = result.targets
        /\ api'[s].deleting = api[s].deleting
    BY <2>1 DEF SetStatus
  <2>3. /\ Rank(result.state) >= Rank(api[s].state)
        /\ \A i \in DOMAIN api[s].targets :
             /\ i \in DOMAIN result.targets
             /\ result.targets[i].try >= api[s].targets[i].try
             /\ api[s].targets[i].snap => result.targets[i].snap
             /\ api[s].targets[i].state \in Done(api[s].state) =>
                  result.targets[i].state \in Done(api[s].state)
    BY <1>3, <2>1, AdvanceKeepsWork
  <2> HIDE DEF result
  <2> QED
    BY <2>2, <2>3 DEF WorkStays
<1>9. CASE ReportStep(s)
  <2>1. PICK i \in DOMAIN api[s].targets, status \in TargetStatus :
          /\ TargetAnswers(api[s].targets[i], status)
          /\ api'[s] = SetStatus(api[s], api[s].state, api[s].start,
                                 [api[s].targets EXCEPT ![i] = status], api[s].keep)
    BY <1>9 DEF ReportStep
  <2>2. /\ api'[s].state = api[s].state
        /\ api'[s].targets = [api[s].targets EXCEPT ![i] = status]
        /\ api'[s].deleting = api[s].deleting
    BY <2>1 DEF SetStatus
  <2>3. /\ DOMAIN api'[s].targets = DOMAIN api[s].targets
        /\ api'[s].targets[i] = status
        /\ \A j \in DOMAIN api[s].targets : j # i => api'[s].targets[j] = api[s].targets[j]
    BY <1>3, <2>2
  <2>4. /\ status.try = api[s].targets[i].try
        /\ api[s].targets[i].snap => status.snap
        /\ api[s].state \in Phases /\ api[s].targets[i].state \in Done(api[s].state) =>
             status.state \in Done(api[s].state)
    <3>1. Initializing \in Phases
      BY DEF Phases
    <3> QED
      BY <1>4, <2>1, <3>1, ReportKeepsWork
  <2>5. Rank(api'[s].state) >= Rank(api[s].state)
    BY <2>2, Ranks
  <2>6. ASSUME NEW j \in DOMAIN api[s].targets
        PROVE  /\ j \in DOMAIN api'[s].targets
               /\ api'[s].targets[j].try >= api[s].targets[j].try
               /\ api[s].targets[j].snap => api'[s].targets[j].snap
               /\ api[s].state \in Phases /\ api[s].targets[j].state \in Done(api[s].state) =>
                    api'[s].targets[j].state \in Done(api[s].state)
    <3>1. CASE j = i
      BY <1>4, <2>3, <2>4, <3>1
    <3>2. CASE j # i
      BY <1>4, <2>3, <3>2
    <3> QED
      BY <3>1, <3>2
  <2> QED
    BY <2>2, <2>5, <2>6 DEF WorkStays
<1>10. ASSUME NEW deleting \in BOOLEAN, api[s].deleting => deleting,
              api'[s] = SetMeta(api[s], deleting, TRUE)
       PROVE  WorkStays(api[s], api'[s])
  BY <1>5, <1>10 DEF SetMeta
<1>11. ASSUME NEW keep,
              api'[s] = SetStatus(api[s], api[s].state, api[s].start, api[s].targets, keep)
       PROVE  WorkStays(api[s], api'[s])
  BY <1>5, <1>11 DEF SetStatus
<1>12. api'[s] # NoObject
  BY <1>1 DEF NoObject, Blank
<1> QED
  BY <1>2, <1>3, <1>5, <1>6, <1>7, <1>8, <1>9, <1>10, <1>11, <1>12 DEF ObjectStep, UnfinalizeStep

\* The sessions that exist were created.
LEMMA OnlyCreatedInvariant == Spec => []OnlyCreated
<1>1. Init => OnlyCreated
  BY DEF Init, OnlyCreated, NoObject, Blank
<1>2. TypeOK /\ OnlyCreated /\ [Next]_vars => OnlyCreated'
  BY OnlyCreatedStep
<1> QED
  BY <1>1, <1>2, TypeCorrect, PTL DEF Spec

\* Whatever the cache showed and whoever else wrote, no step takes a session
\* back to an earlier state, uncounts a try, loses a recorded snapshot id or
\* un-does a phase of a target.
THEOREM WorkNeverUndone == Spec => WorkIsNeverUndone
<1>1. TypeOK /\ Pipeline /\ OnlyCreated /\ [Next]_vars =>
        [\A s \in Sessions : WorkStays(api[s], api'[s])]_api
  BY WorkStep
<1> QED
  BY <1>1, TypeCorrect, PipelineInvariant, OnlyCreatedInvariant, PTL DEF Spec, WorkIsNeverUndone

-----------------------------------------------------------------------------
(* No snapshot is forgotten.  SnapshotsPurged speaks of sessions that are  *)
(* gone; it is inductive only with what makes the way out safe: a session  *)
(* without our finalizer has no target yet, and a pass that is about to    *)
(* remove the finalizer has dealt with every snapshot of the copy it read, *)
(* so that a snapshot recorded since makes its write stale.                *)

\* The snapshots for which a purge Job was asked for.
Purged == purged \cup unpurged

\* Every recorded snapshot is still in its session or has been purged; a
\* session gets targets only under our finalizer.
Accounted ==
  \A s \in Sessions :
    /\ api[s].finalizer => api[s].exists
    /\ ~ api[s].finalizer => api[s].targets = <<>>
    /\ \A i : <<s, i>> \in recorded =>
         /\ s \in created
         /\ api[s].exists => i \in DOMAIN api[s].targets /\ api[s].targets[i].snap
         /\ ~ api[s].exists => <<s, i>> \in Purged

\* A pass about to remove a finalizer has purged the copy it read.
ReleasesPurged ==
  \A k \in DOMAIN pending :
    pending[k].do = "unfinalize" => SnapshotsOf(pending[k].session, pending[k].seen) \subseteq Purged

\* The copy a pass read was purged before its finalizer is removed, and
\* stays purged.
LEMMA ReleasesPurgedStep ==
  ASSUME TypeOK, ReleasesPurged, [Next]_vars
  PROVE  ReleasesPurged'
<1>1. Purged \subseteq Purged'
  BY HistoryGrows DEF Purged
<1>2. CASE UNCHANGED pending
  BY <1>1, <1>2 DEF ReleasesPurged
<1>3. CASE pending' = <<>>
  BY <1>3 DEF ReleasesPurged
<1>4. CASE pending # <<>> /\ pending' = Tail(pending)
  <2>1. pending \in Seq(Write)
    BY DEF TypeOK
  <2>2. \A k \in DOMAIN pending' : k + 1 \in DOMAIN pending /\ pending'[k] = pending[k + 1]
    BY <1>4, <2>1
  <2> QED
    BY <1>1, <2>2 DEF ReleasesPurged
<1>5. ASSUME NEW s \in Sessions, ReconcileDeletion(s) PROVE ReleasesPurged'
  <2>1. pending' = <<[do |-> "unfinalize", session |-> s, seen |-> cache[s], keep |-> {}]>>
    BY <1>5 DEF ReconcileDeletion
  <2>2. SnapshotsOf(s, cache[s]) \subseteq Purged'
    BY <1>5 DEF ReconcileDeletion, DeleteSnapshots, Purged
  <2> QED
    BY <2>1, <2>2 DEF ReleasesPurged
<1>6. ASSUME NEW s \in Sessions, ReconcileSuccess(s) PROVE ReleasesPurged'
  <2>1. \A order, policy : \A k \in DOMAIN CleanupWrites(order, policy) :
          CleanupWrites(order, policy)[k].do # "unfinalize"
    BY DEF CleanupWrites
  <2>2. CASE ~ UNCHANGED pending
    <3>1. PICK order : pending' = CleanupWrites(order, conf[Ref[s]].keep)
      BY <1>6, <2>2 DEF ReconcileSuccess, CleanupSessions
    <3> QED
      BY <2>1, <3>1 DEF ReleasesPurged
  <2> QED
    BY <1>2, <2>2
<1>7. ASSUME NEW s \in Sessions, Reconcile(s) PROVE ReleasesPurged'
  <2>1. CASE ReconcileGone(s) \/ ReconcileFinalizer(s) \/ ReconcileCreated(s) \/ ReconcileNew(s)
             \/ ReconcilePhase(s) \/ ReconcileFailure(s)
    BY <1>2, <2>1 DEF ReconcileGone, ReconcileFinalizer, ReconcileCreated, ReconcileNew,
                      ReconcilePhase, ReconcileFailure, Drop, Save
  <2>2. CASE ReconcilePanic(s)
    BY <1>3, <2>2 DEF ReconcilePanic, Relist
  <2> QED
    BY <1>5, <1>6, <1>7, <2>1, <2>2 DEF Reconcile, Returns
<1>8. CASE NextWrite
  BY <1>4, <1>8 DEF NextWrite, Unfinalize, CleanupDelete, CleanupKeep
<1>9. CASE Restart
  BY <1>3, <1>9 DEF Restart, Relist
<1>10. ASSUME Users \/ Tick \/ Resync \/ UNCHANGED vars
              \/ (\E s \in Sessions : Sync(s) \/ Targets(s))
       PROVE  UNCHANGED pending
  <2>1. CASE Users
    BY <2>1 DEF Users, Create, UserDelete, EditConf, DeleteConf
  <2>2. CASE Tick \/ Resync \/ UNCHANGED vars
    BY <2>2 DEF Tick, Resync, vars
  <2>3. CASE \E s \in Sessions : Sync(s)
    BY <2>3 DEF Sync
  <2>4. ASSUME NEW s \in Sessions, Targets(s) PROVE UNCHANGED pending
    <3>1. PICK i \in DOMAIN api[s].targets :
            TargetDone(s, i) \/ TargetFails(s, i) \/ JobDone(s, i)
      BY <2>4, Zenon DEF Targets, Sidecar
    <3>2. PICK status : Report(s, i, status)
      BY <3>1 DEF TargetDone, TargetFails, JobDone
    <3> QED
      BY <3>2 DEF Report
  <2> QED
    BY <1>10, <2>1, <2>2, <2>3, <2>4
<1> QED
  BY <1>2, <1>7, <1>8, <1>9, <1>10 DEF Next, Environment

\* A snapshot is recorded by the report of its target only, in the session.
LEMMA NewRecord ==
  ASSUME TypeOK, [Next]_vars, NEW s \in Sessions, NEW i,
         <<s, i>> \in recorded', <<s, i>> \notin recorded
  PROVE  /\ i \in DOMAIN api[s].targets
         /\ api'[s].exists = api[s].exists
         /\ i \in DOMAIN api'[s].targets
         /\ api'[s].targets[i].snap
<1>1. PICK t \in Sessions : Targets(t)
  <2>1. ASSUME NEW t \in Sessions, Reconcile(t) PROVE recorded' = recorded
    BY <2>1 DEF Reconcile, Returns, ReconcileGone, ReconcileDeletion, ReconcileFinalizer,
                ReconcileCreated, ReconcileNew, ReconcilePhase, ReconcileSuccess, ReconcileFailure,
                ReconcilePanic, Drop, Save, history
  <2>2. ASSUME Environment \/ NextWrite \/ UNCHANGED vars \/ \E t \in Sessions : Sync(t)
        PROVE  recorded' = recorded
    BY <2>2 DEF Environment, Users, Create, UserDelete, EditConf, DeleteConf, Tick, Resync, Restart,
                vars, Sync, NextWrite, Unfinalize, CleanupDelete, CleanupKeep, history
  <2> QED
    BY <2>1, <2>2 DEF Next
<1>2. PICK j \in DOMAIN api[t].targets : Sidecar(t, j) \/ JobDone(t, j)
  BY <1>1 DEF Targets
<1>3. PICK status : Report(t, j, status)
  BY <1>2 DEF Sidecar, TargetDone, TargetFails, JobDone
<1>4. t = s /\ j = i /\ status.snap
  BY <1>3 DEF Report
<1>5. api[s] \in Object /\ api \in [Sessions -> Object] /\ api[s].targets \in Seq(TargetStatus)
  BY ObjectFields DEF TypeOK
<1>6. api'[s] = SetStatus(api[s], api[s].state, api[s].start,
                          [api[s].targets EXCEPT ![i] = status], api[s].keep)
  BY <1>3, <1>4, <1>5 DEF Report
<1>7. /\ api'[s].exists = api[s].exists
      /\ api'[s].targets = [api[s].targets EXCEPT ![i] = status]
  BY <1>6 DEF SetStatus
<1> QED
  BY <1>2, <1>4, <1>5, <1>7

\* Every step accounts for the snapshots of every session.
LEMMA AccountedStep ==
  ASSUME TypeOK, Pipeline, OnlyCreated, ReleasesPurged, Accounted, [Next]_vars
  PROVE  Accounted'
<1>1. SUFFICES ASSUME NEW s \in Sessions
               PROVE  /\ api'[s].finalizer => api'[s].exists
                      /\ ~ api'[s].finalizer => api'[s].targets = <<>>
                      /\ \A i : <<s, i>> \in recorded' =>
                           /\ s \in created'
                           /\ api'[s].exists =>
                                i \in DOMAIN api'[s].targets /\ api'[s].targets[i].snap
                           /\ ~ api'[s].exists => <<s, i>> \in Purged'
  BY DEF Accounted
<1>2. MetaStep(s) /\ WorkStays(api[s], api'[s])
  BY StepOnObject, MetaOfStep, WorkStep
<1>3. created \subseteq created' /\ Purged \subseteq Purged'
  BY HistoryGrows DEF Purged
<1>4. /\ ~ NoObject.exists /\ ~ NoObject.finalizer /\ NoObject.targets = <<>>
      /\ NewObject.exists /\ ~ NewObject.finalizer /\ NewObject.targets = <<>>
  BY DEF NoObject, NewObject, Blank
<1>5. /\ api[s].finalizer => api[s].exists
      /\ ~ api[s].finalizer => api[s].targets = <<>>
  BY DEF Accounted
<1>6. /\ api'[s].finalizer => api'[s].exists
      /\ ~ api'[s].finalizer => api'[s].targets = <<>>
  <2>1. CASE api'[s] = NewObject \/ api'[s] = NoObject
    BY <1>4, <2>1
  <2>2. CASE /\ api'[s].exists = api[s].exists
             /\ api'[s].finalizer = api[s].finalizer
             /\ api'[s].targets = api[s].targets \/ api[s].finalizer \/ api[s].targets # <<>>
    BY <1>5, <2>2
  <2>3. CASE /\ api'[s].exists = api[s].exists
             /\ api[s].exists \/ api[s].finalizer
             /\ api'[s].finalizer
    BY <1>5, <2>3
  <2> QED
    BY <1>2, <2>1, <2>2, <2>3 DEF MetaStep, UnfinalizeStep
<1>7. ASSUME NEW i, <<s, i>> \in recorded', <<s, i>> \notin recorded
      PROVE  /\ s \in created' /\ api'[s].exists
             /\ i \in DOMAIN api'[s].targets /\ api'[s].targets[i].snap
  <2>1. /\ i \in DOMAIN api[s].targets
        /\ api'[s].exists = api[s].exists
        /\ i \in DOMAIN api'[s].targets
        /\ api'[s].targets[i].snap
    BY <1>7, NewRecord
  <2>2. api[s].targets # <<>>
    BY <2>1
  <2>3. api[s].exists
    BY <1>5, <2>2
  <2> QED
    BY <1>3, <2>1, <2>3 DEF OnlyCreated
<1>8. ASSUME NEW i, <<s, i>> \in recorded
      PROVE  /\ s \in created'
             /\ api'[s].exists => i \in DOMAIN api'[s].targets /\ api'[s].targets[i].snap
             /\ ~ api'[s].exists => <<s, i>> \in Purged'
  <2>1. /\ s \in created
        /\ api[s].exists => i \in DOMAIN api[s].targets /\ api[s].targets[i].snap
        /\ ~ api[s].exists => <<s, i>> \in Purged
    BY <1>8 DEF Accounted
  <2>2. CASE api[s].exists /\ api'[s].exists
    BY <1>2, <1>3, <2>1, <2>2 DEF WorkStays
  <2>3. CASE ~ api[s].exists
    <3>1. ~ api'[s].exists
      BY <1>2, <1>4, <2>1, <2>3 DEF MetaStep, UnfinalizeStep
    <3> QED
      BY <1>3, <2>1, <2>3, <3>1
  <2>4. CASE api[s].exists /\ ~ api'[s].exists
    <3>1. UnfinalizeStep(s) \/ ~ api[s].finalizer
      BY <1>2, <1>4, <2>4 DEF MetaStep
    <3>2. api[s].finalizer
      BY <1>5, <2>1, <2>4
    <3>3. UnfinalizeStep(s)
      BY <3>1, <3>2
    <3>4. pending \in Seq(Write) /\ pending # <<>> /\ 1 \in DOMAIN pending
          /\ Head(pending) = pending[1]
      BY <3>3 DEF UnfinalizeStep, TypeOK
    <3>5. SnapshotsOf(s, api[s]) \subseteq Purged
      BY <3>3, <3>4 DEF UnfinalizeStep, ReleasesPurged
    <3>6. <<s, i>> \in SnapshotsOf(s, api[s])
      BY <2>1, <2>4 DEF SnapshotsOf
    <3> QED
      BY <1>3, <2>1, <2>4, <3>5, <3>6
  <2> QED
    BY <2>2, <2>3, <2>4
<1> QED
  BY <1>6, <1>7, <1>8

\* Every recorded snapshot is accounted for at all times.
LEMMA AccountedInvariant == Spec => []Accounted
<1>1. Init => Accounted /\ ReleasesPurged
  BY DEF Init, Accounted, ReleasesPurged, NoObject, Blank
<1>2. TypeOK /\ Pipeline /\ OnlyCreated /\ ReleasesPurged /\ Accounted /\ [Next]_vars =>
        Accounted' /\ ReleasesPurged'
  BY AccountedStep, ReleasesPurgedStep
<1> QED
  BY <1>1, <1>2, TypeCorrect, PipelineInvariant, OnlyCreatedInvariant, PTL DEF Spec

\* No session leaves the API server with a snapshot that no purge Job was
\* asked to delete, whatever is recorded while it is being deleted and
\* wherever the controller is restarted.
THEOREM NoSnapshotForgotten == Spec => []SnapshotsPurged
<1>1. TypeOK /\ Accounted => SnapshotsPurged
  <2>1. SUFFICES ASSUME TypeOK, Accounted, NEW s \in created, ~ api[s].exists,
                        NEW snapshot \in recorded, snapshot[1] = s
                 PROVE  snapshot \in purged \cup unpurged
    BY DEF SnapshotsPurged
  <2>2. s \in Sessions /\ snapshot = <<s, snapshot[2]>>
    BY <2>1 DEF TypeOK, Snapshots
  <2> QED
    BY <2>1, <2>2 DEF Accounted, Purged
<1> QED
  BY <1>1, TypeCorrect, AccountedInvariant, PTL
=============================================================================
