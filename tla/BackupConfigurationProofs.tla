--------------------- MODULE BackupConfigurationProofs ----------------------
(***************************************************************************)
(* Proofs about BackupConfiguration, for any workloads, specifications and *)
(* numbers of changes, refusals and restarts.                              *)
(***************************************************************************)
EXTENDS BackupConfiguration, FiniteSetTheorems, TLAPS

USE AccountAssumption, SpecsAssumption, BoundsAssumption

-----------------------------------------------------------------------------
(* Type correctness.  TypeOK needs to know more of a pass in progress: the *)
(* configuration it is for, and where in the list of targets it is.        *)

UpkeepPlaces   == {"cronjob", "creator", "sidecar", "status"}
DeletionPlaces == {"delete sidecar", "delete cronjob", "delete rbac", "finalizer"}

PassRecord == [at : Places, conf : Confs, seen : Object, target : Nat \ {0}]

\* The copy a pass works from says what kind of pass it is.
PassOK ==
  \/ pass = NoPass
  \/ /\ pass \in PassRecord
     /\ pass.seen.exists
     /\ pass.at \in UpkeepPlaces => pass.seen.finalizer /\ ~ pass.seen.deleting
     /\ pass.at \in DeletionPlaces => pass.seen.deleting
     /\ pass.at \in {"sidecar", "delete sidecar"} =>
          pass.target \in DOMAIN pass.seen.spec.targets
     /\ pass.at \in {"cronjob", "creator"} => pass.target = 1

Typed == TypeOK /\ PassOK

\* The fields of a configuration.
LEMMA ObjectFields ==
  ASSUME NEW o \in Object
  PROVE  /\ o.exists \in BOOLEAN /\ o.deleting \in BOOLEAN /\ o.finalizer \in BOOLEAN
         /\ o.spec \in ConfSpec /\ o.cronJob \in BOOLEAN /\ o.sidecar \in BOOLEAN
         /\ o.spec.image \in Images /\ o.spec.plan \in Plans /\ o.spec.targets \in Seq(Workloads)
<1>1. /\ o.exists \in BOOLEAN /\ o.deleting \in BOOLEAN /\ o.finalizer \in BOOLEAN
      /\ o.spec \in ConfSpec /\ o.cronJob \in BOOLEAN /\ o.sidecar \in BOOLEAN
  BY DEF Object
<1> QED
  BY <1>1 DEF ConfSpec

\* Every write leaves a configuration.
LEMMA ObjectWrites ==
  ASSUME NEW c \in Confs, NEW o \in Object, NEW spec \in ConfSpec, NEW b \in BOOLEAN
  PROVE  /\ Blank(c, b) \in Object
         /\ [o EXCEPT !.spec = spec] \in Object
         /\ [o EXCEPT !.deleting = b] \in Object
         /\ [o EXCEPT !.finalizer = b] \in Object
         /\ [o EXCEPT !.cronJob = TRUE, !.sidecar = @ \/ b] \in Object
         /\ Gone(o) \in Object
BY DEF Blank, Gone, Object

\* A pass that has come to a place is in progress.
LEMMA PassFields ==
  ASSUME PassOK, NEW place \in Places, At(place)
  PROVE  /\ pass # NoPass /\ pass \in PassRecord
         /\ pass.at = place /\ pass.conf \in Confs /\ pass.seen \in Object
         /\ pass.target \in Nat \ {0}
         /\ pass.seen.exists
         /\ place \in UpkeepPlaces => pass.seen.finalizer /\ ~ pass.seen.deleting
         /\ place \in DeletionPlaces => pass.seen.deleting
         /\ place \in {"sidecar", "delete sidecar"} =>
              pass.target \in DOMAIN pass.seen.spec.targets /\ Target \in Workloads
<1>1. pass # NoPass
  <2>1. NoPass.at = "none" /\ "none" \notin Places
    BY DEF NoPass, Places, None
  <2> QED
    BY <2>1 DEF At
<1>2. pass \in PassRecord
  BY <1>1 DEF PassOK
<1>3. /\ pass.at = place /\ pass.conf \in Confs /\ pass.seen \in Object
      /\ pass.target \in Nat \ {0}
  BY <1>2 DEF PassRecord, At
<1>4. /\ pass.seen.exists
      /\ place \in UpkeepPlaces => pass.seen.finalizer /\ ~ pass.seen.deleting
      /\ place \in DeletionPlaces => pass.seen.deleting
      /\ place \in {"sidecar", "delete sidecar"} => pass.target \in DOMAIN pass.seen.spec.targets
  BY <1>1, <1>3 DEF PassOK
<1>5. pass.seen.spec.targets \in Seq(Workloads)
  BY <1>3, ObjectFields
<1>6. pass.target \in DOMAIN pass.seen.spec.targets => Target \in Workloads
  BY <1>5 DEF Target
<1> QED
  BY <1>1, <1>2, <1>3, <1>4, <1>6

\* The target after one that is not the last.
LEMMA NextInList ==
  ASSUME NEW targets \in Seq(Workloads), NEW k \in DOMAIN targets
  PROVE  /\ k \in Nat \ {0} /\ k + 1 \in Nat \ {0}
         /\ k # Len(targets) => k + 1 \in DOMAIN targets
OBVIOUS

\* A pass goes on for the same configuration and from the same copy.
SamePass(next) == next \in PassRecord /\ next.conf = pass.conf /\ next.seen = pass.seen

\* A pass that goes on to another place, or to another target.
LEMMA PassMoves ==
  ASSUME pass \in PassRecord, NEW place \in Places, NEW n \in Nat \ {0}
  PROVE  /\ SamePass([pass EXCEPT !.at = place])
         /\ [pass EXCEPT !.at = place].at = place
         /\ [pass EXCEPT !.at = place].target = pass.target
         /\ SamePass([pass EXCEPT !.target = n, !.at = place])
         /\ [pass EXCEPT !.target = n, !.at = place].at = place
         /\ [pass EXCEPT !.target = n, !.at = place].target = n
BY DEF PassRecord, SamePass

\* The steps of a pass in progress, as seen from the pass.
LEMMA PassGoesOn ==
  ASSUME Typed, Continue
  PROVE  /\ pass # NoPass /\ pass \in PassRecord
         /\ queue' \subseteq Confs
         /\ \/ pass' = NoPass
            \/ \E place \in Places, n \in Nat \ {0} :
                 /\ SamePass(pass') /\ pass'.at = place /\ pass'.target = n
                 /\ pass.at \in UpkeepPlaces <=> place \in UpkeepPlaces
                 /\ place \in {"sidecar", "delete sidecar"} =>
                      n \in DOMAIN pass.seen.spec.targets
                 /\ place \in {"cronjob", "creator"} => n = 1
<1> DEFINE Goes(place, n) ==
      /\ SamePass(pass') /\ pass'.at = place /\ pass'.target = n
      /\ pass.at \in UpkeepPlaces <=> place \in UpkeepPlaces
      /\ place \in {"sidecar", "delete sidecar"} => n \in DOMAIN pass.seen.spec.targets
      /\ place \in {"cronjob", "creator"} => n = 1
           Goal == /\ pass # NoPass /\ pass \in PassRecord
                   /\ queue' \subseteq Confs
                   /\ pass' = NoPass \/ \E place \in Places, n \in Nat \ {0} : Goes(place, n)
<1> SUFFICES Goal
  OBVIOUS
<1>1. PassOK /\ queue \subseteq Confs
  BY DEF Typed, TypeOK
<1>2. ASSUME NEW place \in Places, At(place), Abort PROVE Goal
  BY <1>1, <1>2, PassFields DEF Abort
<1>3. ASSUME NEW place \in Places, At(place), pass' = NoPass, queue' = queue PROVE Goal
  BY <1>1, <1>3, PassFields
<1>4. ASSUME NEW place \in Places, At(place), NEW next \in Places, GoTo(next),
             place \in UpkeepPlaces <=> next \in UpkeepPlaces,
             next \in {"sidecar", "delete sidecar"} => pass.target \in DOMAIN pass.seen.spec.targets,
             next \in {"cronjob", "creator"} => pass.target = 1
      PROVE  Goal
  <2>1. pass # NoPass /\ pass \in PassRecord /\ pass.at = place /\ pass.target \in Nat \ {0}
    BY <1>1, <1>4, PassFields
  <2>2. SamePass(pass') /\ pass'.at = next /\ pass'.target = pass.target /\ queue' = queue
    BY <1>4, <2>1, PassMoves DEF GoTo
  <2>3. Goes(next, pass.target)
    BY <1>4, <2>1, <2>2
  <2> HIDE DEF Goes
  <2> QED
    BY <1>1, <2>1, <2>2, <2>3
<1>5. ASSUME NEW here \in {"sidecar", "delete sidecar"}, At(here), NEW after \in Places,
             NextTarget(here, after), after \notin {"sidecar", "delete sidecar", "cronjob", "creator"},
             here \in UpkeepPlaces <=> after \in UpkeepPlaces
      PROVE  Goal
  <2> DEFINE n == pass.target + 1
             next == IF pass.target = Len(pass.seen.spec.targets) THEN after ELSE here
  <2>0. here \in Places
    BY DEF Places
  <2>1. /\ pass # NoPass /\ pass \in PassRecord /\ pass.at = here
        /\ pass.target \in DOMAIN pass.seen.spec.targets /\ pass.target \in Nat \ {0}
        /\ pass.seen.spec.targets \in Seq(Workloads)
    BY <1>1, <1>5, <2>0, PassFields, ObjectFields
  <2>2. n \in Nat \ {0} /\ next \in Places
    BY <2>0, <2>1, NextInList
  <2>3. SamePass(pass') /\ pass'.at = next /\ pass'.target = n /\ queue' = queue
    <3>1. pass' = [pass EXCEPT !.target = n, !.at = next] /\ queue' = queue
      BY <1>5 DEF NextTarget
    <3> HIDE DEF n, next
    <3>2. /\ SamePass([pass EXCEPT !.target = n, !.at = next])
          /\ [pass EXCEPT !.target = n, !.at = next].at = next
          /\ [pass EXCEPT !.target = n, !.at = next].target = n
      BY <2>1, <2>2, PassMoves, Zenon
    <3> QED
      BY <3>1, <3>2, Zenon
  <2>4. next = here => n \in DOMAIN pass.seen.spec.targets
    BY <1>5, <2>1, NextInList
  <2>5. Goes(next, n)
    <3>1. next \in {here, after}
      OBVIOUS
    <3> HIDE DEF next, n
    <3> QED
      BY <1>5, <2>1, <2>3, <2>4, <3>1
  <2> HIDE DEF Goes, next, n
  <2> QED
    BY <1>1, <2>1, <2>2, <2>3, <2>5
<1> USE DEF Places, UpkeepPlaces
<1>6. ASSUME NEW ok, AddCronJob(ok) PROVE Goal
  <2>1. At("cronjob") /\ (GoTo("creator") \/ Abort)
    BY <1>6 DEF AddCronJob
  <2>2. pass.target = 1
    BY <1>1, <2>1, PassFields DEF PassOK, At
  <2> HIDE DEF Goal
  <2> QED
    BY <1>2, <1>4, <2>1, <2>2
<1>7. CASE CreateBSCreatorRBAC
  <2>1. At("creator") /\ (GoTo(Loop("sidecar", "status")) \/ Abort)
    BY <1>7 DEF CreateBSCreatorRBAC
  <2>2. pass.target = 1 /\ pass.seen.spec.targets \in Seq(Workloads)
    BY <1>1, <2>1, PassFields, ObjectFields DEF PassOK, At
  <2>3. /\ Loop("sidecar", "status") \in {"sidecar", "status"}
        /\ Loop("sidecar", "status") = "sidecar" => 1 \in DOMAIN pass.seen.spec.targets
    BY <2>2 DEF Loop
  <2> HIDE DEF Goal
  <2> QED
    BY <1>2, <1>4, <2>1, <2>2, <2>3
<1>8. CASE AddSidecar \/ KeepSidecar \/ NoTarget \/ \E ok : UpdateSidecar(ok)
  <2>1. At("sidecar") /\ (NextTarget("sidecar", "status") \/ Abort)
    BY <1>8 DEF AddSidecar, KeepSidecar, NoTarget, UpdateSidecar
  <2> HIDE DEF Goal
  <2> QED
    BY <1>2, <1>5, <2>1
<1>9. ASSUME NEW ok, DeleteSidecar(ok) PROVE Goal
  <2>1. At("delete sidecar")
        /\ (NextTarget("delete sidecar", "delete cronjob") \/ GoTo("delete cronjob"))
    BY <1>9 DEF DeleteSidecar
  <2> HIDE DEF Goal
  <2> QED
    BY <1>4, <1>5, <2>1
<1>10. CASE DeleteRBAC \/ \E ok : DeleteCronJob(ok)
  <2>1. \/ At("delete rbac") /\ GoTo("finalizer")
        \/ At("delete cronjob") /\ GoTo("delete rbac")
    BY <1>10 DEF DeleteRBAC, DeleteCronJob
  <2> HIDE DEF Goal
  <2> QED
    BY <1>4, <2>1
<1>11. ASSUME NEW ok, UpdateStatus(ok) \/ RemoveFinalizer(ok) PROVE Goal
  <2>1. /\ At("status") \/ At("finalizer")
        /\ Abort \/ (pass' = NoPass /\ queue' = queue)
    BY <1>11 DEF UpdateStatus, RemoveFinalizer
  <2> HIDE DEF Goal
  <2> QED
    BY <1>2, <1>3, <2>1
<1> HIDE DEF Goal
<1> QED
  BY <1>6, <1>7, <1>8, <1>9, <1>10, <1>11 DEF Continue

-----------------------------------------------------------------------------
(* How a configuration may change in one step, read off its four fields    *)
(* that decide anything: it may be created, edited, condemned (deleted by  *)
(* a user while it has its finalizer), given its finalizer, and it may end.*)

Same(o, n) ==
  n.exists = o.exists /\ n.deleting = o.deleting /\ n.finalizer = o.finalizer /\ n.spec = o.spec

Created(o, n) ==
  /\ ~ o.exists /\ ~ o.deleting /\ ~ o.finalizer
  /\ n.exists /\ ~ n.deleting /\ ~ n.finalizer /\ n.spec = o.spec

Edited(o, n) ==
  /\ o.exists /\ ~ o.deleting
  /\ n.exists /\ ~ n.deleting /\ n.finalizer = o.finalizer /\ n.spec \in SpecEdits

Condemned(o, n) ==
  /\ o.exists /\ ~ o.deleting /\ o.finalizer
  /\ n.exists /\ n.deleting /\ n.finalizer /\ n.spec = o.spec

Finalized(o, n) ==
  /\ o.exists /\ ~ o.deleting /\ ~ o.finalizer
  /\ n.exists /\ ~ n.deleting /\ n.finalizer /\ n.spec = o.spec

\* It ends when a user deletes it before it has its finalizer, or when a
\* pass that works from its present state removes the finalizer.
Ended(c, o, n) ==
  /\ o.exists
  /\ ~ n.exists /\ n.deleting /\ ~ n.finalizer /\ n.spec = o.spec
  /\ \/ ~ o.deleting /\ ~ o.finalizer
     \/ At("finalizer") /\ pass.conf = c /\ pass.seen = o /\ pass' = NoPass

Changes(c, o, n) ==
  \/ Same(o, n) \/ Created(o, n) \/ Edited(o, n)
  \/ Condemned(o, n) \/ Finalized(o, n) \/ Ended(c, o, n)

ConfMoves == confs' \in [Confs -> Object] /\ \A d \in Confs : Changes(d, confs[d], confs'[d])

\* One configuration changes and the others do not.
LEMMA OneConfMoves ==
  ASSUME confs \in [Confs -> Object], NEW c \in Confs, NEW n \in Object,
         confs' = [confs EXCEPT ![c] = n], Changes(c, confs[c], n)
  PROVE  ConfMoves
<1>1. confs' \in [Confs -> Object] /\ confs'[c] = n
  OBVIOUS
<1>2. ASSUME NEW d \in Confs PROVE Changes(d, confs[d], confs'[d])
  <2>1. CASE d = c
    BY <1>1, <2>1
  <2>2. CASE d # c
    <3>1. confs'[d] = confs[d]
      BY <2>2
    <3> QED
      BY <3>1 DEF Changes, Same
  <2> QED
    BY <2>1, <2>2
<1> QED
  BY <1>1, <1>2 DEF ConfMoves

\* What the writes do to the fields.
LEMMA WrittenFields ==
  ASSUME NEW c \in Confs, NEW o \in Object, NEW spec \in ConfSpec, NEW b \in BOOLEAN
  PROVE  /\ Created(Blank(c, FALSE), Blank(c, TRUE))
         /\ [o EXCEPT !.spec = spec].spec = spec
         /\ [o EXCEPT !.spec = spec].exists = o.exists
         /\ [o EXCEPT !.spec = spec].deleting = o.deleting
         /\ [o EXCEPT !.spec = spec].finalizer = o.finalizer
         /\ o.exists /\ ~ o.deleting /\ o.finalizer => Condemned(o, [o EXCEPT !.deleting = TRUE])
         /\ o.exists /\ ~ o.deleting /\ ~ o.finalizer => Finalized(o, [o EXCEPT !.finalizer = TRUE])
         /\ Same(o, [o EXCEPT !.cronJob = TRUE, !.sidecar = b])
BY DEF Blank, Object, Created, Condemned, Finalized, Same

\* A configuration that is gone.
LEMMA GoneFields ==
  ASSUME NEW o \in Object
  PROVE  ~ Gone(o).exists /\ Gone(o).deleting /\ ~ Gone(o).finalizer /\ Gone(o).spec = o.spec
BY DEF Object, Gone

\* Every step changes a configuration in one of those ways.
LEMMA ConfsMove == ASSUME Typed, [Next]_vars PROVE ConfMoves
<1>1. confs \in [Confs -> Object] /\ PassOK
  BY DEF Typed, TypeOK
<1>2. ASSUME confs' = confs PROVE ConfMoves
  BY <1>1, <1>2 DEF ConfMoves, Changes, Same
<1>3. ASSUME NEW c \in Confs, Create(c) PROVE ConfMoves
  <2>1. confs' = [confs EXCEPT ![c] = Blank(c, TRUE)] /\ confs[c] = Blank(c, FALSE)
    BY <1>3 DEF Create
  <2>2. Blank(c, TRUE) \in Object /\ Created(Blank(c, FALSE), Blank(c, TRUE))
    BY DEF Blank, Object, Created
  <2> QED
    BY <1>1, <2>1, <2>2, OneConfMoves DEF Changes
<1>4. ASSUME NEW c \in Confs, Edit(c) PROVE ConfMoves
  <2>1. PICK spec \in SpecEdits : confs' = [confs EXCEPT ![c] = [confs[c] EXCEPT !.spec = spec]]
    BY <1>4 DEF Edit
  <2> DEFINE n == [confs[c] EXCEPT !.spec = spec]
  <2>2. spec \in ConfSpec /\ confs[c].exists /\ ~ confs[c].deleting
    BY <1>4 DEF Edit
  <2>3. n \in Object /\ n.spec = spec /\ n.exists = confs[c].exists
        /\ n.deleting = confs[c].deleting /\ n.finalizer = confs[c].finalizer
    <3>1. confs[c] \in Object
      BY <1>1
    <3> QED
      BY <2>2, <3>1 DEF Object
  <2>4. confs' = [confs EXCEPT ![c] = n]
    BY <2>1
  <2> HIDE DEF n
  <2>5. Edited(confs[c], n)
    BY <2>2, <2>3 DEF Edited
  <2> QED
    BY <1>1, <2>3, <2>4, <2>5, OneConfMoves DEF Changes
<1>5. ASSUME NEW c \in Confs, Delete(c) PROVE ConfMoves
  <2> DEFINE o == confs[c]
             n == IF o.finalizer THEN [o EXCEPT !.deleting = TRUE] ELSE Gone(o)
  <2>1. confs' = [confs EXCEPT ![c] = n] /\ o.exists /\ ~ o.deleting /\ o \in Object
    BY <1>1, <1>5 DEF Delete
  <2>2. [o EXCEPT !.deleting = TRUE] \in Object /\ Gone(o) \in Object
    BY <1>1, ObjectWrites
  <2>3. o.finalizer => Condemned(o, [o EXCEPT !.deleting = TRUE])
    BY <2>1, WrittenFields
  <2>4. ~ o.finalizer => Ended(c, o, Gone(o))
    BY <2>1, GoneFields DEF Ended
  <2> HIDE DEF o
  <2>5. n \in Object /\ Changes(c, o, n)
    BY <2>2, <2>3, <2>4 DEF Changes
  <2> HIDE DEF n
  <2> QED
    BY <1>1, <2>1, <2>5, OneConfMoves DEF o
<1>6. ASSUME NEW c \in Confs, ReconcileFinalizer(c) PROVE ConfMoves
  <2> DEFINE n == [confs[c] EXCEPT !.finalizer = TRUE]
  <2>1. /\ confs' = [confs EXCEPT ![c] = n]
        /\ confs[c].exists /\ ~ confs[c].deleting /\ ~ confs[c].finalizer
    BY <1>6 DEF ReconcileFinalizer
  <2>2. n \in Object /\ Finalized(confs[c], n)
    BY <1>1, <2>1, ObjectWrites, WrittenFields
  <2> HIDE DEF n
  <2> QED
    BY <1>1, <2>1, <2>2, OneConfMoves DEF Changes
<1>7. ASSUME NEW ok, UpdateStatus(ok) PROVE ConfMoves
  <2>1. CASE confs' = confs
    BY <1>2, <2>1
  <2>2. CASE confs' # confs
    <3> DEFINE c == pass.conf
               b == confs[c].sidecar \/ pass.seen.spec.targets # <<>>
               n == [confs[c] EXCEPT !.cronJob = TRUE, !.sidecar = b]
    <3>1. c \in Confs /\ confs[c] \in Object
      BY <1>1, <1>7, PassFields DEF UpdateStatus, Places
    <3>2. b \in BOOLEAN
      BY <3>1, ObjectFields
    <3>3. confs' = [confs EXCEPT ![c] = n]
      BY <1>7, <2>2, <1>1 DEF UpdateStatus
    <3> HIDE DEF b
    <3>4. n \in Object /\ Same(confs[c], n)
      <4>1. n \in Object
        BY <3>1, <3>2 DEF Object
      <4> QED
        BY <3>1, <3>2, <4>1, WrittenFields DEF ConfSpec
    <3> HIDE DEF n, c
    <3> QED
      BY <1>1, <3>1, <3>3, <3>4, OneConfMoves DEF Changes
  <2> QED
    BY <2>1, <2>2
<1>8. ASSUME NEW ok, RemoveFinalizer(ok) PROVE ConfMoves
  <2>1. CASE confs' = confs
    BY <1>2, <2>1
  <2>2. CASE confs' # confs
    <3> DEFINE c == pass.conf
    <3>1. c \in Confs /\ confs[c] \in Object /\ pass.seen.exists /\ At("finalizer")
      BY <1>1, <1>8, PassFields DEF RemoveFinalizer, Places
    <3>2. confs' = [confs EXCEPT ![c] = Gone(confs[c])] /\ pass' = NoPass /\ pass.seen = confs[c]
      BY <1>8, <2>2 DEF RemoveFinalizer
    <3>3. Gone(confs[c]) \in Object
      BY <3>1, ObjectWrites DEF ConfSpec
    <3>4. Ended(c, confs[c], Gone(confs[c]))
      <4>1. /\ ~ Gone(confs[c]).exists /\ Gone(confs[c]).deleting /\ ~ Gone(confs[c]).finalizer
            /\ Gone(confs[c]).spec = confs[c].spec
        BY <3>1, GoneFields
      <4> QED
        BY <3>1, <3>2, <4>1, Zenon DEF Ended
    <3> QED
      BY <1>1, <3>1, <3>2, <3>3, <3>4, OneConfMoves DEF Changes
  <2> QED
    BY <2>1, <2>2
<1>9. ASSUME \/ \E w \in Workloads : Redeploy(w)
             \/ \E c \in Confs : \/ Sync(c) \/ ReconcileGone(c) \/ ReconcileDeletion(c)
                                 \/ ReconcileUpkeep(c) \/ Collect(c)
             \/ Resync \/ Restart \/ UNCHANGED vars
      PROVE  ConfMoves
  <2>1. confs' = confs
    BY <1>9 DEF Redeploy, Sync, ReconcileGone, ReconcileDeletion, ReconcileUpkeep, Collect,
                Resync, Restart, vars
  <2> QED
    BY <1>2, <2>1
<1>10. ASSUME \/ CreateBSCreatorRBAC \/ AddSidecar \/ KeepSidecar \/ NoTarget \/ DeleteRBAC
              \/ \E ok : AddCronJob(ok) \/ UpdateSidecar(ok) \/ DeleteSidecar(ok) \/ DeleteCronJob(ok)
       PROVE  ConfMoves
  <2>1. confs' = confs
    BY <1>10 DEF CreateBSCreatorRBAC, AddSidecar, KeepSidecar, NoTarget, DeleteRBAC,
                 AddCronJob, UpdateSidecar, DeleteSidecar, DeleteCronJob
  <2> QED
    BY <1>2, <2>1
<1>11. CASE Users
  BY <1>3, <1>4, <1>5, <1>9, <1>11 DEF Users
<1>12. CASE Continue
  BY <1>7, <1>8, <1>10, <1>12 DEF Continue
<1>13. CASE \E c \in Confs : Sync(c) \/ Reconcile(c) \/ Collect(c)
  BY <1>6, <1>9, <1>13 DEF Reconcile
<1> QED
  BY <1>9, <1>11, <1>12, <1>13 DEF Next

-----------------------------------------------------------------------------
(* How the rest changes in one step.                                       *)

\* The informer's copies: one, or all of them, become what the
\* configurations are, and nothing else is written then.
LEMMA SeenMoves ==
  ASSUME Typed, [Next]_vars
  PROVE  /\ seen' \in [Confs -> Object]
         /\ \/ seen' = seen
            \/ confs' = confs /\ \A d \in Confs : seen'[d] \in {seen[d], confs[d]}
<1>1. confs \in [Confs -> Object] /\ seen \in [Confs -> Object]
  BY DEF Typed, TypeOK
<1>2. ASSUME NEW c \in Confs, Sync(c)
      PROVE  /\ seen' \in [Confs -> Object] /\ confs' = confs
             /\ \A d \in Confs : seen'[d] \in {seen[d], confs[d]}
  BY <1>1, <1>2 DEF Sync
<1>3. CASE Restart
  BY <1>1, <1>3 DEF Restart
<1>4. CASE Users \/ Resync \/ Continue \/ UNCHANGED vars
  <2>1. seen' = seen
    BY <1>4 DEF Users, Create, Edit, Delete, Redeploy, Resync, Continue, AddCronJob,
         CreateBSCreatorRBAC, AddSidecar, KeepSidecar, NoTarget, UpdateSidecar, UpdateStatus,
         DeleteSidecar, DeleteCronJob, DeleteRBAC, RemoveFinalizer, vars
  <2> QED
    BY <1>1, <2>1
<1>5. ASSUME NEW c \in Confs, Reconcile(c) \/ Collect(c) PROVE seen' = seen
  BY <1>5 DEF Reconcile, ReconcileGone, ReconcileDeletion, ReconcileFinalizer, ReconcileUpkeep, Collect
<1> QED
  BY <1>1, <1>2, <1>3, <1>4, <1>5 DEF Next

\* A pass begins from the copy in the cache.
Begins(c) ==
  /\ pass = NoPass /\ UNCHANGED <<confs, seen, made, bounds>>
  /\ seen[c].exists
  /\ pass' \in PassRecord /\ pass'.conf = c /\ pass'.seen = seen[c] /\ pass'.target = 1
  /\ \/ /\ pass'.at = "cronjob"
        /\ seen[c].finalizer /\ ~ seen[c].deleting
     \/ /\ pass'.at = "delete sidecar"
        /\ seen[c].deleting /\ 1 \in DOMAIN seen[c].spec.targets
     \/ /\ pass'.at = "delete cronjob"
        /\ seen[c].deleting /\ seen[c].spec.targets = <<>>

\* The queue and the pass: a pass begins, goes on, ends or is not concerned.
LEMMA PassStep ==
  ASSUME Typed, [Next]_vars
  PROVE  /\ queue' \subseteq Confs
         /\ \/ pass' = NoPass \/ pass' = pass
            \/ \E c \in Confs : Begins(c)
            \/ Continue
<1>1. seen \in [Confs -> Object] /\ queue \subseteq Confs
  BY DEF Typed, TypeOK
<1>2. ASSUME NEW c \in Confs, ReconcileDeletion(c) PROVE queue' \subseteq Confs /\ Begins(c)
  <2> DEFINE place == IF seen[c].spec.targets = <<>> THEN "delete cronjob" ELSE "delete sidecar"
  <2>1. /\ pass' = [at |-> place, conf |-> c, seen |-> seen[c], target |-> 1]
        /\ pass = NoPass /\ UNCHANGED <<confs, seen, made, bounds>>
        /\ queue' = queue \ {c} /\ seen[c].exists /\ seen[c].deleting
    BY <1>2 DEF ReconcileDeletion, Pass
  <2>2. seen[c] \in Object /\ seen[c].spec.targets \in Seq(Workloads)
    BY <1>1, ObjectFields
  <2>3. /\ place \in {"delete cronjob", "delete sidecar"} /\ place \in Places
        /\ place = "delete cronjob" => seen[c].spec.targets = <<>>
        /\ place = "delete sidecar" => 1 \in DOMAIN seen[c].spec.targets
    BY <2>2 DEF Places
  <2> HIDE DEF place
  <2>4. /\ pass' \in PassRecord /\ pass'.at = place /\ pass'.conf = c
        /\ pass'.seen = seen[c] /\ pass'.target = 1
    <3>1. [at |-> place, conf |-> c, seen |-> seen[c], target |-> 1] \in PassRecord
      <4>1. seen[c] \in Object
        BY <1>1
      <4>2. place \in Places
        BY <2>3, Zenon
      <4>3. 1 \in Nat \ {0}
        OBVIOUS
      <4> QED
        BY <4>1, <4>2, <4>3, Zenon DEF PassRecord
    <3> QED
      BY <2>1, <3>1
  <2> QED
    BY <1>1, <2>1, <2>3, <2>4 DEF Begins
<1>3. ASSUME NEW c \in Confs, ReconcileUpkeep(c) PROVE queue' \subseteq Confs /\ Begins(c)
  <2>1. /\ pass' = [at |-> "cronjob", conf |-> c, seen |-> seen[c], target |-> 1]
        /\ pass = NoPass /\ UNCHANGED <<confs, seen, made, bounds>>
        /\ queue' = queue \ {c} /\ seen[c].exists /\ ~ seen[c].deleting /\ seen[c].finalizer
    BY <1>3 DEF ReconcileUpkeep, Pass
  <2>2. /\ pass' \in PassRecord /\ pass'.at = "cronjob" /\ pass'.conf = c
        /\ pass'.seen = seen[c] /\ pass'.target = 1
    BY <1>1, <2>1 DEF PassRecord, Places
  <2> QED
    BY <1>1, <2>1, <2>2 DEF Begins
<1>4. CASE Continue
  BY <1>4, PassGoesOn
<1>5. CASE Users \/ Resync \/ Restart \/ UNCHANGED vars
  <2>1. CASE Users \/ UNCHANGED vars
    BY <1>1, <2>1 DEF Users, Create, Edit, Delete, Redeploy, vars
  <2>2. CASE Resync \/ Restart
    BY <1>1, <2>2 DEF Resync, Restart
  <2> QED
    BY <1>5, <2>1, <2>2
<1>6. ASSUME NEW c \in Confs, Sync(c) \/ ReconcileGone(c) \/ ReconcileFinalizer(c) \/ Collect(c)
      PROVE  queue' \subseteq Confs /\ pass' = pass
  BY <1>1, <1>6 DEF Sync, ReconcileGone, ReconcileFinalizer, Collect
<1> QED
  BY <1>2, <1>3, <1>4, <1>5, <1>6 DEF Next, Reconcile

\* What is known of a pass stays known.
LEMMA PassTyped == ASSUME Typed, [Next]_vars PROVE PassOK'
<1>1. PassOK
  BY DEF Typed
<1>2. CASE pass' = NoPass
  BY <1>2 DEF PassOK
<1>3. CASE pass' = pass
  BY <1>1, <1>3 DEF PassOK
<1>4. ASSUME NEW c \in Confs, Begins(c) PROVE PassOK'
  BY <1>4 DEF Begins, PassOK, UpkeepPlaces, DeletionPlaces
<1>5. CASE Continue
  <2>1. pass # NoPass /\ pass \in PassRecord
    BY <1>5, PassGoesOn
  <2>2. CASE pass' # NoPass
    <3>1. PICK place \in Places, n \in Nat \ {0} :
            /\ SamePass(pass') /\ pass'.at = place /\ pass'.target = n
            /\ pass.at \in UpkeepPlaces <=> place \in UpkeepPlaces
            /\ place \in {"sidecar", "delete sidecar"} => n \in DOMAIN pass.seen.spec.targets
            /\ place \in {"cronjob", "creator"} => n = 1
      BY <1>5, <2>2, PassGoesOn, Zenon
    <3>2. /\ pass.seen.exists
          /\ pass.at \in UpkeepPlaces => pass.seen.finalizer /\ ~ pass.seen.deleting
          /\ pass.at \in DeletionPlaces => pass.seen.deleting
      BY <1>1, <2>1 DEF PassOK
    <3>3. /\ pass.at \in Places
          /\ \A p \in Places : p \in DeletionPlaces <=> p \notin UpkeepPlaces
      BY <2>1 DEF PassRecord, Places, DeletionPlaces, UpkeepPlaces
    <3> QED
      BY <3>1, <3>2, <3>3 DEF PassOK, SamePass
  <2> QED
    BY <1>2, <2>2
<1> QED
  BY <1>2, <1>3, <1>4, <1>5, PassStep

\* Workloads as they may be.
WorkloadRecord == [exists : BOOLEAN, sidecar : Images \cup {None}]

\* What the controller and users have made has its type.
MadeTyped ==
  /\ cronJobs \in [Confs -> Plans \cup {None}]
  /\ refused \in 0..MaxRefusals
  /\ workloads \in [Workloads -> WorkloadRecord]
  /\ rbac \subseteq RBAC

\* A sidecar is written into a workload.
LEMMA SidecarWritten ==
  ASSUME workloads \in [Workloads -> WorkloadRecord], NEW w \in Workloads,
         NEW image \in Images \cup {None}, SetSidecar(w, image)
  PROVE  /\ workloads' \in [Workloads -> WorkloadRecord]
         /\ \A v \in Workloads : workloads'[v].exists = workloads[v].exists
         /\ workloads'[w].sidecar = image
         /\ \A v \in Workloads : v # w => workloads'[v] = workloads[v]
BY DEF SetSidecar, WorkloadRecord

\* An answer is counted.
LEMMA AnswerCounted ==
  ASSUME refused \in 0..MaxRefusals, NEW ok \in Answers, Answered(ok)
  PROVE  /\ ok \in BOOLEAN
         /\ refused' \in 0..MaxRefusals
         /\ refused <= refused'
         /\ ~ ok => refused < refused'
<1>1. ok \in BOOLEAN /\ (refused < MaxRefusals \/ ok = TRUE)
  BY DEF Answers
<1>2. CASE ok = TRUE
  BY <1>2 DEF Answered
<1>3. CASE ok = FALSE
  BY <1>1, <1>3 DEF Answered
<1> QED
  BY <1>1, <1>2, <1>3

\* So is the answer to several requests.
LEMMA GrantsCounted ==
  ASSUME refused \in 0..MaxRefusals, NEW k \in Nat, NEW n \in Granted(k), Answered(n = k)
  PROVE  /\ n \in 0..k
         /\ refused' \in 0..MaxRefusals
         /\ refused <= refused'
         /\ n # k => refused < refused'
BY DEF Granted, Answered

\* There are seven roles, bindings and accounts at most.
LEMMA RBACFinite == IsFiniteSet(RBAC)
<1>1. RBAC = {CreatorRBAC[1], CreatorRBAC[2], CreatorRBAC[3], SidecarRBAC[1], SidecarRBAC[2],
              SidecarRBAC[3], SidecarRBAC[4]}
  BY DEF RBAC
<1> HIDE DEF RBAC
<1>2. \A x : IsFiniteSet({x})
  BY FS_Singleton
<1>3. \A x, S : IsFiniteSet(S) => IsFiniteSet(S \cup {x})
  BY FS_AddElement
<1>4. IsFiniteSet({CreatorRBAC[1]} \cup {CreatorRBAC[2]} \cup {CreatorRBAC[3]} \cup {SidecarRBAC[1]}
                  \cup {SidecarRBAC[2]} \cup {SidecarRBAC[3]} \cup {SidecarRBAC[4]})
  BY <1>2, <1>3, Zenon
<1>5. RBAC = {CreatorRBAC[1]} \cup {CreatorRBAC[2]} \cup {CreatorRBAC[3]} \cup {SidecarRBAC[1]}
             \cup {SidecarRBAC[2]} \cup {SidecarRBAC[3]} \cup {SidecarRBAC[4]}
  BY <1>1
<1> QED
  BY <1>4, <1>5

\* The steps of a pass keep those types.
LEMMA ContinueMade == ASSUME Typed, Continue PROVE MadeTyped'
<1>1. /\ MadeTyped /\ PassOK
      /\ cronJobs \in [Confs -> Plans \cup {None}] /\ refused \in 0..MaxRefusals
      /\ workloads \in [Workloads -> WorkloadRecord] /\ rbac \subseteq RBAC
  BY DEF Typed, TypeOK, MadeTyped, WorkloadRecord
<1>2. ASSUME NEW place \in Places, At(place)
      PROVE  /\ pass.conf \in Confs
             /\ pass.seen.spec.plan \in Plans /\ pass.seen.spec.image \in Images
             /\ place \in {"sidecar", "delete sidecar"} => Target \in Workloads
  <2>1. pass.conf \in Confs /\ pass.seen \in Object
        /\ (place \in {"sidecar", "delete sidecar"} => Target \in Workloads)
    BY <1>1, <1>2, PassFields
  <2> QED
    BY <2>1, ObjectFields
<1> USE DEF Places
<1>3. ASSUME NEW ok \in Answers, AddCronJob(ok) \/ DeleteCronJob(ok) PROVE MadeTyped'
  <2>1. (At("cronjob") \/ At("delete cronjob")) /\ Answered(ok)
    BY <1>3 DEF AddCronJob, DeleteCronJob
  <2>2. pass.conf \in Confs /\ pass.seen.spec.plan \in Plans
    BY <1>2, <2>1
  <2>3. refused' \in 0..MaxRefusals
    BY <1>1, <2>1, AnswerCounted
  <2>4. workloads' = workloads /\ rbac' = rbac
    BY <1>3 DEF AddCronJob, DeleteCronJob
  <2>5. cronJobs' \in [Confs -> Plans \cup {None}]
    BY <1>1, <1>3, <2>2 DEF AddCronJob, DeleteCronJob
  <2> QED
    BY <1>1, <2>3, <2>4, <2>5 DEF MadeTyped
<1>4. CASE CreateBSCreatorRBAC
  <2>1. PICK n \in Granted(3) : rbac' = rbac \cup {CreatorRBAC[i] : i \in 1..n} /\ Answered(n = 3)
    BY <1>4 DEF CreateBSCreatorRBAC
  <2>2. n \in 0..3 /\ refused' \in 0..MaxRefusals
    BY <1>1, <2>1, GrantsCounted
  <2>3. rbac' \subseteq RBAC
    BY <1>1, <2>1, <2>2 DEF RBAC
  <2>4. UNCHANGED <<cronJobs, workloads>>
    BY <1>4 DEF CreateBSCreatorRBAC
  <2> QED
    BY <1>1, <2>2, <2>3, <2>4 DEF MadeTyped
<1>5. CASE AddSidecar
  <2>1. PICK n \in Granted(5) :
          /\ CreateSidecarRBAC(Account[Target], n) /\ Answered(n = 5)
          /\ SetSidecar(Target, pass.seen.spec.image) \/ workloads' = workloads
    BY <1>5 DEF AddSidecar
  <2>2. n \in 0..5 /\ refused' \in 0..MaxRefusals
    BY <1>1, <2>1, GrantsCounted
  <2>3. rbac' \subseteq RBAC
    BY <1>1, <2>1, <2>2 DEF RBAC, CreateSidecarRBAC
  <2>4. cronJobs' = cronJobs /\ At("sidecar")
    BY <1>5 DEF AddSidecar
  <2>5. Target \in Workloads /\ pass.seen.spec.image \in Images
    BY <1>2, <2>4
  <2>6. workloads' \in [Workloads -> WorkloadRecord]
    BY <1>1, <2>1, <2>5, SidecarWritten
  <2> QED
    BY <1>1, <2>2, <2>3, <2>4, <2>6 DEF MadeTyped
<1>6. ASSUME NEW ok \in Answers, UpdateSidecar(ok) \/ DeleteSidecar(ok) PROVE MadeTyped'
  <2>1. /\ At("sidecar") \/ At("delete sidecar")
        /\ Answered(ok) /\ UNCHANGED <<cronJobs, rbac>>
        /\ \/ SetSidecar(Target, pass.seen.spec.image) \/ SetSidecar(Target, None)
           \/ workloads' = workloads
    BY <1>6 DEF UpdateSidecar, DeleteSidecar
  <2>2. Target \in Workloads /\ pass.seen.spec.image \in Images
    BY <1>2, <2>1
  <2>3. workloads' \in [Workloads -> WorkloadRecord]
    BY <1>1, <2>1, <2>2, SidecarWritten
  <2>4. refused' \in 0..MaxRefusals
    BY <1>1, <2>1, AnswerCounted
  <2> QED
    BY <1>1, <2>1, <2>3, <2>4 DEF MadeTyped
<1>7. CASE KeepSidecar \/ NoTarget
  BY <1>1, <1>7 DEF KeepSidecar, NoTarget, MadeTyped, made, bounds
<1>8. ASSUME NEW ok \in Answers, UpdateStatus(ok) \/ RemoveFinalizer(ok) PROVE MadeTyped'
  <2>1. Answered(ok) /\ UNCHANGED <<cronJobs, workloads, rbac>>
    BY <1>8 DEF UpdateStatus, RemoveFinalizer, made
  <2> QED
    BY <1>1, <2>1, AnswerCounted DEF MadeTyped
<1>9. CASE DeleteRBAC
  <2>1. PICK left \in SUBSET rbac :
          refused + Cardinality(left) <= MaxRefusals
          /\ refused' = refused + Cardinality(left) /\ rbac' = left
    BY <1>9 DEF DeleteRBAC
  <2>2. Cardinality(left) \in Nat
    BY <1>1, <2>1, RBACFinite, FS_Subset, FS_CardinalityType
  <2>3. refused' \in 0..MaxRefusals /\ rbac' \subseteq RBAC
    BY <1>1, <2>1, <2>2
  <2>4. UNCHANGED <<cronJobs, workloads>>
    BY <1>9 DEF DeleteRBAC
  <2> QED
    BY <1>1, <2>3, <2>4 DEF MadeTyped
<1> QED
  BY <1>3, <1>4, <1>5, <1>6, <1>7, <1>8, <1>9 DEF Continue

\* Each step keeps every type.
LEMMA TypedStep == ASSUME Typed, [Next]_vars PROVE Typed'
<1>1. MadeTyped
  BY DEF Typed, TypeOK, MadeTyped, WorkloadRecord
<1>2. MadeTyped'
  <2>1. CASE Continue
    BY <2>1, ContinueMade
  <2>2. ASSUME NEW w \in Workloads, Redeploy(w) PROVE MadeTyped'
    <3>1. workloads' \in [Workloads -> WorkloadRecord]
      BY <1>1, <2>2 DEF Redeploy, MadeTyped, WorkloadRecord
    <3> QED
      BY <1>1, <2>2, <3>1 DEF Redeploy, MadeTyped
  <2>3. ASSUME NEW c \in Confs, Collect(c) PROVE MadeTyped'
    BY <1>1, <2>3 DEF Collect, MadeTyped, bounds
  <2>4. ASSUME NEW c \in Confs,
               Create(c) \/ Edit(c) \/ Delete(c) \/ Sync(c) \/ Reconcile(c)
        PROVE  MadeTyped'
    BY <1>1, <2>4 DEF Create, Edit, Delete, Sync, Reconcile, ReconcileGone, ReconcileDeletion,
                      ReconcileFinalizer, ReconcileUpkeep, MadeTyped, made, bounds
  <2>5. CASE Resync \/ Restart \/ UNCHANGED vars
    BY <1>1, <2>5 DEF Resync, Restart, vars, MadeTyped, made, bounds
  <2> QED
    BY <2>1, <2>2, <2>3, <2>4, <2>5 DEF Next, Users
<1>3. confs' \in [Confs -> Object] /\ seen' \in [Confs -> Object] /\ queue' \subseteq Confs
  BY ConfsMove, SeenMoves, PassStep DEF ConfMoves
<1>4. PassOK'
  BY PassTyped
<1>5. \/ pass' = NoPass
      \/ /\ pass'.at \in Places
         /\ pass'.seen \in Object /\ pass'.seen.exists
         /\ pass'.at \in {"sidecar", "delete sidecar"} =>
              pass'.target \in DOMAIN pass'.seen.spec.targets
  BY <1>4 DEF PassOK, PassRecord
<1> QED
  BY <1>2, <1>3, <1>4, <1>5 DEF Typed, TypeOK, MadeTyped, WorkloadRecord

\* The types at first.
LEMMA TypedInit == Init => Typed
<1> SUFFICES ASSUME Init PROVE Typed
  OBVIOUS
<1>1. \A c \in Confs : Blank(c, FALSE) \in Object
  BY DEF Blank, Object
<1>2. confs \in [Confs -> Object] /\ seen \in [Confs -> Object]
  BY <1>1 DEF Init
<1>3. cronJobs \in [Confs -> Plans \cup {None}] /\ queue = {} /\ pass = NoPass /\ rbac = {}
  BY DEF Init
<1>4. workloads \in [Workloads -> [exists : BOOLEAN, sidecar : Images \cup {None}]]
  BY DEF Init
<1>5. refused \in 0..MaxRefusals
  BY DEF Init
<1> QED
  BY <1>2, <1>3, <1>4, <1>5 DEF Typed, TypeOK, PassOK

\* The variables always have their types; a pass in progress works from a
\* copy of a configuration that was there, and has one of its targets at
\* hand: a configuration that is edited while the pass goes on does not
\* take the list of targets from under it.
THEOREM ConfTypeCorrect == Spec => []TypeOK
<1>1. Typed /\ [Next]_vars => Typed'
  BY TypedStep
<1>2. Typed => TypeOK
  BY DEF Typed
<1> QED
  BY <1>1, <1>2, TypedInit, PTL DEF Spec

-----------------------------------------------------------------------------
(* Copies of a configuration may be old, but not in everything.            *)

\* The configuration is gone for good.
IsGone(p) == p.deleting /\ ~ p.exists

\* What a copy o of a configuration, however old, says of the configuration
\* p as it is now.
CopyOf(o, p) ==
  /\ o.deleting => p.deleting /\ o.spec = p.spec
  /\ o.finalizer => p.finalizer \/ IsGone(p)
  /\ o.finalizer /\ IsGone(p) => o.deleting

Copies ==
  /\ \A c \in Confs : CopyOf(seen[c], confs[c])
  /\ \A c \in Confs : confs[c].deleting /\ confs[c].exists => confs[c].finalizer
  /\ \A c \in Confs : confs[c].finalizer => confs[c].exists
  /\ pass # NoPass => /\ CopyOf(pass.seen, confs[pass.conf])
                      /\ pass.seen.deleting => seen[pass.conf].deleting

\* A copy stays a copy, unless the configuration ends and the copy has not
\* heard of the deletion.
LEMMA CopyStays ==
  ASSUME NEW c \in Confs, NEW o, CopyOf(o, confs[c]), ConfMoves,
         At("finalizer") /\ pass.conf = c /\ pass' = NoPass => o.deleting
  PROVE  CopyOf(o, confs'[c])
<1> DEFINE p == confs[c]
           n == confs'[c]
<1>1. Changes(c, p, n)
  BY DEF ConfMoves
<1>2. CopyOf(o, p)
  OBVIOUS
<1> SUFFICES CopyOf(o, n)
  OBVIOUS
<1> HIDE DEF p, n
<1> QED
  BY <1>1, <1>2
  DEF CopyOf, IsGone, Changes, Same, Created, Edited, Condemned, Finalized, Ended

\* The copies stay copies.
LEMMA CopiesStep == ASSUME Typed, Copies, [Next]_vars PROVE Copies'
<1>1. /\ ConfMoves /\ PassOK
      /\ confs \in [Confs -> Object] /\ seen \in [Confs -> Object]
  BY ConfsMove DEF Typed, TypeOK
<1>2. ASSUME NEW c \in Confs, At("finalizer"), pass.conf = c
      PROVE  seen[c].deleting
  <2>1. pass # NoPass /\ pass.seen.deleting
    BY <1>1, <1>2, PassFields DEF Places, DeletionPlaces
  <2> QED
    BY <1>2, <2>1 DEF Copies
<1>3. ASSUME NEW c \in Confs PROVE CopyOf(seen'[c], confs'[c])
  <2>1. CopyOf(seen[c], confs[c])
    BY DEF Copies
  <2>2. CASE seen' = seen
    BY <1>1, <1>2, <2>1, <2>2, CopyStays
  <2>3. CASE confs' = confs /\ seen'[c] = seen[c]
    BY <2>1, <2>3
  <2>4. CASE confs' = confs /\ seen'[c] = confs[c]
    BY <2>4 DEF CopyOf, IsGone
  <2> QED
    BY <2>2, <2>3, <2>4, SeenMoves
<1>4. ASSUME NEW c \in Confs
      PROVE  /\ confs'[c].deleting /\ confs'[c].exists => confs'[c].finalizer
             /\ confs'[c].finalizer => confs'[c].exists
  <2>1. Changes(c, confs[c], confs'[c])
    BY <1>1 DEF ConfMoves
  <2>2. /\ confs[c].deleting /\ confs[c].exists => confs[c].finalizer
        /\ confs[c].finalizer => confs[c].exists
    BY DEF Copies
  <2> QED
    BY <2>1, <2>2
    DEF Changes, Same, Created, Edited, Condemned, Finalized, Ended
<1>5. ASSUME pass' # NoPass
      PROVE  /\ CopyOf(pass'.seen, confs'[pass'.conf])
             /\ pass'.seen.deleting => seen'[pass'.conf].deleting
  <2> DEFINE Goal == /\ CopyOf(pass'.seen, confs'[pass'.conf])
                     /\ pass'.seen.deleting => seen'[pass'.conf].deleting
  <2> SUFFICES Goal
    OBVIOUS
  <2>1. ASSUME pass # NoPass, pass'.conf = pass.conf, pass'.seen = pass.seen PROVE Goal
    <3> DEFINE c == pass.conf
               o == pass.seen
    <3>1. c \in Confs
      BY <1>1, <2>1 DEF PassOK, PassRecord
    <3>2. CopyOf(o, confs[c]) /\ (o.deleting => seen[c].deleting)
      BY <2>1 DEF Copies
    <3>3. CopyOf(o, confs'[c])
      BY <1>1, <1>5, <3>1, <3>2, CopyStays
    <3>4. seen'[c] \in {seen[c], confs[c]}
      BY <3>1, SeenMoves
    <3>5. o.deleting => seen'[c].deleting
      BY <3>2, <3>4 DEF CopyOf
    <3> QED
      BY <2>1, <3>3, <3>5
  <2>2. ASSUME NEW c \in Confs, Begins(c) PROVE Goal
    <3>1. confs' = confs /\ seen' = seen /\ pass'.conf = c /\ pass'.seen = seen[c]
      BY <2>2 DEF Begins
    <3>2. CopyOf(seen[c], confs[c])
      BY DEF Copies
    <3> QED
      BY <3>1, <3>2
  <2>3. CASE Continue
    <3>1. pass # NoPass /\ SamePass(pass')
      BY <1>5, <2>3, PassGoesOn
    <3> QED
      BY <2>1, <3>1 DEF SamePass
  <2> HIDE DEF Goal
  <2> QED
    BY <1>5, <2>1, <2>2, <2>3, PassStep
<1> QED
  BY <1>3, <1>4, <1>5 DEF Copies

\* At first nothing has been copied.
LEMMA CopiesInit == Init => Copies
<1> SUFFICES ASSUME Init PROVE Copies
  OBVIOUS
<1>1. \A c \in Confs : confs[c] = Blank(c, FALSE) /\ seen[c] = Blank(c, FALSE)
  BY DEF Init
<1>2. \A c \in Confs : ~ Blank(c, FALSE).deleting /\ ~ Blank(c, FALSE).finalizer
  BY DEF Blank
<1>3. pass = NoPass
  BY DEF Init
<1> QED
  BY <1>1, <1>2, <1>3 DEF Copies, CopyOf

-----------------------------------------------------------------------------
(* Access of the sidecars, up to the first deletion of a configuration.    *)

Accessible(w) ==
  workloads[w].sidecar # None =>
    {"sidecar role", "sidecar binding"} \subseteq rbac /\ Account[w] \in subjects

Unthreatened == \A c \in Confs : ~ confs[c].deleting

\* As long as no configuration of the namespace is being deleted or gone,
\* every sidecar of the namespace, also one that an edit has orphaned, has
\* the role it needs.
Access == Unthreatened => \A w \in Workloads : Accessible(w)

\* A pass that deletes is for a configuration that is being deleted.
LEMMA DeletionNeedsReason ==
  ASSUME Typed, Copies, NEW place \in DeletionPlaces, At(place)
  PROVE  pass.conf \in Confs /\ confs[pass.conf].deleting
<1>1. pass # NoPass /\ pass.conf \in Confs /\ pass.seen.deleting
  BY PassFields DEF Typed, Places, DeletionPlaces
<1> QED
  BY <1>1 DEF Copies, CopyOf

\* Deletion is not undone.
LEMMA ThreatStays == ASSUME Typed, [Next]_vars, Unthreatened' PROVE Unthreatened
<1> SUFFICES ASSUME NEW c \in Confs PROVE ~ confs[c].deleting
  BY DEF Unthreatened
<1>1. ~ confs'[c].deleting
  BY DEF Unthreatened
<1>2. Changes(c, confs[c], confs'[c])
  BY ConfsMove DEF ConfMoves
<1> QED
  BY <1>1, <1>2 DEF Changes, Same, Created, Edited, Condemned, Finalized, Ended

\* The role is there before the sidecar, whichever request is refused.
LEMMA AddSidecarAccess ==
  ASSUME Typed, AddSidecar, \A w \in Workloads : Accessible(w)
  PROVE  \A w \in Workloads : Accessible(w)'
<1> DEFINE t == Target
<1>1. PICK n \in Granted(5) :
        /\ CreateSidecarRBAC(Account[Target], n) /\ Answered(n = 5)
        /\ (n = 5 /\ SetSidecar(Target, pass.seen.spec.image)) \/ workloads' = workloads
  BY DEF AddSidecar
<1>2. n \in 0..5
  BY <1>1, GrantsCounted DEF Typed, TypeOK
<1>3. /\ t \in Workloads /\ pass.seen.spec.image \in Images
      /\ workloads \in [Workloads -> WorkloadRecord]
  <2>1. At("sidecar") /\ PassOK /\ workloads \in [Workloads -> WorkloadRecord]
    BY DEF AddSidecar, Typed, TypeOK, WorkloadRecord
  <2>2. pass.seen \in Object /\ t \in Workloads
    BY <2>1, PassFields DEF Places
  <2> QED
    BY <2>1, <2>2, ObjectFields
<1>4. rbac \subseteq rbac'
  BY <1>1 DEF CreateSidecarRBAC
<1>5. n >= 2 => {"sidecar role", "sidecar binding"} \subseteq rbac' /\ Account[t] \in subjects'
  <2>1. SidecarRBAC[1] = "sidecar role" /\ SidecarRBAC[2] = "sidecar binding"
    BY DEF SidecarRBAC
  <2>2. rbac' = rbac \cup {SidecarRBAC[i] : i \in 1..4 \cap 1..n}
    BY <1>1 DEF CreateSidecarRBAC
  <2>3. n >= 2 => 1 \in 1..4 \cap 1..n /\ 2 \in 1..4 \cap 1..n
    BY <1>2
  <2>4. n >= 2 => Account[t] \in subjects'
    <3> DEFINE a == Account[t]
    <3>1. subjects' = IF n < 2 THEN subjects
                      ELSE IF "sidecar binding" \in rbac THEN subjects \cup {a} ELSE {a}
      BY <1>1 DEF CreateSidecarRBAC
    <3> HIDE DEF a
    <3>2. n >= 2 => ~ n < 2
      BY <1>2
    <3>3. n >= 2 => subjects' = subjects \cup {a} \/ subjects' = {a}
      BY <3>1, <3>2, Zenon
    <3>4. n >= 2 => a \in subjects'
      BY <3>3, Zenon
    <3> QED
      BY <3>4 DEF a
  <2> QED
    BY <2>1, <2>2, <2>3, <2>4
<1>6. "sidecar binding" \in rbac => subjects \subseteq subjects'
  BY <1>1, <1>2 DEF CreateSidecarRBAC
<1>7. ASSUME NEW w \in Workloads, workloads[w].sidecar # None
      PROVE  {"sidecar role", "sidecar binding"} \subseteq rbac' /\ Account[w] \in subjects'
  <2>1. {"sidecar role", "sidecar binding"} \subseteq rbac /\ Account[w] \in subjects
    BY <1>7 DEF Accessible
  <2> QED
    BY <1>4, <1>6, <2>1
<1>8. CASE workloads' = workloads
  BY <1>7, <1>8 DEF Accessible
<1>9. CASE n = 5 /\ SetSidecar(Target, pass.seen.spec.image)
  <2>1. \A w \in Workloads : w # t => workloads'[w] = workloads[w]
    BY <1>3, <1>9, SidecarWritten
  <2> HIDE DEF t
  <2>2. ASSUME NEW w \in Workloads PROVE Accessible(w)'
    <3>1. CASE w = t
      <4>1. n >= 2
        BY <1>9
      <4>2. {"sidecar role", "sidecar binding"} \subseteq rbac' /\ Account[w] \in subjects'
        BY <1>5, <3>1, <4>1, Zenon
      <4> QED
        BY <4>2 DEF Accessible
    <3>2. CASE w # t
      BY <1>7, <2>1, <3>2 DEF Accessible
    <3> QED
      BY <3>1, <3>2
  <2> QED
    BY <2>2
<1> QED
  BY <1>1, <1>8, <1>9

\* The steps that give nothing and take nothing of what a sidecar needs.
LEMMA SameAccess ==
  ASSUME \A w \in Workloads : Accessible(w), UNCHANGED <<workloads, subjects>>, rbac \subseteq rbac'
  PROVE  \A w \in Workloads : Accessible(w)'
BY DEF Accessible

\* One workload changes: it has no sidecar now, or had one before.
LEMMA OneSidecarAccess ==
  ASSUME \A w \in Workloads : Accessible(w), UNCHANGED <<rbac, subjects>>,
         NEW t \in Workloads, \A w \in Workloads : w # t => workloads'[w] = workloads[w],
         workloads'[t].sidecar # None => workloads[t].sidecar # None
  PROVE  \A w \in Workloads : Accessible(w)'
<1> SUFFICES ASSUME NEW w \in Workloads PROVE Accessible(w)'
  OBVIOUS
<1>1. workloads'[w].sidecar # None => workloads[w].sidecar # None
  BY Zenon
<1> QED
  BY <1>1 DEF Accessible

\* Each step keeps the access of the sidecars.
LEMMA AccessStep == ASSUME Typed, Copies, Access, [Next]_vars PROVE Access'
<1> SUFFICES ASSUME Unthreatened' PROVE \A w \in Workloads : Accessible(w)'
  BY DEF Access
<1> DEFINE Goal == \A w \in Workloads : Accessible(w)'
<1> SUFFICES Goal
  OBVIOUS
<1>1. Unthreatened /\ \A w \in Workloads : Accessible(w)
  BY ThreatStays DEF Access
<1>2. PassOK /\ workloads \in [Workloads -> WorkloadRecord]
  BY DEF Typed, TypeOK, WorkloadRecord
<1>3. ASSUME NEW w \in Workloads, Redeploy(w) PROVE Goal
  <2>1. /\ UNCHANGED <<rbac, subjects>>
        /\ \A v \in Workloads : v # w => workloads'[v] = workloads[v]
        /\ workloads'[w].sidecar = None
    BY <1>2, <1>3 DEF Redeploy
  <2> QED
    BY <1>1, <2>1, OneSidecarAccess
<1>4. CASE AddSidecar
  BY <1>1, <1>4, AddSidecarAccess
<1>5. ASSUME NEW ok \in Answers, UpdateSidecar(ok) \/ DeleteSidecar(ok) PROVE Goal
  <2>1. /\ At("sidecar") \/ At("delete sidecar")
        /\ UNCHANGED <<rbac, subjects>>
        /\ \/ SetSidecar(Target, pass.seen.spec.image) /\ workloads[Target].sidecar # None
           \/ SetSidecar(Target, None)
           \/ workloads' = workloads
    BY <1>5 DEF UpdateSidecar, DeleteSidecar
  <2>2. Target \in Workloads /\ pass.seen \in Object
    BY <1>2, <2>1, PassFields DEF Places
  <2>3. pass.seen.spec.image \in Images
    BY <2>2, ObjectFields
  <2>4. CASE workloads' = workloads
    BY <1>1, <2>1, <2>4, SameAccess
  <2>5. CASE SetSidecar(Target, None)
    <3>1. /\ \A v \in Workloads : v # Target => workloads'[v] = workloads[v]
          /\ workloads'[Target].sidecar = None
      BY <1>2, <2>2, <2>5, SidecarWritten
    <3> QED
      BY <1>1, <2>1, <2>2, <3>1, OneSidecarAccess
  <2>6. CASE SetSidecar(Target, pass.seen.spec.image) /\ workloads[Target].sidecar # None
    <3>1. \A v \in Workloads : v # Target => workloads'[v] = workloads[v]
      BY <1>2, <2>2, <2>3, <2>6, SidecarWritten
    <3> QED
      BY <1>1, <2>1, <2>2, <2>6, <3>1, OneSidecarAccess
  <2> QED
    BY <2>1, <2>4, <2>5, <2>6
<1>6. CASE DeleteRBAC
  <2>1. At("delete rbac")
    BY <1>6 DEF DeleteRBAC
  <2>2. pass.conf \in Confs /\ confs[pass.conf].deleting
    BY <2>1, DeletionNeedsReason DEF DeletionPlaces
  <2> QED
    BY <1>1, <2>2 DEF Unthreatened
<1>7. CASE CreateBSCreatorRBAC
  BY <1>1, <1>7, SameAccess DEF CreateBSCreatorRBAC
<1>8. ASSUME \/ KeepSidecar \/ NoTarget
             \/ \E ok : AddCronJob(ok) \/ DeleteCronJob(ok) \/ UpdateStatus(ok) \/ RemoveFinalizer(ok)
      PROVE  Goal
  <2>1. UNCHANGED <<workloads, rbac, subjects>>
    BY <1>8 DEF KeepSidecar, NoTarget, AddCronJob, DeleteCronJob, UpdateStatus, RemoveFinalizer, made
  <2> QED
    BY <1>1, <2>1, SameAccess
<1>9. ASSUME \/ \E c \in Confs : \/ Create(c) \/ Edit(c) \/ Delete(c) \/ Sync(c) \/ Reconcile(c)
                                 \/ Collect(c)
             \/ Resync \/ Restart \/ UNCHANGED vars
      PROVE  Goal
  <2>1. UNCHANGED <<workloads, rbac, subjects>>
    BY <1>9 DEF Create, Edit, Delete, Sync, Reconcile, ReconcileGone, ReconcileDeletion,
                ReconcileFinalizer, ReconcileUpkeep, Collect, Resync, Restart, vars, made
  <2> QED
    BY <1>1, <2>1, SameAccess
<1> HIDE DEF Goal
<1>10. CASE Continue
  BY <1>4, <1>5, <1>6, <1>7, <1>8, <1>10 DEF Continue
<1> QED
  BY <1>3, <1>9, <1>10 DEF Next, Users

\* At first there are no sidecars.
LEMMA AccessInit == Init => Access
BY DEF Init, Access, Accessible

\* However many configurations there are: until the first one of them is
\* deleted every sidecar in the namespace has its role, whichever requests
\* were refused and wherever the process was killed.  (Afterwards it is not
\* so: deleteRBAC takes the roles of all of them.)
THEOREM AccessUntilDeletion == Spec => []Access
<1>1. Init => Typed /\ Copies /\ Access
  BY TypedInit, CopiesInit, AccessInit
<1>2. Typed /\ Copies /\ Access /\ [Next]_vars => (Typed /\ Copies /\ Access)'
  BY TypedStep, CopiesStep, AccessStep
<1> QED
  BY <1>1, <1>2, PTL DEF Spec

\* There is one configuration in the namespace, the case createSidecarRBAC
\* and deleteRBAC are written for.
SoleConf == \A c, d \in Confs : c = d

\* With one configuration in the namespace the sidecar of one of its targets
\* never runs without its role and a binding that names its account.
THEOREM SidecarsHaveAccess == ASSUME SoleConf PROVE Spec => []SidecarHasAccess
<1>1. ASSUME Typed, Access PROVE SidecarHasAccess
  <2> SUFFICES ASSUME NEW c \in Confs, Live(c), NEW w \in TargetsOf(c), workloads[w].sidecar # None
               PROVE  {"sidecar role", "sidecar binding"} \subseteq rbac /\ Account[w] \in subjects
    BY DEF SidecarHasAccess
  <2>1. Unthreatened
    BY DEF Unthreatened, SoleConf, Live
  <2>2. confs[c].spec.targets \in Seq(Workloads)
    <3>1. confs[c] \in Object
      BY <1>1 DEF Typed, TypeOK
    <3> QED
      BY <3>1, ObjectFields
  <2>3. w \in Workloads
    BY <2>2 DEF TargetsOf
  <2> QED
    BY <1>1, <2>1, <2>3 DEF Access, Accessible
<1>2. Typed /\ [Next]_vars => Typed'
  BY TypedStep
<1>3. Typed /\ Access => SidecarHasAccess
  BY <1>1
<1> QED
  BY <1>2, <1>3, TypedInit, AccessUntilDeletion, PTL DEF Spec

-----------------------------------------------------------------------------
(* What is left behind, when there is one configuration.                   *)

Bare(w) == workloads[w].sidecar = None

\* Only a pass that keeps a configuration up adds anything.
Adds == Continue /\ pass.at \in UpkeepPlaces

OnlyRemoves ==
  /\ \A w \in Workloads : Bare(w) => workloads'[w].sidecar = None
  /\ rbac' \subseteq rbac
  /\ \A c \in Confs : cronJobs[c] = None => cronJobs'[c] = None

\* Every other step only takes away.
LEMMA OnlyUpkeepAdds == ASSUME Typed, [Next]_vars PROVE Adds \/ OnlyRemoves
<1>1. /\ PassOK /\ workloads \in [Workloads -> WorkloadRecord]
      /\ cronJobs \in [Confs -> Plans \cup {None}]
  BY DEF Typed, TypeOK, WorkloadRecord
<1>2. ASSUME UNCHANGED <<workloads, rbac, cronJobs>> PROVE OnlyRemoves
  BY <1>2 DEF OnlyRemoves, Bare
<1>3. ASSUME NEW w \in Workloads, Redeploy(w) PROVE OnlyRemoves
  BY <1>1, <1>3 DEF Redeploy, OnlyRemoves, Bare
<1>4. ASSUME NEW c \in Confs, Collect(c) PROVE OnlyRemoves
  BY <1>1, <1>4 DEF Collect, OnlyRemoves, Bare
<1>5. ASSUME \/ \E c \in Confs : Create(c) \/ Edit(c) \/ Delete(c) \/ Sync(c) \/ Reconcile(c)
             \/ Resync \/ Restart \/ UNCHANGED vars
      PROVE  OnlyRemoves
  <2>1. UNCHANGED <<workloads, rbac, cronJobs>>
    BY <1>5 DEF Create, Edit, Delete, Sync, Reconcile, ReconcileGone, ReconcileDeletion,
                ReconcileFinalizer, ReconcileUpkeep, Resync, Restart, vars, made
  <2> QED
    BY <1>2, <2>1
<1>6. ASSUME NEW ok, DeleteSidecar(ok) PROVE OnlyRemoves
  <2>1. /\ At("delete sidecar") /\ UNCHANGED <<rbac, cronJobs>>
        /\ SetSidecar(Target, None) \/ workloads' = workloads
    BY <1>6 DEF DeleteSidecar
  <2>2. Target \in Workloads
    BY <1>1, <2>1, PassFields DEF Places
  <2>3. CASE SetSidecar(Target, None)
    <3> DEFINE t == Target
    <3>1. /\ \A v \in Workloads : v # t => workloads'[v] = workloads[v]
          /\ workloads'[t].sidecar = None
      BY <1>1, <2>2, <2>3, SidecarWritten
    <3> HIDE DEF t
    <3>2. \A w \in Workloads : Bare(w) => workloads'[w].sidecar = None
      BY <3>1, Zenon DEF Bare
    <3> QED
      BY <2>1, <3>2 DEF OnlyRemoves
  <2> QED
    BY <1>2, <2>1, <2>3
<1>7. ASSUME NEW ok, DeleteCronJob(ok) PROVE OnlyRemoves
  <2>1. /\ UNCHANGED <<workloads, rbac>>
        /\ cronJobs' = [cronJobs EXCEPT ![pass.conf] = None] \/ cronJobs' = cronJobs
    BY <1>7 DEF DeleteCronJob
  <2>2. \A c \in Confs : cronJobs[c] = None => cronJobs'[c] = None
    BY <1>1, <2>1
  <2> QED
    BY <2>1, <2>2 DEF OnlyRemoves, Bare
<1>8. CASE DeleteRBAC
  BY <1>8 DEF DeleteRBAC, OnlyRemoves, Bare
<1>9. ASSUME NEW ok, RemoveFinalizer(ok) PROVE OnlyRemoves
  BY <1>2, <1>9 DEF RemoveFinalizer, made
<1>10. ASSUME Continue,
              \/ CreateBSCreatorRBAC \/ AddSidecar \/ KeepSidecar \/ NoTarget
              \/ \E ok : AddCronJob(ok) \/ UpdateSidecar(ok) \/ UpdateStatus(ok)
       PROVE  Adds
  BY <1>10 DEF CreateBSCreatorRBAC, AddSidecar, KeepSidecar, NoTarget, AddCronJob, UpdateSidecar,
               UpdateStatus, At, Adds, UpkeepPlaces
<1>11. CASE Continue
  BY <1>6, <1>7, <1>8, <1>9, <1>10, <1>11 DEF Continue
<1> QED
  BY <1>3, <1>4, <1>5, <1>11 DEF Next, Users

\* Refusals are counted and not forgotten.
LEMMA RefusalsGrow ==
  ASSUME Typed, [Next]_vars
  PROVE  refused \in Nat /\ refused' \in Nat /\ refused <= refused'
<1>1. refused \in 0..MaxRefusals /\ rbac \subseteq RBAC /\ MaxRefusals \in Nat
  BY BoundsAssumption DEF Typed, TypeOK
<1>2. CASE DeleteRBAC
  <2>1. PICK left \in SUBSET rbac : refused' = refused + Cardinality(left)
    BY <1>2 DEF DeleteRBAC
  <2>2. Cardinality(left) \in Nat
    BY <1>1, <2>1, RBACFinite, FS_Subset, FS_CardinalityType
  <2> QED
    BY <1>1, <2>1, <2>2
<1>3. CASE CreateBSCreatorRBAC \/ AddSidecar
  <2>1. PICK n, k : Answered(n = k)
    BY <1>3 DEF CreateBSCreatorRBAC, AddSidecar
  <2> QED
    BY <1>1, <2>1 DEF Answered
<1>4. ASSUME NEW ok \in Answers,
             \/ AddCronJob(ok) \/ UpdateSidecar(ok) \/ UpdateStatus(ok)
             \/ DeleteSidecar(ok) \/ DeleteCronJob(ok) \/ RemoveFinalizer(ok)
      PROVE  refused' \in Nat /\ refused <= refused'
  <2>1. Answered(ok)
    BY <1>4 DEF AddCronJob, UpdateSidecar, UpdateStatus, DeleteSidecar, DeleteCronJob, RemoveFinalizer
  <2> QED
    BY <1>1, <2>1, AnswerCounted
<1>5. ASSUME refused' = refused PROVE refused' \in Nat /\ refused <= refused'
  BY <1>1, <1>5
<1>6. CASE KeepSidecar \/ NoTarget
  BY <1>5, <1>6 DEF KeepSidecar, NoTarget, bounds
<1>7. CASE Continue
  BY <1>1, <1>2, <1>3, <1>4, <1>6, <1>7 DEF Continue
<1>8. CASE Users \/ Resync \/ Restart \/ UNCHANGED vars
  BY <1>1, <1>5, <1>8 DEF Users, Create, Edit, Delete, Redeploy, Resync, Restart, vars, bounds
<1>9. ASSUME NEW c \in Confs, Sync(c) \/ Reconcile(c) \/ Collect(c) PROVE refused' = refused
  BY <1>9 DEF Sync, Reconcile, ReconcileGone, ReconcileDeletion, ReconcileFinalizer,
              ReconcileUpkeep, Collect, bounds
<1> QED
  BY <1>1, <1>5, <1>7, <1>8, <1>9 DEF Next

LEMMA RefusalsStay == ASSUME Typed, [Next]_vars, refused' = 0 PROVE refused = 0
BY RefusalsGrow

\* A pass goes on to another place.
LEMMA PassGoesTo ==
  ASSUME pass \in PassRecord, NEW place \in Places, GoTo(place)
  PROVE  pass'.seen = pass.seen /\ pass'.conf = pass.conf /\ pass'.at = place
BY DEF GoTo, PassRecord

\* A pass that keeps a configuration up is for one that has its finalizer,
\* however old the copy is that it works from.
LEMMA UpkeepNeedsFinalizer ==
  ASSUME Typed, Copies, Adds
  PROVE  /\ pass.conf \in Confs
         /\ confs[pass.conf].finalizer /\ ~ IsGone(confs[pass.conf])
<1>1. pass # NoPass /\ pass \in PassRecord
  BY PassGoesOn DEF Adds
<1>2. pass.conf \in Confs /\ pass.seen.finalizer /\ ~ pass.seen.deleting
  BY <1>1 DEF PassRecord, Typed, PassOK, Adds
<1>3. CopyOf(pass.seen, confs[pass.conf])
  BY <1>1 DEF Copies
<1> QED
  BY <1>2, <1>3 DEF CopyOf

\* With one configuration: a step that adds something finds, and leaves, a
\* configuration with its finalizer; any other step that ends it was a user's,
\* before it had its finalizer, or that of a pass that had come to the end.
LEMMA SoleConfStep ==
  ASSUME SoleConf, Typed, Copies, [Next]_vars, NEW c \in Confs
  PROVE  /\ ~ confs'[c].finalizer /\ ~ IsGone(confs'[c]) =>
              OnlyRemoves /\ ~ confs[c].finalizer /\ ~ IsGone(confs[c])
         /\ IsGone(confs'[c]) =>
              /\ OnlyRemoves
              /\ confs'[c].spec = confs[c].spec
              /\ \/ IsGone(confs[c])
                 \/ ~ confs[c].finalizer /\ ~ IsGone(confs[c])
                 \/ At("finalizer") /\ pass.conf = c /\ pass.seen = confs[c]
<1>1. Changes(c, confs[c], confs'[c])
  BY ConfsMove DEF ConfMoves
<1>2. CASE Adds
  <2>1. c = pass.conf /\ confs[c].finalizer /\ ~ IsGone(confs[c])
    BY <1>2, UpkeepNeedsFinalizer DEF SoleConf
  <2>2. ~ At("finalizer")
    BY <1>2 DEF Adds, UpkeepPlaces, At
  <2>3. (confs'[c].finalizer \/ IsGone(confs'[c])) /\ ~ IsGone(confs'[c])
    BY <1>1, <2>1, <2>2
    DEF IsGone, Changes, Same, Created, Edited, Condemned, Finalized, Ended
  <2> QED
    BY <2>3
<1>3. CASE OnlyRemoves
  BY <1>1, <1>3 DEF IsGone, Changes, Same, Created, Edited, Condemned, Finalized, Ended
<1> QED
  BY <1>2, <1>3, OnlyUpkeepAdds

\* How far a pass that deletes has come with the cron job and the roles: what
\* remains was left by a request that came to nothing, one for each object.
Erasure ==
  pass # NoPass =>
    /\ pass.at = "delete rbac" => cronJobs[pass.conf] = None \/ refused > 0
    /\ pass.at = "finalizer" => Remains(pass.conf) <= refused

Unmade(c) == cronJobs[c] = None /\ rbac = {}

\* Neither is made before the configuration has its finalizer, and no more is
\* left once it is gone than requests have come to nothing.
Made ==
  \A c \in Confs :
    /\ ~ confs[c].finalizer /\ ~ IsGone(confs[c]) => Unmade(c)
    /\ IsGone(confs[c]) => Remains(c) <= refused

\* Roles are counted.
LEMMA RolesCounted ==
  ASSUME Typed
  PROVE  /\ IsFiniteSet(rbac) /\ Cardinality(rbac) \in Nat
         /\ \A S \in SUBSET rbac : Cardinality(S) \in Nat /\ Cardinality(S) <= Cardinality(rbac)
<1>1. IsFiniteSet(rbac)
  BY RBACFinite, FS_Subset DEF Typed, TypeOK
<1> QED
  BY <1>1, FS_Subset, FS_CardinalityType

\* With nothing made nothing remains.
LEMMA NothingRemains ==
  ASSUME Typed, NEW c
  PROVE  /\ Unmade(c) => Remains(c) = 0
         /\ Remains(c) \in Nat
         /\ Remains(c) = 0 => Unmade(c)
<1>1. IsFiniteSet(rbac) /\ Cardinality(rbac) \in Nat
  BY RolesCounted
<1>2. Cardinality(rbac) = 0 <=> rbac = {}
  BY <1>1, FS_EmptySet
<1> QED
  BY <1>1, <1>2 DEF Remains, Unmade

\* What the creator of sessions needs.
Creators == {"creator account", "creator role", "creator binding"}

\* It is three objects, each of which is counted.
LEMMA CreatorsRemain ==
  ASSUME Typed, Creators \subseteq rbac, NEW c
  PROVE  refused \in Nat /\ Remains(c) \in Nat /\ 3 <= Remains(c)
<1>1. IsFiniteSet(rbac) /\ Cardinality(rbac) \in Nat
  BY RolesCounted
<1>2. Cardinality(Creators) = 3
  <2> DEFINE one == {"creator account"}
             two == one \cup {"creator role"}
             all == two \cup {"creator binding"}
  <2>1. "creator role" \notin one /\ "creator binding" \notin two
    OBVIOUS
  <2>2. IsFiniteSet(one) /\ Cardinality(one) = 1
    BY FS_Singleton
  <2>3. Creators = all
    BY DEF Creators
  <2> HIDE DEF one
  <2>4. IsFiniteSet(two) /\ Cardinality(two) = 1 + 1
    BY <2>1, <2>2, FS_AddElement
  <2> HIDE DEF two
  <2>5. Cardinality(all) = 1 + 1 + 1
    BY <2>1, <2>4, FS_AddElement
  <2> HIDE DEF all
  <2> QED
    BY <2>3, <2>5
<1>3. Cardinality(Creators) <= Cardinality(rbac)
  BY <1>1, FS_Subset
<1>4. refused \in Nat
  <2>1. MaxRefusals \in Nat /\ refused \in 0..MaxRefusals
    BY BoundsAssumption, Zenon DEF Typed, TypeOK
  <2> QED
    BY <2>1
<1> DEFINE cron == IF cronJobs[c] = None THEN 0 ELSE 1
<1>5. cron \in Nat /\ Remains(c) = Cardinality(rbac) + cron
  BY DEF Remains
<1>6. 3 <= Cardinality(rbac)
  BY <1>2, <1>3
<1> HIDE DEF cron
<1> QED
  BY <1>1, <1>4, <1>5, <1>6

\* A step that only removes leaves no more than there was.
LEMMA RemainsLess ==
  ASSUME Typed, [Next]_vars, OnlyRemoves, NEW c \in Confs, Remains(c) <= refused
  PROVE  Remains(c)' <= refused'
<1>1. rbac' \subseteq rbac /\ (cronJobs[c] = None => cronJobs'[c] = None)
  BY DEF OnlyRemoves
<1>2. /\ Cardinality(rbac) \in Nat /\ Cardinality(rbac') \in Nat
      /\ Cardinality(rbac') <= Cardinality(rbac)
  BY <1>1, RolesCounted
<1>3. refused \in Nat /\ refused' \in Nat /\ refused <= refused'
  BY RefusalsGrow
<1> DEFINE cron  == IF cronJobs[c] = None THEN 0 ELSE 1
           cron1 == IF cronJobs'[c] = None THEN 0 ELSE 1
<1>4. cron \in 0..1 /\ cron1 \in 0..1 /\ cron1 <= cron
  BY <1>1
<1>5. Remains(c) = Cardinality(rbac) + cron /\ Remains(c)' = Cardinality(rbac') + cron1
  BY DEF Remains
<1> HIDE DEF cron, cron1
<1> QED
  BY <1>2, <1>3, <1>4, <1>5

\* Each step of a pass that deletes sees to the cron job and the roles.
LEMMA ErasureStep == ASSUME Typed, Copies, Erasure, [Next]_vars PROVE Erasure'
<1> SUFFICES ASSUME pass' # NoPass PROVE Erasure'
  BY DEF Erasure
<1>1. /\ PassOK /\ refused \in 0..MaxRefusals /\ MaxRefusals \in Nat /\ rbac \subseteq RBAC
      /\ cronJobs \in [Confs -> Plans \cup {None}]
  BY BoundsAssumption DEF Typed, TypeOK
<1>2. refused \in Nat /\ refused' \in Nat /\ refused <= refused'
  BY RefusalsGrow
<1>3. CASE Adds
  <2>1. PICK place \in Places : pass'.at = place /\ (pass.at \in UpkeepPlaces <=> place \in UpkeepPlaces)
    BY <1>3, PassGoesOn DEF Adds
  <2>2. pass'.at \in UpkeepPlaces
    BY <1>3, <2>1 DEF Adds
  <2> QED
    BY <2>2 DEF Erasure, UpkeepPlaces
<1>4. CASE ~ Adds
  <2>1. OnlyRemoves
    BY <1>4, OnlyUpkeepAdds
  <2>2. CASE pass' = pass
    <3>1. pass # NoPass /\ pass.conf \in Confs
      BY <1>1, <2>2 DEF PassOK, PassRecord
    <3>2. pass.at = "delete rbac" => cronJobs'[pass.conf] = None \/ refused' > 0
      <4>1. pass.at = "delete rbac" => cronJobs[pass.conf] = None \/ refused > 0
        BY <3>1, Zenon DEF Erasure
      <4>2. cronJobs[pass.conf] = None => cronJobs'[pass.conf] = None
        BY <2>1, <3>1, Zenon DEF OnlyRemoves
      <4>3. refused > 0 => refused' > 0
        BY <1>2
      <4> QED
        BY <4>1, <4>2, <4>3, Zenon
    <3>3. pass.at = "finalizer" => Remains(pass.conf)' <= refused'
      <4>1. ASSUME NEW c \in Confs, Remains(c) <= refused
            PROVE  Cardinality(rbac') + (IF cronJobs'[c] = None THEN 0 ELSE 1) <= refused'
        <5>1. Remains(c)' <= refused'
          BY <2>1, <4>1, RemainsLess
        <5> QED
          BY <5>1 DEF Remains
      <4>2. pass.at = "finalizer" => Remains(pass.conf) <= refused
        BY <3>1, Zenon DEF Erasure
      <4>3. pass.at = "finalizer" =>
              Cardinality(rbac') + (IF cronJobs'[pass.conf] = None THEN 0 ELSE 1) <= refused'
        BY <3>1, <4>1, <4>2, Zenon
      <4> QED
        BY <2>2, <4>3 DEF Remains
    <3> QED
      BY <2>2, <3>2, <3>3 DEF Erasure
  <2>3. ASSUME NEW c \in Confs, Begins(c) PROVE Erasure'
    BY <2>3 DEF Begins, Erasure
  <2>4. ASSUME NEW ok \in Answers, DeleteSidecar(ok) PROVE Erasure'
    <3>1. At("delete sidecar")
          /\ (NextTarget("delete sidecar", "delete cronjob") \/ GoTo("delete cronjob"))
      BY <2>4 DEF DeleteSidecar
    <3>2. pass \in PassRecord
      BY <1>1, <3>1, PassFields DEF Places
    <3>3. pass'.at \in {"delete sidecar", "delete cronjob"}
      BY <3>1, <3>2 DEF NextTarget, GoTo, PassRecord
    <3> QED
      BY <3>3 DEF Erasure
  <2>5. ASSUME NEW ok \in Answers, DeleteCronJob(ok) PROVE Erasure'
    <3>1. At("delete cronjob") /\ GoTo("delete rbac") /\ Answered(ok)
      BY <2>5 DEF DeleteCronJob
    <3>2. ok \in BOOLEAN /\ (~ ok => refused' > 0)
      <4>1. ok \in BOOLEAN /\ (~ ok => refused < refused')
        BY <1>1, <3>1, AnswerCounted
      <4> QED
        BY <1>2, <4>1
    <3>3. pass # NoPass /\ pass \in PassRecord /\ pass.conf \in Confs
      BY <1>1, <3>1, PassFields DEF Places
    <3>4. pass'.at = "delete rbac" /\ pass'.conf = pass.conf
      BY <3>1, <3>3, PassGoesTo DEF Places
    <3>5. cronJobs'[pass.conf] = None \/ refused' > 0
      BY <1>1, <2>5, <3>2, <3>3 DEF DeleteCronJob
    <3> QED
      BY <3>4, <3>5 DEF Erasure
  <2>6. CASE DeleteRBAC
    <3>1. At("delete rbac") /\ GoTo("finalizer")
      BY <2>6 DEF DeleteRBAC
    <3>2. /\ refused' = refused + Cardinality(rbac')
          /\ rbac' \subseteq rbac /\ cronJobs' = cronJobs
      BY <2>6 DEF DeleteRBAC
    <3>3. pass # NoPass /\ pass \in PassRecord /\ pass.at = "delete rbac" /\ pass.conf \in Confs
      BY <1>1, <3>1, PassFields DEF Places
    <3>4. pass'.at = "finalizer" /\ pass'.conf = pass.conf
      BY <3>1, <3>3, PassGoesTo DEF Places
    <3> DEFINE c == pass.conf
               cron == IF cronJobs[c] = None THEN 0 ELSE 1
    <3>5. cron \in 0..1 /\ cron <= refused
      <4>1. cronJobs[c] = None \/ refused > 0
        BY <3>3, Zenon DEF Erasure
      <4> QED
        BY <1>2, <4>1
    <3>6. Cardinality(rbac') \in Nat
      BY <3>2, RolesCounted
    <3>7. Remains(c)' = Cardinality(rbac') + cron
      BY <3>2, <3>4 DEF Remains
    <3> HIDE DEF cron
    <3>8. Cardinality(rbac') + cron <= refused'
      BY <1>2, <3>2, <3>5, <3>6
    <3>9. Remains(pass.conf)' <= refused'
      BY <3>7, <3>8
    <3> QED
      BY <3>4, <3>9 DEF Erasure
  <2>7. ASSUME NEW ok, RemoveFinalizer(ok) PROVE FALSE
    BY <2>7 DEF RemoveFinalizer, Abort
  <2>8. ASSUME \/ CreateBSCreatorRBAC \/ AddSidecar \/ KeepSidecar \/ NoTarget
               \/ \E ok : AddCronJob(ok) \/ UpdateSidecar(ok) \/ UpdateStatus(ok),
               Continue
        PROVE  FALSE
    BY <1>4, <2>8 DEF CreateBSCreatorRBAC, AddSidecar, KeepSidecar, NoTarget, AddCronJob,
                      UpdateSidecar, UpdateStatus, At, Adds, UpkeepPlaces
  <2>9. CASE Continue
    BY <2>4, <2>5, <2>6, <2>7, <2>8, <2>9 DEF Continue
  <2> QED
    BY <2>2, <2>3, <2>9, PassStep
<1> QED
  BY <1>3, <1>4

\* The cron job and the roles are made for a configuration that will take
\* them away.
LEMMA MadeStep == ASSUME SoleConf, Typed, Copies, Erasure, Made, [Next]_vars PROVE Made'
<1> SUFFICES ASSUME NEW c \in Confs
             PROVE  /\ ~ confs'[c].finalizer /\ ~ IsGone(confs'[c]) => Unmade(c)'
                    /\ IsGone(confs'[c]) => Remains(c)' <= refused'
  BY DEF Made
<1>1. ASSUME OnlyRemoves, Unmade(c) PROVE Unmade(c)'
  BY <1>1 DEF OnlyRemoves, Unmade
<1>2. ASSUME ~ confs'[c].finalizer, ~ IsGone(confs'[c]) PROVE Unmade(c)'
  BY <1>1, <1>2, SoleConfStep DEF Made
<1>3. ASSUME IsGone(confs'[c]) PROVE Remains(c)' <= refused'
  <2>1. OnlyRemoves /\ refused \in Nat
    BY <1>3, SoleConfStep, RefusalsGrow
  <2>2. CASE At("finalizer") /\ pass.conf = c
    <3>1. pass # NoPass /\ pass.at = "finalizer"
      BY <2>2, PassFields DEF Places, Typed
    <3>2. Remains(c) <= refused
      BY <2>2, <3>1 DEF Erasure
    <3> QED
      BY <2>1, <3>2, RemainsLess
  <2>3. CASE IsGone(confs[c])
    BY <2>1, <2>3, RemainsLess DEF Made
  <2>4. CASE ~ confs[c].finalizer /\ ~ IsGone(confs[c])
    <3>1. Remains(c) = 0
      BY <2>4, NothingRemains DEF Made
    <3>2. Remains(c) <= refused
      BY <2>1, <3>1
    <3> QED
      BY <2>1, <3>2, RemainsLess
  <2> QED
    BY <1>3, <2>2, <2>3, <2>4, SoleConfStep
<1> QED
  BY <1>2, <1>3

\* At first nothing is made.
LEMMA MadeInit == Init => Erasure /\ Made
<1> SUFFICES ASSUME Init PROVE Erasure /\ Made
  OBVIOUS
<1>1. /\ \A c \in Confs : confs[c] = Blank(c, FALSE) /\ cronJobs[c] = None
      /\ pass = NoPass /\ rbac = {}
  BY DEF Init
<1> QED
  <2>1. Erasure
    BY <1>1 DEF Erasure
  <2>2. \A c \in Confs : Unmade(c) /\ ~ IsGone(confs[c])
    <3>1. ASSUME NEW c \in Confs PROVE Blank(c, FALSE).deleting = FALSE
      BY DEF Blank
    <3> QED
      BY <1>1, <3>1, Zenon DEF Unmade, IsGone
  <2> QED
    BY <2>1, <2>2, Zenon DEF Made

\* The inductive invariant about the cron job and the roles.
RolesTidy == Typed /\ Copies /\ Erasure /\ Made

\* With one configuration in the namespace: the cron job and the roles exist
\* only while the configuration has its finalizer and go before it does, also
\* when targets cannot be read, but for one object of them for each request
\* that came to nothing.
THEOREM RolesGoFirst == ASSUME SoleConf PROVE Spec => []Made
<1>1. Init => RolesTidy
  BY TypedInit, CopiesInit, MadeInit DEF RolesTidy
<1>2. RolesTidy /\ [Next]_vars => RolesTidy'
  BY TypedStep, CopiesStep, ErasureStep, MadeStep DEF RolesTidy
<1>3. RolesTidy => Made
  BY DEF RolesTidy
<1> QED
  BY <1>1, <1>2, <1>3, PTL DEF Spec

-----------------------------------------------------------------------------
(* The same of the sidecars.                                               *)

BareTargets(spec) == \A i \in DOMAIN spec.targets : Bare(spec.targets[i])

\* A workload that the controller cannot read has no sidecar, and only the
\* workloads that users delete may be missing.
Absentees ==
  /\ \A w \in Workloads : ~ Found(w) => Bare(w)
  /\ \A w \in Workloads \ Redeployed : workloads[w].exists

SpecsKnown == \A c \in Confs : confs[c].spec \in SpecEdits \cup {InitialSpecs[c]}

\* How far a pass that deletes has come with the sidecars, if nothing was
\* refused so far.
Purge ==
  pass # NoPass /\ refused = 0 =>
    /\ pass.at = "delete sidecar" =>
         \A j \in DOMAIN pass.seen.spec.targets :
           j < pass.target => Bare(pass.seen.spec.targets[j])
    /\ pass.at \in {"delete cronjob", "delete rbac", "finalizer"} => BareTargets(pass.seen.spec)

\* There are no sidecars before the configuration has its finalizer, and its
\* targets have none once it is gone.
Unharmed ==
  \A c \in Confs :
    /\ ~ confs[c].finalizer /\ ~ IsGone(confs[c]) => \A w \in Workloads : Bare(w)
    /\ IsGone(confs[c]) /\ refused = 0 => BareTargets(confs[c].spec)

\* Of the targets only the last may be missing or be a Pod: the first one
\* that cannot be read ends DeleteSidecar, and those after it keep their
\* sidecars.
Steadfast ==
  \A c \in Confs : \A spec \in SpecEdits \cup {InitialSpecs[c]} : \A i \in DOMAIN spec.targets :
    i # Len(spec.targets) => spec.targets[i] \notin Redeployed \cup Pods

\* The specifications are those that users gave.
LEMMA SpecsStep == ASSUME Typed, SpecsKnown, [Next]_vars PROVE SpecsKnown'
<1> SUFFICES ASSUME NEW c \in Confs PROVE confs'[c].spec \in SpecEdits \cup {InitialSpecs[c]}
  BY DEF SpecsKnown
<1>1. Changes(c, confs[c], confs'[c])
  BY ConfsMove DEF ConfMoves
<1>2. confs[c].spec \in SpecEdits \cup {InitialSpecs[c]}
  BY DEF SpecsKnown
<1>3. confs'[c].spec = confs[c].spec \/ confs'[c].spec \in SpecEdits
  BY <1>1 DEF Changes, Same, Created, Edited, Condemned, Finalized, Ended
<1> QED
  BY <1>2, <1>3

\* The controller writes to workloads it can read, and does not remove them.
LEMMA AbsenteesStep == ASSUME Typed, Absentees, [Next]_vars PROVE Absentees'
<1>1. PassOK /\ workloads \in [Workloads -> WorkloadRecord]
  BY DEF Typed, TypeOK, WorkloadRecord
<1>2. ASSUME workloads' = workloads PROVE Absentees'
  BY <1>2 DEF Absentees, Found, Bare
<1>3. ASSUME NEW w \in Workloads, Redeploy(w) PROVE Absentees'
  <2>1. /\ w \in Redeployed
        /\ \A v \in Workloads : v # w => workloads'[v] = workloads[v]
        /\ workloads'[w].sidecar = None
    BY <1>1, <1>3 DEF Redeploy
  <2> QED
    BY <2>1, Zenon DEF Absentees, Found, Bare
<1>4. ASSUME At("sidecar") \/ At("delete sidecar"), Found(Target),
             NEW image \in {pass.seen.spec.image, None}, SetSidecar(Target, image)
      PROVE  Absentees'
  <2> DEFINE t == Target
  <2>1. t \in Workloads /\ pass.seen \in Object
    BY <1>1, <1>4, PassFields DEF Places
  <2>2. image \in Images \cup {None}
    BY <2>1, ObjectFields
  <2>3. /\ \A v \in Workloads : workloads'[v].exists = workloads[v].exists
        /\ \A v \in Workloads : v # t => workloads'[v] = workloads[v]
    BY <1>1, <1>4, <2>1, <2>2, SidecarWritten
  <2>4. Found(t)
    BY <1>4
  <2> HIDE DEF t
  <2> QED
    BY <2>3, <2>4, Zenon DEF Absentees, Found, Bare
<1>5. ASSUME NEW ok, UpdateSidecar(ok) \/ DeleteSidecar(ok) PROVE Absentees'
  <2>1. \/ workloads' = workloads
        \/ /\ At("sidecar") \/ At("delete sidecar")
           /\ Found(Target)
           /\ SetSidecar(Target, pass.seen.spec.image) \/ SetSidecar(Target, None)
    BY <1>5 DEF UpdateSidecar, DeleteSidecar
  <2> QED
    BY <1>2, <1>4, <2>1
<1>6. CASE AddSidecar
  <2>1. \/ workloads' = workloads
        \/ At("sidecar") /\ Found(Target) /\ SetSidecar(Target, pass.seen.spec.image)
    BY <1>6 DEF AddSidecar
  <2> QED
    BY <1>2, <1>4, <2>1
<1>7. ASSUME \/ CreateBSCreatorRBAC \/ KeepSidecar \/ NoTarget \/ DeleteRBAC
             \/ \E ok : \/ AddCronJob(ok) \/ UpdateStatus(ok) \/ DeleteCronJob(ok)
                        \/ RemoveFinalizer(ok)
      PROVE  Absentees'
  <2>1. workloads' = workloads
    BY <1>7 DEF CreateBSCreatorRBAC, KeepSidecar, NoTarget, DeleteRBAC, AddCronJob, UpdateStatus,
                DeleteCronJob, RemoveFinalizer, made
  <2> QED
    BY <1>2, <2>1
<1>8. ASSUME \/ \E c \in Confs : \/ Create(c) \/ Edit(c) \/ Delete(c) \/ Sync(c) \/ Reconcile(c)
                                 \/ Collect(c)
             \/ Resync \/ Restart \/ UNCHANGED vars
      PROVE  Absentees'
  <2>1. workloads' = workloads
    BY <1>8 DEF Create, Edit, Delete, Sync, Reconcile, ReconcileGone, ReconcileDeletion,
                ReconcileFinalizer, ReconcileUpkeep, Collect, Resync, Restart, vars, made
  <2> QED
    BY <1>2, <2>1
<1>9. CASE Continue
  BY <1>5, <1>6, <1>7, <1>9 DEF Continue
<1> QED
  BY <1>3, <1>8, <1>9 DEF Next, Users

\* One more of a list is in a set; after the last one all are.
LEMMA UpTo ==
  ASSUME NEW S, NEW targets \in Seq(Workloads), NEW k \in DOMAIN targets,
         \A j \in DOMAIN targets : j < k => targets[j] \in S, targets[k] \in S
  PROVE  /\ \A j \in DOMAIN targets : j < k + 1 => targets[j] \in S
         /\ k = Len(targets) => \A j \in DOMAIN targets : targets[j] \in S
<1>1. ASSUME NEW j \in DOMAIN targets, j < k + 1 PROVE targets[j] \in S
  <2>1. j < k \/ j = k
    BY <1>1
  <2> QED
    BY <2>1
<1>2. k = Len(targets) => \A j \in DOMAIN targets : j < k + 1
  OBVIOUS
<1> QED
  BY <1>1, <1>2

\* The sidecar of one more target is removed.  A target that cannot be read
\* has none, and is the last.
LEMMA PurgeOfSidecars ==
  ASSUME Steadfast, Typed, Copies, Absentees, SpecsKnown, Purge, OnlyRemoves,
         NEW ok \in Answers, DeleteSidecar(ok), refused' = 0
  PROVE  Purge'
<1> DEFINE targets == pass.seen.spec.targets
           k == pass.target
           S == {w \in Workloads : workloads'[w].sidecar = None}
<1>1. /\ At("delete sidecar") /\ PassOK
      /\ refused \in 0..MaxRefusals /\ workloads \in [Workloads -> WorkloadRecord]
  BY DEF DeleteSidecar, Typed, TypeOK, WorkloadRecord
<1>2. /\ pass # NoPass /\ pass \in PassRecord /\ pass.conf \in Confs /\ pass.seen \in Object
      /\ pass.at = "delete sidecar" /\ pass.seen.deleting
      /\ k \in DOMAIN targets /\ k \in Nat \ {0} /\ Target \in Workloads
  BY <1>1, PassFields DEF Places, DeletionPlaces
<1>3. targets \in Seq(Workloads)
  BY <1>2, ObjectFields
<1>4. refused = 0 /\ ok
  <2>1. MaxRefusals \in Nat /\ Answered(ok)
    BY BoundsAssumption DEF DeleteSidecar
  <2>2. /\ refused <= refused'
        /\ ok \in BOOLEAN /\ (~ ok => refused < refused')
    BY <1>1, <2>1, AnswerCounted, Zenon
  <2>3. refused \in Nat
    <3>1. refused \in 0..MaxRefusals /\ MaxRefusals \in Nat
      BY <1>1, <2>1, Zenon
    <3> QED
      BY <3>1
  <2>4. refused = 0
    <3>1. refused <= 0
      BY <2>2, Zenon
    <3> QED
      BY <2>3, <3>1
  <2>5. ok
    <3>1. ~ ok => 0 < 0
      BY <2>2, <2>4, Zenon
    <3>2. ~ (0 < 0)
      OBVIOUS
    <3> QED
      BY <2>2, <3>1, <3>2, Zenon
  <2> QED
    BY <2>4, <2>5
<1>5. \A j \in DOMAIN targets : j < k => targets[j] \in S
  <2>1. \A j \in DOMAIN targets : j < k => Bare(targets[j])
    BY <1>2, <1>4 DEF Purge
  <2>2. \A j \in DOMAIN targets : targets[j] \in Workloads
    BY <1>3
  <2> HIDE DEF targets, k
  <2> QED
    BY <2>1, <2>2 DEF OnlyRemoves
<1>6. CASE Found(Target)
  <2>1. SetSidecar(Target, None) /\ NextTarget("delete sidecar", "delete cronjob")
    BY <1>4, <1>6 DEF DeleteSidecar
  <2>2. targets[k] \in S
    <3> DEFINE t == Target
    <3>1. workloads'[t].sidecar = None
      BY <1>1, <1>2, <2>1, SidecarWritten
    <3> QED
      BY <1>2, <3>1 DEF Target
  <2> DEFINE next == IF k = Len(targets) THEN "delete cronjob" ELSE "delete sidecar"
             n == k + 1
  <2>3. pass' = [pass EXCEPT !.target = n, !.at = next]
    BY <2>1 DEF NextTarget
  <2>4. n \in Nat \ {0} /\ next \in Places
    <3>1. k \in Nat \ {0}
      BY <1>2
    <3> HIDE DEF k
    <3> QED
      BY <3>1 DEF Places
  <2>5. pass'.seen = pass.seen /\ pass'.at = next /\ pass'.target = n
    <3> HIDE DEF n, next
    <3>1. /\ SamePass([pass EXCEPT !.target = n, !.at = next])
          /\ [pass EXCEPT !.target = n, !.at = next].at = next
          /\ [pass EXCEPT !.target = n, !.at = next].target = n
      BY <1>2, <2>4, PassMoves, Zenon
    <3> QED
      BY <2>3, <3>1, Zenon DEF SamePass
  <2>6. /\ \A j \in DOMAIN targets : j < n => targets[j] \in S
        /\ k = Len(targets) => \A j \in DOMAIN targets : targets[j] \in S
    <3> HIDE DEF targets, k, S
    <3> QED
      BY <1>2, <1>3, <1>5, <2>2, UpTo
  <2>7. /\ next \in {"delete cronjob", "delete sidecar"}
        /\ next = "delete cronjob" => k = Len(targets)
    OBVIOUS
  <2>8. pass'.seen.spec.targets = targets
    BY <2>5
  <2> HIDE DEF targets, next, n, k
  <2> QED
    BY <2>5, <2>6, <2>7, <2>8 DEF Purge, BareTargets, Bare
<1>7. CASE ~ Found(Target)
  <2>1. workloads' = workloads /\ GoTo("delete cronjob")
    BY <1>7 DEF DeleteSidecar
  <2>2. pass'.seen = pass.seen /\ pass'.at = "delete cronjob"
    BY <1>2, <2>1, PassGoesTo DEF Places
  <2>3. targets[k] \in S
    BY <1>2, <1>7, <2>1 DEF Absentees, Bare, Target
  <2>4. k = Len(targets)
    <3> DEFINE spec == pass.seen.spec
    <3>1. spec = confs[pass.conf].spec
      BY <1>2 DEF Copies, CopyOf
    <3>2. spec \in SpecEdits \cup {InitialSpecs[pass.conf]}
      BY <1>2, <3>1 DEF SpecsKnown
    <3>3. k # Len(targets) => targets[k] \notin Redeployed \cup Pods
      BY <1>2, <3>2 DEF Steadfast
    <3>4. targets[k] \in Workloads /\ ~ Found(targets[k])
      BY <1>2, <1>7 DEF Target
    <3>5. targets[k] \notin Redeployed => workloads[targets[k]].exists
      BY <3>4 DEF Absentees
    <3> HIDE DEF targets, k
    <3> QED
      BY <3>3, <3>4, <3>5 DEF Found
  <2>5. \A j \in DOMAIN targets : targets[j] \in S
    <3> HIDE DEF targets, k, S
    <3> QED
      BY <1>2, <1>3, <1>5, <2>3, <2>4, UpTo
  <2>6. pass'.seen.spec.targets = targets
    BY <2>2
  <2> HIDE DEF targets, k
  <2> QED
    BY <2>2, <2>5, <2>6 DEF Purge, BareTargets, Bare
<1> QED
  BY <1>6, <1>7

\* Each step of a pass that deletes sees to the sidecars of its targets.
LEMMA PurgeStep ==
  ASSUME Steadfast, Typed, Copies, Absentees, SpecsKnown, Purge, [Next]_vars
  PROVE  Purge'
<1> SUFFICES ASSUME pass' # NoPass, refused' = 0 PROVE Purge'
  BY DEF Purge
<1>1. refused = 0 /\ PassOK
  BY RefusalsStay DEF Typed
<1>2. CASE Adds
  <2>1. PICK place \in Places : pass'.at = place /\ (pass.at \in UpkeepPlaces <=> place \in UpkeepPlaces)
    BY <1>2, PassGoesOn DEF Adds
  <2>2. pass'.at \in UpkeepPlaces
    BY <1>2, <2>1 DEF Adds
  <2> QED
    BY <2>2 DEF Purge, UpkeepPlaces
<1>3. CASE ~ Adds
  <2>1. OnlyRemoves
    BY <1>3, OnlyUpkeepAdds
  <2>2. ASSUME pass # NoPass
        PROVE  /\ pass.conf \in Confs
               /\ \A j \in DOMAIN pass.seen.spec.targets : pass.seen.spec.targets[j] \in Workloads
    <3>1. pass.conf \in Confs /\ pass.seen \in Object
      BY <1>1, <2>2 DEF PassOK, PassRecord
    <3>2. pass.seen.spec.targets \in Seq(Workloads)
      BY <3>1, ObjectFields
    <3> QED
      BY <3>1, <3>2
  <2>3. ASSUME pass # NoPass, BareTargets(pass.seen.spec), pass'.seen = pass.seen
        PROVE  BareTargets(pass.seen.spec)'
    <3>1. \A j \in DOMAIN pass.seen.spec.targets : workloads'[pass.seen.spec.targets[j]].sidecar = None
      BY <2>1, <2>2, <2>3 DEF BareTargets, OnlyRemoves
    <3> QED
      BY <2>3, <3>1 DEF BareTargets, Bare
  <2>4. CASE pass' = pass
    <3>1. pass # NoPass
      BY <2>4
    <3>2. pass.at = "delete sidecar" =>
            \A j \in DOMAIN pass.seen.spec.targets :
              j < pass.target => workloads'[pass.seen.spec.targets[j]].sidecar = None
      BY <1>1, <2>1, <2>2, <3>1 DEF Purge, OnlyRemoves
    <3>3. pass.at \in {"delete cronjob", "delete rbac", "finalizer"} => BareTargets(pass.seen.spec)'
      BY <1>1, <2>3, <2>4, <3>1 DEF Purge
    <3> QED
      BY <2>4, <3>2, <3>3 DEF Purge, Bare
  <2>5. ASSUME NEW c \in Confs, Begins(c) PROVE Purge'
    <3>1. pass'.seen = seen[c] /\ pass'.target = 1
      BY <2>5 DEF Begins
    <3>2. seen[c] \in Object /\ seen[c].spec.targets \in Seq(Workloads)
      BY ObjectFields DEF Typed, TypeOK
    <3>3. CASE pass'.at = "cronjob"
      BY <3>3 DEF Purge
    <3>4. CASE pass'.at = "delete sidecar"
      <4>1. \A j \in DOMAIN seen[c].spec.targets : ~ j < 1
        BY <3>2
      <4> QED
        BY <3>1, <3>4, <4>1 DEF Purge
    <3>5. CASE pass'.at = "delete cronjob" /\ seen[c].spec.targets = <<>>
      <4>1. DOMAIN seen[c].spec.targets = {}
        <5> DEFINE targets == seen[c].spec.targets
        <5>1. targets = <<>>
          BY <3>5
        <5> HIDE DEF targets
        <5>2. DOMAIN targets = {}
          BY <5>1
        <5> QED
          BY <5>2 DEF targets
      <4> QED
        BY <3>1, <3>5, <4>1 DEF Purge, BareTargets
    <3> QED
      BY <2>5, <3>3, <3>4, <3>5 DEF Begins
  <2>6. ASSUME NEW ok \in Answers, DeleteSidecar(ok) PROVE Purge'
    BY <2>1, <2>6, PurgeOfSidecars
  <2>7. ASSUME NEW ok \in Answers, DeleteCronJob(ok) PROVE Purge'
    <3>1. At("delete cronjob") /\ GoTo("delete rbac")
      BY <2>7 DEF DeleteCronJob
    <3>2. pass # NoPass /\ pass \in PassRecord /\ pass.at = "delete cronjob"
      BY <1>1, <3>1, PassFields DEF Places
    <3>3. pass'.seen = pass.seen /\ pass'.at = "delete rbac"
      BY <3>1, <3>2, PassGoesTo DEF Places
    <3>4. BareTargets(pass.seen.spec)'
      BY <1>1, <2>3, <3>2, <3>3 DEF Purge
    <3> QED
      BY <3>3, <3>4 DEF Purge
  <2>8. CASE DeleteRBAC
    <3>1. At("delete rbac") /\ GoTo("finalizer")
      BY <2>8 DEF DeleteRBAC
    <3>2. pass # NoPass /\ pass \in PassRecord /\ pass.at = "delete rbac"
      BY <1>1, <3>1, PassFields DEF Places
    <3>3. pass'.seen = pass.seen /\ pass'.at = "finalizer"
      BY <3>1, <3>2, PassGoesTo DEF Places
    <3>4. BareTargets(pass.seen.spec)'
      BY <1>1, <2>3, <3>2, <3>3 DEF Purge
    <3> QED
      BY <3>3, <3>4 DEF Purge
  <2>9. ASSUME NEW ok, RemoveFinalizer(ok) PROVE FALSE
    BY <2>9 DEF RemoveFinalizer, Abort
  <2>10. ASSUME \/ CreateBSCreatorRBAC \/ AddSidecar \/ KeepSidecar \/ NoTarget
                \/ \E ok : AddCronJob(ok) \/ UpdateSidecar(ok) \/ UpdateStatus(ok),
                Continue
         PROVE  FALSE
    BY <1>3, <2>10 DEF CreateBSCreatorRBAC, AddSidecar, KeepSidecar, NoTarget, AddCronJob,
                       UpdateSidecar, UpdateStatus, At, Adds, UpkeepPlaces
  <2>11. CASE Continue
    BY <2>6, <2>7, <2>8, <2>9, <2>10, <2>11 DEF Continue
  <2> QED
    BY <2>4, <2>5, <2>11, PassStep
<1> QED
  BY <1>2, <1>3

\* Sidecars are added to the targets of a configuration that will take them
\* away.
LEMMA UnharmedStep ==
  ASSUME SoleConf, Typed, Copies, Purge, Unharmed, [Next]_vars
  PROVE  Unharmed'
<1> SUFFICES ASSUME NEW c \in Confs
             PROVE  /\ ~ confs'[c].finalizer /\ ~ IsGone(confs'[c]) =>
                         \A w \in Workloads : workloads'[w].sidecar = None
                    /\ IsGone(confs'[c]) /\ refused' = 0 =>
                         \A i \in DOMAIN confs'[c].spec.targets :
                           workloads'[confs'[c].spec.targets[i]].sidecar = None
  BY DEF Unharmed, Bare, BareTargets
<1>1. ASSUME ~ confs'[c].finalizer, ~ IsGone(confs'[c])
      PROVE  \A w \in Workloads : workloads'[w].sidecar = None
  <2>1. OnlyRemoves /\ \A w \in Workloads : Bare(w)
    BY <1>1, SoleConfStep DEF Unharmed
  <2> QED
    BY <2>1 DEF OnlyRemoves
<1>2. ASSUME IsGone(confs'[c]), refused' = 0
      PROVE  \A i \in DOMAIN confs'[c].spec.targets :
               workloads'[confs'[c].spec.targets[i]].sidecar = None
  <2>1. refused = 0 /\ OnlyRemoves /\ confs'[c].spec = confs[c].spec
    BY <1>2, RefusalsStay, SoleConfStep
  <2>2. confs[c] \in Object /\ confs[c].spec.targets \in Seq(Workloads)
    BY ObjectFields DEF Typed, TypeOK
  <2>3. \A i \in DOMAIN confs[c].spec.targets : confs[c].spec.targets[i] \in Workloads
    BY <2>2
  <2>4. BareTargets(confs[c].spec)
    <3>1. CASE IsGone(confs[c])
      BY <2>1, <3>1 DEF Unharmed
    <3>2. CASE ~ confs[c].finalizer /\ ~ IsGone(confs[c])
      <4>1. \A w \in Workloads : Bare(w)
        BY <3>2 DEF Unharmed
      <4> QED
        BY <2>3, <4>1 DEF BareTargets
    <3>3. CASE At("finalizer") /\ pass.conf = c /\ pass.seen = confs[c]
      <4>1. pass # NoPass /\ pass.at = "finalizer"
        BY <3>3, PassFields DEF Places, Typed
      <4> QED
        BY <2>1, <3>3, <4>1 DEF Purge
    <3> QED
      BY <1>2, <3>1, <3>2, <3>3, SoleConfStep
  <2>5. \A i \in DOMAIN confs[c].spec.targets :
          workloads'[confs[c].spec.targets[i]].sidecar = None
    BY <2>1, <2>3, <2>4 DEF BareTargets, OnlyRemoves
  <2> QED
    BY <2>1, <2>5
<1> QED
  BY <1>1, <1>2

\* The inductive invariant behind NothingLeftBehind.
Tidy == RolesTidy /\ Absentees /\ SpecsKnown /\ Purge /\ Unharmed

\* At first there are no sidecars.
LEMMA TidyInit == Init => Tidy
<1> SUFFICES ASSUME Init PROVE Absentees /\ SpecsKnown /\ Purge /\ Unharmed
  BY TypedInit, CopiesInit, MadeInit DEF Tidy, RolesTidy
<1>1. /\ \A w \in Workloads : workloads[w] = [exists |-> TRUE, sidecar |-> None]
      /\ \A c \in Confs : confs[c] = Blank(c, FALSE)
      /\ pass = NoPass
  BY DEF Init
<1>2. \A c \in Confs : ~ Blank(c, FALSE).deleting /\ Blank(c, FALSE).spec = InitialSpecs[c]
  BY DEF Blank
<1>3. \A w \in Workloads : Bare(w) /\ workloads[w].exists
  BY <1>1 DEF Bare
<1>4. Absentees
  BY <1>3 DEF Absentees
<1>5. SpecsKnown
  BY <1>1, <1>2 DEF SpecsKnown
<1>6. Purge
  BY <1>1 DEF Purge
<1>7. Unharmed
  BY <1>1, <1>2, <1>3 DEF Unharmed, IsGone
<1> QED
  BY <1>4, <1>5, <1>6, <1>7

\* With one configuration in the namespace, and targets of which only the
\* last may be missing, a configuration that is gone has left no more of the
\* cron job and the roles than requests came to nothing, and no sidecars if
\* none did: whatever was edited, and wherever the process was killed.
THEOREM NothingIsLeftBehind ==
  ASSUME SoleConf, Steadfast PROVE Spec => []NothingLeftBehind
<1>1. Tidy /\ [Next]_vars => Tidy'
  BY TypedStep, CopiesStep, ErasureStep, MadeStep, AbsenteesStep, SpecsStep, PurgeStep, UnharmedStep
  DEF Tidy, RolesTidy
<1>2. Tidy => NothingLeftBehind
  <2> SUFFICES ASSUME Tidy, NEW c \in Confs, confs[c].deleting, ~ confs[c].exists
               PROVE  /\ Remains(c) <= refused
                      /\ refused = 0 => \A w \in TargetsOf(c) : workloads[w].sidecar = None
    BY DEF NothingLeftBehind
  <2>1. Remains(c) <= refused
    BY DEF Tidy, RolesTidy, Made, IsGone
  <2>2. refused = 0 => BareTargets(confs[c].spec)
    BY DEF Tidy, Unharmed, IsGone
  <2> QED
    BY <2>1, <2>2 DEF BareTargets, Bare, TargetsOf
<1> QED
  BY <1>1, <1>2, TidyInit, PTL DEF Spec
=============================================================================
