--------------------------- MODULE BackupSession ----------------------------
(***************************************************************************)
(* The BackupSession controller (controllers/backupsession_controller.go   *)
(* and its helper) on top of the API server.                               *)
(*                                                                         *)
(* The API server holds the objects; the controller reads its informer     *)
(* cache, which lags behind, and writes with the resource version it read, *)
(* so that a write based on an old version is refused.  One worker takes   *)
(* sessions from the work queue.  A pass of Reconcile ends in at most one  *)
(* write, except two that make several: the deletion of a session (purge   *)
(* Job, then finalizer) and the cleanup that follows a success (one write  *)
(* per session).  Those leave their remaining writes in "pending", and     *)
(* everything else may happen between two of them.                         *)
(*                                                                         *)
(* The sidecars and the Jobs they start belong to another program          *)
(* (formolcli); they appear as the state changes this controller waits     *)
(* for.                                                                    *)
(***************************************************************************)
EXTENDS SessionState, Retention, SequencesExt

CONSTANTS
  Sessions,       \* names of BackupSessions of one namespace
  Confs,          \* names of BackupConfigurations of that namespace
  Ref,            \* Spec.Ref of each session
  InitialConf,    \* the configurations at the start
  ConfEdits,      \* the specifications a user may change a configuration to
  Calendar,       \* the days that time.Now() goes through
  MaxRestarts,    \* bound: how often the controller process is restarted
  ApiMayFail,     \* the API server may refuse a request for reasons of its own
  UserDeletes,    \* the sessions a user may delete
  ConfDeletes     \* the configurations a user may delete

Conf == [exists : BOOLEAN, targets : Seq(TargetSpec), keep : Policies]

ASSUME SessionsAssumption == IsFiniteSet(Sessions)
ASSUME RefAssumption == Ref \in [Sessions -> Confs]
ASSUME ConfAssumption == InitialConf \in [Confs -> Conf] /\ ConfEdits \subseteq {c \in Conf : c.exists}
ASSUME CalendarAssumption == Calendar \in Seq(Dates) /\ Len(Calendar) > 0
ASSUME RestartsAssumption == MaxRestarts \in Nat
ASSUME FailAssumption == ApiMayFail \in BOOLEAN
ASSUME DeletesAssumption == UserDeletes \subseteq Sessions /\ ConfDeletes \subseteq Confs

VARIABLES
  api,         \* the API server's objects
  cache,       \* the informer cache's copies of them
  queue,       \* the work queue of the controller
  pending,     \* writes the pass in progress has still to make
  conf,        \* the configurations, as the controller sees them
  now,         \* today's place in Calendar
  restarts,    \* restarts so far
  created,     \* history: sessions that were ever created
  recorded,    \* history: snapshots <<session, target>> whose id was recorded
  purged,      \* history: snapshots a delete Job was created for
  unpurged     \* history: snapshots whose delete Job could not be created

vars == <<api, cache, queue, pending, conf, now, restarts, created,
          recorded, purged, unpurged>>

history == <<created, recorded, purged, unpurged>>
world   == <<conf, now, restarts>>

\* A BackupSession object: metadata (deletionTimestamp, our finalizer) and
\* status.  start is a place in Calendar, 0 while Status.StartTime is nil.
Object == [exists : BOOLEAN, deleting : BOOLEAN, finalizer : BOOLEAN,
           state : SessionStates, start : Nat, targets : Seq(TargetStatus),
           keep : SUBSET Rules]

Blank(exists) == [exists |-> exists, deleting |-> FALSE, finalizer |-> FALSE,
                  state |-> NoState, start |-> 0, targets |-> <<>>, keep |-> {}]

NoObject  == Blank(FALSE)
NewObject == Blank(TRUE)

\* Update: the object with new values for its metadata.
SetMeta(o, deleting, finalizer) ==
  [exists |-> o.exists, deleting |-> deleting, finalizer |-> finalizer,
   state |-> o.state, start |-> o.start, targets |-> o.targets, keep |-> o.keep]

\* Status().Update: the object with new values for its status.
SetStatus(o, state, start, targets, keep) ==
  [exists |-> o.exists, deleting |-> o.deleting, finalizer |-> o.finalizer,
   state |-> state, start |-> start, targets |-> targets, keep |-> keep]

Write == [do : {"unfinalize", "delete", "keep"}, session : Sessions,
          seen : Object, keep : SUBSET Rules]

Snapshots == Sessions \X (Nat \ {0})

SnapshotsOf(s, o) == {<<s, i>> : i \in {j \in DOMAIN o.targets : o.targets[j].snap}}

Answers == IF ApiMayFail THEN BOOLEAN ELSE {TRUE}

\* Faulty variant: the last write wins.
FreshAlways(seen, s) == TRUE

\* The resource version the controller read is the current one.
Fresh(seen, s) == seen = api[s]

-----------------------------------------------------------------------------
(* Users, the cron job, time and the informers.                            *)

Create(s) ==
  /\ s \notin created
  /\ created' = created \cup {s}
  /\ api' = [api EXCEPT ![s] = NewObject]
  /\ UNCHANGED <<cache, queue, pending, world, recorded, purged, unpurged>>

\* A delete request: with our finalizer on it the object only gets its
\* deletionTimestamp.
Deleted(o) == IF o.finalizer THEN SetMeta(o, TRUE, TRUE) ELSE NoObject

UserDelete(s) ==
  /\ s \in UserDeletes
  /\ api[s].exists /\ ~ api[s].deleting
  /\ api' = [api EXCEPT ![s] = Deleted(@)]
  /\ UNCHANGED <<cache, queue, pending, world, history>>

EditConf(c) ==
  /\ conf[c].exists
  /\ \E spec \in ConfEdits : conf' = [conf EXCEPT ![c] = spec]
  /\ UNCHANGED <<api, cache, queue, pending, now, restarts, history>>

DeleteConf(c) ==
  /\ c \in ConfDeletes
  /\ conf[c].exists
  /\ conf' = [conf EXCEPT ![c] = [exists |-> FALSE, targets |-> @.targets, keep |-> @.keep]]
  /\ UNCHANGED <<api, cache, queue, pending, now, restarts, history>>

Tick ==
  /\ now < Len(Calendar)
  /\ now' = now + 1
  /\ UNCHANGED <<api, cache, queue, pending, conf, restarts, history>>

\* A watch event reaches the cache and the event handler queues the object.
Sync(s) ==
  /\ cache[s] # api[s]
  /\ cache' = [cache EXCEPT ![s] = api[s]]
  /\ queue' = queue \cup {s}
  /\ UNCHANGED <<api, pending, world, history>>

\* The informer's periodic resync hands every cached object to the handler.
Resync ==
  /\ queue' = queue \cup {s \in Sessions : cache[s].exists}
  /\ queue' # queue
  /\ UNCHANGED <<api, cache, pending, world, history>>

\* A new process lists all the objects and queues them; the writes of a pass
\* in progress are lost.
Relist ==
  /\ cache' = api
  /\ queue' = {s \in Sessions : api[s].exists}
  /\ pending' = <<>>

Restart ==
  /\ restarts < MaxRestarts
  /\ restarts' = restarts + 1
  /\ Relist
  /\ UNCHANGED <<api, conf, now, history>>

-----------------------------------------------------------------------------
(* The sidecars of the targets, and the Jobs that back up volume snapshots *)

Report(s, i, status) ==
  /\ api' = [api EXCEPT ![s] =
               SetStatus(@, @.state, @.start, [@.targets EXCEPT ![i] = status], @.keep)]
  /\ recorded' = recorded \cup (IF status.snap THEN {<<s, i>>} ELSE {})
  /\ UNCHANGED <<cache, queue, pending, world, created, purged, unpurged>>

\* The sidecar is done with the phase its target was given.
Reported(t) ==
  IF t.state = Initializing THEN SetTarget(t, Initialized, t.try, t.snap)
  ELSE IF t.state = Running THEN SetTarget(t, Waiting, t.try, t.snap \/ t.kind # "Snapshot")
  ELSE IF t.kind = "Snapshot" THEN SetTarget(t, WaitingForJob, t.try, t.snap)
  ELSE SetTarget(t, Success, t.try, t.snap)

TargetDone(s, i) ==
  /\ i \in DOMAIN api[s].targets
  /\ Busy(api[s].targets[i])
  /\ Report(s, i, Reported(api[s].targets[i]))

TargetFails(s, i) ==
  /\ i \in DOMAIN api[s].targets
  /\ Busy(api[s].targets[i])
  /\ LET t == api[s].targets[i] IN Report(s, i, SetTarget(t, Failure, t.try, t.snap))

JobDone(s, i) ==
  /\ i \in DOMAIN api[s].targets
  /\ api[s].targets[i].state = WaitingForJob
  /\ LET t == api[s].targets[i] IN Report(s, i, SetTarget(t, Finalized, t.try, TRUE))

-----------------------------------------------------------------------------
(* Reconcile.  A pass that fails (the configuration cannot be read, a      *)
(* write is refused) is queued again: it is a stuttering step.  So is the  *)
(* pass that finds a backup running and asks to be called in 30 seconds.   *)

\* The worker is idle and takes s: both the session and its configuration
\* can be read.
Takes(s) ==
  /\ pending = <<>>
  /\ s \in queue
  /\ cache[s].exists
  /\ conf[Ref[s]].exists

\* The pass ends in the write of o, based on the version in the cache.
Save(s, o) ==
  /\ Fresh(cache[s], s)
  /\ api' = [api EXCEPT ![s] = o]
  /\ queue' = queue \ {s}
  /\ UNCHANGED <<cache, pending, world, history>>

\* The pass ends without a write.
Drop(s) ==
  /\ queue' = queue \ {s}
  /\ UNCHANGED <<api, cache, pending, world, history>>

\* The session cannot be found.
ReconcileGone(s) ==
  /\ pending = <<>>
  /\ s \in queue
  /\ ~ cache[s].exists
  /\ Drop(s)

\* deleteSnapshots creates one Job for all the snapshots recorded in the
\* session; creating it may fail.
DeleteSnapshots(s, ok) ==
  LET snapshots == SnapshotsOf(s, cache[s])
  IN  /\ purged'   = IF ok THEN purged \cup snapshots ELSE purged
      /\ unpurged' = IF ok THEN unpurged ELSE unpurged \cup snapshots

\* Faulty variant: only the deletion of a session that has ended is handled.
ReconcileDeletionOfEnded(s) ==
  /\ Takes(s)
  /\ cache[s].deleting
  /\ cache[s].finalizer
  /\ cache[s].state \in {Success, Failure}
  /\ \E ok \in Answers : DeleteSnapshots(s, ok)
  /\ pending' = <<[do |-> "unfinalize", session |-> s, seen |-> cache[s], keep |-> {}]>>
  /\ queue' = queue \ {s}
  /\ UNCHANGED <<api, cache, world, created, recorded>>

\* The session is being deleted: its snapshots go, and whether or not that
\* worked the finalizer is removed next.
ReconcileDeletion(s) ==
  /\ Takes(s)
  /\ cache[s].deleting
  /\ cache[s].finalizer
  /\ \E ok \in Answers : DeleteSnapshots(s, ok)
  /\ pending' = <<[do |-> "unfinalize", session |-> s, seen |-> cache[s], keep |-> {}]>>
  /\ queue' = queue \ {s}
  /\ UNCHANGED <<api, cache, world, created, recorded>>

ReconcileFinalizer(s) ==
  /\ Takes(s)
  /\ ~ cache[s].finalizer
  /\ Save(s, SetMeta(cache[s], cache[s].deleting, TRUE))

\* Faulty variant: the work starts before the finalizer is on the object.
InStateUnfinalized(s, state) ==
  /\ Takes(s)
  /\ ~ cache[s].deleting
  /\ cache[s].state = state

\* Past the finalizer the pass depends on the state of the session alone.
InState(s, state) ==
  /\ Takes(s)
  /\ cache[s].finalizer
  /\ ~ cache[s].deleting
  /\ cache[s].state = state

ReconcileCreated(s) ==
  /\ InState(s, NoState)
  /\ Save(s, SetStatus(cache[s], New, now, cache[s].targets, cache[s].keep))

\* A list by state: the index of the cache that SetupWithManager asks for.
Indexed(state) == {t \in Sessions : cache[t].exists /\ cache[t].state = state}

IsBackupOngoing == Indexed(Running) # {}

ReconcileNew(s) ==
  /\ InState(s, New)
  /\ ~ IsBackupOngoing
  /\ Save(s, SetStatus(cache[s], Initializing, cache[s].start,
                       InitSession(conf[Ref[s]].targets), cache[s].keep))

\* One of the three phases.  No new state, no write.
ReconcilePhase(s) ==
  \E phase \in Phases :
    /\ InState(s, phase)
    /\ ~ PhasePanics(phase, cache[s].targets, conf[Ref[s]].targets)
    /\ LET result == Advance(phase, cache[s].targets, conf[Ref[s]].targets)
       IN  IF result.state = NoState
             THEN Drop(s)
             ELSE Save(s, SetStatus(cache[s], result.state, cache[s].start,
                                    result.targets, cache[s].keep))

\* The index is out of range: the process dies and is started again.
ReconcilePanic(s) ==
  /\ \E phase \in Phases :
       /\ InState(s, phase)
       /\ PhasePanics(phase, cache[s].targets, conf[Ref[s]].targets)
  /\ Relist
  /\ UNCHANGED <<api, world, history>>

\* Faulty variant: the oldest first.
OldestFirst(S) ==
  {q \in SetToSeqs(S) :
     \A i, j \in DOMAIN q : i < j => cache[q[i]].start <= cache[q[j]].start}

\* The ways to sort a set of sessions by start time, the newest first; the
\* sort is not stable, and sessions of the same second come in any order.
NewestFirst(S) ==
  {q \in SetToSeqs(S) :
     \A i, j \in DOMAIN q : i < j => cache[q[i]].start >= cache[q[j]].start}

Successful == Indexed(Success)

\* Faulty variant: nothing is ever deleted.
CleanupWritesKeepAll(order, policy) ==
  LET tags == KeepTags([i \in DOMAIN order |-> Calendar[cache[order[i]].start]], policy)
  IN  [i \in DOMAIN order |->
         [do |-> "keep", session |-> order[i], seen |-> cache[order[i]], keep |-> tags[i]]]

\* What cleanupSessions does to the sessions of one configuration.
CleanupWrites(order, policy) ==
  LET tags == KeepTags([i \in DOMAIN order |-> Calendar[cache[order[i]].start]], policy)
  IN  [i \in DOMAIN order |->
         [do      |-> IF tags[i] = {} THEN "delete" ELSE "keep",
          session |-> order[i], seen |-> cache[order[i]], keep |-> tags[i]]]

\* The writes of cleanupSessions for the configuration of s.  With fewer
\* than two successes in the whole namespace there is nothing to clean up.
CleanupSessions(s) ==
  IF Cardinality(Successful) < 2
    THEN pending' = pending
    ELSE \E order \in NewestFirst({t \in Successful : Ref[t] = Ref[s]}) :
           pending' = CleanupWrites(order, conf[Ref[s]].keep)

ReconcileSuccess(s) ==
  /\ InState(s, Success)
  /\ CleanupSessions(s)
  /\ queue' = queue \ {s}
  /\ UNCHANGED <<api, cache, world, history>>

ReconcileFailure(s) ==
  /\ InState(s, Failure)
  /\ Drop(s)

-----------------------------------------------------------------------------
(* The writes of a pass that makes several, one step each.                 *)

\* The last finalizer of an object that is being deleted: the object goes.
\* A refused write is an error of the pass, and the session is queued again.
Unfinalize(ok) ==
  LET w == Head(pending)
  IN  /\ pending # <<>>
      /\ w.do = "unfinalize"
      /\ pending' = Tail(pending)
      /\ IF ok /\ Fresh(w.seen, w.session)
           THEN api' = [api EXCEPT ![w.session] = NoObject] /\ queue' = queue
           ELSE api' = api /\ queue' = queue \cup {w.session}
      /\ UNCHANGED <<cache, world, history>>

\* A delete request names the object and no version.  Errors are logged only.
CleanupDelete(ok) ==
  LET w == Head(pending)
  IN  /\ pending # <<>>
      /\ w.do = "delete"
      /\ pending' = Tail(pending)
      /\ api' = IF ok THEN [api EXCEPT ![w.session] = Deleted(@)] ELSE api
      /\ UNCHANGED <<cache, queue, world, history>>

CleanupKeep(ok) ==
  LET w == Head(pending)
  IN  /\ pending # <<>>
      /\ w.do = "keep"
      /\ pending' = Tail(pending)
      /\ api' = IF ok /\ Fresh(w.seen, w.session)
                  THEN [api EXCEPT ![w.session] =
                          SetStatus(w.seen, w.seen.state, w.seen.start, w.seen.targets, w.keep)]
                  ELSE api
      /\ UNCHANGED <<cache, queue, world, history>>

-----------------------------------------------------------------------------
Init ==
  /\ api      = [s \in Sessions |-> NoObject]
  /\ cache    = [s \in Sessions |-> NoObject]
  /\ queue    = {}
  /\ pending  = <<>>
  /\ conf     = InitialConf
  /\ now      = 1
  /\ restarts = 0
  /\ created  = {}
  /\ recorded = {}
  /\ purged   = {}
  /\ unpurged = {}

\* A pass that returns.
Returns(s) ==
  \/ ReconcileGone(s)
  \/ ReconcileDeletion(s)
  \/ ReconcileFinalizer(s)
  \/ ReconcileCreated(s)
  \/ ReconcileNew(s)
  \/ ReconcilePhase(s)
  \/ ReconcileSuccess(s)
  \/ ReconcileFailure(s)

Reconcile(s) == Returns(s) \/ ReconcilePanic(s)

NextWrite == \E ok \in Answers : Unfinalize(ok) \/ CleanupDelete(ok) \/ CleanupKeep(ok)

Sidecar(s, i) == TargetDone(s, i) \/ TargetFails(s, i)

Users ==
  \/ \E s \in Sessions : Create(s) \/ UserDelete(s)
  \/ \E c \in Confs : EditConf(c) \/ DeleteConf(c)

Environment == Users \/ Tick \/ Resync \/ Restart

Targets(s) == \E i \in DOMAIN api[s].targets : Sidecar(s, i) \/ JobDone(s, i)

Next ==
  \/ Environment
  \/ \E s \in Sessions : Sync(s) \/ Reconcile(s) \/ Targets(s)
  \/ NextWrite

Spec == Init /\ [][Next]_vars

\* Watch events arrive, a target that was given a phase answers one way or
\* the other, and a pass makes its writes.  The work queue is first in, first
\* out: a session in it gets its turn although the worker is busy with others
\* again and again, hence strong fairness.
Fairness ==
  /\ \A s \in Sessions : WF_vars(Sync(s)) /\ SF_vars(Reconcile(s)) /\ WF_vars(Targets(s))
  /\ WF_vars(NextWrite)

FairSpec == Spec /\ Fairness
-----------------------------------------------------------------------------
(* Properties.                                                             *)

\* The variables have their types; what the cache and a pass in progress
\* hold are objects too.
TypeOK ==
  /\ api \in [Sessions -> Object]
  /\ cache \in [Sessions -> Object]
  /\ queue \in SUBSET Sessions
  /\ pending \in Seq(Write)
  /\ conf \in [Confs -> Conf]
  /\ now \in 1..Len(Calendar)
  /\ restarts \in 0..MaxRestarts
  /\ created \in SUBSET Sessions
  /\ recorded \in SUBSET Snapshots
  /\ purged \in SUBSET Snapshots
  /\ unpurged \in SUBSET Snapshots

\* The targets of every session are coherent with its state.
Pipeline == \A s \in Sessions : Coherent(api[s].state, api[s].targets)

\* checkSessionState hands a phase to one target at a time: at no time do two
\* sidecars of one session work, whatever the cache showed, whoever retried,
\* and a session that has ended leaves nobody at work.
OneBusyTarget ==
  \A s \in Sessions :
    \A i, j \in DOMAIN api[s].targets :
      Busy(api[s].targets[i]) =>
        /\ api[s].state \in Phases
        /\ Busy(api[s].targets[j]) => i = j

\* A session is declared a Success only with a snapshot id for every target.
\* One case is let through by the code: a volume-snapshot target writes its
\* id in a Job of the Finalize phase, which it never reaches when a target
\* could not be finalized.
SuccessIsBackedUp ==
  \A s \in Sessions :
    api[s].state = Success =>
      \A i \in DOMAIN api[s].targets :
        \/ api[s].targets[i].snap
        \/ /\ api[s].targets[i].kind = "Snapshot"
           /\ \E j \in 1..i : api[s].targets[j].state = Failure

\* A session fails only because one target used up exactly the tries that
\* the configuration grants it, unless that was edited, before the targets
\* behind it got their turn.
FailureIsExhausted ==
  \A s \in Sessions :
    api[s].state = Failure /\ conf[Ref[s]].targets = InitialConf[Ref[s]].targets =>
      \E i \in DOMAIN api[s].targets :
        /\ api[s].targets[i].state = Failure
        /\ LET granted == conf[Ref[s]].targets[i].retry
           IN  api[s].targets[i].try = IF granted > 1 THEN granted ELSE 1
        /\ \A j \in DOMAIN api[s].targets :
             j > i => api[s].targets[j].state \in {NoState, Initialized}

\* A session leaves the API server only when a Job was created to delete
\* each of the snapshots recorded in it, those recorded while it was being
\* deleted included, unless creating that Job was refused.
SnapshotsPurged ==
  \A s \in created :
    ~ api[s].exists =>
      \A snapshot \in recorded :
        snapshot[1] = s => snapshot \in purged \cup unpurged

Rank(state) == IF state = NoState THEN 0
               ELSE IF state = New THEN 1
               ELSE IF state = Initializing THEN 2
               ELSE IF state = Running THEN 3
               ELSE IF state = Finalize THEN 4 ELSE 5

WorkStays(old, new) ==
  old.exists /\ new.exists =>
    /\ Rank(new.state) >= Rank(old.state)
    /\ old.deleting => new.deleting
    /\ \A i \in DOMAIN old.targets :
         /\ i \in DOMAIN new.targets
         /\ new.targets[i].try >= old.targets[i].try
         /\ old.targets[i].snap => new.targets[i].snap
         /\ old.state \in Phases /\ new.state = old.state
              /\ old.targets[i].state \in Done(old.state)
            => new.targets[i].state \in Done(old.state)

\* No write based on an old copy takes work back: a session never returns to
\* an earlier state, a try is never uncounted, a recorded snapshot id is
\* never lost, and a target that is through with a phase stays so.
WorkIsNeverUndone == [][\A s \in Sessions : WorkStays(api[s], api'[s])]_api

\* The cleanup never takes a session among the Keep.Last newest of its
\* configuration, although it works from a cached list and other sessions
\* end between its writes (start times distinct, no deletions by users).  A
\* start is the second in which the controller first sees the session, so
\* sessions created while it is down may well share one.
CleanupSparesNewest ==
  \A s \in Sessions :
    api[s].deleting =>
      Cardinality({t \in Sessions : /\ Ref[t] = Ref[s]
                                    /\ api[t].state = Success
                                    /\ ~ api[t].deleting
                                    /\ api[t].start > api[s].start})
        >= conf[Ref[s]].keep["last"]

\* A backup that was cut off: its configuration is gone, no pass gets past
\* reading it, and the session stays as it is, finalizer included.
CutOff(s) == api[s].exists /\ ~ conf[Ref[s]].exists

\* What keeps a session from ever ending: it has no targets (the loop of
\* checkSessionState is not entered), or it waits for a backup cut off while
\* it was running, which isBackupOngoing goes on listing.
Starved(s) ==
  \/ api[s].state = Initializing /\ api[s].targets = <<>>
  \/ /\ api[s].state = New
     /\ \E t \in Sessions : CutOff(t) /\ api[t].state = Running

\* Every session that is not deleted, and whose configuration is not, ends,
\* and for good, whatever the others do, but for the two cases of Starved:
\* sessions are created and deleted a finite number of times here, so in the
\* end none is on its way.  The configurations are not edited meanwhile: on a
\* list of targets that was shortened each pass panics (IndexPanics), a third
\* way never to end.
SessionTerminates ==
  <>[](\A s \in Sessions :
         api[s].exists /\ ~ api[s].deleting =>
           api[s].state \in {Success, Failure} \/ CutOff(s) \/ Starved(s))

\* Every session that is being deleted does go away, in whichever state it
\* is, as long as its configuration is there.
DeletedIsCollected == <>[](\A s \in Sessions : api[s].deleting => CutOff(s))

\* The sessions of a configuration that stay, in their order by date.
Kept(c) == {s \in Sessions : Ref[s] = c /\ api[s].state = Success}

ByDate(S) ==
  [i \in 1..Cardinality(S) |->
     CHOOSE s \in S : Cardinality({t \in S : api[t].start > api[s].start}) = i - 1]

\* With two or more successes in the namespace, those of a configuration are
\* in the end exactly the ones its policy keeps, each labelled with the
\* rules it is kept by: conflicts in the middle of a cleanup are made up
\* for by the pass their event brings.
RetentionConverges ==
  \A c \in Confs :
    <>[](LET order == ByDate(Kept(c))
             tags  == KeepTags([i \in DOMAIN order |-> Calendar[api[order[i]].start]],
                               conf[c].keep)
         IN  Cardinality(Kept(c)) >= 2 =>
               \A i \in DOMAIN order : tags[i] # {} /\ api[order[i]].keep = tags[i])
-----------------------------------------------------------------------------
(* What comments and messages of the code say, and the code does not do.   *)

\* "We still want to run Finalize for all the targets" (session.go), and "if
\* try reaches 0, move all the Targets to Finalize and move myself to
\* Failure" (backupsession_controller.go): when a session has ended, no
\* target that was initialized or backed up is left without its Finalize.
EndedIsFinalized ==
  \A s \in Sessions :
    api[s].state \in {Success, Failure} =>
      \A i \in DOMAIN api[s].targets : api[s].targets[i].state \notin {Initialized, Waiting}

\* "there is an ongoing backup. Let's reschedule this operation"
\* (backupsession_controller.go): a backup is not begun while another one
\* of the namespace is running.
OneBackupAtATime ==
  \A s, t \in Sessions :
    api[s].state = Running /\ api[t].state = Running => s = t

-----------------------------------------------------------------------------
(* The promise to the targets, TargetPipeline, and how an object shows its *)
(* state.                                                                  *)

InPhase(o) == o.exists /\ o.state \in Phases

StageOf(o) == IF o.exists THEN o.state ELSE "absent"
SizeOf(o)  == Len(o.targets)
TurnOf(o)  == IF InPhase(o)
                THEN Cardinality({i \in DOMAIN o.targets : o.targets[i].state # Before(o.state)})
                ELSE 0
DoingOf(o) == CASE InPhase(o) /\ \E i \in DOMAIN o.targets : Busy(o.targets[i]) -> "works"
                [] InPhase(o) /\ \E i \in DOMAIN o.targets : o.targets[i].state = Failure -> "failed"
                [] OTHER -> "rests"
JobsOf(o)  == IF InPhase(o)
                THEN {i \in DOMAIN o.targets : o.targets[i].state = WaitingForJob}
                ELSE {}

Promise == INSTANCE TargetPipeline WITH
             Absent <- "absent",
             stage  <- [s \in Sessions |-> StageOf(api[s])],
             size   <- [s \in Sessions |-> SizeOf(api[s])],
             turn   <- [s \in Sessions |-> TurnOf(api[s])],
             doing  <- [s \in Sessions |-> DoingOf(api[s])],
             jobs   <- [s \in Sessions |-> JobsOf(api[s])]

\* The controller, its stale cache, its retries and restarts included, keeps
\* the promise made to the targets: phases in order, one target at a time in
\* the order of the configuration, no phase ended early but by a target that
\* is given up.
KeepsPromise == Promise!Spec
=============================================================================
