---------------------------- MODULE SessionState ----------------------------
(***************************************************************************)
(* The target scheduler shared by BackupSession and RestoreSession         *)
(* (controllers/session.go).  A session holds one status per target; the   *)
(* controller looks at the statuses, in order, and either hands the phase  *)
(* to one target, waits for it, retries it, gives up or ends the phase.    *)
(*                                                                         *)
(* A target status keeps what the scheduler reads or writes: the backup    *)
(* kind, the state, the number of the current try and whether a snapshot   *)
(* id was recorded.                                                        *)
(***************************************************************************)
EXTENDS Integers, Sequences, FiniteSetsExt

NoState       == ""
New           == "New"
Initializing  == "Initializing"
Initialized   == "Initialized"
Running       == "Running"
Waiting       == "Waiting"
WaitingForJob == "WaitingForJob"
Finalize      == "Finalize"
Success       == "Success"
Failure       == "Failure"

\* The state a volume-snapshot Job leaves its target in once it is over.  It
\* is no constant of the API: the scheduler only knows it as "none of mine".
Finalized     == "Finalized"

SessionStates == {NoState, New, Initializing, Running, Finalize, Success, Failure}

TargetStates  == {NoState, Initializing, Initialized, Running, Waiting,
                  WaitingForJob, Finalize, Success, Failure, Finalized}

BackupKinds   == {"Online", "Snapshot", "Job"}

TargetStatus == [kind : BackupKinds, state : TargetStates, try : Nat, snap : BOOLEAN]

\* The status t with new values for what changes in it.
SetTarget(t, state, try, snap) ==
  [kind |-> t.kind, state |-> state, try |-> try, snap |-> snap]

\* What the scheduler reads of a target of the configuration.
TargetSpec == [kind : BackupKinds, retry : Nat]

\* Faulty variant: the targets start in the state New.
InitSessionNew(specs) ==
  [i \in DOMAIN specs |->
     [kind |-> specs[i].kind, state |-> New, try |-> 1, snap |-> FALSE]]

InitSession(specs) ==
  [i \in DOMAIN specs |->
     [kind |-> specs[i].kind, state |-> NoState, try |-> 1, snap |-> FALSE]]

-----------------------------------------------------------------------------
(* checkSessionState.  The loop over the targets ends at the first one     *)
(* whose case returns: every case but WaitingForJob, and the default case  *)
(* of a target that is not the last.                                       *)

\* Faulty variants: a busy target is passed over; the phase ends one target
\* early; the phase never ends.
StopsNotAtBusy(tss, cur, wait, i) ==
  \/ tss[i].state \in {cur, Failure}
  \/ i = Len(tss) /\ tss[i].state \notin {wait, WaitingForJob}

StopsOneEarly(tss, cur, wait, i) ==
  \/ tss[i].state \in {cur, Failure, wait}
  \/ i >= Len(tss) - 1 /\ tss[i].state # WaitingForJob

StopsNotAtLast(tss, cur, wait, i) == tss[i].state \in {cur, Failure, wait}

Stops(tss, cur, wait, i) ==
  \/ tss[i].state \in {cur, Failure, wait}
  \/ i = Len(tss) /\ tss[i].state # WaitingForJob

Stopping(tss, cur, wait) == {i \in DOMAIN tss : Stops(tss, cur, wait, i)}

\* Target i is told to work, for the n-th time.
GiveTurn(tss, i, wait, n) ==
  [tss EXCEPT ![i] = SetTarget(tss[i], wait, n, tss[i].snap)]

\* Faulty variant: one try too many.
VisitOnceMore(tss, specs, cur, wait, next, i) ==
  IF tss[i].state = cur
    THEN [state |-> wait, targets |-> GiveTurn(tss, i, wait, tss[i].try)]
  ELSE IF tss[i].state = Failure
    THEN IF tss[i].try <= specs[i].retry
           THEN [state |-> wait, targets |-> GiveTurn(tss, i, wait, tss[i].try + 1)]
           ELSE [state |-> Failure, targets |-> tss]
  ELSE [state |-> IF tss[i].state = wait THEN NoState ELSE next, targets |-> tss]

\* What the loop returns at target i, and the statuses it leaves behind.
Visit(tss, specs, cur, wait, next, i) ==
  IF tss[i].state = cur
    THEN [state |-> wait, targets |-> GiveTurn(tss, i, wait, tss[i].try)]
  ELSE IF tss[i].state = Failure
    THEN IF tss[i].try < specs[i].retry
           THEN [state |-> wait, targets |-> GiveTurn(tss, i, wait, tss[i].try + 1)]
           ELSE [state |-> Failure, targets |-> tss]
  ELSE [state |-> IF tss[i].state = wait THEN NoState ELSE next, targets |-> tss]

\* Faulty variant: nothing is deferred.
PassedJobIgnored(tss, stops) == FALSE

\* The deferred function: a target passed over because its Job still runs
\* turns whatever the loop returns into waitState.
PassedJob(tss, stops) ==
  \E j \in DOMAIN tss : /\ tss[j].state = WaitingForJob
                        /\ \A i \in stops : j < i

CheckSessionState(tss, specs, cur, wait, next) ==
  LET stops  == Stopping(tss, cur, wait)
      result == IF stops = {}
                  THEN [state |-> NoState, targets |-> tss]
                  ELSE Visit(tss, specs, cur, wait, next, Min(stops))
  IN  [state   |-> IF PassedJob(tss, stops) THEN wait ELSE result.state,
       targets |-> result.targets]

\* backupConf.Spec.Targets[i] is out of range: the configuration now has
\* fewer targets than when the session copied them.
IndexPanics(tss, specs, cur, wait) ==
  LET stops == Stopping(tss, cur, wait)
  IN  /\ stops # {}
      /\ tss[Min(stops)].state = Failure
      /\ Min(stops) \notin DOMAIN specs

-----------------------------------------------------------------------------
(* The three phases.  In each of them waitState is also the name of the    *)
(* session's own state.                                                    *)

Phases == {Initializing, Running, Finalize}

\* The state in which a target has not yet been given the phase.
Before(phase) == IF phase = Initializing THEN NoState
                 ELSE IF phase = Running THEN Initialized ELSE Waiting

After(phase)  == IF phase = Initializing THEN Running
                 ELSE IF phase = Running THEN Finalize ELSE Success

\* checkInitialized, checkWaiting and checkSuccess.
CheckPhase(phase, tss, specs) ==
  CheckSessionState(tss, specs, Before(phase), phase, After(phase))

PhasePanics(phase, tss, specs) ==
  IndexPanics(tss, specs, Before(phase), phase)

\* Faulty variant: a failed backup counts as a success too.
AdvanceAnyway(phase, tss, specs) ==
  LET result == CheckPhase(phase, tss, specs)
  IN  [state   |-> IF phase # Initializing /\ result.state = Failure
                    THEN Success ELSE result.state,
       targets |-> result.targets]

\* The Reconcile of a session in one of the three phases: a target that
\* cannot be finalized does not make the session fail.
Advance(phase, tss, specs) ==
  LET result == CheckPhase(phase, tss, specs)
  IN  [state   |-> IF phase = Finalize /\ result.state = Failure
                    THEN Success ELSE result.state,
       targets |-> result.targets]

-----------------------------------------------------------------------------
(* How the statuses of the targets look from outside.                      *)

\* The sidecar of the target has been told to work.
Busy(t) == t.state \in Phases

\* The states of a target that is through with a phase.
Done(phase) == IF phase = Initializing THEN {Initialized}
               ELSE IF phase = Running THEN {Waiting}
               ELSE {Success, WaitingForJob, Finalized}

\* The targets are served strictly in order: whoever has been given the
\* phase comes after targets that are through with it.
InOrder(phase, tss) ==
  /\ \A i \in DOMAIN tss :
       tss[i].state \in {Before(phase), phase, Failure} \cup Done(phase)
  /\ \A i, j \in DOMAIN tss :
       i < j /\ tss[j].state # Before(phase) => tss[i].state \in Done(phase)

\* How the statuses of the targets relate to the state of their session.
Coherent(state, tss) ==
  /\ state \in {NoState, New} => tss = <<>>
  /\ state \in Phases => InOrder(state, tss)
  /\ state \in {Success, Failure} => \A i \in DOMAIN tss : ~ Busy(tss[i])
  /\ state = Success => \A i \in DOMAIN tss : tss[i].state # WaitingForJob
=============================================================================
