------------------------ MODULE SessionResultProofs -------------------------
(***************************************************************************)
(* What the end of a BackupSession says about its targets, for any         *)
(* sessions, configurations, number of targets and number of restarts: a   *)
(* Success has its snapshots, a Failure has used up its tries.  And what   *)
(* the cleanup after a success leaves: the newest successes.               *)
(***************************************************************************)
EXTENDS BackupSessionProofs

USE SessionsAssumption, RefAssumption, ConfAssumption, CalendarAssumption, RestartsAssumption

-----------------------------------------------------------------------------
(* What one step can do to the state of a session and its targets.         *)

SameStatus(s) == api'[s].state = api[s].state /\ api'[s].targets = api[s].targets

BlankStatus(s) == api'[s].state = NoState /\ api'[s].targets = <<>>

AcceptStatus(s) ==
  /\ api[s].state = NoState /\ api[s].targets = <<>>
  /\ api'[s].state = New /\ api'[s].targets = <<>>

BeginStatus(s) ==
  /\ api[s].state = New /\ api[s].targets = <<>>
  /\ api'[s].state = Initializing
  /\ api'[s].targets = InitSession(conf[Ref[s]].targets)

AdvanceStatus(s) ==
  LET result == Advance(api[s].state, api[s].targets, conf[Ref[s]].targets)
  IN  /\ api[s].state \in Phases
      /\ ~ PhasePanics(api[s].state, api[s].targets, conf[Ref[s]].targets)
      /\ result.state # NoState
      /\ api'[s].state = result.state
      /\ api'[s].targets = result.targets

ReportStatus(s) ==
  \E i \in DOMAIN api[s].targets :
    \E status \in TargetStatus :
      /\ TargetAnswers(api[s].targets[i], status)
      /\ api'[s].state = api[s].state
      /\ api'[s].targets = [api[s].targets EXCEPT ![i] = status]

\* The targets of a session that has just begun have not been touched.
LEMMA InitSessionFields ==
  ASSUME NEW specs \in Seq(TargetSpec)
  PROVE  /\ DOMAIN InitSession(specs) = DOMAIN specs
         /\ \A i \in DOMAIN InitSession(specs) :
              InitSession(specs)[i].state = NoState /\ InitSession(specs)[i].try = 1
<1>1. SUFFICES ASSUME NEW i \in DOMAIN specs
               PROVE  InitSession(specs)[i].state = NoState /\ InitSession(specs)[i].try = 1
  BY InitSessionType
<1>2. InitSession(specs)[i] =
        [kind |-> specs[i].kind, state |-> NoState, try |-> 1, snap |-> FALSE]
  BY InitSessionType
<1> QED
  BY <1>2

\* Of the ten things that happen to an object only these show in its status.
LEMMA StatusOfStep ==
  ASSUME TypeOK, Pipeline, [Next]_vars, NEW s \in Sessions
  PROVE  \/ SameStatus(s) \/ BlankStatus(s) \/ AcceptStatus(s)
         \/ BeginStatus(s) \/ AdvanceStatus(s) \/ ReportStatus(s)
<1>1. ObjectStep(s)
  BY StepOnObject
<1>2. Coherent(api[s].state, api[s].targets)
  BY DEF Pipeline
<1>3. CASE api'[s] = NewObject \/ api'[s] = NoObject
  BY <1>3 DEF NewObject, NoObject, Blank, BlankStatus
<1>4. CASE AcceptStep(s)
  BY <1>2, <1>4 DEF AcceptStep, SetStatus, Coherent, AcceptStatus
<1>5. CASE BeginStep(s)
  BY <1>2, <1>5 DEF BeginStep, SetStatus, Coherent, BeginStatus
<1>6. CASE PhaseStep(s)
  BY <1>6 DEF PhaseStep, SetStatus, AdvanceStatus
<1>7. CASE ReportStep(s)
  <2>1. PICK i \in DOMAIN api[s].targets, status \in TargetStatus :
          /\ TargetAnswers(api[s].targets[i], status)
          /\ api'[s] = SetStatus(api[s], api[s].state, api[s].start,
                                [api[s].targets EXCEPT ![i] = status], api[s].keep)
    BY <1>7, Zenon DEF ReportStep
  <2>2. /\ api'[s].state = api[s].state
        /\ api'[s].targets = [api[s].targets EXCEPT ![i] = status]
    <3> DEFINE tss == [api[s].targets EXCEPT ![i] = status]
    <3>1. api'[s] = SetStatus(api[s], api[s].state, api[s].start, tss, api[s].keep)
      BY <2>1
    <3> HIDE DEF tss
    <3>2. api'[s].state = api[s].state /\ api'[s].targets = tss
      BY <3>1 DEF SetStatus
    <3> QED
      BY <3>2 DEF tss
  <2>3. ReportStatus(s)
    BY <2>1, <2>2, Zenon DEF ReportStatus
  <2> QED
    BY <2>3
<1>8. ASSUME NEW deleting, api'[s] = SetMeta(api[s], deleting, TRUE)
      PROVE  SameStatus(s)
  BY <1>8 DEF SetMeta, SameStatus
<1>9. ASSUME NEW keep,
             api'[s] = SetStatus(api[s], api[s].state, api[s].start, api[s].targets, keep)
      PROVE  SameStatus(s)
  BY <1>9 DEF SetStatus, SameStatus
<1>10. api'[s] = api[s] => SameStatus(s)
  BY DEF SameStatus
<1> QED
  BY <1>1, <1>3, <1>4, <1>5, <1>6, <1>7, <1>8, <1>9, <1>10 DEF ObjectStep, UnfinalizeStep

-----------------------------------------------------------------------------
(* A Success is backed up.  SuccessIsBackedUp speaks of sessions that have *)
(* ended; the invariant follows the snapshot ids from the targets that     *)
(* report them.  A target that is not a volume snapshot has its id when it *)
(* is through with Running, hence all of them have in Finalize; a volume   *)
(* snapshot never reports Success but goes through a Job, which records    *)
(* its id.                                                                 *)

TargetBacked(state, t) ==
  /\ t.state = Waiting => t.snap \/ t.kind = "Snapshot"
  /\ t.state = Success => t.kind # "Snapshot"
  /\ t.state = Finalized => t.snap
  /\ state \in {Finalize, Success} => t.snap \/ t.kind = "Snapshot"

BackedUp(state, tss) ==
  /\ \A i \in DOMAIN tss : TargetBacked(state, tss[i])
  /\ state = Success =>
       \A i \in DOMAIN tss :
         \/ tss[i].snap
         \/ tss[i].kind = "Snapshot" /\ \E j \in 1..i : tss[j].state = Failure

AllBackedUp == \A s \in Sessions : BackedUp(api[s].state, api[s].targets)

\* What a pass of the scheduler leaves of a session that is backed up.
LEMMA AdvanceBackedUp ==
  ASSUME NEW phase \in Phases, NEW tss \in Seq(TargetStatus), NEW specs \in Seq(TargetSpec),
         ~ PhasePanics(phase, tss, specs), InOrder(phase, tss), BackedUp(phase, tss),
         Advance(phase, tss, specs).state # NoState
  PROVE  BackedUp(Advance(phase, tss, specs).state, Advance(phase, tss, specs).targets)
<1> DEFINE state   == Advance(phase, tss, specs).state
           targets == Advance(phase, tss, specs).targets
<1>1. Outcome(phase, tss, specs, [state |-> state, targets |-> targets])
  BY AdvanceOutcome DEF Advance
<1>2. state # NoState
  OBVIOUS
<1>3. DOMAIN tss = 1..Len(tss) /\ Len(tss) \in Nat
  OBVIOUS
<1>4. phase # Success
  BY PhaseFacts
<1> HIDE DEF state, targets
<1>5. CASE state = phase /\ targets = tss
  BY <1>5 DEF state, targets
<1>6. CASE /\ state = phase
           /\ \E i \in DOMAIN tss :
                /\ tss[i].state \in {Before(phase), Failure}
                /\ \E n \in Nat : targets = GiveTurn(tss, i, phase, n)
  <2>1. PICK i \in DOMAIN tss, n \in Nat : targets = GiveTurn(tss, i, phase, n)
    BY <1>6
  <2>2. /\ DOMAIN targets = DOMAIN tss
        /\ targets[i] = [kind |-> tss[i].kind, state |-> phase, try |-> n, snap |-> tss[i].snap]
        /\ \A j \in DOMAIN tss : j # i => targets[j] = tss[j]
    BY <2>1, GiveTurnType
  <2>3. TargetBacked(phase, targets[i])
    <3>1. phase \notin {Waiting, Success, Finalized}
      BY DEF Phases, Initializing, Running, Finalize, Waiting, Success, Finalized
    <3>2. TargetBacked(phase, tss[i])
      BY DEF BackedUp
    <3> QED
      BY <2>2, <3>1, <3>2 DEF TargetBacked
  <2> QED
    BY <1>4, <1>6, <2>2, <2>3 DEF BackedUp, state, targets
<1>7. CASE /\ state = After(phase)
           /\ targets = tss
           /\ \A j \in DOMAIN tss :
                tss[j].state \notin {Before(phase), phase, Failure, WaitingForJob}
  <2>1. \A j \in DOMAIN tss : tss[j].state \in Done(phase) \ {WaitingForJob}
    BY <1>7 DEF InOrder
  <2>2. \A j \in DOMAIN tss : TargetBacked(phase, tss[j])
    BY DEF BackedUp
  <2>3. CASE phase = Initializing
    <3>1. state = Running /\ Running \notin {Finalize, Success}
      BY <1>7, <2>3 DEF After, Running, Finalize, Success
    <3> QED
      BY <1>7, <2>2, <3>1 DEF BackedUp, TargetBacked, state, targets
  <2>4. CASE phase = Running
    <3>1. state = Finalize
      BY <1>7, <2>4 DEF After, Initializing, Running
    <3>2. \A j \in DOMAIN tss : tss[j].state = Waiting
      BY <2>1, <2>4 DEF Done, Initializing, Running
    <3>3. \A j \in DOMAIN tss : TargetBacked(Finalize, tss[j])
      BY <2>2, <3>2 DEF TargetBacked
    <3> QED
      BY <1>7, <3>1, <3>3 DEF BackedUp, Finalize, Success, state, targets
  <2>5. CASE phase = Finalize
    <3>1. state = Success
      BY <1>7, <2>5 DEF After, Initializing, Running, Finalize
    <3>2. \A j \in DOMAIN tss : tss[j].state \in {Success, Finalized}
      BY <2>1, <2>5 DEF Done, Initializing, Running, Finalize
    <3>3. \A j \in DOMAIN tss : TargetBacked(Success, tss[j]) /\ tss[j].snap
      BY <2>2, <2>5, <3>2 DEF TargetBacked
    <3> QED
      BY <1>7, <3>1, <3>3 DEF BackedUp, state, targets
  <2> QED
    BY <2>3, <2>4, <2>5 DEF Phases
<1>8. CASE /\ state = IF phase = Finalize THEN Success ELSE Failure
           /\ targets = tss
           /\ \E i \in DOMAIN tss :
                /\ tss[i].state = Failure
                /\ \A j \in DOMAIN tss :
                     j < i => tss[j].state \notin {Before(phase), phase, Failure, WaitingForJob}
  <2>1. PICK i \in DOMAIN tss :
          /\ tss[i].state = Failure
          /\ \A j \in DOMAIN tss :
               j < i => tss[j].state \notin {Before(phase), phase, Failure, WaitingForJob}
    BY <1>8
  <2>2. \A j \in DOMAIN tss : TargetBacked(phase, tss[j])
    BY DEF BackedUp
  <2>3. CASE phase # Finalize
    <3>1. state = Failure /\ Failure \notin {Finalize, Success}
      BY <1>8, <2>3 DEF Failure, Finalize, Success
    <3> QED
      BY <1>8, <2>2, <3>1 DEF BackedUp, TargetBacked, state, targets
  <2>4. CASE phase = Finalize
    <3>1. state = Success
      BY <1>8, <2>4
    <3>2. \A j \in DOMAIN tss : TargetBacked(Success, tss[j])
      BY <2>2, <2>4 DEF TargetBacked
    <3>3. \A j \in DOMAIN tss : j < i => tss[j].snap
      <4>1. \A j \in DOMAIN tss : j < i => tss[j].state \in {Success, Finalized}
        BY <2>1, <2>4 DEF InOrder, Done, Initializing, Running, Finalize
      <4> QED
        BY <2>2, <2>4, <4>1 DEF TargetBacked
    <3>4. \A j \in DOMAIN tss : j >= i =>
            \/ tss[j].snap
            \/ tss[j].kind = "Snapshot" /\ \E k \in 1..j : tss[k].state = Failure
      <4>1. SUFFICES ASSUME NEW j \in DOMAIN tss, j >= i, ~ tss[j].snap
                     PROVE  tss[j].kind = "Snapshot" /\ i \in 1..j
        BY <2>1
      <4> QED
        BY <1>3, <3>2, <4>1 DEF TargetBacked
    <3>5. \A j \in DOMAIN tss : j < i \/ j >= i
      BY <1>3
    <3> QED
      BY <1>8, <3>1, <3>2, <3>3, <3>4, <3>5 DEF BackedUp, state, targets
  <2> QED
    BY <2>3, <2>4
<1> QED
  BY <1>1, <1>2, <1>5, <1>6, <1>7, <1>8 DEF Outcome

\* What the report of a target or of its Job leaves of it.
LEMMA ReportBackedUp ==
  ASSUME NEW state \in SessionStates, NEW tss \in Seq(TargetStatus), Coherent(state, tss),
         BackedUp(state, tss),
         NEW i \in DOMAIN tss, NEW status \in TargetStatus, TargetAnswers(tss[i], status)
  PROVE  BackedUp(state, [tss EXCEPT ![i] = status])
<1> DEFINE new == [tss EXCEPT ![i] = status]
           t   == tss[i]
<1>1. /\ DOMAIN new = DOMAIN tss
      /\ new[i] = status
      /\ \A j \in DOMAIN tss : j # i => new[j] = tss[j]
      /\ t \in TargetStatus
  OBVIOUS
<1>2. TargetBacked(state, t)
  BY DEF BackedUp
<1>3. state # Success
  BY DEF Coherent, TargetAnswers, Busy
<1> HIDE DEF new
<1>4. TargetBacked(state, status)
  <2>1. t.snap \in BOOLEAN
    BY <1>1 DEF TargetStatus
  <2>2. CASE Busy(t) /\ status = Reported(t)
    <3>1. \/ /\ status.state = Initialized /\ status.kind = t.kind /\ status.snap = t.snap
          \/ /\ status.state = Waiting /\ status.kind = t.kind
             /\ status.snap = (t.snap \/ t.kind # "Snapshot")
          \/ /\ status.state = WaitingForJob /\ status.kind = t.kind /\ status.snap = t.snap
          \/ /\ status.state = Success /\ status.kind = t.kind /\ status.snap = t.snap
             /\ t.kind # "Snapshot"
      BY <2>2 DEF Reported, SetTarget
    <3> QED
      BY <1>2, <2>1, <3>1
         DEF TargetBacked, Initialized, Waiting, WaitingForJob, Success, Finalized
  <2>3. CASE status = SetTarget(t, Failure, t.try, t.snap)
    <3>1. status.state = Failure /\ status.kind = t.kind /\ status.snap = t.snap
      BY <2>3 DEF SetTarget
    <3> QED
      BY <1>2, <3>1 DEF TargetBacked, Failure, Waiting, Success, Finalized
  <2>4. CASE status = SetTarget(t, Finalized, t.try, TRUE)
    <3>1. status.state = Finalized /\ status.snap = TRUE
      BY <2>4 DEF SetTarget
    <3> QED
      BY <3>1 DEF TargetBacked, Waiting, Success, Finalized
  <2> QED
    BY <2>2, <2>3, <2>4 DEF TargetAnswers
<1>5. \A j \in DOMAIN tss : TargetBacked(state, new[j])
  BY <1>1, <1>4 DEF BackedUp
<1> QED
  BY <1>1, <1>3, <1>5 DEF BackedUp, new

\* Every step leaves every session backed up as far as it has come.
LEMMA BackedUpStep ==
  ASSUME TypeOK, Pipeline, AllBackedUp, [Next]_vars
  PROVE  AllBackedUp'
<1>1. SUFFICES ASSUME NEW s \in Sessions
               PROVE  BackedUp(api'[s].state, api'[s].targets)
  BY DEF AllBackedUp
<1>2. /\ api[s].state \in SessionStates /\ api[s].targets \in Seq(TargetStatus)
      /\ conf[Ref[s]].targets \in Seq(TargetSpec)
      /\ Coherent(api[s].state, api[s].targets)
      /\ BackedUp(api[s].state, api[s].targets)
  BY ObjectFields, ConfFields DEF TypeOK, Pipeline, AllBackedUp
<1>3. BackedUp(NoState, <<>>) /\ BackedUp(New, <<>>)
  BY DEF BackedUp, NoState, New, Success
<1>4. CASE SameStatus(s)
  BY <1>2, <1>4 DEF SameStatus
<1>5. CASE BlankStatus(s) \/ AcceptStatus(s)
  BY <1>3, <1>5 DEF BlankStatus, AcceptStatus
<1>6. CASE BeginStatus(s)
  <2>1. \A i \in DOMAIN api'[s].targets : api'[s].targets[i].state = NoState
    BY <1>2, <1>6, InitSessionFields DEF BeginStatus
  <2>2. api'[s].state = Initializing
    BY <1>6 DEF BeginStatus
  <2> QED
    BY <2>1, <2>2 DEF BackedUp, TargetBacked, NoState, Waiting, Success, Finalized, Initializing,
                      Finalize
<1>7. CASE AdvanceStatus(s)
  <2>1. InOrder(api[s].state, api[s].targets)
    BY <1>2, <1>7 DEF AdvanceStatus, Coherent
  <2> QED
    BY <1>2, <1>7, <2>1, AdvanceBackedUp DEF AdvanceStatus
<1>8. CASE ReportStatus(s)
  BY <1>2, <1>8, ReportBackedUp DEF ReportStatus
<1> QED
  BY <1>4, <1>5, <1>6, <1>7, <1>8, StatusOfStep

\* A session is a Success only with a snapshot id for each of its targets,
\* but for a volume snapshot that was not reached because a target could not
\* be finalized, however often targets failed and whatever was edited.
THEOREM SuccessBackedUp == Spec => []SuccessIsBackedUp
<1>1. Init => AllBackedUp
  <2>1. NoObject.state = NoState /\ NoObject.targets = <<>>
    BY DEF NoObject, Blank
  <2>2. BackedUp(NoState, <<>>)
    BY DEF BackedUp, NoState, Success
  <2> QED
    BY <2>1, <2>2 DEF Init, AllBackedUp
<1>2. TypeOK /\ Pipeline /\ AllBackedUp /\ [Next]_vars => AllBackedUp'
  BY BackedUpStep
<1>3. AllBackedUp => SuccessIsBackedUp
  BY DEF AllBackedUp, BackedUp, SuccessIsBackedUp
<1> QED
  BY <1>1, <1>2, <1>3, TypeCorrect, PipelineInvariant, PTL DEF Spec

-----------------------------------------------------------------------------
(* A Failure is exhausted.  As long as the targets of the configuration    *)
(* are those it began with, a session in a phase has one status for each   *)
(* of them and has not tried any more often than granted.                  *)

Granted(spec) == IF spec.retry > 1 THEN spec.retry ELSE 1

Exhausted(tss, specs) ==
  \E i \in DOMAIN tss :
    /\ tss[i].state = Failure
    /\ tss[i].try = Granted(specs[i])
    /\ \A j \in DOMAIN tss : j > i => tss[j].state \in {NoState, Initialized}

Counted(state, tss, specs) ==
  /\ state \in Phases =>
       /\ DOMAIN tss = DOMAIN specs
       /\ \A i \in DOMAIN tss : 1 <= tss[i].try /\ tss[i].try <= Granted(specs[i])
  /\ state = Failure => Exhausted(tss, specs)

Unedited(c) == conf[c].targets = InitialConf[c].targets

AllCounted ==
  \A s \in Sessions :
    Unedited(Ref[s]) => Counted(api[s].state, api[s].targets, InitialConf[Ref[s]].targets)

\* No edit brings the targets of a configuration back to what they were at
\* the start, so that they are the same only if they were never edited.
NoWayBack == \A c \in Confs : \A edit \in ConfEdits : edit.targets # InitialConf[c].targets

\* What the granted tries are.
LEMMA GrantedType ==
  ASSUME NEW specs \in Seq(TargetSpec), NEW i \in DOMAIN specs
  PROVE  /\ specs[i].retry \in Nat
         /\ Granted(specs[i]) \in Nat
         /\ Granted(specs[i]) >= 1 /\ Granted(specs[i]) >= specs[i].retry
         /\ Granted(specs[i]) \in {1, specs[i].retry}
<1>1. specs[i] \in TargetSpec
  OBVIOUS
<1>2. specs[i].retry \in Nat
  BY <1>1 DEF TargetSpec
<1> QED
  BY <1>2 DEF Granted

\* A pass of the scheduler counts the tries, and ends the session only when
\* they are used up.
LEMMA AdvanceCounted ==
  ASSUME NEW phase \in Phases, NEW tss \in Seq(TargetStatus), NEW specs \in Seq(TargetSpec),
         ~ PhasePanics(phase, tss, specs), InOrder(phase, tss), Counted(phase, tss, specs),
         Advance(phase, tss, specs).state # NoState
  PROVE  Counted(Advance(phase, tss, specs).state, Advance(phase, tss, specs).targets, specs)
<1> DEFINE state   == Advance(phase, tss, specs).state
           targets == Advance(phase, tss, specs).targets
<1>1. Outcome(phase, tss, specs, [state |-> state, targets |-> targets])
  BY AdvanceOutcome DEF Advance
<1>2. state # NoState
  OBVIOUS
<1>3. /\ DOMAIN tss = DOMAIN specs
      /\ \A i \in DOMAIN tss : 1 <= tss[i].try /\ tss[i].try <= Granted(specs[i])
  BY DEF Counted
<1>4. \A i \in DOMAIN tss : tss[i] \in TargetStatus /\ tss[i].try \in Nat
  BY TryIsNat
<1>5. phase # Failure /\ After(phase) # Failure
  BY DEF Phases, After, Initializing, Running, Finalize, Success, Failure
<1> HIDE DEF state, targets
<1>6. CASE state # Failure /\ targets = tss
  BY <1>3, <1>6 DEF Counted, state, targets
<1>7. CASE /\ state = phase
           /\ \E i \in DOMAIN tss : \E n \in Nat :
                /\ n >= tss[i].try
                /\ n = tss[i].try \/ n <= specs[i].retry
                /\ targets = GiveTurn(tss, i, phase, n)
  <2>1. PICK i \in DOMAIN tss, n \in Nat :
          /\ n >= tss[i].try
          /\ n = tss[i].try \/ n <= specs[i].retry
          /\ targets = GiveTurn(tss, i, phase, n)
    BY <1>7
  <2>2. /\ DOMAIN targets = DOMAIN tss
        /\ targets[i] = [kind |-> tss[i].kind, state |-> phase, try |-> n, snap |-> tss[i].snap]
        /\ \A j \in DOMAIN tss : j # i => targets[j] = tss[j]
    BY <2>1, GiveTurnType
  <2>3. 1 <= n /\ n <= Granted(specs[i])
    BY <1>3, <1>4, <2>1, GrantedType
  <2>4. \A j \in DOMAIN targets : 1 <= targets[j].try /\ targets[j].try <= Granted(specs[j])
    BY <1>3, <2>2, <2>3
  <2> QED
    BY <1>3, <1>5, <1>7, <2>2, <2>4 DEF Counted, state, targets
<1>8. CASE /\ state = IF phase = Finalize THEN Success ELSE Failure
           /\ targets = tss
           /\ \E i \in DOMAIN tss :
                /\ tss[i].state = Failure
                /\ i \in DOMAIN specs /\ tss[i].try >= specs[i].retry
  <2>1. PICK i \in DOMAIN tss : tss[i].state = Failure /\ tss[i].try >= specs[i].retry
    BY <1>8
  <2>2. CASE phase = Finalize
    BY <1>3, <1>6, <1>8, <2>2 DEF Success, Failure
  <2>3. CASE phase # Finalize
    <3>1. tss[i].try = Granted(specs[i])
      <4>1. i \in DOMAIN specs /\ tss[i].try \in Nat
        BY <1>3, <1>4
      <4>2. /\ specs[i].retry \in Nat /\ Granted(specs[i]) \in Nat
            /\ Granted(specs[i]) \in {1, specs[i].retry}
        BY <4>1, GrantedType
      <4>3. 1 <= tss[i].try /\ tss[i].try <= Granted(specs[i])
        BY <1>3
      <4> QED
        BY <2>1, <4>1, <4>2, <4>3
    <3>2. \A j \in DOMAIN tss : j > i => tss[j].state = Before(phase)
      BY <2>1, PhaseFacts DEF InOrder
    <3>3. Before(phase) \in {NoState, Initialized}
      BY <2>3 DEF Phases, Before
    <3>4. state = Failure /\ Failure \notin Phases
      BY <1>8, <2>3, PhaseFacts
    <3> QED
      BY <1>8, <2>1, <3>1, <3>2, <3>3, <3>4 DEF Counted, Exhausted, state, targets
  <2> QED
    BY <2>2, <2>3
<1> QED
  BY <1>1, <1>2, <1>5, <1>6, <1>7, <1>8 DEF Outcome, NoState, Failure

\* A report leaves the tries as they are, and comes from no target that the
\* verdict on the session rests on.
LEMMA ReportCounted ==
  ASSUME NEW state, NEW tss \in Seq(TargetStatus), NEW specs, Counted(state, tss, specs),
         NEW i \in DOMAIN tss, NEW status \in TargetStatus, TargetAnswers(tss[i], status)
  PROVE  Counted(state, [tss EXCEPT ![i] = status], specs)
<1> DEFINE new == [tss EXCEPT ![i] = status]
<1>1. /\ DOMAIN new = DOMAIN tss
      /\ new[i] = status
      /\ \A j \in DOMAIN tss : j # i => new[j] = tss[j]
      /\ tss[i] \in TargetStatus
  OBVIOUS
<1>2. Initializing \in Phases
  BY DEF Phases
<1>3. status.try = tss[i].try
  BY <1>1, <1>2, ReportKeepsWork
<1>4. tss[i].state \notin {Failure, NoState, Initialized}
  BY DEF TargetAnswers, Busy, Phases, Initializing, Running, Finalize, WaitingForJob, Failure,
         NoState, Initialized
<1> HIDE DEF new
<1>5. ASSUME Exhausted(tss, specs) PROVE Exhausted(new, specs)
  BY <1>1, <1>4, <1>5 DEF Exhausted
<1>6. \A j \in DOMAIN tss : new[j].try = tss[j].try
  BY <1>1, <1>3
<1> QED
  BY <1>1, <1>5, <1>6 DEF Counted, new

\* Targets that are unedited after a step were so before it.
LEMMA EditsRemain ==
  ASSUME TypeOK, NoWayBack, [Next]_vars, NEW c \in Confs, Unedited(c)'
  PROVE  Unedited(c)
<1>1. CASE UNCHANGED conf
  BY <1>1 DEF Unedited
<1>2. ASSUME NEW d \in Confs, EditConf(d) PROVE Unedited(c)
  <2>1. PICK spec \in ConfEdits : conf' = [conf EXCEPT ![d] = spec]
    BY <1>2 DEF EditConf
  <2>2. d # c
    BY <2>1 DEF NoWayBack, Unedited, TypeOK
  <2> QED
    BY <2>1, <2>2 DEF Unedited, TypeOK
<1>3. ASSUME NEW d \in Confs, DeleteConf(d) PROVE Unedited(c)
  BY <1>3 DEF DeleteConf, Unedited, TypeOK
<1>4. ASSUME NEW s \in Sessions, Reconcile(s) PROVE UNCHANGED conf
  BY <1>4 DEF Reconcile, Returns, ReconcileGone, ReconcileDeletion, ReconcileFinalizer,
              ReconcileCreated, ReconcileNew, ReconcilePhase, ReconcilePanic, ReconcileSuccess,
              ReconcileFailure, Save, Drop, world
<1>5. ASSUME NEW s \in Sessions, Create(s) \/ UserDelete(s) \/ Sync(s) \/ Targets(s)
      PROVE  UNCHANGED conf
  BY <1>5 DEF Create, UserDelete, Sync, Targets, Sidecar, TargetDone, TargetFails, JobDone, Report,
              world
<1>6. CASE Tick \/ Resync \/ Restart \/ NextWrite \/ UNCHANGED vars
  BY <1>1, <1>6 DEF Tick, Resync, Restart, NextWrite, Unfinalize, CleanupDelete, CleanupKeep, world,
                    vars
<1> QED
  BY <1>1, <1>2, <1>3, <1>4, <1>5, <1>6 DEF Next, Environment, Users

\* Every step counts the tries of every session.
LEMMA CountedStep ==
  ASSUME TypeOK, Pipeline, AllCounted, NoWayBack, [Next]_vars
  PROVE  AllCounted'
<1>1. SUFFICES ASSUME NEW s \in Sessions, Unedited(Ref[s])'
               PROVE  Counted(api'[s].state, api'[s].targets, InitialConf[Ref[s]].targets)
  BY DEF AllCounted
<1>2. /\ api[s].state \in SessionStates /\ api[s].targets \in Seq(TargetStatus)
      /\ conf[Ref[s]].targets \in Seq(TargetSpec)
      /\ Coherent(api[s].state, api[s].targets)
  BY ObjectFields, ConfFields DEF TypeOK, Pipeline
<1>3. Unedited(Ref[s])
  BY <1>1, EditsRemain
<1>4. /\ conf[Ref[s]].targets = InitialConf[Ref[s]].targets
      /\ Counted(api[s].state, api[s].targets, conf[Ref[s]].targets)
  BY <1>3 DEF Unedited, AllCounted
<1>5. CASE SameStatus(s)
  BY <1>4, <1>5 DEF SameStatus
<1>6. CASE BlankStatus(s) \/ AcceptStatus(s)
  BY <1>6 DEF BlankStatus, AcceptStatus, Counted, Phases, NoState, New, Initializing, Running,
              Finalize, Failure
<1>7. CASE BeginStatus(s)
  <2>1. /\ DOMAIN api'[s].targets = DOMAIN conf[Ref[s]].targets
        /\ \A i \in DOMAIN api'[s].targets : api'[s].targets[i].try = 1
        /\ api'[s].state = Initializing
    BY <1>2, <1>7, InitSessionFields DEF BeginStatus
  <2>2. \A i \in DOMAIN conf[Ref[s]].targets :
          Granted(conf[Ref[s]].targets[i]) \in Nat /\ 1 <= Granted(conf[Ref[s]].targets[i])
    BY <1>2, GrantedType
  <2> QED
    BY <1>4, <2>1, <2>2 DEF Counted, Initializing, Failure
<1>8. CASE AdvanceStatus(s)
  <2>1. InOrder(api[s].state, api[s].targets)
    BY <1>2, <1>8 DEF AdvanceStatus, Coherent
  <2> QED
    BY <1>2, <1>4, <1>8, <2>1, AdvanceCounted DEF AdvanceStatus
<1>9. CASE ReportStatus(s)
  BY <1>2, <1>4, <1>9, ReportCounted DEF ReportStatus
<1> QED
  BY <1>5, <1>6, <1>7, <1>8, <1>9, StatusOfStep

\* A session fails only because a target has used up exactly the tries that
\* its configuration grants it, and the targets behind it had not had their
\* turn, for any grant, zero included, provided that the targets it is
\* measured against are those the session ran with.
THEOREM FailureExhausted ==
  ASSUME NoWayBack
  PROVE  Spec => []FailureIsExhausted
<1>1. Init => AllCounted
  <2>1. NoObject.state = NoState
    BY DEF NoObject, Blank
  <2>2. \A tss, specs : Counted(NoState, tss, specs)
    BY DEF Counted, Phases, NoState, Initializing, Running, Finalize, Failure
  <2> QED
    BY <2>1, <2>2 DEF Init, AllCounted
<1>2. TypeOK /\ Pipeline /\ AllCounted /\ [Next]_vars => AllCounted'
  BY CountedStep
<1>3. AllCounted => FailureIsExhausted
  BY DEF AllCounted, Counted, Exhausted, Granted, Unedited, FailureIsExhausted
<1> QED
  BY <1>1, <1>2, <1>3, TypeCorrect, PipelineInvariant, PTL DEF Spec

-----------------------------------------------------------------------------
(* The newest are spared.  A cleanup works from cached copies, makes its   *)
(* writes one by one while sessions end and other writes are made, and its *)
(* delete requests carry no version: what makes it safe is that a session  *)
(* it decides to delete has enough newer ones to do without it, and that   *)
(* this stays so.  A newer one leaves the count only when it is deleted    *)
(* itself, and then there are enough that are newer still.                 *)
(*                                                                         *)
(* The theorem needs three hypotheses, and without each of them the code   *)
(* does take one of the newest: a user who deletes a newer session, or     *)
(* raises Keep.Last, between the decision and the request; and two         *)
(* successes of the same second, which each cleanup sorts as it likes.     *)

\* No two successes of a configuration started in the same second: an
\* assumption about the sessions, which a controller that comes up to several
\* new ones breaks, because it sets the start of each when it first sees it.
DistinctStarts ==
  \A s, t \in Sessions :
    /\ s # t /\ Ref[s] = Ref[t]
    /\ api[s].state = Success /\ ~ api[s].deleting
    /\ api[t].state = Success /\ ~ api[t].deleting
    => api[s].start # api[t].start

\* No edit changes how many of the last sessions are kept.
SameLast ==
  \A c \in Confs : \A edit \in ConfEdits : edit.keep["last"] = InitialConf[c].keep["last"]

\* The successes of c, not marked for deletion, that started after n.
Newer(objs, c, n) ==
  {t \in Sessions : /\ Ref[t] = c
                    /\ objs[t].state = Success
                    /\ ~ objs[t].deleting
                    /\ objs[t].start > n}

\* There are enough of them to do without a session that started at n.
Covered(objs, c, n) == Cardinality(Newer(objs, c, n)) >= InitialConf[c].keep["last"]

\* A copy of a success, however old: the session is still one, or it is gone
\* for good and was not needed.
CopySpared(objs, made, s, copy) ==
  copy.state = Success =>
    \/ objs[s].state = Success /\ objs[s].start = copy.start
    \/ objs[s] = NoObject /\ s \in made /\ Covered(objs, Ref[s], copy.start)

\* What is known of a write that a pass has still to make.
WriteSpared(objs, made, w) ==
  /\ w.do = "unfinalize" => w.seen.deleting
  /\ w.do # "unfinalize" => w.seen.state = Success
  /\ w.do = "delete" =>
       /\ CopySpared(objs, made, w.session, w.seen)
       /\ Covered(objs, Ref[w.session], w.seen.start)

\* The limit is the one at the start.
LimitKept == \A c \in Confs : conf[c].keep["last"] = InitialConf[c].keep["last"]

\* A session is blank until it is created.
OnceCreated == \A s \in Sessions : api[s] # NoObject => s \in created

\* A session that is being deleted, one copied by the informer and one that a
\* pass is about to write.
MarkedSpared ==
  \A s \in Sessions :
    api[s].deleting => api[s].state = Success /\ Covered(api, Ref[s], api[s].start)

CopiesSpared == \A s \in Sessions : CopySpared(api, created, s, cache[s])

WritesSpared == \A k \in DOMAIN pending : WriteSpared(api, created, pending[k])

\* The inductive invariant: a session that is marked, or about to be, has
\* enough newer ones beside it, and so has one that only a copy remembers.
Spared == LimitKept /\ OnceCreated /\ MarkedSpared /\ CopiesSpared /\ WritesSpared

\* What a step does to an object, as far as the count of successes goes: a
\* request of a cleanup is carried out, a cleanup labels a session, or neither.
CleanupStep(s) ==
  /\ pending # <<>>
  /\ Head(pending).do = "delete"
  /\ Head(pending).session = s
  /\ api'[s] = Deleted(api[s])

KeepStep(s) ==
  /\ pending # <<>>
  /\ Head(pending).do = "keep"
  /\ Head(pending).seen = api[s]

UnmarkedStep(s) ==
  /\ api[s] # NoObject \/ KeepStep(s)
  /\ api'[s].deleting = api[s].deleting
  /\ api[s].state = Success => api'[s].state = Success /\ api'[s].start = api[s].start

MarkStep(s) ==
  \/ UNCHANGED api[s]
  \/ CleanupStep(s)
  \/ UnfinalizeStep(s)
  \/ s \notin created /\ s \in created' /\ api'[s] = NewObject
  \/ UnmarkedStep(s)

\* Without deletions by users only the cleanup marks a session for deletion,
\* and a success stays one.
LEMMA MarkOfStep ==
  ASSUME UserDeletes = {}, TypeOK, [Next]_vars, NEW s \in Sessions
  PROVE  MarkStep(s)
<1>0. /\ \A t \in Sessions : api[t] \in Object /\ cache[t] \in Object
      /\ api \in [Sessions -> Object]
  BY DEF TypeOK
<1>1. CASE UNCHANGED api
  BY <1>1 DEF MarkStep
<1>2. ASSUME NEW t \in Sessions, NEW o, api' = [api EXCEPT ![t] = o], t # s PROVE MarkStep(s)
  BY <1>0, <1>2 DEF MarkStep
<1>3. ASSUME NEW t \in Sessions, Create(t) PROVE MarkStep(s)
  BY <1>0, <1>3 DEF Create, MarkStep
<1>4. ASSUME NEW t \in Sessions, UserDelete(t) PROVE MarkStep(s)
  BY <1>4 DEF UserDelete
<1>5. ASSUME NEW t \in Sessions, Targets(t) PROVE MarkStep(s)
  <2>1. PICK i \in DOMAIN api[t].targets :
          TargetDone(t, i) \/ TargetFails(t, i) \/ JobDone(t, i)
    BY <1>5, Zenon DEF Targets, Sidecar
  <2>2. PICK status : Report(t, i, status)
    BY <2>1 DEF TargetDone, TargetFails, JobDone
  <2> DEFINE o == SetStatus(api[t], api[t].state, api[t].start,
                            [api[t].targets EXCEPT ![i] = status], api[t].keep)
  <2>3. api' = [api EXCEPT ![t] = o]
    BY <2>2 DEF Report
  <2>4. o.deleting = api[t].deleting /\ o.state = api[t].state /\ o.start = api[t].start
    BY DEF SetStatus
  <2> HIDE DEF o
  <2>5. CASE t = s
    <3>1. api[t] # NoObject
      BY <2>1 DEF NoObject, Blank
    <3> QED
      BY <1>0, <2>3, <2>4, <2>5, <3>1 DEF MarkStep, UnmarkedStep
  <2> QED
    BY <1>2, <2>3, <2>5
<1>6. ASSUME NEW t \in Sessions, NEW o, Save(t, o), Takes(t),
             o.deleting = cache[t].deleting,
             cache[t].state = Success => o.state = Success /\ o.start = cache[t].start
      PROVE  MarkStep(s)
  <2>1. api' = [api EXCEPT ![t] = o] /\ cache[t] = api[t]
    BY <1>6 DEF Save, Fresh
  <2>2. CASE t = s
    <3>1. api[t] # NoObject
      BY <1>6, <2>1 DEF Takes, NoObject, Blank
    <3> QED
      BY <1>0, <1>6, <2>1, <2>2, <3>1 DEF MarkStep, UnmarkedStep
  <2> QED
    BY <1>2, <2>1, <2>2
<1>7. ASSUME NEW t \in Sessions, Reconcile(t) PROVE MarkStep(s)
  <2>1. CASE ReconcileFinalizer(t)
    <3>1. Takes(t) /\ Save(t, SetMeta(cache[t], cache[t].deleting, TRUE))
      BY <2>1 DEF ReconcileFinalizer
    <3> QED
      BY <1>6, <3>1 DEF SetMeta
  <2>2. ASSUME NEW state, NEW start, NEW targets, NEW keep, cache[t].state # Success, Takes(t),
               Save(t, SetStatus(cache[t], state, start, targets, keep))
        PROVE  MarkStep(s)
    <3>1. SetStatus(cache[t], state, start, targets, keep).deleting = cache[t].deleting
      BY DEF SetStatus
    <3> QED
      BY <1>6, <2>2, <3>1
  <2>3. CASE ReconcileCreated(t)
    BY <2>2, <2>3 DEF ReconcileCreated, InState, NoState, Success
  <2>4. CASE ReconcileNew(t)
    BY <2>2, <2>4 DEF ReconcileNew, InState, New, Success
  <2>5. CASE ReconcilePhase(t)
    <3>1. PICK phase \in Phases :
            /\ Takes(t)
            /\ cache[t].state = phase
            /\ LET result == Advance(phase, cache[t].targets, conf[Ref[t]].targets)
               IN  \/ Drop(t)
                   \/ Save(t, SetStatus(cache[t], result.state, cache[t].start,
                                        result.targets, cache[t].keep))
      BY <2>5 DEF ReconcilePhase, InState
    <3>2. cache[t].state # Success
      BY <3>1 DEF Phases, Initializing, Running, Finalize, Success
    <3> QED
      BY <1>1, <2>2, <3>1, <3>2 DEF Drop
  <2>6. CASE ReconcileGone(t) \/ ReconcileDeletion(t) \/ ReconcileSuccess(t) \/ ReconcileFailure(t)
             \/ ReconcilePanic(t)
    BY <1>1, <2>6 DEF ReconcileGone, ReconcileDeletion, ReconcileSuccess, ReconcileFailure,
                      ReconcilePanic, Drop
  <2> QED
    BY <1>7, <2>1, <2>3, <2>4, <2>5, <2>6 DEF Reconcile, Returns
<1>8. CASE NextWrite
  <2> DEFINE w == Head(pending)
  <2>1. pending # <<>> /\ w.session \in Sessions
    BY <1>8, PendingType DEF NextWrite, Unfinalize, CleanupDelete, CleanupKeep, TypeOK
  <2>2. PICK ok \in Answers : Unfinalize(ok) \/ CleanupDelete(ok) \/ CleanupKeep(ok)
    BY <1>8 DEF NextWrite
  <2>3. CASE Unfinalize(ok)
    <3>1. \/ UNCHANGED api
          \/ w.do = "unfinalize" /\ w.seen = api[w.session]
               /\ api' = [api EXCEPT ![w.session] = NoObject]
      BY <2>3 DEF Unfinalize, Fresh
    <3> QED
      BY <1>0, <1>1, <1>2, <2>1, <3>1 DEF MarkStep, UnfinalizeStep
  <2>4. CASE CleanupDelete(ok)
    <3>1. \/ UNCHANGED api
          \/ w.do = "delete" /\ api' = [api EXCEPT ![w.session] = Deleted(api[w.session])]
      BY <2>4 DEF CleanupDelete
    <3> QED
      BY <1>0, <1>1, <1>2, <2>1, <3>1 DEF MarkStep, CleanupStep
  <2>5. CASE CleanupKeep(ok)
    <3> DEFINE o == SetStatus(w.seen, w.seen.state, w.seen.start, w.seen.targets, w.keep)
    <3>1. \/ UNCHANGED api
          \/ w.do = "keep" /\ w.seen = api[w.session] /\ api' = [api EXCEPT ![w.session] = o]
      BY <2>5 DEF CleanupKeep, Fresh
    <3>2. o.deleting = w.seen.deleting /\ o.state = w.seen.state /\ o.start = w.seen.start
      BY DEF SetStatus
    <3> HIDE DEF o
    <3>3. CASE w.session = s /\ ~ UNCHANGED api
      BY <1>0, <2>1, <3>1, <3>2, <3>3 DEF MarkStep, UnmarkedStep, KeepStep
    <3> QED
      BY <1>1, <1>2, <2>1, <3>1, <3>3
  <2> QED
    BY <2>2, <2>3, <2>4, <2>5
<1>9. CASE Tick \/ Resync \/ Restart \/ UNCHANGED vars \/ (\E t \in Sessions : Sync(t))
           \/ (\E c \in Confs : EditConf(c) \/ DeleteConf(c))
  BY <1>1, <1>9 DEF Tick, Resync, Restart, vars, Sync, EditConf, DeleteConf
<1> QED
  BY <1>3, <1>4, <1>5, <1>7, <1>8, <1>9 DEF Next, Environment, Users

\* The types of what the invariant speaks of.
LEMMA SparedTypes ==
  ASSUME TypeOK
  PROVE  /\ \A s \in Sessions : /\ api[s] \in Object /\ cache[s] \in Object
                                /\ api[s].start \in Nat /\ cache[s].start \in Nat
                                /\ api[s].deleting \in BOOLEAN /\ Ref[s] \in Confs
         /\ \A k \in DOMAIN pending : /\ pending[k].session \in Sessions
                                      /\ pending[k].seen \in Object
                                      /\ pending[k].seen.start \in Nat
         /\ \A c \in Confs : /\ InitialConf[c].keep["last"] \in Nat
                             /\ conf[c].keep \in Policies
         /\ NoObject.state # Success /\ ~ NoObject.deleting /\ ~ NoObject.finalizer
<1>1. /\ \A s \in Sessions : api[s] \in Object /\ cache[s] \in Object /\ Ref[s] \in Confs
      /\ \A c \in Confs : conf[c] \in Conf /\ InitialConf[c] \in Conf
      /\ pending \in Seq(Write)
  BY DEF TypeOK
<1>2. \A c \in Confs : InitialConf[c].keep["last"] \in Nat /\ conf[c].keep \in Policies
  <2>1. \A c \in Confs : InitialConf[c].keep \in Policies /\ conf[c].keep \in Policies
    BY <1>1, ConfFields
  <2> QED
    BY <2>1 DEF Policies, Rules
<1>3. \A k \in DOMAIN pending : pending[k].session \in Sessions /\ pending[k].seen \in Object
  <2>1. \A k \in DOMAIN pending : pending[k] \in Write
    BY <1>1
  <2> QED
    BY <2>1 DEF Write
<1>4. NoObject.state # Success /\ ~ NoObject.deleting /\ ~ NoObject.finalizer
  BY DEF NoObject, Blank, NoState, Success
<1> QED
  BY <1>1, <1>2, <1>3, <1>4, ObjectFields

\* The sessions newer than n are finitely many, and fewer for a later n.
LEMMA NewerFinite ==
  ASSUME NEW objs, NEW c
  PROVE  /\ \A n : IsFiniteSet(Newer(objs, c, n)) /\ Cardinality(Newer(objs, c, n)) \in Nat
         /\ \A n, T : T \subseteq Newer(objs, c, n) =>
              Cardinality(T) <= Cardinality(Newer(objs, c, n)) /\ Cardinality(T) \in Nat
<1>1. ASSUME NEW n PROVE IsFiniteSet(Newer(objs, c, n))
  <2>1. Newer(objs, c, n) \in SUBSET Sessions
    BY DEF Newer
  <2> QED
    BY <2>1, FS_Subset
<1>2. ASSUME NEW n, NEW T, T \subseteq Newer(objs, c, n)
      PROVE  Cardinality(T) <= Cardinality(Newer(objs, c, n)) /\ Cardinality(T) \in Nat
  BY <1>1, <1>2, FS_Subset, FS_CardinalityType
<1> QED
  BY <1>1, <1>2, FS_CardinalityType

\* The head of the pending writes, if it is a deletion that is due.
LEMMA HeadSpared ==
  ASSUME TypeOK, WritesSpared, pending # <<>>
  PROVE  WriteSpared(api, created, Head(pending)) /\ Head(pending).seen.start \in Nat
<1>1. 1 \in DOMAIN pending /\ Head(pending) = pending[1]
  BY DEF TypeOK
<1> QED
  BY <1>1, SparedTypes DEF WritesSpared

\* A step takes a success out of the count only as the deletion of one that
\* is not needed itself.
LEMMA LeavesCovered ==
  ASSUME UserDeletes = {}, TypeOK, Spared, [Next]_vars, NEW c \in Confs, NEW n \in Nat,
         NEW t \in Newer(api, c, n), t \notin Newer(api', c, n)
  PROVE  CleanupStep(t) /\ Covered(api, c, api[t].start)
<1>1. /\ t \in Sessions /\ Ref[t] = c /\ api[t].state = Success /\ ~ api[t].deleting
      /\ api[t].start > n
  BY DEF Newer
<1>2. MarkStep(t)
  BY <1>1, MarkOfStep
<1>3. ~ (api'[t].state = Success /\ ~ api'[t].deleting /\ api'[t].start = api[t].start)
  BY <1>1 DEF Newer
<1>4. ~ UnfinalizeStep(t)
  <2>1. SUFFICES ASSUME UnfinalizeStep(t) PROVE FALSE
    OBVIOUS
  <2>2. WriteSpared(api, created, Head(pending))
    BY <2>1, HeadSpared DEF Spared, UnfinalizeStep
  <2> QED
    BY <1>1, <2>1, <2>2 DEF UnfinalizeStep, WriteSpared
<1>5. t \in created
  BY <1>1, SparedTypes DEF Spared, OnceCreated
<1>6. CleanupStep(t)
  BY <1>1, <1>2, <1>3, <1>4, <1>5 DEF MarkStep, UnmarkedStep
<1>7. WriteSpared(api, created, Head(pending))
  BY <1>6, HeadSpared DEF Spared, CleanupStep
<1>8. api[t].start = Head(pending).seen.start /\ Covered(api, c, Head(pending).seen.start)
  BY <1>1, <1>6, <1>7, SparedTypes DEF CleanupStep, WriteSpared, CopySpared
<1> QED
  BY <1>6, <1>8

\* There are enough newer sessions at every later time.
LEMMA CoveredStays ==
  ASSUME UserDeletes = {}, TypeOK, Spared, [Next]_vars, NEW c \in Confs, NEW n \in Nat,
         Covered(api, c, n)
  PROVE  Covered(api', c, n)
<1>1. InitialConf[c].keep["last"] \in Nat
  BY SparedTypes
<1>2. SUFFICES ASSUME NEW m \in Nat, Covered(api, c, m),
                      Newer(api, c, m) \subseteq Newer(api', c, n)
               PROVE  Covered(api', c, n)
  <2>1. CASE Newer(api, c, n) \subseteq Newer(api', c, n)
    BY <1>2, <2>1
  <2>2. ASSUME NEW t \in Newer(api, c, n), t \notin Newer(api', c, n)
        PROVE  Covered(api', c, n)
    <3>1. CleanupStep(t) /\ Covered(api, c, api[t].start)
      BY <2>2, LeavesCovered
    <3>2. api[t].start \in Nat /\ api[t].start > n
      BY SparedTypes DEF Newer
    <3>3. ASSUME NEW u \in Newer(api, c, api[t].start) PROVE u \in Newer(api', c, n)
      <4>1. u \in Newer(api, c, n) /\ u # t
        BY <3>2, SparedTypes DEF Newer
      <4>2. u \notin Newer(api', c, n) => CleanupStep(u)
        BY <4>1, LeavesCovered
      <4> QED
        BY <3>1, <4>1, <4>2 DEF CleanupStep
    <3> QED
      BY <1>2, <3>1, <3>2, <3>3
  <2> QED
    BY <2>1, <2>2
<1>3. /\ Cardinality(Newer(api, c, m)) <= Cardinality(Newer(api', c, n))
      /\ Cardinality(Newer(api, c, m)) \in Nat /\ Cardinality(Newer(api', c, n)) \in Nat
  BY <1>2, NewerFinite
<1> QED
  BY <1>1, <1>2, <1>3 DEF Covered

\* What was known of a copy is known of it later.
LEMMA CopyStaysSpared ==
  ASSUME UserDeletes = {}, TypeOK, Spared, [Next]_vars, NEW s \in Sessions, NEW copy \in Object,
         CopySpared(api, created, s, copy)
  PROVE  CopySpared(api', created', s, copy)
<1>1. SUFFICES ASSUME copy.state = Success PROVE CopySpared(api', created', s, copy)
  BY DEF CopySpared
<1>2. MarkStep(s) /\ created \subseteq created'
  BY MarkOfStep, HistoryGrows
<1>3. copy.start \in Nat /\ Ref[s] \in Confs /\ api[s] \in Object
  BY ObjectFields, SparedTypes
<1>4. Covered(api, Ref[s], copy.start) => Covered(api', Ref[s], copy.start)
  BY <1>3, CoveredStays
<1>5. /\ pending # <<>> => WriteSpared(api, created, Head(pending))
      /\ NoObject.state # Success
  BY HeadSpared, SparedTypes DEF Spared
<1>6. CASE api[s] = NoObject /\ s \in created /\ Covered(api, Ref[s], copy.start)
  <2>1. Deleted(NoObject) = NoObject
    BY DEF Deleted, NoObject, Blank
  <2>2. ~ KeepStep(s)
    BY <1>5, <1>6 DEF KeepStep, WriteSpared
  <2>3. api'[s] = NoObject
    BY <1>2, <1>6, <2>1, <2>2 DEF MarkStep, CleanupStep, UnfinalizeStep, UnmarkedStep
  <2> QED
    BY <1>2, <1>4, <1>6, <2>3 DEF CopySpared
<1>7. CASE api[s].state = Success /\ api[s].start = copy.start
  <2>1. s \in created
    BY <1>5, <1>7 DEF Spared, OnceCreated
  <2>2. CASE CleanupStep(s)
    <3>1. Covered(api, Ref[s], copy.start)
      BY <1>5, <1>7, <2>2 DEF CleanupStep, WriteSpared, CopySpared
    <3>2. \/ api'[s] = NoObject
          \/ api'[s].state = api[s].state /\ api'[s].start = api[s].start
      BY <2>2 DEF CleanupStep, Deleted, SetMeta
    <3> QED
      BY <1>2, <1>4, <1>7, <2>1, <3>1, <3>2 DEF CopySpared
  <2>3. CASE UnfinalizeStep(s)
    <3>1. api[s].deleting
      BY <1>5, <2>3 DEF UnfinalizeStep, WriteSpared
    <3>2. Covered(api, Ref[s], copy.start)
      BY <1>7, <3>1 DEF Spared, MarkedSpared
    <3> QED
      BY <1>2, <1>4, <2>1, <2>3, <3>2 DEF CopySpared, UnfinalizeStep
  <2> QED
    BY <1>2, <1>7, <2>1, <2>2, <2>3 DEF MarkStep, UnmarkedStep, CopySpared
<1> QED
  BY <1>1, <1>6, <1>7 DEF CopySpared

\* And so is what was known of a write.
LEMMA WriteStaysSpared ==
  ASSUME UserDeletes = {}, TypeOK, Spared, [Next]_vars, NEW w \in Write,
         WriteSpared(api, created, w)
  PROVE  WriteSpared(api', created', w)
<1>1. w.session \in Sessions /\ w.seen \in Object
  BY DEF Write
<1>2. w.seen.start \in Nat /\ Ref[w.session] \in Confs
  BY <1>1, ObjectFields
<1> QED
  BY <1>1, <1>2, CopyStaysSpared, CoveredStays DEF WriteSpared

\* A deletion that a pass decides on, from its copies and in whichever way it
\* sorts them, spares the newest: a copy among the first ones whose session is
\* gone, or marked, stands for newer ones that are there.
LEMMA CleanupDecides ==
  ASSUME TypeOK, Spared, DistinctStarts, NEW s \in Sessions,
         NEW order \in NewestFirst({t \in Successful : Ref[t] = Ref[s]}),
         NEW k \in DOMAIN CleanupWrites(order, conf[Ref[s]].keep)
  PROVE  WriteSpared(api, created, CleanupWrites(order, conf[Ref[s]].keep)[k])
<1> DEFINE S      == {t \in Successful : Ref[t] = Ref[s]}
           policy == conf[Ref[s]].keep
           dates  == [i \in DOMAIN order |-> Calendar[cache[order[i]].start]]
           tags   == KeepTags(dates, policy)
           limit  == InitialConf[Ref[s]].keep["last"]
           w      == CleanupWrites(order, policy)[k]
           start(j) == cache[order[j]].start
<1>1. IsFiniteSet(S) /\ Cardinality(S) \in Nat
  <2>1. S \in SUBSET Sessions
    BY DEF Successful, Indexed
  <2> QED
    BY <2>1, FS_Subset, FS_CardinalityType
<1>2. /\ order \in [1..Cardinality(S) -> S]
      /\ \A i, j \in 1..Cardinality(S) : i # j => order[i] # order[j]
      /\ \A i, j \in 1..Cardinality(S) : i < j => start(i) >= start(j)
  BY DEF NewestFirst, SetToSeqs
<1>3. \A j \in DOMAIN order : /\ order[j] \in Sessions /\ Ref[order[j]] = Ref[s]
                             /\ cache[order[j]].state = Success
                             /\ start(j) \in Nat
                             /\ CopySpared(api, created, order[j], cache[order[j]])
  <2>1. \A j \in DOMAIN order : order[j] \in S
    BY <1>2
  <2>2. \A t \in S : t \in Sessions /\ Ref[t] = Ref[s] /\ cache[t].state = Success
    BY DEF Successful, Indexed
  <2> QED
    BY <2>1, <2>2, SparedTypes DEF Spared, CopiesSpared
<1>4. k \in DOMAIN order /\ DOMAIN order = 1..Cardinality(S)
  BY <1>2 DEF CleanupWrites
<1>5. /\ w.do \in {"delete", "keep"} /\ w.session = order[k] /\ w.seen = cache[order[k]]
      /\ w.do = "delete" => tags[k] = {}
  BY <1>4 DEF CleanupWrites
<1>6. SUFFICES ASSUME tags[k] = {} PROVE Covered(api, Ref[s], start(k))
  BY <1>3, <1>4, <1>5 DEF WriteSpared
<1>7. policy \in Policies /\ policy["last"] = limit /\ limit \in Nat
  BY SparedTypes DEF Spared, LimitKept
<1>8. limit < k
  <2>1. DOMAIN dates = 1..Cardinality(S) /\ Len(dates) = Cardinality(S)
    BY <1>1, <1>4
  <2> HIDE DEF dates
  <2>2. ("last" \in tags[k]) <=> k <= policy["last"]
    BY <1>1, <1>4, <1>7, <2>1, PassKeepsLast
  <2> QED
    BY <1>4, <1>6, <1>7, <2>2
<1> HIDE DEF S, policy, dates, tags, limit, w
<1>9. ASSUME NEW j \in 1..k, Covered(api, Ref[s], start(j)) PROVE Covered(api, Ref[s], start(k))
  <2>1. j \in DOMAIN order /\ start(j) >= start(k) /\ start(j) \in Nat /\ start(k) \in Nat
    <3>1. j \in 1..Cardinality(S) /\ k \in 1..Cardinality(S)
      BY <1>1, <1>4
    <3> QED
      BY <1>2, <1>3, <1>4, <3>1
  <2>2. Newer(api, Ref[s], start(j)) \subseteq Newer(api, Ref[s], start(k))
    BY <2>1, SparedTypes DEF Newer
  <2>3. /\ Cardinality(Newer(api, Ref[s], start(j))) <= Cardinality(Newer(api, Ref[s], start(k)))
        /\ Cardinality(Newer(api, Ref[s], start(j))) \in Nat
        /\ Cardinality(Newer(api, Ref[s], start(k))) \in Nat
    BY <2>2, NewerFinite
  <2> QED
    BY <1>7, <1>9, <2>3 DEF Covered, limit
<1>10. CASE \E j \in 1..k : Covered(api, Ref[s], start(j))
  BY <1>9, <1>10
<1>11. CASE \A j \in 1..k : ~ Covered(api, Ref[s], start(j))
  <2>1. \A j \in 1..k : j \in DOMAIN order
    BY <1>1, <1>4
  <2>2. ASSUME NEW j \in 1..k
        PROVE  /\ api[order[j]].state = Success /\ api[order[j]].start = start(j)
               /\ ~ api[order[j]].deleting
    <3>1. api[order[j]].state = Success /\ api[order[j]].start = start(j)
      BY <1>3, <1>11, <2>1 DEF CopySpared
    <3> QED
      BY <1>3, <1>11, <2>1, <3>1 DEF Spared, MarkedSpared
  <2>3. ASSUME NEW j \in 1..(k - 1) PROVE order[j] \in Newer(api, Ref[s], start(k))
    <3>1. j \in 1..k /\ k \in 1..k /\ j < k /\ j \in DOMAIN order
      BY <1>1, <1>4, <2>1
    <3>2. order[j] # order[k] /\ start(j) >= start(k)
      BY <1>2, <1>4, <3>1
    <3>3. start(j) # start(k)
      BY <1>3, <1>4, <2>2, <3>1, <3>2 DEF DistinctStarts
    <3>4. start(j) > start(k)
      BY <1>3, <1>4, <3>1, <3>2, <3>3
    <3> QED
      BY <1>3, <2>2, <3>1, <3>4 DEF Newer
  <2> DEFINE N == Newer(api, Ref[s], start(k))
             f == [j \in 1..(k - 1) |-> order[j]]
  <2>4. f \in Injection(1..(k - 1), N)
    <3>1. f \in [1..(k - 1) -> N]
      BY <2>3
    <3>2. \A i, j \in 1..(k - 1) : f[i] = f[j] => i = j
      BY <1>1, <1>2, <1>4
    <3> HIDE DEF f, N
    <3> QED
      BY <3>1, <3>2 DEF Injection, IsInjective
  <2>5. IsFiniteSet(N) /\ Cardinality(N) \in Nat
    BY NewerFinite
  <2>6. Cardinality(1..(k - 1)) <= Cardinality(N)
    BY <2>4, <2>5, FS_Injection
  <2>7. Cardinality(1..(k - 1)) = k - 1
    BY <1>1, <1>4, FS_Interval
  <2> HIDE DEF N
  <2>8. limit <= Cardinality(N)
    BY <1>1, <1>4, <1>7, <1>8, <2>5, <2>6, <2>7
  <2> QED
    BY <1>7, <2>5, <2>8 DEF Covered, limit, N
<1> QED
  BY <1>10, <1>11

\* What a step does to the copies and to the writes of a pass.
LEMMA CopiesOfStep ==
  ASSUME TypeOK, [Next]_vars
  PROVE  /\ \/ UNCHANGED cache
            \/ UNCHANGED <<api, created>> /\ \A s \in Sessions : cache'[s] \in {cache[s], api[s]}
         /\ \/ UNCHANGED pending
            \/ pending' = <<>>
            \/ pending # <<>> /\ pending' = Tail(pending)
            \/ \E s \in Sessions :
                 /\ cache[s].deleting
                 /\ pending' = <<[do |-> "unfinalize", session |-> s, seen |-> cache[s], keep |-> {}]>>
            \/ /\ UNCHANGED <<api, created>>
               /\ \E s \in Sessions :
                    \E order \in NewestFirst({t \in Successful : Ref[t] = Ref[s]}) :
                      pending' = CleanupWrites(order, conf[Ref[s]].keep)
<1>1. CASE \E s \in Sessions : Sync(s)
  BY <1>1 DEF Sync, TypeOK, history
<1>2. CASE Restart \/ \E s \in Sessions : ReconcilePanic(s)
  BY <1>2 DEF Restart, ReconcilePanic, Relist, history
<1>3. CASE \E s \in Sessions : ReconcileDeletion(s)
  BY <1>3 DEF ReconcileDeletion
<1>4. CASE \E s \in Sessions : ReconcileSuccess(s)
  BY <1>4 DEF ReconcileSuccess, CleanupSessions, history
<1>5. ASSUME NEW s \in Sessions, Returns(s), ~ ReconcileDeletion(s), ~ ReconcileSuccess(s)
      PROVE  UNCHANGED <<cache, pending>>
  BY <1>5 DEF Returns, ReconcileGone, ReconcileFinalizer, ReconcileCreated, ReconcileNew,
              ReconcilePhase, ReconcileFailure, Drop, Save
<1>6. CASE NextWrite
  BY <1>6 DEF NextWrite, Unfinalize, CleanupDelete, CleanupKeep
<1>7. CASE Users \/ Tick \/ Resync \/ UNCHANGED vars
  BY <1>7 DEF Users, Create, UserDelete, EditConf, DeleteConf, Tick, Resync, vars
<1>8. ASSUME NEW s \in Sessions, Targets(s) PROVE UNCHANGED <<cache, pending>>
  <2>1. PICK i \in DOMAIN api[s].targets :
          TargetDone(s, i) \/ TargetFails(s, i) \/ JobDone(s, i)
    BY <1>8, Zenon DEF Targets, Sidecar
  <2>2. PICK status : Report(s, i, status)
    BY <2>1 DEF TargetDone, TargetFails, JobDone
  <2> QED
    BY <2>2 DEF Report
<1>9. ASSUME NEW s \in Sessions, Reconcile(s)
      PROVE  ReconcilePanic(s) \/ ReconcileDeletion(s) \/ ReconcileSuccess(s)
             \/ UNCHANGED <<cache, pending>>
  BY <1>5, <1>9 DEF Reconcile
<1>10. CASE UNCHANGED <<cache, pending>>
  BY <1>10
<1> QED
  BY <1>1, <1>2, <1>3, <1>4, <1>6, <1>7, <1>8, <1>9, <1>10 DEF Next, Environment

\* Every step keeps the invariant, whatever the copies and the writes of a
\* pass are by then.
LEMMA SparedStep ==
  ASSUME UserDeletes = {}, SameLast, TypeOK, Spared, DistinctStarts, [Next]_vars
  PROVE  Spared'
<1>1. LimitKept'
  <2>1. \A c \in Confs : \A edit \in ConfEdits : edit.keep["last"] = InitialConf[c].keep["last"]
    BY DEF SameLast
  <2>2. LimitKept /\ conf \in [Confs -> Conf]
    BY DEF Spared, TypeOK
  <2>3. ASSUME NEW c \in Confs, EditConf(c) PROVE LimitKept'
    BY <2>1, <2>2, <2>3 DEF EditConf, LimitKept
  <2>4. ASSUME NEW c \in Confs, DeleteConf(c) PROVE LimitKept'
    <3>1. conf' = [conf EXCEPT ![c] = [exists |-> FALSE, targets |-> conf[c].targets,
                                       keep |-> conf[c].keep]]
      BY <2>4 DEF DeleteConf
    <3> QED
      BY <2>2, <3>1 DEF LimitKept
  <2>5. UNCHANGED conf \/ \E c \in Confs : EditConf(c) \/ DeleteConf(c)
    <3>1. ASSUME NEW s \in Sessions, Targets(s) PROVE UNCHANGED conf
      <4>1. PICK i \in DOMAIN api[s].targets :
              TargetDone(s, i) \/ TargetFails(s, i) \/ JobDone(s, i)
        BY <3>1, Zenon DEF Targets, Sidecar
      <4>2. PICK status : Report(s, i, status)
        BY <4>1 DEF TargetDone, TargetFails, JobDone
      <4> QED
        BY <4>2 DEF Report, world
    <3>2. ASSUME NEW s \in Sessions, Create(s) \/ UserDelete(s) \/ Sync(s) PROVE UNCHANGED conf
      BY <3>2 DEF Create, UserDelete, Sync, world
    <3>3. ASSUME NEW s \in Sessions, Reconcile(s) PROVE UNCHANGED conf
      BY <3>3 DEF Reconcile, Returns, ReconcileGone, ReconcileDeletion, ReconcileFinalizer,
                  ReconcileCreated, ReconcileNew, ReconcilePhase, ReconcileSuccess,
                  ReconcileFailure, ReconcilePanic, Drop, Save, world
    <3>4. CASE Tick \/ Resync \/ Restart \/ NextWrite \/ UNCHANGED vars
      BY <3>4 DEF Tick, Resync, Restart, NextWrite, Unfinalize, CleanupDelete, CleanupKeep, vars,
                  world
    <3> QED
      BY <3>1, <3>2, <3>3, <3>4 DEF Next, Environment, Users
  <2> QED
    BY <2>2, <2>3, <2>4, <2>5 DEF LimitKept
<1>2. /\ \A s \in Sessions : MarkStep(s) /\ api[s] \in Object
      /\ created \subseteq created'
      /\ pending # <<>> => WriteSpared(api, created, Head(pending))
      /\ NoObject.state # Success /\ ~ NoObject.deleting /\ ~ NoObject.finalizer
  BY MarkOfStep, HistoryGrows, HeadSpared, SparedTypes DEF Spared
<1>3. OnceCreated'
  <2>1. SUFFICES ASSUME NEW s \in Sessions, api'[s] # NoObject PROVE s \in created'
    BY DEF OnceCreated
  <2>2. api[s] # NoObject => s \in created'
    BY <1>2 DEF Spared, OnceCreated
  <2>3. Deleted(NoObject) = NoObject
    BY DEF Deleted, NoObject, Blank
  <2>4. KeepStep(s) => api[s] # NoObject
    BY <1>2 DEF KeepStep, WriteSpared
  <2> QED
    BY <1>2, <2>1, <2>2, <2>3, <2>4 DEF MarkStep, CleanupStep, UnfinalizeStep, UnmarkedStep
<1>4. MarkedSpared'
  <2>1. SUFFICES ASSUME NEW s \in Sessions, api'[s].deleting
                 PROVE  api'[s].state = Success /\ Covered(api', Ref[s], api'[s].start)
    BY DEF MarkedSpared
  <2>2. SUFFICES /\ api'[s].state = Success /\ api'[s].start = api[s].start
                 /\ Covered(api, Ref[s], api[s].start)
    BY CoveredStays, SparedTypes
  <2>3. api'[s] # NoObject /\ api'[s] # NewObject
    BY <2>1 DEF NoObject, NewObject, Blank
  <2>4. CASE CleanupStep(s)
    <3>1. /\ api[s].finalizer /\ api'[s].state = api[s].state /\ api'[s].start = api[s].start
      BY <2>3, <2>4 DEF CleanupStep, Deleted, SetMeta
    <3> QED
      BY <1>2, <2>4, <3>1 DEF CleanupStep, WriteSpared, CopySpared
  <2> QED
    BY <1>2, <2>1, <2>3, <2>4 DEF MarkStep, UnfinalizeStep, UnmarkedStep, Spared, MarkedSpared
<1>5. CopiesSpared'
  <2>1. SUFFICES ASSUME NEW s \in Sessions PROVE CopySpared(api', created', s, cache'[s])
    BY DEF CopiesSpared
  <2>2. CASE cache'[s] = cache[s]
    <3>1. CopySpared(api', created', s, cache[s])
      BY CopyStaysSpared, SparedTypes DEF Spared, CopiesSpared
    <3> QED
      BY <2>2, <3>1
  <2>3. CASE cache'[s] = api[s] /\ UNCHANGED api
    BY <2>3 DEF CopySpared
  <2> QED
    BY <2>2, <2>3, CopiesOfStep
<1>6. WritesSpared'
  <2>1. SUFFICES ASSUME NEW k \in DOMAIN pending' PROVE WriteSpared(api', created', pending'[k])
    BY DEF WritesSpared
  <2>2. pending \in Seq(Write)
    BY DEF TypeOK
  <2>3. ASSUME NEW l \in DOMAIN pending, pending'[k] = pending[l]
        PROVE  WriteSpared(api', created', pending'[k])
    <3>1. pending[l] \in Write /\ WriteSpared(api, created, pending[l])
      BY <2>2 DEF Spared, WritesSpared
    <3> QED
      BY <2>3, <3>1, WriteStaysSpared
  <2>4. CASE UNCHANGED pending
    BY <2>3, <2>4
  <2>5. CASE pending # <<>> /\ pending' = Tail(pending)
    <3>1. k + 1 \in DOMAIN pending /\ pending'[k] = pending[k + 1]
      BY <2>1, <2>2, <2>5
    <3> QED
      BY <2>3, <3>1
  <2>6. ASSUME NEW s \in Sessions, cache[s].deleting,
               pending' = <<[do |-> "unfinalize", session |-> s, seen |-> cache[s], keep |-> {}]>>
        PROVE  WriteSpared(api', created', pending'[k])
    BY <2>1, <2>6 DEF WriteSpared
  <2>7. ASSUME UNCHANGED <<api, created>>, NEW s \in Sessions,
               NEW order \in NewestFirst({t \in Successful : Ref[t] = Ref[s]}),
               pending' = CleanupWrites(order, conf[Ref[s]].keep)
        PROVE  WriteSpared(api', created', pending'[k])
    BY <2>1, <2>7, CleanupDecides
  <2>8. pending' # <<>>
    BY <2>1
  <2>9. \/ UNCHANGED pending
        \/ pending # <<>> /\ pending' = Tail(pending)
        \/ \E s \in Sessions :
             /\ cache[s].deleting
             /\ pending' = <<[do |-> "unfinalize", session |-> s, seen |-> cache[s], keep |-> {}]>>
        \/ /\ UNCHANGED <<api, created>>
           /\ \E s \in Sessions :
                \E order \in NewestFirst({t \in Successful : Ref[t] = Ref[s]}) :
                  pending' = CleanupWrites(order, conf[Ref[s]].keep)
    BY <2>8, CopiesOfStep, Zenon
  <2> QED
    BY <2>4, <2>5, <2>6, <2>7, <2>9, Zenon
<1> QED
  BY <1>1, <1>3, <1>4, <1>5, <1>6 DEF Spared

\* The invariant holds of every behaviour in which start times are distinct.
LEMMA SparedInvariant ==
  ASSUME UserDeletes = {}, SameLast
  PROVE  Spec /\ []DistinctStarts => []Spared
<1>1. Init => Spared
  <2>1. SUFFICES ASSUME Init PROVE Spared
    OBVIOUS
  <2>2. NoObject.state # Success /\ ~ NoObject.deleting
    BY DEF NoObject, Blank, NoState, Success
  <2>3. LimitKept /\ OnceCreated /\ MarkedSpared /\ CopiesSpared
    BY <2>1, <2>2 DEF Init, LimitKept, OnceCreated, MarkedSpared, CopiesSpared, CopySpared
  <2>4. WritesSpared
    BY <2>1 DEF Init, WritesSpared
  <2> QED
    BY <2>3, <2>4 DEF Spared
<1>2. TypeOK /\ DistinctStarts /\ Spared /\ [Next]_vars => Spared'
  BY SparedStep
<1> QED
  BY <1>1, <1>2, TypeCorrect, PTL DEF Spec

\* cleanupSessions never takes a session among the Keep.Last newest successes
\* of its configuration, for any number of sessions, from however old a list,
\* in whichever order it sorts, with restarts and refused writes, and whatever
\* ends between its writes.
THEOREM NewestSpared ==
  ASSUME UserDeletes = {}, SameLast
  PROVE  Spec /\ []DistinctStarts => []CleanupSparesNewest
<1>1. Spared => CleanupSparesNewest
  BY DEF Spared, MarkedSpared, LimitKept, Covered, Newer, CleanupSparesNewest
<1> QED
  BY <1>1, SparedInvariant, PTL
=============================================================================
