--------------------------- MODULE PromiseProofs ----------------------------
(***************************************************************************)
(* The BackupSession controller keeps the promise to the targets: every    *)
(* step of BackupSession is a step of TargetPipeline, or none, in what an  *)
(* object shows of its session (StageOf, SizeOf, TurnOf, DoingOf, JobsOf). *)
(* The lemmas are about objects with the fields exists, state and targets, *)
(* which BackupSessions and RestoreSessions have in common.                *)
(*                                                                         *)
(* Then the two session controllers of a namespace side by side: neither   *)
(* keeps the other from what it promises, although they die together and   *)
(* the panic of one loses the work in progress of the other.               *)
(***************************************************************************)
EXTENDS Namespace, BackupSessionProofs

-----------------------------------------------------------------------------
(* What an object shows in a phase.                                        *)

Touched(phase, tss) == {i \in DOMAIN tss : tss[i].state # Before(phase)}

\* The targets that have had their turn are the first ones, and all of them
\* but the last are through with the phase.
LEMMA TouchedFirst ==
  ASSUME NEW phase \in Phases, NEW tss \in Seq(TargetStatus), InOrder(phase, tss)
  PROVE  /\ Cardinality(Touched(phase, tss)) \in 0..Len(tss)
         /\ Touched(phase, tss) = 1..Cardinality(Touched(phase, tss))
<1> DEFINE T == Touched(phase, tss)
           gaps == {n \in Nat : n + 1 \notin T}
           k == Min(gaps)
<1>1. DOMAIN tss = 1..Len(tss) /\ Len(tss) \in Nat
  OBVIOUS
<1>2. T \subseteq 1..Len(tss)
  BY <1>1 DEF Touched
<1>3. \A i, j \in 1..Len(tss) : i < j /\ j \in T => i \in T
  BY <1>1, PhaseFacts DEF Touched, InOrder
<1> HIDE DEF T
<1>4. Len(tss) \in gaps
  BY <1>1, <1>2
<1>5. k \in gaps /\ \A n \in gaps : k <= n
  BY <1>4, MinIsFirst
<1> HIDE DEF k
<1>6. k \in 0..Len(tss) /\ k + 1 \notin T
  BY <1>1, <1>4, <1>5
<1>7. \A i \in 1..k : i \in T
  <2>1. SUFFICES ASSUME NEW i \in 1..k, i \notin T PROVE FALSE
    OBVIOUS
  <2>2. i - 1 \in gaps /\ i - 1 < k
    BY <1>6, <2>1
  <2> QED
    BY <1>5, <1>6, <2>2
<1>8. \A j \in T : j \in 1..k
  <2>1. SUFFICES ASSUME NEW j \in T, j > k PROVE FALSE
    BY <1>2, <1>6
  <2>2. j \in 1..Len(tss) /\ k + 1 \in 1..Len(tss) /\ (k + 1 < j \/ k + 1 = j)
    BY <1>1, <1>2, <1>6, <2>1
  <2> QED
    BY <1>3, <1>6, <2>1, <2>2
<1>9. T = 1..k
  BY <1>2, <1>7, <1>8
<1>10. Cardinality(1..k) = k
  BY <1>1, <1>6, FS_Interval
<1> QED
  BY <1>6, <1>9, <1>10 DEF T

\* The turn is the number of targets that have had it.
LEMMA TurnInPhase ==
  ASSUME NEW o, o.exists, o.state \in Phases, o.targets \in Seq(TargetStatus),
         InOrder(o.state, o.targets)
  PROVE  /\ TurnOf(o) \in 0..Len(o.targets)
         /\ \A i \in DOMAIN o.targets :
              i <= TurnOf(o) <=> o.targets[i].state # Before(o.state)
         /\ \A n \in 0..Len(o.targets) :
              (\A i \in DOMAIN o.targets : i <= n <=> o.targets[i].state # Before(o.state))
                => TurnOf(o) = n
<1>1. TurnOf(o) = Cardinality(Touched(o.state, o.targets))
  BY DEF TurnOf, InPhase, Touched
<1>2. TurnOf(o) \in 0..Len(o.targets) /\ Touched(o.state, o.targets) = 1..TurnOf(o)
  BY <1>1, TouchedFirst
<1>3. DOMAIN o.targets = 1..Len(o.targets) /\ Len(o.targets) \in Nat
  OBVIOUS
<1>4. \A i \in DOMAIN o.targets : i <= TurnOf(o) <=> o.targets[i].state # Before(o.state)
  BY <1>2, <1>3 DEF Touched
<1>5. ASSUME NEW n \in 0..Len(o.targets),
             \A i \in DOMAIN o.targets : i <= n <=> o.targets[i].state # Before(o.state)
      PROVE  TurnOf(o) = n
  <2>1. \A i \in 1..Len(o.targets) : i <= n <=> i <= TurnOf(o)
    BY <1>3, <1>4, <1>5
  <2> QED
    BY <1>2, <1>3, <2>1
<1> QED
  BY <1>2, <1>4, <1>5

\* Who works, or has failed, is the target whose turn it is.
LEMMA DoingInPhase ==
  ASSUME NEW o, o.exists, o.state \in Phases, o.targets \in Seq(TargetStatus),
         InOrder(o.state, o.targets)
  PROVE  /\ \A i \in DOMAIN o.targets : Busy(o.targets[i]) => DoingOf(o) = "works"
         /\ \A i \in DOMAIN o.targets : o.targets[i].state = Failure => DoingOf(o) = "failed"
         /\ (\A i \in DOMAIN o.targets : o.targets[i].state \notin {o.state, Failure})
              => DoingOf(o) = "rests"
         /\ \A i \in DOMAIN o.targets :
              o.targets[i].state \in {o.state, Failure} => TurnOf(o) = i
<1>1. InPhase(o)
  BY DEF InPhase
<1>2. \A i \in DOMAIN o.targets : Busy(o.targets[i]) <=> o.targets[i].state = o.state
  BY InOrderOneBusy
<1>3. ASSUME NEW i \in DOMAIN o.targets, o.targets[i].state = Failure
      PROVE  \A j \in DOMAIN o.targets : ~ Busy(o.targets[j])
  <2>1. SUFFICES ASSUME NEW j \in DOMAIN o.targets, o.targets[j].state = o.state PROVE FALSE
    BY <1>2
  <2>2. i # j
    BY <1>3, <2>1, PhaseFacts
  <2>3. i < j \/ j < i
    BY <2>2
  <2> QED
    BY <1>3, <2>1, <2>3, PhaseFacts DEF InOrder
<1>4. ASSUME NEW i \in DOMAIN o.targets, o.targets[i].state \in {o.state, Failure}
      PROVE  TurnOf(o) = i
  <2>1. o.targets[i].state # Before(o.state) /\ o.targets[i].state \notin Done(o.state)
    BY <1>4, PhaseFacts
  <2>2. \A j \in DOMAIN o.targets : i < j => o.targets[j].state = Before(o.state)
    BY <2>1 DEF InOrder
  <2>3. \A j \in DOMAIN o.targets : j < i => o.targets[j].state \in Done(o.state)
    BY <2>1 DEF InOrder
  <2>4. Before(o.state) \notin Done(o.state)
    BY PhaseFacts
  <2>5. \A j \in DOMAIN o.targets : j <= i <=> o.targets[j].state # Before(o.state)
    BY <2>1, <2>2, <2>3, <2>4
  <2>6. i \in 0..Len(o.targets)
    OBVIOUS
  <2> QED
    BY <2>5, <2>6, TurnInPhase
<1>5. (\E i \in DOMAIN o.targets : Busy(o.targets[i])) => DoingOf(o) = "works"
  <2>1. SUFFICES ASSUME \E i \in DOMAIN o.targets : Busy(o.targets[i])
                 PROVE  DoingOf(o) = "works"
    OBVIOUS
  <2>2. ~ \E i \in DOMAIN o.targets : o.targets[i].state = Failure
    BY <1>3, <2>1
  <2> QED
    BY <1>1, <2>1, <2>2 DEF DoingOf
<1>6. ASSUME NEW i \in DOMAIN o.targets, o.targets[i].state = Failure
      PROVE  DoingOf(o) = "failed"
  BY <1>1, <1>3, <1>6 DEF DoingOf
<1>7. (\A i \in DOMAIN o.targets : o.targets[i].state \notin {o.state, Failure})
        => DoingOf(o) = "rests"
  BY <1>1, <1>2 DEF DoingOf
<1> QED
  BY <1>4, <1>5, <1>6, <1>7

\* Outside the phases nobody has a turn.
LEMMA ViewOutside ==
  ASSUME NEW o, ~ (o.exists /\ o.state \in Phases)
  PROVE  TurnOf(o) = 0 /\ DoingOf(o) = "rests" /\ JobsOf(o) = {}
BY DEF TurnOf, DoingOf, JobsOf, InPhase

-----------------------------------------------------------------------------
(* The steps of TargetPipeline, for one session, as relations between what *)
(* its object shows before and after.                                      *)

Enters(p, stage, n) ==
  /\ StageOf(p) = stage /\ SizeOf(p) = n
  /\ TurnOf(p) = 0 /\ DoingOf(p) = "rests" /\ JobsOf(p) = {}

SameStage(o, p) == StageOf(p) = StageOf(o) /\ SizeOf(p) = SizeOf(o)

ShowsSame(o, p) ==
  SameStage(o, p) /\ TurnOf(p) = TurnOf(o) /\ DoingOf(p) = DoingOf(o) /\ JobsOf(p) = JobsOf(o)

ShowsTurn(o, p) ==
  /\ StageOf(o) \in Phases /\ DoingOf(o) = "rests" /\ TurnOf(o) < SizeOf(o)
  /\ SameStage(o, p) /\ JobsOf(p) = JobsOf(o)
  /\ TurnOf(p) = TurnOf(o) + 1 /\ DoingOf(p) = "works"

ShowsAnswer(o, p) ==
  /\ DoingOf(o) = "works"
  /\ SameStage(o, p) /\ TurnOf(p) = TurnOf(o)
  /\ \/ DoingOf(p) = "failed" /\ JobsOf(p) = JobsOf(o)
     \/ /\ DoingOf(p) = "rests"
        /\ \/ JobsOf(p) = JobsOf(o)
           \/ StageOf(o) = Finalize /\ JobsOf(p) = JobsOf(o) \cup {TurnOf(o)}

ShowsRetry(o, p) ==
  /\ DoingOf(o) = "failed" /\ DoingOf(p) = "works"
  /\ SameStage(o, p) /\ TurnOf(p) = TurnOf(o) /\ JobsOf(p) = JobsOf(o)

ShowsJobEnd(o, p) ==
  /\ \E i \in JobsOf(o) : JobsOf(p) = JobsOf(o) \ {i}
  /\ SameStage(o, p) /\ TurnOf(p) = TurnOf(o) /\ DoingOf(p) = DoingOf(o)

ShowsMoveOn(o, p) ==
  /\ StageOf(o) \in Phases /\ DoingOf(o) = "rests"
  /\ SizeOf(o) > 0 /\ TurnOf(o) = SizeOf(o) /\ JobsOf(o) = {}
  /\ Enters(p, After(StageOf(o)), SizeOf(o))

ShowsGiveUp(o, p) ==
  /\ DoingOf(o) = "failed" /\ JobsOf(o) = {}
  /\ Enters(p, IF StageOf(o) = Finalize THEN Success ELSE Failure, SizeOf(o))

ShowsStep(o, p) ==
  \/ ShowsSame(o, p)
  \/ StageOf(o) = "absent" /\ Enters(p, NoState, 0)
  \/ StageOf(o) = NoState /\ Enters(p, New, 0)
  \/ StageOf(o) = New /\ \E n \in Nat : Enters(p, Initializing, n)
  \/ StageOf(o) # "absent" /\ Enters(p, "absent", 0)
  \/ ShowsTurn(o, p) \/ ShowsAnswer(o, p) \/ ShowsRetry(o, p)
  \/ ShowsJobEnd(o, p) \/ ShowsMoveOn(o, p) \/ ShowsGiveUp(o, p)

\* A target is given its turn, the next one or, after a failure, the same.
LEMMA GiveTurnShows ==
  ASSUME NEW o, o.exists, o.state \in Phases, o.targets \in Seq(TargetStatus),
         InOrder(o.state, o.targets),
         NEW i \in DOMAIN o.targets, NEW n \in Nat,
         o.targets[i].state \in {Before(o.state), Failure},
         \A j \in DOMAIN o.targets :
           j < i => o.targets[j].state \notin {Before(o.state), o.state, Failure},
         NEW p, p.exists, p.state = o.state, p.targets = GiveTurn(o.targets, i, o.state, n),
         InOrder(p.state, p.targets)
  PROVE  ShowsTurn(o, p) \/ ShowsRetry(o, p)
<1>1. /\ DOMAIN o.targets = 1..Len(o.targets) /\ Len(o.targets) \in Nat
      /\ p.targets \in Seq(TargetStatus)
      /\ DOMAIN p.targets = DOMAIN o.targets /\ Len(p.targets) = Len(o.targets)
      /\ p.targets[i].state = o.state
      /\ \A j \in DOMAIN o.targets : j # i => p.targets[j] = o.targets[j]
  <2>1. /\ p.targets \in Seq(TargetStatus)
        /\ DOMAIN p.targets = DOMAIN o.targets /\ Len(p.targets) = Len(o.targets)
        /\ p.targets[i] = [kind |-> o.targets[i].kind, state |-> o.state, try |-> n,
                           snap |-> o.targets[i].snap]
        /\ \A j \in DOMAIN o.targets : j # i => p.targets[j] = o.targets[j]
    BY GiveTurnType
  <2>2. p.targets[i].state = o.state
    BY <2>1
  <2>3. DOMAIN o.targets = 1..Len(o.targets) /\ Len(o.targets) \in Nat
    OBVIOUS
  <2> QED
    BY <2>1, <2>2, <2>3
<1>2. SameStage(o, p) /\ StageOf(o) \in Phases /\ SizeOf(o) = Len(o.targets)
  BY <1>1 DEF SameStage, StageOf, SizeOf
<1>3. JobsOf(p) = JobsOf(o)
  <2>1. Before(o.state) # WaitingForJob /\ Failure # WaitingForJob /\ o.state # WaitingForJob
    BY DEF Phases, Before, NoState, Initialized, Waiting, WaitingForJob, Failure, Initializing,
           Running, Finalize
  <2>2. o.targets[i].state # WaitingForJob /\ p.targets[i].state # WaitingForJob
    BY <1>1, <2>1
  <2> QED
    BY <1>1, <2>2 DEF JobsOf, InPhase
<1>4. DoingOf(p) = "works" /\ TurnOf(p) = i
  BY <1>1, DoingInPhase DEF Busy
<1>5. CASE o.targets[i].state = Failure
  <2>1. DoingOf(o) = "failed" /\ TurnOf(o) = i
    BY <1>5, DoingInPhase
  <2> QED
    BY <1>2, <1>3, <1>4, <2>1 DEF ShowsRetry
<1>6. CASE o.targets[i].state = Before(o.state)
  <2>1. \A j \in DOMAIN o.targets : i <= j => o.targets[j].state = Before(o.state)
    BY <1>6, PhaseFacts DEF InOrder
  <2>2. Before(o.state) \notin {o.state, Failure}
    BY PhaseFacts
  <2>3. \A j \in DOMAIN o.targets : o.targets[j].state \notin {o.state, Failure}
    BY <1>1, <2>1, <2>2
  <2>4. DoingOf(o) = "rests"
    BY <2>3, DoingInPhase
  <2>5. i - 1 \in 0..Len(o.targets)
    BY <1>1
  <2>6. \A j \in DOMAIN o.targets : j <= i - 1 <=> o.targets[j].state # Before(o.state)
    <3>1. \A j \in DOMAIN o.targets : (j <= i - 1 <=> j < i) /\ (~ j < i <=> i <= j)
      BY <1>1
    <3> QED
      BY <2>1, <3>1
  <2>7. TurnOf(o) = i - 1
    BY <2>5, <2>6, TurnInPhase
  <2> QED
    BY <1>1, <1>2, <1>3, <1>4, <2>4, <2>7 DEF ShowsTurn
<1> QED
  BY <1>5, <1>6

\* The phase is over.
LEMMA MoveOnShows ==
  ASSUME NEW o, o.exists, o.state \in Phases, o.targets \in Seq(TargetStatus),
         InOrder(o.state, o.targets), o.targets # <<>>,
         \A j \in DOMAIN o.targets :
           o.targets[j].state \notin {Before(o.state), o.state, Failure, WaitingForJob},
         NEW p, p.exists, p.state = After(o.state), p.targets = o.targets
  PROVE  ShowsMoveOn(o, p)
<1>1. /\ DOMAIN o.targets = 1..Len(o.targets) /\ Len(o.targets) \in Nat /\ Len(o.targets) > 0
  OBVIOUS
<1>2. \A j \in DOMAIN o.targets : o.targets[j].state \in Done(o.state)
  BY DEF InOrder
<1>3. StageOf(o) = o.state /\ SizeOf(o) = Len(o.targets) /\ StageOf(p) = After(o.state)
      /\ SizeOf(p) = Len(o.targets)
  BY DEF StageOf, SizeOf
<1>4. DoingOf(o) = "rests" /\ JobsOf(o) = {}
  BY DoingInPhase DEF JobsOf
<1>5. TurnOf(o) = Len(o.targets)
  <2>1. \A j \in DOMAIN o.targets : j <= Len(o.targets) <=> o.targets[j].state # Before(o.state)
    BY <1>1
  <2>2. Len(o.targets) \in 0..Len(o.targets)
    BY <1>1
  <2> QED
    BY <2>1, <2>2, TurnInPhase
<1>6. TurnOf(p) = 0 /\ DoingOf(p) = "rests" /\ JobsOf(p) = {}
  <2>1. CASE o.state = Finalize
    <3>1. p.state = Success /\ Success \notin Phases
      BY <2>1, PhaseFacts DEF Phases, Success, Initializing, Running, Finalize
    <3> QED
      BY <3>1, ViewOutside
  <2>2. CASE o.state # Finalize
    <3>1. p.state \in Phases
      BY <2>2, PhaseFacts
    <3>2. \A j \in DOMAIN p.targets : p.targets[j].state = Before(p.state)
      BY <1>2, <2>2, PhaseFacts
    <3>3. Before(p.state) \notin {p.state, Failure}
      BY <3>1, PhaseFacts
    <3>4. InOrder(p.state, p.targets)
      BY <3>2 DEF InOrder
    <3>5. DoingOf(p) = "rests"
      BY <3>1, <3>2, <3>3, <3>4, DoingInPhase
    <3>6. TurnOf(p) = 0
      <4>1. \A j \in DOMAIN p.targets : j <= 0 <=> p.targets[j].state # Before(p.state)
        BY <1>1, <3>2
      <4>2. 0 \in 0..Len(p.targets) /\ p.targets \in Seq(TargetStatus)
        BY <1>1
      <4> QED
        BY <3>1, <3>4, <4>1, <4>2, TurnInPhase
    <3>7. JobsOf(p) = {}
      BY DEF JobsOf
    <3> QED
      BY <3>5, <3>6, <3>7
  <2> QED
    BY <2>1, <2>2
<1> QED
  BY <1>1, <1>3, <1>4, <1>5, <1>6 DEF ShowsMoveOn, Enters

\* The session ends at a target that failed.
LEMMA GiveUpShows ==
  ASSUME NEW o, o.exists, o.state \in Phases, o.targets \in Seq(TargetStatus),
         InOrder(o.state, o.targets),
         NEW i \in DOMAIN o.targets, o.targets[i].state = Failure,
         \A j \in DOMAIN o.targets :
           j < i => o.targets[j].state \notin {Before(o.state), o.state, Failure, WaitingForJob},
         NEW p, p.exists, p.targets = o.targets,
         p.state = IF o.state = Finalize THEN Success ELSE Failure
  PROVE  ShowsGiveUp(o, p)
<1>1. StageOf(o) = o.state /\ StageOf(p) = p.state /\ SizeOf(p) = SizeOf(o)
  BY DEF StageOf, SizeOf
<1>2. DoingOf(o) = "failed"
  BY DoingInPhase
<1>3. JobsOf(o) = {}
  <2>1. SUFFICES ASSUME NEW j \in DOMAIN o.targets PROVE o.targets[j].state # WaitingForJob
    BY DEF JobsOf
  <2>2. Before(o.state) # WaitingForJob /\ Failure # WaitingForJob
    BY DEF Phases, Before, NoState, Initialized, Waiting, WaitingForJob, Failure
  <2>3. i < j => o.targets[j].state = Before(o.state)
    BY PhaseFacts DEF InOrder
  <2>4. j < i \/ j = i \/ i < j
    OBVIOUS
  <2> QED
    BY <2>2, <2>3, <2>4
<1>4. p.state \notin Phases
  BY DEF Phases, Success, Failure, Initializing, Running, Finalize
<1>5. TurnOf(p) = 0 /\ DoingOf(p) = "rests" /\ JobsOf(p) = {}
  BY <1>4, ViewOutside
<1> QED
  BY <1>1, <1>2, <1>3, <1>5 DEF ShowsGiveUp, Enters

\* How a target, or its Job, changes its state when it reports.
PromiseAnswer(before, after) ==
  \/ before \in Phases /\ after \in Done(before) \cup {Failure}
  \/ before = WaitingForJob /\ after = Finalized

\* A target or its Job reports.
LEMMA AnswerShows ==
  ASSUME NEW o, o.exists, o.state \in SessionStates, o.targets \in Seq(TargetStatus),
         Coherent(o.state, o.targets),
         NEW i \in DOMAIN o.targets, NEW status \in TargetStatus,
         PromiseAnswer(o.targets[i].state, status.state),
         NEW p, p.exists, p.state = o.state, p.targets = [o.targets EXCEPT ![i] = status],
         Coherent(p.state, p.targets)
  PROVE  ShowsSame(o, p) \/ ShowsAnswer(o, p) \/ ShowsJobEnd(o, p)
<1>1. /\ DOMAIN o.targets = 1..Len(o.targets) /\ Len(o.targets) \in Nat
      /\ p.targets \in Seq(TargetStatus)
      /\ DOMAIN p.targets = DOMAIN o.targets /\ Len(p.targets) = Len(o.targets)
      /\ p.targets[i] = status
      /\ \A j \in DOMAIN o.targets : j # i => p.targets[j] = o.targets[j]
  OBVIOUS
<1>2. SameStage(o, p) /\ StageOf(o) = o.state
  BY <1>1 DEF SameStage, StageOf, SizeOf
<1>3. CASE o.state \notin Phases
  BY <1>2, <1>3, ViewOutside DEF ShowsSame
<1>4. CASE o.state \in Phases
  <2>1. InOrder(o.state, o.targets) /\ InOrder(p.state, p.targets)
    BY <1>4 DEF Coherent
  <2>2. \/ o.targets[i].state = o.state /\ status.state \in Done(o.state) \cup {Failure}
        \/ o.targets[i].state = WaitingForJob /\ status.state = Finalized
    BY <1>4, <2>1, InOrderOneBusy DEF PromiseAnswer, Busy
  <2>3. WaitingForJob \notin Phases \cup {Failure} /\ WaitingForJob # Before(o.state)
        /\ Finalized \notin Phases \cup {Failure, WaitingForJob} /\ Finalized # Before(o.state)
    BY DEF Phases, Before, Initializing, Running, Finalize, WaitingForJob, Failure, Finalized,
           NoState, Initialized, Waiting
  <2>4. o.targets[i].state # Before(o.state) /\ status.state # Before(o.state)
    BY <1>4, <2>2, <2>3, PhaseFacts
  <2>5. TurnOf(p) = TurnOf(o)
    <3>1. \A j \in DOMAIN o.targets :
            o.targets[j].state # Before(o.state) <=> p.targets[j].state # Before(o.state)
      BY <1>1, <2>4
    <3>2. /\ TurnOf(o) \in 0..Len(o.targets)
          /\ \A j \in DOMAIN o.targets : j <= TurnOf(o) <=> o.targets[j].state # Before(o.state)
      BY <1>4, <2>1, TurnInPhase
    <3>3. /\ TurnOf(o) \in 0..Len(p.targets)
          /\ \A j \in DOMAIN p.targets : j <= TurnOf(o) <=> p.targets[j].state # Before(p.state)
      BY <1>1, <3>1, <3>2
    <3> QED
      BY <1>1, <1>4, <2>1, <3>3, TurnInPhase
  <2>6. JobsOf(o) = {j \in DOMAIN o.targets : o.targets[j].state = WaitingForJob}
        /\ JobsOf(p) = {j \in DOMAIN o.targets : p.targets[j].state = WaitingForJob}
    BY <1>1, <1>4 DEF JobsOf, InPhase
  <2>7. CASE o.targets[i].state = o.state
    <3>1. DoingOf(o) = "works" /\ TurnOf(o) = i
      BY <1>4, <2>1, <2>7, DoingInPhase DEF Busy
    <3>2. \A j \in DOMAIN o.targets : j # i => o.targets[j].state \notin {o.state, Failure}
      BY <1>4, <2>1, <3>1, DoingInPhase
    <3>3. CASE status.state = Failure
      <4>1. DoingOf(p) = "failed"
        BY <1>1, <1>4, <2>1, <3>3, DoingInPhase
      <4>2. JobsOf(p) = JobsOf(o)
        BY <1>1, <1>4, <2>3, <2>6, <2>7, <3>3
      <4> QED
        BY <1>2, <2>5, <3>1, <4>1, <4>2 DEF ShowsAnswer
    <3>4. CASE status.state \in Done(o.state)
      <4>1. status.state \notin {o.state, Failure}
        BY <1>4, <3>4, PhaseFacts
      <4>2. \A j \in DOMAIN p.targets : p.targets[j].state \notin {p.state, Failure}
        BY <1>1, <3>2, <4>1
      <4>3. DoingOf(p) = "rests"
        BY <1>1, <1>4, <2>1, <4>2, DoingInPhase
      <4>4. CASE status.state # WaitingForJob
        <5>1. JobsOf(p) = JobsOf(o)
          BY <1>1, <1>4, <2>3, <2>6, <2>7, <4>4
        <5> QED
          BY <1>2, <2>5, <3>1, <4>3, <5>1 DEF ShowsAnswer
      <4>5. CASE status.state = WaitingForJob
        <5>1. o.state = Finalize
          BY <1>4, <3>4, <4>5, PhaseFacts
        <5>2. JobsOf(p) = JobsOf(o) \cup {TurnOf(o)}
          BY <1>1, <2>6, <3>1, <4>5
        <5> QED
          BY <1>2, <2>5, <3>1, <4>3, <5>1, <5>2 DEF ShowsAnswer
      <4> QED
        BY <4>4, <4>5
    <3>5. status.state \in Done(o.state) \cup {Failure}
      BY <1>4, <2>2, <2>3, <2>7
    <3> QED
      BY <3>3, <3>4, <3>5
  <2>8. CASE o.targets[i].state = WaitingForJob /\ status.state = Finalized
    <3>1. i \in JobsOf(o) /\ JobsOf(p) = JobsOf(o) \ {i}
      BY <1>1, <2>3, <2>6, <2>8
    <3>2. DoingOf(p) = DoingOf(o)
      <4>1. o.targets[i].state \notin Phases \cup {Failure} /\ status.state \notin Phases \cup {Failure}
        BY <2>3, <2>8
      <4>2. CASE \E j \in DOMAIN o.targets : o.targets[j].state = o.state
        <5>1. PICK j \in DOMAIN o.targets : o.targets[j].state = o.state
          BY <4>2
        <5>2. p.targets[j].state = p.state
          BY <1>1, <1>4, <4>1, <5>1
        <5> QED
          BY <1>1, <1>4, <2>1, <5>1, <5>2, DoingInPhase DEF Busy
      <4>3. CASE \E j \in DOMAIN o.targets : o.targets[j].state = Failure
        <5>1. PICK j \in DOMAIN o.targets : o.targets[j].state = Failure
          BY <4>3
        <5>2. p.targets[j].state = Failure
          BY <1>1, <4>1, <5>1
        <5> QED
          BY <1>1, <1>4, <2>1, <5>1, <5>2, DoingInPhase
      <4>4. CASE \A j \in DOMAIN o.targets : o.targets[j].state \notin {o.state, Failure}
        <5>1. \A j \in DOMAIN p.targets : p.targets[j].state \notin {p.state, Failure}
          BY <1>1, <1>4, <4>1, <4>4
        <5> QED
          BY <1>1, <1>4, <2>1, <4>4, <5>1, DoingInPhase
      <4> QED
        BY <4>2, <4>3, <4>4
    <3> QED
      BY <1>2, <2>5, <3>1, <3>2 DEF ShowsJobEnd
  <2> QED
    BY <2>2, <2>7, <2>8
<1> QED
  BY <1>3, <1>4

\* Whatever the scheduler writes is a step of the promise.
LEMMA AdvanceShows ==
  ASSUME NEW o, o.exists, o.state \in Phases, o.targets \in Seq(TargetStatus),
         InOrder(o.state, o.targets), NEW specs \in Seq(TargetSpec),
         ~ PhasePanics(o.state, o.targets, specs),
         Advance(o.state, o.targets, specs).state # NoState,
         NEW p, p.exists, p.state = Advance(o.state, o.targets, specs).state,
         p.targets = Advance(o.state, o.targets, specs).targets
  PROVE  ShowsStep(o, p)
<1>1. Outcome(o.state, o.targets, specs, [state |-> p.state, targets |-> p.targets])
  BY AdvanceOutcome DEF Advance
<1>2. p.state # NoState /\ Coherent(p.state, p.targets)
  BY AdvanceCoherent
<1>3. CASE p.state = o.state /\ p.targets = o.targets
  BY <1>3 DEF ShowsStep, ShowsSame, SameStage, StageOf, SizeOf, TurnOf, DoingOf, JobsOf, InPhase
<1>4. CASE /\ p.state = o.state
           /\ \E i \in DOMAIN o.targets :
                /\ o.targets[i].state \in {Before(o.state), Failure}
                /\ \A j \in DOMAIN o.targets :
                     j < i => o.targets[j].state \notin {Before(o.state), o.state, Failure}
                /\ \E n \in Nat : p.targets = GiveTurn(o.targets, i, o.state, n)
  <2>1. InOrder(p.state, p.targets)
    BY <1>2, <1>4 DEF Coherent
  <2> QED
    BY <1>4, <2>1, GiveTurnShows DEF ShowsStep
<1>5. CASE /\ p.state = After(o.state)
           /\ p.targets = o.targets
           /\ o.targets # <<>>
           /\ \A j \in DOMAIN o.targets :
                o.targets[j].state \notin {Before(o.state), o.state, Failure, WaitingForJob}
  BY <1>5, MoveOnShows DEF ShowsStep
<1>6. CASE /\ p.state = IF o.state = Finalize THEN Success ELSE Failure
           /\ p.targets = o.targets
           /\ \E i \in DOMAIN o.targets :
                /\ o.targets[i].state = Failure
                /\ \A j \in DOMAIN o.targets : j < i =>
                     o.targets[j].state \notin {Before(o.state), o.state, Failure, WaitingForJob}
  BY <1>6, GiveUpShows DEF ShowsStep
<1> QED
  BY <1>1, <1>2, <1>3, <1>4, <1>5, <1>6 DEF Outcome

\* The statuses of a session that begins.
LEMMA BeginShows ==
  ASSUME NEW o, o.exists, o.state = New, NEW specs \in Seq(TargetSpec),
         NEW p, p.exists, p.state = Initializing, p.targets = InitSession(specs)
  PROVE  ShowsStep(o, p)
<1>1. /\ p.targets \in Seq(TargetStatus) /\ DOMAIN p.targets = 1..Len(p.targets)
      /\ Len(p.targets) \in Nat
  BY InitSessionType
<1>2. \A i \in DOMAIN p.targets : p.targets[i].state = NoState
  <2>1. SUFFICES ASSUME NEW i \in DOMAIN specs PROVE p.targets[i].state = NoState
    BY InitSessionType
  <2>2. p.targets[i] = [kind |-> specs[i].kind, state |-> NoState, try |-> 1, snap |-> FALSE]
    BY InitSessionType
  <2> QED
    BY <2>2
<1>3. p.state \in Phases /\ InOrder(p.state, p.targets)
  BY InitSessionCoherent DEF Coherent, Phases
<1>4. Before(p.state) = NoState
  BY DEF Before
<1>5. TurnOf(p) = 0
  <2>1. \A j \in DOMAIN p.targets : j <= 0 <=> p.targets[j].state # Before(p.state)
    BY <1>1, <1>2, <1>4
  <2>2. 0 \in 0..Len(p.targets)
    BY <1>1
  <2> QED
    BY <1>1, <1>3, <2>1, <2>2, TurnInPhase
<1>6. DoingOf(p) = "rests"
  <2>1. NoState \notin {p.state, Failure}
    BY DEF NoState, Initializing, Failure
  <2> QED
    BY <1>1, <1>2, <1>3, <2>1, DoingInPhase
<1>7. JobsOf(p) = {}
  BY <1>2 DEF JobsOf, NoState, WaitingForJob
<1>8. StageOf(o) = New /\ StageOf(p) = Initializing /\ SizeOf(p) \in Nat
  BY <1>1 DEF StageOf, SizeOf
<1> QED
  BY <1>5, <1>6, <1>7, <1>8 DEF ShowsStep, Enters

\* A session that comes, is accepted or goes has no targets to show.
LEMMA EmptyShows ==
  ASSUME NEW o, o.exists \in BOOLEAN, o.targets = <<>>, o.state \notin Phases
  PROVE  /\ SizeOf(o) = 0 /\ TurnOf(o) = 0 /\ DoingOf(o) = "rests" /\ JobsOf(o) = {}
         /\ StageOf(o) = IF o.exists THEN o.state ELSE "absent"
<1>1. SizeOf(o) = 0
  BY DEF SizeOf
<1> QED
  BY <1>1, ViewOutside DEF StageOf

\* Two objects with the same status show the same.
LEMMA SameShows ==
  ASSUME NEW o, NEW p, p.exists = o.exists, p.state = o.state, p.targets = o.targets
  PROVE  ShowsSame(o, p)
BY DEF ShowsSame, SameStage, StageOf, SizeOf, TurnOf, DoingOf, JobsOf, InPhase

\* An object without targets that comes, or one that goes.
LEMMA BlankShows ==
  ASSUME NEW o, o.exists \in BOOLEAN, o.state \in SessionStates, ~ o.exists => o.targets = <<>>,
         NEW p, p.exists \in BOOLEAN, p.state = NoState, p.targets = <<>>,
         p.exists => ~ o.exists
  PROVE  ShowsStep(o, p)
<1>1. /\ SizeOf(p) = 0 /\ TurnOf(p) = 0 /\ DoingOf(p) = "rests" /\ JobsOf(p) = {}
      /\ StageOf(p) = IF p.exists THEN NoState ELSE "absent"
  <2>1. p.state \notin Phases
    BY PhaseFacts
  <2> QED
    BY <2>1, EmptyShows
<1>2. CASE o.exists
  <2>1. ~ p.exists
    BY <1>2
  <2>2. StageOf(o) # "absent"
    BY <1>2 DEF StageOf, SessionStates, NoState, New, Initializing, Running, Finalize, Success,
                Failure
  <2> QED
    BY <1>1, <2>1, <2>2 DEF ShowsStep, Enters
<1>3. CASE ~ o.exists
  <2>1. SizeOf(o) = 0 /\ TurnOf(o) = 0 /\ DoingOf(o) = "rests" /\ JobsOf(o) = {}
        /\ StageOf(o) = "absent"
    BY <1>3, ViewOutside DEF SizeOf, StageOf
  <2> QED
    BY <1>1, <2>1 DEF ShowsStep, ShowsSame, SameStage, Enters
<1> QED
  BY <1>2, <1>3

\* A session is accepted.
LEMMA AcceptShows ==
  ASSUME NEW o, o.exists, o.state = NoState, o.targets = <<>>,
         NEW p, p.exists, p.state = New, p.targets = <<>>
  PROVE  ShowsStep(o, p)
<1>1. New \notin Phases
  BY DEF New, Phases, Initializing, Running, Finalize
<1>2. /\ SizeOf(p) = 0 /\ TurnOf(p) = 0 /\ DoingOf(p) = "rests" /\ JobsOf(p) = {}
      /\ StageOf(p) = New
  BY <1>1, ViewOutside DEF SizeOf, StageOf
<1>3. StageOf(o) = NoState
  BY DEF StageOf
<1> QED
  BY <1>2, <1>3 DEF ShowsStep, Enters

-----------------------------------------------------------------------------
(* The steps of BackupSession.                                             *)

\* What a sidecar or a Job answers is an answer the promise knows.
LEMMA AnswersPromised ==
  ASSUME NEW t \in TargetStatus, NEW status, TargetAnswers(t, status)
  PROVE  PromiseAnswer(t.state, status.state)
BY DEF TargetAnswers, PromiseAnswer, Busy, Reported, SetTarget, Done, Phases, Initializing,
       Running, Finalize

\* Every step shows in an object as a step of the promise.
LEMMA ObjectShows ==
  ASSUME TypeOK, Pipeline, OnlyCreated, Accounted, [Next]_vars, NEW s \in Sessions
  PROVE  ShowsStep(api[s], api'[s])
<1> DEFINE o == api[s]
           p == api'[s]
<1>1. ObjectStep(s)
  BY StepOnObject
<1>2. /\ o \in Object /\ o.exists \in BOOLEAN /\ o.state \in SessionStates
      /\ o.targets \in Seq(TargetStatus) /\ Coherent(o.state, o.targets)
  BY ObjectFields DEF TypeOK, Pipeline
<1>3. Coherent(p.state, p.targets)
  BY PipelineStep DEF Pipeline
<1>4. /\ o.exists => s \in created
      /\ o.finalizer => o.exists
      /\ ~ o.finalizer => o.targets = <<>>
  BY DEF OnlyCreated, Accounted
<1>5. CASE p.exists = o.exists /\ p.state = o.state /\ p.targets = o.targets
  BY <1>5, SameShows DEF ShowsStep
<1>6. CASE p = NoObject \/ (s \notin created /\ p = NewObject)
  <2>1. /\ p.exists \in BOOLEAN /\ p.state = NoState /\ p.targets = <<>>
        /\ p.exists => ~ o.exists
    <3>1. NoObject.exists = FALSE /\ NoObject.state = NoState /\ NoObject.targets = <<>>
      BY DEF NoObject, Blank
    <3>2. NewObject.exists = TRUE /\ NewObject.state = NoState /\ NewObject.targets = <<>>
      BY DEF NewObject, Blank
    <3>3. CASE p = NoObject
      BY <3>1, <3>3
    <3>4. CASE s \notin created /\ p = NewObject
      BY <1>4, <3>2, <3>4
    <3> QED
      BY <1>6, <3>3, <3>4
  <2>2. ~ o.exists => o.targets = <<>>
    BY <1>4
  <2> QED
    BY <1>2, <2>1, <2>2, BlankShows
<1>7. CASE AcceptStep(s)
  <2>1. p.exists = o.exists /\ p.state = New /\ p.targets = o.targets /\ o.state = NoState
        /\ o.targets = <<>>
    BY <1>2, <1>7 DEF AcceptStep, SetStatus, Coherent
  <2>2. CASE o.exists
    BY <2>1, <2>2, AcceptShows
  <2>3. CASE ~ o.exists
    <3>1. SizeOf(p) = SizeOf(o) /\ StageOf(p) = "absent" /\ StageOf(o) = "absent"
      BY <2>1, <2>3 DEF SizeOf, StageOf
    <3>2. TurnOf(p) = TurnOf(o) /\ DoingOf(p) = DoingOf(o) /\ JobsOf(p) = JobsOf(o)
      BY <2>1, <2>3, ViewOutside
    <3> QED
      BY <3>1, <3>2 DEF ShowsStep, ShowsSame, SameStage
  <2> QED
    BY <2>2, <2>3
<1>8. CASE BeginStep(s)
  <2>1. PICK specs \in Seq(TargetSpec) :
          /\ o.state = New /\ o.finalizer
          /\ p = SetStatus(o, Initializing, o.start, InitSession(specs), o.keep)
    BY <1>8 DEF BeginStep
  <2>2. p.exists = o.exists /\ p.state = Initializing /\ p.targets = InitSession(specs)
    BY <2>1 DEF SetStatus
  <2> QED
    BY <1>4, <2>1, <2>2, BeginShows
<1>9. CASE PhaseStep(s)
  <2>1. PICK specs \in Seq(TargetSpec) :
          /\ o.finalizer /\ o.state \in Phases
          /\ ~ PhasePanics(o.state, o.targets, specs)
          /\ Advance(o.state, o.targets, specs).state # NoState
          /\ p = SetStatus(o, Advance(o.state, o.targets, specs).state, o.start,
                           Advance(o.state, o.targets, specs).targets, o.keep)
    BY <1>9 DEF PhaseStep
  <2>2. /\ p.exists = o.exists
        /\ p.state = Advance(o.state, o.targets, specs).state
        /\ p.targets = Advance(o.state, o.targets, specs).targets
    BY <2>1 DEF SetStatus
  <2>3. InOrder(o.state, o.targets)
    BY <1>2, <2>1 DEF Coherent
  <2> QED
    BY <1>2, <1>4, <2>1, <2>2, <2>3, AdvanceShows
<1>10. CASE ReportStep(s)
  <2>1. PICK i \in DOMAIN o.targets, status \in TargetStatus :
          /\ TargetAnswers(o.targets[i], status)
          /\ p = SetStatus(o, o.state, o.start, [o.targets EXCEPT ![i] = status], o.keep)
    BY <1>10 DEF ReportStep
  <2>2. p.exists = o.exists /\ p.state = o.state
        /\ p.targets = [o.targets EXCEPT ![i] = status]
    BY <2>1 DEF SetStatus
  <2>3. o.exists
    BY <1>4, <2>1
  <2>4. PromiseAnswer(o.targets[i].state, status.state)
    BY <1>2, <2>1, AnswersPromised
  <2> QED
    <3> HIDE DEF o, p
    <3>1. p.exists
      BY <2>2, <2>3
    <3>2. ShowsSame(o, p) \/ ShowsAnswer(o, p) \/ ShowsJobEnd(o, p)
      BY <1>2, <1>3, <2>1, <2>2, <2>3, <2>4, <3>1, AnswerShows
    <3> QED
      BY <3>2 DEF ShowsStep, o, p
<1>11. ASSUME NEW deleting, p = SetMeta(o, deleting, TRUE)
       PROVE  p.exists = o.exists /\ p.state = o.state /\ p.targets = o.targets
  BY <1>11 DEF SetMeta
<1>12. ASSUME NEW keep, p = SetStatus(o, o.state, o.start, o.targets, keep)
       PROVE  p.exists = o.exists /\ p.state = o.state /\ p.targets = o.targets
  BY <1>12 DEF SetStatus
<1>13. CASE p = o
  BY <1>5, <1>13
<1> QED
  BY <1>1, <1>5, <1>6, <1>7, <1>8, <1>9, <1>10, <1>11, <1>12, <1>13
     DEF ObjectStep, UnfinalizeStep

\* A step changes the object of one session at most.
LEMMA OneObject ==
  ASSUME TypeOK, [Next]_vars
  PROVE  UNCHANGED api \/ \E s \in Sessions : \A t \in Sessions \ {s} : api'[t] = api[t]
<1> DEFINE One == UNCHANGED api \/ \E s \in Sessions : \A t \in Sessions \ {s} : api'[t] = api[t]
<1>1. api \in [Sessions -> Object]
  BY DEF TypeOK
<1>2. ASSUME NEW s \in Sessions, NEW o, api' = [api EXCEPT ![s] = o] PROVE One
  BY <1>1, <1>2
<1> SUFFICES One
  OBVIOUS
<1> HIDE DEF One
<1>3. UNCHANGED api => One
  BY DEF One
<1>4. ASSUME NEW s \in Sessions, Create(s) \/ UserDelete(s) \/ Sync(s) PROVE One
  BY <1>2, <1>3, <1>4 DEF Create, UserDelete, Sync
<1>5. ASSUME NEW s \in Sessions, Targets(s) PROVE One
  BY <1>2, <1>5 DEF Targets, Sidecar, TargetDone, TargetFails, JobDone, Report
<1>6. ASSUME NEW s \in Sessions, NEW o, Save(s, o) PROVE One
  BY <1>2, <1>6 DEF Save
<1>7. ASSUME NEW s \in Sessions, Reconcile(s) PROVE One
  <2>1. CASE ReconcilePhase(s)
    BY <1>3, <1>6, <2>1 DEF ReconcilePhase, Drop
  <2> QED
    BY <1>3, <1>6, <1>7, <2>1
       DEF Reconcile, Returns, ReconcileGone, ReconcileDeletion, ReconcileFinalizer,
           ReconcileCreated, ReconcileNew, ReconcilePanic, ReconcileSuccess, ReconcileFailure, Drop
<1>8. ASSUME NEW ok, Unfinalize(ok) \/ CleanupDelete(ok) \/ CleanupKeep(ok) PROVE One
  <2>1. Head(pending).session \in Sessions
    BY <1>8, PendingType DEF Unfinalize, CleanupDelete, CleanupKeep, TypeOK
  <2> QED
    BY <1>2, <1>3, <1>8, <2>1 DEF Unfinalize, CleanupDelete, CleanupKeep
<1>9. CASE UNCHANGED vars
  BY <1>3, <1>9 DEF vars
<1>10. CASE Tick \/ Resync \/ Restart \/ \E c \in Confs : EditConf(c) \/ DeleteConf(c)
  BY <1>3, <1>10 DEF Tick, Resync, Restart, EditConf, DeleteConf
<1>11. CASE \E s \in Sessions : Sync(s) \/ Reconcile(s) \/ Targets(s)
  BY <1>4, <1>5, <1>7, <1>11
<1>12. CASE NextWrite
  BY <1>8, <1>12 DEF NextWrite
<1>13. CASE Environment
  BY <1>4, <1>10, <1>13 DEF Environment, Users
<1> QED
  BY <1>9, <1>11, <1>12, <1>13 DEF Next

-----------------------------------------------------------------------------
(* From what one object shows to a step of TargetPipeline.                 *)

\* One object changes and shows a step of the promise.
LEMMA PromiseStep ==
  ASSUME NEW s \in Sessions, \A t \in Sessions \ {s} : api'[t] = api[t],
         ShowsStep(api[s], api'[s])
  PROVE  Promise!Step(s) \/ UNCHANGED Promise!pipeline
<1> DEFINE stage == [t \in Sessions |-> StageOf(api[t])]
           size  == [t \in Sessions |-> SizeOf(api[t])]
           turn  == [t \in Sessions |-> TurnOf(api[t])]
           doing == [t \in Sessions |-> DoingOf(api[t])]
           jobs  == [t \in Sessions |-> JobsOf(api[t])]
           o == api[s]
           p == api'[s]
<1>1. /\ stage[s] = StageOf(o) /\ size[s] = SizeOf(o) /\ turn[s] = TurnOf(o)
      /\ doing[s] = DoingOf(o) /\ jobs[s] = JobsOf(o)
  OBVIOUS
<1>2. /\ stage' = [stage EXCEPT ![s] = StageOf(p)]
      /\ size' = [size EXCEPT ![s] = SizeOf(p)]
      /\ turn' = [turn EXCEPT ![s] = TurnOf(p)]
      /\ doing' = [doing EXCEPT ![s] = DoingOf(p)]
      /\ jobs' = [jobs EXCEPT ![s] = JobsOf(p)]
  OBVIOUS
<1>3. /\ StageOf(p) = StageOf(o) => UNCHANGED stage
      /\ SizeOf(p) = SizeOf(o) => UNCHANGED size
      /\ TurnOf(p) = TurnOf(o) => UNCHANGED turn
      /\ DoingOf(p) = DoingOf(o) => UNCHANGED doing
      /\ JobsOf(p) = JobsOf(o) => UNCHANGED jobs
  OBVIOUS
<1>4. size'[s] = SizeOf(p)
  OBVIOUS
<1> HIDE DEF stage, size, turn, doing, jobs, o, p
<1>5. CASE ShowsSame(o, p)
  BY <1>3, <1>5 DEF ShowsSame, SameStage, Promise!pipeline, stage, size, turn, doing, jobs
<1>6. ASSUME NEW state, NEW n, Enters(p, state, n) PROVE Promise!Enter(s, state, n)
  BY <1>2, <1>6 DEF Enters, Promise!Enter, stage, size, turn, doing, jobs
<1>7. /\ Promise!NoState = NoState /\ Promise!New = New /\ Promise!Initializing = Initializing
      /\ Promise!Finalize = Finalize /\ Promise!Success = Success /\ Promise!Failure = Failure
      /\ Promise!Phases = Phases /\ \A phase : Promise!After(phase) = After(phase)
  BY DEF Promise!NoState, Promise!New, Promise!Initializing, Promise!Running, Promise!Finalize,
         Promise!Success, Promise!Failure, Promise!Phases, Promise!After, NoState, New,
         Initializing, Running, Finalize, Success, Failure, Phases, After
<1>8. CASE StageOf(o) = "absent" /\ Enters(p, NoState, 0)
  BY <1>1, <1>6, <1>7, <1>8 DEF Promise!Step, Promise!Appear, stage
<1>9. CASE StageOf(o) = NoState /\ Enters(p, New, 0)
  BY <1>1, <1>6, <1>7, <1>9 DEF Promise!Step, Promise!Accept, stage
<1>10. CASE StageOf(o) = New /\ \E n \in Nat : Enters(p, Initializing, n)
  <2>1. SizeOf(p) \in Nat /\ Enters(p, Initializing, SizeOf(p))
    BY <1>10 DEF Enters
  <2>2. Promise!Begin(s)
    BY <1>1, <1>4, <1>6, <1>7, <1>10, <2>1 DEF Promise!Begin, stage, size
  <2> QED
    BY <2>2 DEF Promise!Step
<1>11. CASE StageOf(o) # "absent" /\ Enters(p, "absent", 0)
  BY <1>1, <1>6, <1>11 DEF Promise!Step, Promise!Leave, stage
<1>12. CASE ShowsTurn(o, p)
  <2>1. Promise!TakeTurn(s)
    BY <1>1, <1>2, <1>3, <1>7, <1>12
       DEF ShowsTurn, SameStage, Promise!TakeTurn, stage, size, turn, doing, jobs
  <2> QED
    BY <2>1 DEF Promise!Step
<1>13. CASE ShowsAnswer(o, p)
  <2>1. Promise!Answer(s)
    BY <1>1, <1>2, <1>3, <1>7, <1>13
       DEF ShowsAnswer, SameStage, Promise!Answer, stage, size, turn, doing, jobs
  <2> QED
    BY <2>1 DEF Promise!Step
<1>14. CASE ShowsRetry(o, p)
  <2>1. Promise!Retry(s)
    BY <1>1, <1>2, <1>3, <1>14
       DEF ShowsRetry, SameStage, Promise!Retry, stage, size, turn, doing, jobs
  <2> QED
    BY <2>1 DEF Promise!Step
<1>15. CASE ShowsJobEnd(o, p)
  <2>1. Promise!JobEnds(s)
    <3>1. UNCHANGED <<stage, size, turn, doing>>
      BY <1>3, <1>15 DEF ShowsJobEnd, SameStage
    <3>2. PICK i \in jobs[s] : JobsOf(p) = jobs[s] \ {i}
      BY <1>1, <1>15 DEF ShowsJobEnd
    <3>3. jobs' = [jobs EXCEPT ![s] = @ \ {i}]
      BY <1>2, <3>2
    <3>4. \E j \in jobs[s] : jobs' = [jobs EXCEPT ![s] = @ \ {j}]
      BY <3>2, <3>3
    <3> QED
      BY <3>1, <3>4 DEF Promise!JobEnds, stage, size, turn, doing, jobs
  <2> QED
    BY <2>1 DEF Promise!Step
<1>16. CASE ShowsMoveOn(o, p)
  <2>1. Promise!MoveOn(s)
    BY <1>1, <1>6, <1>7, <1>16
       DEF ShowsMoveOn, Promise!MoveOn, stage, size, turn, doing, jobs
  <2> QED
    BY <2>1 DEF Promise!Step
<1>17. CASE ShowsGiveUp(o, p)
  <2>1. Promise!GiveUp(s)
    BY <1>1, <1>6, <1>7, <1>17 DEF ShowsGiveUp, Promise!GiveUp, stage, size, doing, jobs
  <2> QED
    BY <2>1 DEF Promise!Step
<1> QED
  BY <1>5, <1>8, <1>9, <1>10, <1>11, <1>12, <1>13, <1>14, <1>15, <1>16, <1>17
     DEF ShowsStep, o, p

\* At the start no session shows anything.
LEMMA PromiseInit == Init => Promise!Init
<1>1. /\ StageOf(NoObject) = "absent" /\ SizeOf(NoObject) = 0 /\ TurnOf(NoObject) = 0
      /\ DoingOf(NoObject) = "rests" /\ JobsOf(NoObject) = {}
  <2>1. NoObject.exists = FALSE /\ NoObject.state = NoState /\ NoObject.targets = <<>>
    BY DEF NoObject, Blank
  <2> QED
    BY <2>1, ViewOutside DEF StageOf, SizeOf
<1> QED
  BY <1>1 DEF Init, Promise!Init

\* Every step of BackupSession is a step of TargetPipeline, or none.
LEMMA PromiseNext ==
  ASSUME TypeOK, Pipeline, OnlyCreated, Accounted, [Next]_vars
  PROVE  [Promise!Next]_(Promise!pipeline)
<1>1. SUFFICES (\E s \in Sessions : Promise!Step(s)) \/ UNCHANGED Promise!pipeline
  BY DEF Promise!Next
<1>2. CASE UNCHANGED api
  BY <1>2 DEF Promise!pipeline
<1>3. ASSUME NEW s \in Sessions, \A t \in Sessions \ {s} : api'[t] = api[t]
      PROVE  (\E t \in Sessions : Promise!Step(t)) \/ UNCHANGED Promise!pipeline
  <2>1. ShowsStep(api[s], api'[s])
    BY ObjectShows
  <2>2. Promise!Step(s) \/ UNCHANGED Promise!pipeline
    BY <1>3, <2>1, PromiseStep
  <2> QED
    BY <2>2
<1> QED
  BY <1>2, <1>3, OneObject

\* The refinement: whatever the API server, the stale cache, retries and
\* restarts do, the controller keeps the promise made to the targets.
THEOREM KeepsThePromise == Spec => KeepsPromise
<1>1. Init => Promise!Init
  BY PromiseInit
<1>2. TypeOK /\ Pipeline /\ OnlyCreated /\ Accounted /\ [Next]_vars
        => [Promise!Next]_(Promise!pipeline)
  BY PromiseNext
<1> QED
  BY <1>1, <1>2, TypeCorrect, PipelineInvariant, OnlyCreatedInvariant, AccountedInvariant, PTL
     DEF Spec, KeepsPromise, Promise!Spec

USE SessionsAssumption, RefAssumption, ConfAssumption, CalendarAssumption, RestartsAssumption,
    RestoreRefAssumption

-----------------------------------------------------------------------------
(* The backups.  A step of the namespace is a step of BackupSession, none, *)
(* or the loss of what the process had in memory.                          *)

BackupsSafe == TypeOK /\ Pipeline /\ OnlyCreated /\ ReleasesPurged /\ Accounted

\* The death of the process, as the backups see it.
Forgets == Relist /\ UNCHANGED <<api, world, history>>

\* A step of the namespace, as the backups see it.
LEMMA BackupsSee ==
  ASSUME [NamespaceNext]_namespace
  PROVE  [Next]_vars \/ Forgets
<1>1. ASSUME NEW s \in Sessions, BackupStep(s) PROVE Next
  BY <1>1 DEF BackupStep, Next, Reconcile
<1>2. CASE OtherBackupStep
  BY <1>2 DEF OtherBackupStep, Next, Environment
<1>3. ASSUME NEW r \in Restores, RestoreStep(r) PROVE UNCHANGED vars
  BY <1>3 DEF RestoreStep
<1>4. CASE ProcessDies
  BY <1>4 DEF ProcessDies, RestorePanic, Forgets, Next, Environment, Reconcile
<1>5. CASE UNCHANGED namespace
  BY <1>5 DEF namespace
<1> QED
  BY <1>1, <1>2, <1>3, <1>4, <1>5 DEF NamespaceNext

\* A process that dies forgets nothing that the invariants speak of.
LEMMA ForgetsSafely ==
  ASSUME BackupsSafe, Forgets
  PROVE  BackupsSafe'
<1>1. TypeOK'
  BY DEF BackupsSafe, Forgets, Relist, TypeOK, world, history
<1>2. Pipeline' /\ OnlyCreated' /\ Accounted'
  BY DEF BackupsSafe, Forgets, Pipeline, OnlyCreated, Accounted, Purged, history
<1>3. ReleasesPurged'
  BY DEF Forgets, Relist, ReleasesPurged
<1> QED
  BY <1>1, <1>2, <1>3 DEF BackupsSafe

\* The invariants of BackupSession hold in the namespace.
LEMMA BackupsSafeInvariant == NamespaceSpec => []BackupsSafe
<1>1. Start => BackupsSafe
  <2>1. SUFFICES ASSUME Init PROVE BackupsSafe
    BY DEF Start
  <2>2. NoObject.exists = FALSE /\ NoObject.finalizer = FALSE /\ NoObject.state = NoState
        /\ NoObject.targets = <<>>
    BY DEF NoObject, Blank
  <2>3. TypeOK
    BY <2>1, NoObjectType DEF Init, TypeOK, Snapshots
  <2>4. Coherent(NoState, <<>>)
    BY DEF Coherent, Phases, NoState, New, Initializing, Running, Finalize, Success, Failure
  <2>5. Pipeline /\ OnlyCreated /\ ReleasesPurged /\ Accounted
    BY <2>1, <2>2, <2>4 DEF Init, Pipeline, OnlyCreated, ReleasesPurged, Accounted
  <2> QED
    BY <2>3, <2>5 DEF BackupsSafe
<1>2. BackupsSafe /\ [NamespaceNext]_namespace => BackupsSafe'
  <2>1. SUFFICES ASSUME BackupsSafe, [Next]_vars PROVE BackupsSafe'
    BY BackupsSee, ForgetsSafely
  <2> QED
    BY <2>1, TypeStep, PipelineStep, OnlyCreatedStep, ReleasesPurgedStep, AccountedStep
       DEF BackupsSafe
<1> QED
  BY <1>1, <1>2, PTL DEF NamespaceSpec

\* The restores, and the deaths they cause, take nothing from the backups:
\* no work is undone, no snapshot forgotten, and the promise to the targets
\* is kept.
THEOREM BackupsUndisturbed ==
  NamespaceSpec => []SnapshotsPurged /\ WorkIsNeverUndone /\ KeepsPromise
<1>1. BackupsSafe => SnapshotsPurged
  <2>1. SUFFICES ASSUME TypeOK, Accounted, NEW s \in created, ~ api[s].exists,
                        NEW snapshot \in recorded, snapshot[1] = s
                 PROVE  snapshot \in purged \cup unpurged
    BY DEF SnapshotsPurged, BackupsSafe
  <2>2. s \in Sessions /\ snapshot = <<s, snapshot[2]>>
    BY <2>1 DEF TypeOK, Snapshots
  <2> QED
    BY <2>1, <2>2 DEF Accounted, Purged
<1>2. BackupsSafe /\ [NamespaceNext]_namespace =>
        [\A s \in Sessions : WorkStays(api[s], api'[s])]_api
  <2>1. SUFFICES ASSUME BackupsSafe, [Next]_vars, api' # api, NEW s \in Sessions
                 PROVE  WorkStays(api[s], api'[s])
    BY BackupsSee DEF Forgets
  <2> QED
    BY <2>1, WorkStep DEF BackupsSafe
<1>3. Start => Promise!Init
  BY PromiseInit DEF Start
<1>4. BackupsSafe /\ [NamespaceNext]_namespace => [Promise!Next]_(Promise!pipeline)
  <2>1. CASE Forgets
    BY <2>1 DEF Forgets, Promise!pipeline
  <2>2. ASSUME BackupsSafe, [Next]_vars PROVE [Promise!Next]_(Promise!pipeline)
    BY <2>2, PromiseNext DEF BackupsSafe
  <2> QED
    BY <2>1, <2>2, BackupsSee
<1> QED
  BY <1>1, <1>2, <1>3, <1>4, BackupsSafeInvariant, PTL
     DEF NamespaceSpec, WorkIsNeverUndone, KeepsPromise, Promise!Spec

-----------------------------------------------------------------------------
(* The restores.                                                           *)

\* The objects and the copies of them are RestoreSessions, whose targets are
\* coherent with their state; what is gone is blank, and what exists was
\* asked for.
RestoresSafe ==
  /\ restores \in [Restores -> R!RestoreObject]
  /\ seen \in [Restores -> R!RestoreObject]
  /\ \A r \in Restores :
       /\ Coherent(restores[r].state, restores[r].targets)
       /\ restores[r].exists => r \in asked
       /\ ~ restores[r].exists => restores[r].targets = <<>>

\* What one step can do to a RestoreSession.
RestoreChanges(r) ==
  \/ restores'[r] = restores[r]
  \/ /\ ~ restores[r].exists /\ r \in asked'
     /\ restores'[r] = R!Restore(TRUE, NoState, <<>>)
  \/ restores'[r] = R!NoRestore
  \/ /\ restores[r].exists /\ restores[r].state = NoState
     /\ restores'[r] = R!Restore(TRUE, New, restores[r].targets)
  \/ /\ restores[r].exists /\ restores[r].state = New
     /\ \E specs \in Seq(TargetSpec) :
          restores'[r] = R!Restore(TRUE, Initializing, InitSession(specs))
  \/ \E specs \in Seq(TargetSpec) :
       LET result == Advance(restores[r].state, restores[r].targets, specs)
       IN  /\ restores[r].exists /\ restores[r].state \in Phases
           /\ ~ PhasePanics(restores[r].state, restores[r].targets, specs)
           /\ result.state # NoState
           /\ restores'[r] = R!Restore(TRUE, result.state, result.targets)
  \/ \E i \in DOMAIN restores[r].targets : \E status \in TargetStatus :
       /\ restores[r].exists
       /\ PromiseAnswer(restores[r].targets[i].state, status.state)
       /\ restores'[r] = R!Restore(TRUE, restores[r].state,
                                   [restores[r].targets EXCEPT ![i] = status])

ElseSame(r) == restores' = [restores EXCEPT ![r] = restores'[r]]

\* RestoreSession and BackupSession use the same scheduler.
LEMMA SameStates ==
  /\ R!NoState = NoState /\ R!New = New /\ R!Initializing = Initializing
  /\ R!Initialized = Initialized /\ R!Running = Running /\ R!Waiting = Waiting
  /\ R!WaitingForJob = WaitingForJob /\ R!Finalize = Finalize /\ R!Success = Success
  /\ R!Failure = Failure /\ R!Finalized = Finalized
  /\ R!Phases = Phases /\ R!SessionStates = SessionStates /\ R!TargetStates = TargetStates
  /\ R!TargetStatus = TargetStatus
BY DEF R!NoState, R!New, R!Initializing, R!Initialized, R!Running, R!Waiting, R!WaitingForJob,
       R!Finalize, R!Success, R!Failure, R!Finalized, R!Phases, R!SessionStates, R!TargetStates,
       R!TargetStatus, R!BackupKinds, NoState, New, Initializing, Initialized, Running, Waiting,
       WaitingForJob, Finalize, Success, Failure, Finalized, Phases, SessionStates, TargetStates,
       TargetStatus, BackupKinds

\* Restores and backups use one scheduler.
LEMMA SameScheduler ==
  /\ \A phase : R!Before(phase) = Before(phase) /\ R!After(phase) = After(phase)
                /\ R!Done(phase) = Done(phase)
  /\ \A t, state, try, snap : R!SetTarget(t, state, try, snap) = SetTarget(t, state, try, snap)
  /\ \A specs : R!InitSession(specs) = InitSession(specs)
  /\ \A t : R!Busy(t) <=> Busy(t)
  /\ \A phase, tss, specs : R!Advance(phase, tss, specs) = Advance(phase, tss, specs)
  /\ \A phase, tss, specs : R!PhasePanics(phase, tss, specs) <=> PhasePanics(phase, tss, specs)
<1>1. \A phase : R!Before(phase) = Before(phase) /\ R!After(phase) = After(phase)
                 /\ R!Done(phase) = Done(phase)
  BY SameStates DEF R!Before, R!After, R!Done, Before, After, Done
<1>2. \A t, state, try, snap : R!SetTarget(t, state, try, snap) = SetTarget(t, state, try, snap)
  BY DEF R!SetTarget, SetTarget
<1>3. \A specs : R!InitSession(specs) = InitSession(specs)
  BY SameStates DEF R!InitSession, InitSession
<1>4. \A t : R!Busy(t) <=> Busy(t)
  BY SameStates DEF R!Busy, Busy
<1>5. \A tss, cur, wait : R!Stopping(tss, cur, wait) = Stopping(tss, cur, wait)
  BY SameStates DEF R!Stopping, Stopping, R!Stops, Stops
<1>6. \A tss, i, wait, n : R!GiveTurn(tss, i, wait, n) = GiveTurn(tss, i, wait, n)
  BY <1>2 DEF R!GiveTurn, GiveTurn
<1>7. \A tss, specs, cur, wait, next, i :
        R!Visit(tss, specs, cur, wait, next, i) = Visit(tss, specs, cur, wait, next, i)
  BY <1>6, SameStates DEF R!Visit, Visit
<1>8. \A tss, stops : R!PassedJob(tss, stops) <=> PassedJob(tss, stops)
  BY SameStates DEF R!PassedJob, PassedJob
<1>9. \A S : R!Min(S) = Min(S)
  BY DEF R!Min, Min
<1>10. \A tss, specs, cur, wait, next :
         R!CheckSessionState(tss, specs, cur, wait, next)
           = CheckSessionState(tss, specs, cur, wait, next)
  BY <1>5, <1>7, <1>8, <1>9, SameStates DEF R!CheckSessionState, CheckSessionState
<1>11. \A phase, tss, specs : R!Advance(phase, tss, specs) = Advance(phase, tss, specs)
  BY <1>1, <1>10, SameStates DEF R!Advance, Advance, R!CheckPhase, CheckPhase
<1>12. \A phase, tss, specs : R!PhasePanics(phase, tss, specs) <=> PhasePanics(phase, tss, specs)
  BY <1>1, <1>5, <1>9, SameStates DEF R!PhasePanics, PhasePanics, R!IndexPanics, IndexPanics
<1> QED
  BY <1>1, <1>2, <1>3, <1>4, <1>11, <1>12

\* The fields of a RestoreSession.
LEMMA RestoreFields ==
  /\ \A o \in R!RestoreObject : /\ o.exists \in BOOLEAN /\ o.state \in SessionStates
                                /\ o.targets \in Seq(TargetStatus)
  /\ \A exists \in BOOLEAN, state \in SessionStates, targets \in Seq(TargetStatus) :
       R!Restore(exists, state, targets) \in R!RestoreObject
  /\ \A exists, state, targets :
       /\ R!Restore(exists, state, targets).exists = exists
       /\ R!Restore(exists, state, targets).state = state
       /\ R!Restore(exists, state, targets).targets = targets
  /\ R!NoRestore = R!Restore(FALSE, NoState, <<>>)
BY SameStates DEF R!RestoreObject, R!Restore, R!NoRestore

\* A target of a restore, or its Job, answers.
LEMMA RestoreAnswers ==
  ASSUME RestoresSafe, NEW r \in Restores, R!RestoreTargets(r)
  PROVE  RestoreChanges(r) /\ ElseSame(r)
<1>1. PICK i \in DOMAIN restores[r].targets : R!TargetAnswers(r, i) \/ R!RestoreJobDone(r, i)
  BY DEF R!RestoreTargets
<1> DEFINE t == restores[r].targets[i]
           answer(state) == SetTarget(t, state, t.try, t.snap)
<1>2. /\ restores[r] \in R!RestoreObject /\ restores[r].targets \in Seq(TargetStatus)
      /\ t \in TargetStatus /\ restores \in [Restores -> R!RestoreObject]
  BY <1>1, RestoreFields DEF RestoresSafe
<1>3. restores[r].exists
  BY <1>1 DEF RestoresSafe
<1>4. PICK state \in TargetStates :
        /\ PromiseAnswer(t.state, state)
        /\ restores' = [restores EXCEPT ![r] =
             R!Restore(TRUE, restores[r].state, [restores[r].targets EXCEPT ![i] = answer(state)])]
  <2>1. CASE R!TargetAnswers(r, i)
    <3>1. /\ t.state \in Phases
          /\ \E state \in Done(t.state) \cup {Failure} :
               restores' = [restores EXCEPT ![r] =
                 R!Restore(TRUE, restores[r].state,
                           [restores[r].targets EXCEPT ![i] = answer(state)])]
      BY <2>1, SameStates, SameScheduler DEF R!TargetAnswers, Busy
    <3>2. Done(t.state) \cup {Failure} \subseteq TargetStates
      BY DEF Done, TargetStates
    <3> QED
      BY <3>1, <3>2 DEF PromiseAnswer
  <2>2. CASE R!RestoreJobDone(r, i)
    BY <2>2, SameStates, SameScheduler DEF R!RestoreJobDone, PromiseAnswer, TargetStates
  <2> QED
    BY <1>1, <2>1, <2>2
<1>5. answer(state) \in TargetStatus /\ answer(state).state = state
  BY <1>2 DEF SetTarget, TargetStatus
<1>6. restores'[r] = R!Restore(TRUE, restores[r].state,
                               [restores[r].targets EXCEPT ![i] = answer(state)])
  BY <1>2, <1>4
<1>7. ElseSame(r)
  BY <1>2, <1>4 DEF ElseSame
<1> HIDE DEF answer
<1>8. \E status \in TargetStatus :
        /\ PromiseAnswer(restores[r].targets[i].state, status.state)
        /\ restores'[r] = R!Restore(TRUE, restores[r].state,
                                    [restores[r].targets EXCEPT ![i] = status])
  BY <1>4, <1>5, <1>6
<1> QED
  BY <1>1, <1>3, <1>7, <1>8 DEF RestoreChanges

\* A pass of the RestoreSession controller.
LEMMA RestorePass ==
  ASSUME TypeOK, RestoresSafe, NEW r \in Restores, R!RestoreReconcile(r)
  PROVE  \/ UNCHANGED restores
         \/ RestoreChanges(r) /\ ElseSame(r)
<1> DEFINE Goal == \/ UNCHANGED restores
                   \/ RestoreChanges(r) /\ ElseSame(r)
           specs == conf[RestoreRef[r]].targets
<1>1. specs \in Seq(TargetSpec) /\ restores \in [Restores -> R!RestoreObject]
  BY ConfFields DEF TypeOK, RestoresSafe
<1>2. ASSUME NEW state, NEW targets, R!SaveRestore(r, state, targets)
      PROVE  /\ seen[r] = restores[r] /\ restores'[r] = R!Restore(TRUE, state, targets)
             /\ ElseSame(r)
  BY <1>1, <1>2 DEF R!SaveRestore, ElseSame
<1>3. R!DropRestore(r) => Goal
  BY DEF R!DropRestore
<1>4. CASE R!RestoreGone(r) \/ R!RestoreOver(r)
  BY <1>3, <1>4 DEF R!RestoreGone, R!RestoreOver
<1>5. CASE R!RestoreCreated(r)
  BY <1>2, <1>5, SameStates DEF R!RestoreCreated, R!RestoreInState, RestoreChanges
<1>6. CASE R!RestoreNew(r)
  <2>1. /\ restores[r].exists /\ restores[r].state = New
        /\ restores'[r] = R!Restore(TRUE, Initializing, InitSession(specs))
        /\ ElseSame(r)
    BY <1>2, <1>6, SameStates, SameScheduler DEF R!RestoreNew, R!RestoreInState
  <2> QED
    BY <1>1, <2>1 DEF RestoreChanges
<1>7. CASE R!RestorePhase(r)
  <2>1. PICK phase \in Phases :
          /\ R!RestoreInState(r, phase)
          /\ ~ PhasePanics(phase, seen[r].targets, specs)
          /\ IF Advance(phase, seen[r].targets, specs).state = NoState
               THEN R!DropRestore(r)
               ELSE R!SaveRestore(r, Advance(phase, seen[r].targets, specs).state,
                                  Advance(phase, seen[r].targets, specs).targets)
    BY <1>7, SameStates, SameScheduler DEF R!RestorePhase
  <2> DEFINE result == Advance(phase, seen[r].targets, specs)
  <2>2. CASE result.state = NoState
    BY <1>3, <2>1, <2>2
  <2>3. CASE result.state # NoState
    <3>1. R!SaveRestore(r, result.state, result.targets)
      BY <2>1, <2>3
    <3>2. /\ seen[r] = restores[r] /\ restores'[r] = R!Restore(TRUE, result.state, result.targets)
          /\ ElseSame(r)
      BY <1>2, <3>1
    <3>3. restores[r].exists /\ restores[r].state = phase
      BY <2>1, <3>2 DEF R!RestoreInState
    <3> QED
      BY <1>1, <2>1, <2>3, <3>2, <3>3 DEF RestoreChanges
  <2> QED
    BY <2>2, <2>3
<1> QED
  BY <1>4, <1>5, <1>6, <1>7 DEF R!RestoreReconcile

\* A step of the namespace changes one RestoreSession at most.
LEMMA OneRestore ==
  ASSUME TypeOK, RestoresSafe, [NamespaceNext]_namespace
  PROVE  \/ UNCHANGED restores
         \/ \E r \in Restores :
              RestoreChanges(r) /\ ElseSame(r)
<1>1. restores \in [Restores -> R!RestoreObject]
  BY DEF RestoresSafe
<1>2. ASSUME NEW r \in Restores, R!Ask(r)
      PROVE  RestoreChanges(r) /\ ElseSame(r)
  <2>1. ~ restores[r].exists
    BY <1>2 DEF R!Ask, RestoresSafe
  <2> QED
    BY <1>1, <1>2, <2>1, SameStates DEF R!Ask, RestoreChanges, ElseSame
<1>3. ASSUME NEW r \in Restores, R!Withdraw(r)
      PROVE  RestoreChanges(r) /\ ElseSame(r)
  BY <1>1, <1>3 DEF R!Withdraw, RestoreChanges, ElseSame
<1>4. ASSUME NEW r \in Restores, R!Watch(r) PROVE UNCHANGED restores
  BY <1>4 DEF R!Watch
<1>5. ASSUME NEW r \in Restores, RestoreStep(r)
      PROVE  \/ UNCHANGED restores
             \/ RestoreChanges(r) /\ ElseSame(r)
  BY <1>2, <1>3, <1>4, <1>5, RestorePass, RestoreAnswers DEF RestoreStep, R!RestoreStep
<1>6. CASE UNCHANGED namespace \/ ProcessDies \/ OtherBackupStep \/ \E s \in Sessions : BackupStep(s)
  BY <1>6 DEF namespace, restoring, ProcessDies, OtherBackupStep, BackupStep
<1> QED
  BY <1>5, <1>6 DEF NamespaceNext

\* A target or its Job answers: the session stays coherent.
LEMMA AnswerCoherent ==
  ASSUME NEW state \in SessionStates, NEW tss \in Seq(TargetStatus), Coherent(state, tss),
         NEW i \in DOMAIN tss, NEW status \in TargetStatus,
         PromiseAnswer(tss[i].state, status.state)
  PROVE  Coherent(state, [tss EXCEPT ![i] = status])
<1> DEFINE new == [tss EXCEPT ![i] = status]
<1>1. /\ DOMAIN new = DOMAIN tss
      /\ new[i] = status
      /\ \A j \in DOMAIN tss : j # i => new[j] = tss[j]
      /\ tss # <<>>
  OBVIOUS
<1>2. CASE state \in Phases
  <2>1. \/ tss[i].state = state /\ status.state \in Done(state) \cup {Failure}
        \/ tss[i].state \in Done(state) /\ status.state \in Done(state)
    <3>1. tss[i].state \in Phases => tss[i].state = state
      BY <1>2, InOrderOneBusy DEF Coherent, Busy
    <3>2. tss[i].state = WaitingForJob => state = Finalize
      BY <1>2 DEF Coherent, InOrder, Phases, Before, Done, Initializing, Initialized, Running,
                  Waiting, Finalize, WaitingForJob, NoState, Failure
    <3>3. {WaitingForJob, Finalized} \subseteq Done(Finalize)
      BY DEF Done, Finalize, Initializing, Running
    <3>4. WaitingForJob \notin Phases
      BY DEF Phases, WaitingForJob, Initializing, Running, Finalize
    <3> QED
      BY <1>2, <3>1, <3>2, <3>3, <3>4 DEF PromiseAnswer
  <2>2. InOrder(state, new)
    BY <1>2, <2>1, ReportInOrder DEF Coherent
  <2>3. state \notin {NoState, New, Success, Failure}
    BY <1>2, PhaseFacts
  <2> QED
    BY <2>2, <2>3 DEF Coherent
<1>3. CASE state = Failure
  <2>1. tss[i].state = WaitingForJob /\ status.state = Finalized
    BY <1>3 DEF Coherent, Busy, PromiseAnswer
  <2>2. ~ Busy(status)
    BY <2>1 DEF Busy, Phases, Initializing, Running, Finalize, Finalized
  <2> QED
    BY <1>1, <1>3, <2>2
       DEF Coherent, Phases, Failure, Success, NoState, New, Initializing, Running, Finalize
<1>4. state \notin {NoState, New}
  BY <1>1 DEF Coherent
<1>5. state # Success
  BY DEF Coherent, Busy, PromiseAnswer
<1> QED
  BY <1>2, <1>3, <1>4, <1>5 DEF SessionStates, Phases

\* A RestoreSession that changes stays one, coherent, and shows a step of the
\* promise.
LEMMA RestoreShows ==
  ASSUME RestoresSafe, NEW r \in Restores, RestoreChanges(r)
  PROVE  /\ restores'[r] \in R!RestoreObject
         /\ Coherent(restores'[r].state, restores'[r].targets)
         /\ restores'[r].exists => restores[r].exists \/ r \in asked'
         /\ ~ restores'[r].exists => restores'[r].targets = <<>>
         /\ ShowsStep(restores[r], restores'[r])
<1> DEFINE o == restores[r]
           p == restores'[r]
           Goal == /\ p \in R!RestoreObject /\ Coherent(p.state, p.targets)
                   /\ p.exists => o.exists \/ r \in asked'
                   /\ ~ p.exists => p.targets = <<>>
                   /\ ShowsStep(o, p)
<1>1. /\ o \in R!RestoreObject /\ o.exists \in BOOLEAN /\ o.state \in SessionStates
      /\ o.targets \in Seq(TargetStatus) /\ Coherent(o.state, o.targets)
      /\ ~ o.exists => o.targets = <<>>
  BY RestoreFields DEF RestoresSafe
<1> SUFFICES Goal
  OBVIOUS
<1>2. ASSUME NEW exists \in BOOLEAN, NEW state \in SessionStates, NEW targets \in Seq(TargetStatus),
             p = R!Restore(exists, state, targets)
      PROVE  /\ p \in R!RestoreObject /\ p.exists = exists /\ p.state = state
             /\ p.targets = targets
  BY <1>2, RestoreFields
<1>3. {NoState, New, Initializing} \subseteq SessionStates /\ <<>> \in Seq(TargetStatus)
  BY DEF SessionStates
<1>4. Coherent(NoState, <<>>) /\ Coherent(New, <<>>)
  BY DEF Coherent, Phases, NoState, New, Initializing, Running, Finalize, Success, Failure
<1> HIDE DEF o, p
<1>5. CASE p = o
  BY <1>1, <1>5, SameShows DEF ShowsStep
<1>6. CASE ~ o.exists /\ r \in asked' /\ p = R!Restore(TRUE, NoState, <<>>)
  <2>1. p \in R!RestoreObject /\ p.exists = TRUE /\ p.state = NoState /\ p.targets = <<>>
    BY <1>2, <1>3, <1>6
  <2>2. ShowsStep(o, p)
    <3>1. p.exists \in BOOLEAN /\ (p.exists => ~ o.exists)
      BY <1>6, <2>1
    <3> QED
      BY <1>1, <2>1, <3>1, BlankShows
  <2> QED
    BY <1>4, <1>6, <2>1, <2>2
<1>7. CASE p = R!NoRestore
  <2>1. p \in R!RestoreObject /\ p.exists = FALSE /\ p.state = NoState /\ p.targets = <<>>
    BY <1>2, <1>3, <1>7, RestoreFields
  <2>2. ShowsStep(o, p)
    <3>1. p.exists \in BOOLEAN /\ (p.exists => ~ o.exists)
      BY <2>1
    <3> QED
      BY <1>1, <2>1, <3>1, BlankShows
  <2> QED
    BY <1>4, <2>1, <2>2
<1>8. CASE o.exists /\ o.state = NoState /\ p = R!Restore(TRUE, New, o.targets)
  <2>1. o.targets = <<>>
    BY <1>1, <1>8 DEF Coherent
  <2>2. p \in R!RestoreObject /\ p.exists = TRUE /\ p.state = New /\ p.targets = <<>>
    BY <1>2, <1>3, <1>8, <2>1
  <2> QED
    BY <1>4, <1>8, <2>1, <2>2, AcceptShows
<1>9. ASSUME NEW specs \in Seq(TargetSpec), o.exists, o.state = New,
             p = R!Restore(TRUE, Initializing, InitSession(specs))
      PROVE  Goal
  <2>1. InitSession(specs) \in Seq(TargetStatus)
    BY InitSessionType
  <2>2. /\ p \in R!RestoreObject /\ p.exists = TRUE /\ p.state = Initializing
        /\ p.targets = InitSession(specs)
    BY <1>2, <1>3, <1>9, <2>1
  <2> QED
    BY <1>9, <2>2, InitSessionCoherent, BeginShows
<1>10. ASSUME NEW specs \in Seq(TargetSpec), o.exists, o.state \in Phases,
              ~ PhasePanics(o.state, o.targets, specs),
              Advance(o.state, o.targets, specs).state # NoState,
              p = R!Restore(TRUE, Advance(o.state, o.targets, specs).state,
                            Advance(o.state, o.targets, specs).targets)
       PROVE  Goal
  <2> DEFINE result == Advance(o.state, o.targets, specs)
  <2>1. InOrder(o.state, o.targets)
    BY <1>1, <1>10 DEF Coherent
  <2>2. result.state \in SessionStates /\ result.targets \in Seq(TargetStatus)
    BY <1>1, <1>10, AdvanceType
  <2>3. Coherent(result.state, result.targets)
    BY <1>1, <1>10, <2>1, AdvanceCoherent
  <2>4. /\ p \in R!RestoreObject /\ p.exists = TRUE /\ p.state = result.state
        /\ p.targets = result.targets
    BY <1>2, <1>10, <2>2
  <2>5. ShowsStep(o, p)
    BY <1>1, <1>10, <2>1, <2>4, AdvanceShows
  <2> QED
    BY <1>10, <2>3, <2>4, <2>5
<1>11. ASSUME NEW i \in DOMAIN o.targets, NEW status \in TargetStatus, o.exists,
              PromiseAnswer(o.targets[i].state, status.state),
              p = R!Restore(TRUE, o.state, [o.targets EXCEPT ![i] = status])
       PROVE  Goal
  <2>1. [o.targets EXCEPT ![i] = status] \in Seq(TargetStatus)
    BY <1>1, <1>11
  <2>2. /\ p \in R!RestoreObject /\ p.exists = TRUE /\ p.state = o.state
        /\ p.targets = [o.targets EXCEPT ![i] = status]
    BY <1>1, <1>2, <1>11, <2>1
  <2>3. Coherent(p.state, p.targets)
    <3>1. Coherent(o.state, [o.targets EXCEPT ![i] = status])
      BY <1>1, <1>11, AnswerCoherent
    <3> QED
      BY <2>2, <3>1
  <2>4. ShowsSame(o, p) \/ ShowsAnswer(o, p) \/ ShowsJobEnd(o, p)
    <3>1. /\ o.exists /\ o.state \in SessionStates /\ o.targets \in Seq(TargetStatus)
          /\ Coherent(o.state, o.targets)
      BY <1>1, <1>11
    <3>2. p.exists /\ PromiseAnswer(o.targets[i].state, status.state)
      BY <1>11, <2>2
    <3> HIDE DEF o, p
    <3> QED
      BY <2>2, <2>3, <3>1, <3>2, AnswerShows
  <2> QED
    BY <1>11, <2>2, <2>3, <2>4 DEF ShowsStep
<1> HIDE DEF Goal
<1> QED
  BY <1>5, <1>6, <1>7, <1>8, <1>9, <1>10, <1>11 DEF RestoreChanges, o, p

\* The copies of the controller are RestoreSessions, and a restore that was
\* asked for stays so.
LEMMA SeenStep ==
  ASSUME RestoresSafe, [NamespaceNext]_namespace
  PROVE  seen' \in [Restores -> R!RestoreObject] /\ asked \subseteq asked'
<1>1. ASSUME NEW r \in Restores, R!Ask(r) \/ R!Withdraw(r) \/ R!RestoreReconcile(r)
                                 \/ R!RestoreTargets(r)
      PROVE  seen' = seen /\ asked \subseteq asked'
  BY <1>1 DEF R!Ask, R!Withdraw, R!RestoreReconcile, R!RestoreGone, R!RestoreCreated, R!RestoreNew,
              R!RestorePhase, R!RestoreOver, R!DropRestore, R!SaveRestore, R!RestoreTargets,
              R!TargetAnswers, R!RestoreJobDone
<1>2. ASSUME NEW r \in Restores, R!Watch(r)
      PROVE  seen' \in [Restores -> R!RestoreObject] /\ asked' = asked
  BY <1>2 DEF R!Watch, RestoresSafe
<1>3. CASE ProcessDies
  BY <1>3 DEF ProcessDies, R!RelistRestores, RestoresSafe
<1>4. CASE UNCHANGED restoring
  BY <1>4 DEF restoring, RestoresSafe
<1>5. CASE \E r \in Restores : RestoreStep(r)
  BY <1>1, <1>2, <1>5 DEF RestoreStep, R!RestoreStep, RestoresSafe
<1> QED
  BY <1>3, <1>4, <1>5 DEF NamespaceNext, BackupStep, OtherBackupStep, namespace

\* Every step of the namespace keeps the RestoreSessions coherent.
LEMMA RestoresSafeStep ==
  ASSUME TypeOK, RestoresSafe, [NamespaceNext]_namespace
  PROVE  RestoresSafe'
<1>1. seen' \in [Restores -> R!RestoreObject] /\ asked \subseteq asked'
  BY SeenStep
<1>2. CASE UNCHANGED restores
  BY <1>1, <1>2 DEF RestoresSafe
<1>3. ASSUME NEW r \in Restores, RestoreChanges(r),
             ElseSame(r)
      PROVE  RestoresSafe'
  <2>1. /\ restores'[r] \in R!RestoreObject
        /\ Coherent(restores'[r].state, restores'[r].targets)
        /\ restores'[r].exists => restores[r].exists \/ r \in asked'
        /\ ~ restores'[r].exists => restores'[r].targets = <<>>
    BY <1>3, RestoreShows
  <2>2. \A t \in Restores \ {r} : restores'[t] = restores[t]
    BY <1>3 DEF ElseSame, RestoresSafe
  <2>3. \A t \in Restores :
          /\ restores'[t] \in R!RestoreObject
          /\ Coherent(restores'[t].state, restores'[t].targets)
          /\ restores'[t].exists => t \in asked'
          /\ ~ restores'[t].exists => restores'[t].targets = <<>>
    BY <1>1, <2>1, <2>2 DEF RestoresSafe
  <2>4. restores' \in [Restores -> R!RestoreObject]
    BY <1>3, <2>1 DEF ElseSame, RestoresSafe
  <2> QED
    BY <1>1, <2>3, <2>4 DEF RestoresSafe
<1> QED
  BY <1>2, <1>3, OneRestore

\* One restore changes and shows a step of the promise.
LEMMA PromisedStep ==
  ASSUME NEW s \in Restores, \A t \in Restores \ {s} : restores'[t] = restores[t],
         ShowsStep(restores[s], restores'[s])
  PROVE  Promised!Step(s) \/ UNCHANGED Promised!pipeline
<1> DEFINE stage == [t \in Restores |-> StageOf(restores[t])]
           size  == [t \in Restores |-> SizeOf(restores[t])]
           turn  == [t \in Restores |-> TurnOf(restores[t])]
           doing == [t \in Restores |-> DoingOf(restores[t])]
           jobs  == [t \in Restores |-> JobsOf(restores[t])]
           o == restores[s]
           p == restores'[s]
<1>1. /\ stage[s] = StageOf(o) /\ size[s] = SizeOf(o) /\ turn[s] = TurnOf(o)
      /\ doing[s] = DoingOf(o) /\ jobs[s] = JobsOf(o)
  OBVIOUS
<1>2. /\ stage' = [stage EXCEPT ![s] = StageOf(p)]
      /\ size' = [size EXCEPT ![s] = SizeOf(p)]
      /\ turn' = [turn EXCEPT ![s] = TurnOf(p)]
      /\ doing' = [doing EXCEPT ![s] = DoingOf(p)]
      /\ jobs' = [jobs EXCEPT ![s] = JobsOf(p)]
  OBVIOUS
<1>3. /\ StageOf(p) = StageOf(o) => UNCHANGED stage
      /\ SizeOf(p) = SizeOf(o) => UNCHANGED size
      /\ TurnOf(p) = TurnOf(o) => UNCHANGED turn
      /\ DoingOf(p) = DoingOf(o) => UNCHANGED doing
      /\ JobsOf(p) = JobsOf(o) => UNCHANGED jobs
  OBVIOUS
<1>4. size'[s] = SizeOf(p)
  OBVIOUS
<1> HIDE DEF stage, size, turn, doing, jobs, o, p
<1>5. CASE ShowsSame(o, p)
  BY <1>3, <1>5 DEF ShowsSame, SameStage, Promised!pipeline, stage, size, turn, doing, jobs
<1>6. ASSUME NEW state, NEW n, Enters(p, state, n) PROVE Promised!Enter(s, state, n)
  BY <1>2, <1>6 DEF Enters, Promised!Enter, stage, size, turn, doing, jobs
<1>7. /\ Promised!NoState = NoState /\ Promised!New = New /\ Promised!Initializing = Initializing
      /\ Promised!Finalize = Finalize /\ Promised!Success = Success /\ Promised!Failure = Failure
      /\ Promised!Phases = Phases /\ \A phase : Promised!After(phase) = After(phase)
  BY DEF Promised!NoState, Promised!New, Promised!Initializing, Promised!Running, Promised!Finalize,
         Promised!Success, Promised!Failure, Promised!Phases, Promised!After, NoState, New,
         Initializing, Running, Finalize, Success, Failure, Phases, After
<1>8. CASE StageOf(o) = "absent" /\ Enters(p, NoState, 0)
  BY <1>1, <1>6, <1>7, <1>8 DEF Promised!Step, Promised!Appear, stage
<1>9. CASE StageOf(o) = NoState /\ Enters(p, New, 0)
  BY <1>1, <1>6, <1>7, <1>9 DEF Promised!Step, Promised!Accept, stage
<1>10. CASE StageOf(o) = New /\ \E n \in Nat : Enters(p, Initializing, n)
  <2>1. SizeOf(p) \in Nat /\ Enters(p, Initializing, SizeOf(p))
    BY <1>10 DEF Enters
  <2>2. Promised!Begin(s)
    BY <1>1, <1>4, <1>6, <1>7, <1>10, <2>1 DEF Promised!Begin, stage, size
  <2> QED
    BY <2>2 DEF Promised!Step
<1>11. CASE StageOf(o) # "absent" /\ Enters(p, "absent", 0)
  BY <1>1, <1>6, <1>11 DEF Promised!Step, Promised!Leave, stage
<1>12. CASE ShowsTurn(o, p)
  <2>1. Promised!TakeTurn(s)
    BY <1>1, <1>2, <1>3, <1>7, <1>12
       DEF ShowsTurn, SameStage, Promised!TakeTurn, stage, size, turn, doing, jobs
  <2> QED
    BY <2>1 DEF Promised!Step
<1>13. CASE ShowsAnswer(o, p)
  <2>1. Promised!Answer(s)
    BY <1>1, <1>2, <1>3, <1>7, <1>13
       DEF ShowsAnswer, SameStage, Promised!Answer, stage, size, turn, doing, jobs
  <2> QED
    BY <2>1 DEF Promised!Step
<1>14. CASE ShowsRetry(o, p)
  <2>1. Promised!Retry(s)
    BY <1>1, <1>2, <1>3, <1>14
       DEF ShowsRetry, SameStage, Promised!Retry, stage, size, turn, doing, jobs
  <2> QED
    BY <2>1 DEF Promised!Step
<1>15. CASE ShowsJobEnd(o, p)
  <2>1. Promised!JobEnds(s)
    <3>1. UNCHANGED <<stage, size, turn, doing>>
      BY <1>3, <1>15 DEF ShowsJobEnd, SameStage
    <3>2. PICK i \in jobs[s] : JobsOf(p) = jobs[s] \ {i}
      BY <1>1, <1>15 DEF ShowsJobEnd
    <3>3. jobs' = [jobs EXCEPT ![s] = @ \ {i}]
      BY <1>2, <3>2
    <3>4. \E j \in jobs[s] : jobs' = [jobs EXCEPT ![s] = @ \ {j}]
      BY <3>2, <3>3
    <3> QED
      BY <3>1, <3>4 DEF Promised!JobEnds, stage, size, turn, doing, jobs
  <2> QED
    BY <2>1 DEF Promised!Step
<1>16. CASE ShowsMoveOn(o, p)
  <2>1. Promised!MoveOn(s)
    BY <1>1, <1>6, <1>7, <1>16
       DEF ShowsMoveOn, Promised!MoveOn, stage, size, turn, doing, jobs
  <2> QED
    BY <2>1 DEF Promised!Step
<1>17. CASE ShowsGiveUp(o, p)
  <2>1. Promised!GiveUp(s)
    BY <1>1, <1>6, <1>7, <1>17 DEF ShowsGiveUp, Promised!GiveUp, stage, size, doing, jobs
  <2> QED
    BY <2>1 DEF Promised!Step
<1> QED
  BY <1>5, <1>8, <1>9, <1>10, <1>11, <1>12, <1>13, <1>14, <1>15, <1>16, <1>17
     DEF ShowsStep, o, p

\* The refinement for restores: through edits of the configuration and deaths
\* of the process, the RestoreSession controller keeps the same promise.
THEOREM RestoresKeepThePromise == NamespaceSpec => RestoreKeepsPromise
<1>1. Start => RestoresSafe /\ Promised!Init
  <2>1. SUFFICES ASSUME R!InitRestores PROVE RestoresSafe /\ Promised!Init
    BY DEF Start
  <2>2. /\ R!NoRestore \in R!RestoreObject /\ R!NoRestore.exists = FALSE
        /\ R!NoRestore.state = NoState /\ R!NoRestore.targets = <<>>
    <3>1. NoState \in SessionStates /\ <<>> \in Seq(TargetStatus)
      BY DEF SessionStates
    <3>2. R!NoRestore = [exists |-> FALSE, state |-> NoState, targets |-> <<>>]
      BY SameStates DEF R!NoRestore, R!Restore
    <3>3. [exists |-> FALSE, state |-> NoState, targets |-> <<>>] \in R!RestoreObject
      BY <3>1, SameStates DEF R!RestoreObject
    <3> QED
      BY <3>2, <3>3
  <2>3. Coherent(NoState, <<>>)
    BY DEF Coherent, Phases, NoState, New, Initializing, Running, Finalize, Success, Failure
  <2>4. RestoresSafe
    BY <2>1, <2>2, <2>3 DEF R!InitRestores, RestoresSafe
  <2>5. /\ StageOf(R!NoRestore) = "absent" /\ SizeOf(R!NoRestore) = 0
        /\ TurnOf(R!NoRestore) = 0 /\ DoingOf(R!NoRestore) = "rests" /\ JobsOf(R!NoRestore) = {}
    BY <2>2, ViewOutside DEF StageOf, SizeOf
  <2>6. Promised!Init
    BY <2>1, <2>5 DEF R!InitRestores, Promised!Init
  <2> QED
    BY <2>4, <2>6
<1>2. BackupsSafe /\ RestoresSafe /\ [NamespaceNext]_namespace =>
        RestoresSafe' /\ [Promised!Next]_(Promised!pipeline)
  <2>1. SUFFICES ASSUME TypeOK, RestoresSafe, [NamespaceNext]_namespace
                 PROVE  RestoresSafe' /\ [Promised!Next]_(Promised!pipeline)
    BY DEF BackupsSafe
  <2>3. ASSUME NEW r \in Restores, RestoreChanges(r),
               ElseSame(r)
        PROVE  Promised!Next \/ UNCHANGED Promised!pipeline
    <3>1. ShowsStep(restores[r], restores'[r])
      BY <2>1, <2>3, RestoreShows
    <3>2. \A t \in Restores \ {r} : restores'[t] = restores[t]
      BY <2>1, <2>3 DEF ElseSame, RestoresSafe
    <3>3. Promised!Step(r) \/ UNCHANGED Promised!pipeline
      BY <3>1, <3>2, PromisedStep
    <3> QED
      BY <3>3 DEF Promised!Next
  <2>4. UNCHANGED restores => UNCHANGED Promised!pipeline
    BY DEF Promised!pipeline
  <2> QED
    BY <2>1, <2>3, <2>4, OneRestore, RestoresSafeStep
<1> QED
  BY <1>1, <1>2, BackupsSafeInvariant, PTL
     DEF NamespaceSpec, RestoreKeepsPromise, Promised!Spec
=============================================================================
