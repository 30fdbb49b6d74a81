-------------------------- MODULE AlgorithmProofs ---------------------------
(***************************************************************************)
(* What the two algorithms of the session controller return, for any       *)
(* input: the target scheduler of checkSessionState, for any number of     *)
(* targets, and the pass of cleanupSessions over the successes of a        *)
(* configuration, for any dates and any policy.                            *)
(***************************************************************************)
EXTENDS SessionState, Retention, TLAPS, NaturalsInduction, WellFoundedInduction, FiniteSetTheorems

-----------------------------------------------------------------------------
(* Numbers.                                                                *)

\* The smallest element of a non-empty set of numbers exists, and is what Min
\* returns: the loop of checkSessionState has a first target to stop at.
LEMMA MinIsFirst ==
  ASSUME NEW S \in SUBSET Nat, S # {}
  PROVE  Min(S) \in S /\ \A n \in S : Min(S) <= n
<1>1. \E m \in S : \A n \in S : ~ (<<n, m>> \in OpToRel(<, Nat))
  BY NatLessThanWellFounded, WFMin
<1>2. PICK m \in S : \A n \in S : m <= n
  <2>1. PICK m \in S : \A n \in S : ~ (<<n, m>> \in OpToRel(<, Nat))
    BY <1>1
  <2>2. \A n \in S : m <= n
    <3>1. SUFFICES ASSUME NEW n \in S PROVE m <= n
      OBVIOUS
    <3>2. ~ (n < m)
      BY <2>1 DEF OpToRel
    <3> QED
      BY <3>2
  <2> QED
    BY <2>2
<1> QED
  BY <1>2 DEF Min

\* The largest element of a bounded set of numbers.
LEMMA LargestExists ==
  ASSUME NEW S \in SUBSET Nat, S # {}, NEW n \in Nat, \A k \in S : k <= n
  PROVE  \E m \in S : \A k \in S : k <= m
<1> DEFINE T == {n - k : k \in S}
<1>1. T # {} /\ T \subseteq Nat
  <2>1. \A k \in S : k \in Nat /\ n - k \in Nat
    <3>1. ASSUME NEW k \in S PROVE k \in Nat /\ n - k \in Nat
      <4>1. k \in Nat /\ k <= n
        OBVIOUS
      <4> QED
        BY <4>1
    <3> QED
      BY <3>1
  <2> QED
    BY <2>1
<1>2. PICK t \in T : \A u \in T : ~ (<<u, t>> \in OpToRel(<, Nat))
  BY <1>1, NatLessThanWellFounded, WFMin
<1>3. PICK m \in S : t = n - m
  OBVIOUS
<1>4. ASSUME NEW k \in S PROVE k <= m
  <2>1. n - k \in T /\ n - k \in Nat /\ t \in Nat
    BY <1>1
  <2>2. ~ (n - k < t)
    BY <1>2, <2>1 DEF OpToRel
  <2> QED
    BY <1>3, <2>2
<1> QED
  BY <1>4

\* Induction over the natural numbers, as a fact about sets of numbers.
LEMMA NumbersFollow ==
  ASSUME NEW S, 0 \in S, \A n \in Nat : n \in S => n + 1 \in S
  PROVE  \A n \in Nat : n \in S
<1> DEFINE T == {n \in Nat : n \notin S}
<1>1. SUFFICES ASSUME T # {} PROVE FALSE
  OBVIOUS
<1>2. PICK m \in T : \A n \in T : ~ (<<n, m>> \in OpToRel(<, Nat))
  BY <1>1, NatLessThanWellFounded, WFMin
<1>3. m \in Nat /\ m # 0 /\ m - 1 \in Nat
  OBVIOUS
<1>4. m - 1 \in T
  BY <1>3
<1>5. <<m - 1, m>> \in OpToRel(<, Nat)
  BY <1>3 DEF OpToRel
<1> QED
  BY <1>2, <1>4, <1>5

-----------------------------------------------------------------------------
(* The target scheduler.                                                   *)

-----------------------------------------------------------------------------
\* Giving a target its turn changes its state and its try, and no other target.
LEMMA GiveTurnType ==
  ASSUME NEW tss \in Seq(TargetStatus), NEW i \in DOMAIN tss,
         NEW wait \in Phases, NEW n \in Nat
  PROVE  /\ GiveTurn(tss, i, wait, n) \in Seq(TargetStatus)
         /\ DOMAIN GiveTurn(tss, i, wait, n) = DOMAIN tss
         /\ Len(GiveTurn(tss, i, wait, n)) = Len(tss)
         /\ GiveTurn(tss, i, wait, n)[i] =
              [kind |-> tss[i].kind, state |-> wait, try |-> n, snap |-> tss[i].snap]
         /\ \A j \in DOMAIN tss : j # i => GiveTurn(tss, i, wait, n)[j] = tss[j]
<1>1. tss[i] \in TargetStatus
  OBVIOUS
<1>2. wait \in TargetStates
  BY DEF Phases, TargetStates, Initializing, Running, Finalize
<1> DEFINE new == SetTarget(tss[i], wait, n, tss[i].snap)
<1>3. new = [kind |-> tss[i].kind, state |-> wait, try |-> n, snap |-> tss[i].snap]
  BY DEF SetTarget
<1>4. new \in TargetStatus
  BY <1>1, <1>2, <1>3 DEF TargetStatus
<1> HIDE DEF new
<1>5. GiveTurn(tss, i, wait, n) = [tss EXCEPT ![i] = new]
  BY DEF GiveTurn, new
<1> QED
  BY <1>3, <1>4, <1>5

\* The five ways in which a pass of the scheduler ends, for every list of
\* targets: nothing to do; wait for Jobs; one target is given its turn, all
\* those before it being through; the phase is over, everyone being through
\* and no Job running; the session ends at a target that failed and has no
\* try left.  A try is counted only when a target that failed gets its turn
\* again, and never beyond what the configuration grants.
Outcome(phase, tss, specs, result) ==
  \/ result.state \in {NoState, phase} /\ result.targets = tss
  \/ /\ result.state = phase
     /\ \E i \in DOMAIN tss :
          /\ tss[i].state \in {Before(phase), Failure}
          /\ \A j \in DOMAIN tss :
               j < i => tss[j].state \notin {Before(phase), phase, Failure}
          /\ \E n \in Nat :
               /\ n >= tss[i].try
               /\ n = tss[i].try \/ n <= specs[i].retry
               /\ result.targets = GiveTurn(tss, i, phase, n)
  \/ /\ result.state = After(phase)
     /\ result.targets = tss
     /\ tss # <<>>
     /\ \A j \in DOMAIN tss :
          tss[j].state \notin {Before(phase), phase, Failure, WaitingForJob}
  \/ /\ result.state = IF phase = Finalize THEN Success ELSE Failure
     /\ result.targets = tss
     /\ \E i \in DOMAIN tss :
          /\ tss[i].state = Failure
          /\ i \in DOMAIN specs /\ tss[i].try >= specs[i].retry
          /\ \A j \in DOMAIN tss :
               j < i => tss[j].state \notin {Before(phase), phase, Failure, WaitingForJob}

\* Advance, the scheduler as the Reconcile of a session calls it, ends in one
\* of those ways unless its index panics.
THEOREM AdvanceOutcome ==
  ASSUME NEW phase \in Phases, NEW tss \in Seq(TargetStatus), NEW specs \in Seq(TargetSpec),
         ~ PhasePanics(phase, tss, specs)
  PROVE  Outcome(phase, tss, specs, Advance(phase, tss, specs))
<1> DEFINE cur    == Before(phase)
           stops  == Stopping(tss, cur, phase)
           first  == Min(stops)
           visit  == Visit(tss, specs, cur, phase, After(phase), first)
           idle   == [state |-> NoState, targets |-> tss]
           result == IF stops = {} THEN idle ELSE visit
           check  == [state   |-> IF PassedJob(tss, stops) THEN phase ELSE result.state,
                      targets |-> result.targets]
<1>1. Advance(phase, tss, specs) =
        [state   |-> IF phase = Finalize /\ check.state = Failure THEN Success ELSE check.state,
         targets |-> check.targets]
  BY DEF Advance, CheckPhase, CheckSessionState
<1>2. /\ stops \in SUBSET Nat
      /\ DOMAIN tss = 1..Len(tss) /\ Len(tss) \in Nat
      /\ \A i \in DOMAIN tss : tss[i] \in TargetStatus
  BY DEF Stopping
<1>3. /\ cur # phase /\ cur # Failure /\ cur # WaitingForJob
      /\ phase # Failure /\ phase # WaitingForJob /\ phase # NoState
      /\ After(phase) # Failure
  BY DEF Phases, Before, After, Initializing, Running, Finalize, NoState, Initialized,
         Waiting, Failure, WaitingForJob, Success
<1> HIDE DEF cur, stops, first, visit, idle, result, check
<1>4. CASE stops = {}
  <2>1. check.state \in {NoState, phase} /\ check.targets = tss
    BY <1>4 DEF check, result, idle
  <2>2. check.state # Failure
    BY <2>1, <1>3 DEF NoState, Failure
  <2> QED
    BY <1>1, <2>1, <2>2 DEF Outcome
<1>5. CASE stops # {}
  <2>0. first \in stops /\ \A j \in stops : first <= j
    BY <1>2, <1>5, MinIsFirst DEF first
  <2>1. /\ first \in DOMAIN tss
        /\ Stops(tss, cur, phase, first)
        /\ \A j \in DOMAIN tss : j < first => ~ Stops(tss, cur, phase, j)
    BY <2>0, <1>2 DEF stops, Stopping
  <2>2. \A j \in DOMAIN tss : j < first => tss[j].state \notin {cur, phase, Failure}
    BY <2>1 DEF Stops
  <2>3. ~ PassedJob(tss, stops) =>
          \A j \in DOMAIN tss : j < first => tss[j].state # WaitingForJob
    <3>1. SUFFICES ASSUME NEW j \in DOMAIN tss, j < first, tss[j].state = WaitingForJob
                   PROVE  PassedJob(tss, stops)
      OBVIOUS
    <3>2. \A i \in stops : j < i
      BY <1>2, <2>0, <3>1
    <3> QED
      BY <3>1, <3>2 DEF PassedJob
  <2>4. result = visit
    BY <1>5 DEF result
  <2>5. CASE tss[first].state = cur
    <3>1. visit = [state |-> phase, targets |-> GiveTurn(tss, first, phase, tss[first].try)]
      BY <2>5 DEF visit, Visit
    <3>2. check.state = phase /\ check.targets = GiveTurn(tss, first, phase, tss[first].try)
      BY <3>1, <2>4 DEF check
    <3>3. tss[first].try \in Nat /\ tss[first].try >= tss[first].try
      BY <1>2, <2>1 DEF TargetStatus
    <3>4. Advance(phase, tss, specs) = [state |-> check.state, targets |-> check.targets]
      BY <1>1, <1>3, <3>2
    <3> QED
      BY <2>1, <2>2, <2>5, <3>2, <3>3, <3>4 DEF Outcome, cur
  <2>6. CASE tss[first].state = Failure /\ tss[first].try < specs[first].retry
    <3>1. visit = [state |-> phase, targets |-> GiveTurn(tss, first, phase, tss[first].try + 1)]
      BY <2>6, <1>3 DEF visit, Visit
    <3>2. check.state = phase /\ check.targets = GiveTurn(tss, first, phase, tss[first].try + 1)
      BY <3>1, <2>4 DEF check
    <3>3. /\ tss[first].try + 1 \in Nat /\ tss[first].try + 1 >= tss[first].try
          /\ tss[first].try + 1 <= specs[first].retry
      <4>1. first \in DOMAIN specs
        BY <1>5, <2>6 DEF PhasePanics, IndexPanics, stops, first, cur
      <4>2. specs[first] \in TargetSpec /\ tss[first] \in TargetStatus
        BY <4>1, <1>2, <2>1
      <4>3. specs[first].retry \in Nat /\ tss[first].try \in Nat
        BY <4>2 DEF TargetStatus, TargetSpec
      <4> QED
        BY <2>6, <4>3
    <3>4. Advance(phase, tss, specs) = [state |-> check.state, targets |-> check.targets]
      BY <1>1, <1>3, <3>2
    <3> QED
      BY <2>1, <2>2, <2>6, <3>2, <3>3, <3>4 DEF Outcome, cur
  <2>7. CASE tss[first].state = Failure /\ ~ (tss[first].try < specs[first].retry)
    <3>1. first \in DOMAIN specs
      BY <1>5, <2>7 DEF PhasePanics, IndexPanics, stops, first, cur
    <3>2. specs[first].retry \in Nat /\ tss[first].try \in Nat
      <4>1. specs[first] \in TargetSpec
        BY <3>1
      <4>2. specs[first].retry \in Nat
        BY <4>1 DEF TargetSpec
      <4>3. tss[first].try \in Nat
        BY <1>2, <2>1 DEF TargetStatus
      <4> QED
        BY <4>2, <4>3
    <3>3. visit = [state |-> Failure, targets |-> tss]
      BY <2>7, <1>3, <3>2 DEF visit, Visit
    <3>4. CASE PassedJob(tss, stops)
      <4>1. check.state = phase /\ check.targets = tss
        BY <3>3, <3>4, <2>4 DEF check
      <4> QED
        BY <4>1, <1>1, <1>3 DEF Outcome
    <3>5. CASE ~ PassedJob(tss, stops)
      <4>1. check.state = Failure /\ check.targets = tss
        BY <3>3, <3>5, <2>4 DEF check
      <4>2. check = [state |-> Failure, targets |-> tss]
        BY <3>3, <3>5, <2>4 DEF check
      <4>3. /\ Advance(phase, tss, specs).state = IF phase = Finalize THEN Success ELSE Failure
            /\ Advance(phase, tss, specs).targets = tss
        BY <1>1, <4>2
      <4>4. tss[first].try >= specs[first].retry
        BY <2>7, <3>2
      <4> QED
        BY <4>3, <4>4, <2>1, <2>2, <2>3, <2>7, <3>1, <3>5 DEF Outcome, cur
    <3> QED
      BY <3>4, <3>5
  <2>8. CASE tss[first].state = phase
    <3>1. visit = [state |-> NoState, targets |-> tss]
      BY <2>8, <1>3 DEF visit, Visit
    <3>2. check.state \in {NoState, phase} /\ check.targets = tss
      BY <3>1, <2>4 DEF check
    <3>3. check.state # Failure
      BY <3>2, <1>3 DEF NoState, Failure
    <3> QED
      BY <1>1, <3>2, <3>3 DEF Outcome
  <2>9. CASE tss[first].state \notin {cur, phase, Failure}
    <3>1. visit = [state |-> After(phase), targets |-> tss]
      BY <2>9 DEF visit, Visit
    <3>2. first = Len(tss) /\ tss[first].state # WaitingForJob
      BY <2>1, <2>9 DEF Stops
    <3>3. CASE PassedJob(tss, stops)
      <4>1. check.state = phase /\ check.targets = tss
        BY <3>1, <3>3, <2>4 DEF check
      <4> QED
        BY <4>1, <1>1, <1>3 DEF Outcome
    <3>4. CASE ~ PassedJob(tss, stops)
      <4>1. check.state = After(phase) /\ check.targets = tss
        BY <3>1, <3>4, <2>4 DEF check
      <4>2. \A j \in DOMAIN tss : tss[j].state \notin {cur, phase, Failure, WaitingForJob}
        BY <1>2, <2>2, <2>3, <2>9, <3>2, <3>4
      <4>3. tss # <<>>
        BY <1>2, <2>1
      <4> QED
        BY <4>1, <4>2, <4>3, <1>1, <1>3 DEF Outcome, cur
    <3> QED
      BY <3>3, <3>4
  <2> QED
    BY <2>5, <2>6, <2>7, <2>8, <2>9
<1> QED
  BY <1>4, <1>5

-----------------------------------------------------------------------------
\* The strings that stand for states differ from each other, phase by phase.
LEMMA PhaseFacts ==
  ASSUME NEW phase \in Phases
  PROVE  /\ Before(phase) \in TargetStates /\ phase \in TargetStates
         /\ phase \in SessionStates /\ After(phase) \in SessionStates
         /\ Before(phase) \notin Phases \cup Done(phase) \cup {Failure}
         /\ phase \notin Done(phase) \cup {NoState, New, Success, Failure}
         /\ Failure \notin Done(phase) \cup Phases
         /\ Done(phase) \cap Phases = {}
         /\ After(phase) \in Phases \cup {Success}
         /\ phase # Finalize =>
              /\ After(phase) \in Phases /\ Done(phase) = {Before(After(phase))}
              /\ WaitingForJob \notin Done(phase)
         /\ phase = Finalize => After(phase) = Success
BY DEF Phases, Before, After, Done, TargetStates, SessionStates, NoState, New, Initializing,
       Initialized, Running, Waiting, WaitingForJob, Finalize, Success, Failure, Finalized

\* What the scheduler returns is a state and a list of statuses.
LEMMA AdvanceType ==
  ASSUME NEW phase \in Phases, NEW tss \in Seq(TargetStatus), NEW specs \in Seq(TargetSpec),
         ~ PhasePanics(phase, tss, specs)
  PROVE  /\ Advance(phase, tss, specs).state \in SessionStates
         /\ Advance(phase, tss, specs).targets \in Seq(TargetStatus)
<1> DEFINE result == Advance(phase, tss, specs)
<1>1. Outcome(phase, tss, specs, result)
  BY AdvanceOutcome
<1>2. \A i \in DOMAIN tss, n \in Nat : GiveTurn(tss, i, phase, n) \in Seq(TargetStatus)
  BY GiveTurnType
<1> HIDE DEF result
<1>3. result.targets \in Seq(TargetStatus)
  BY <1>1, <1>2 DEF Outcome
<1>4. {NoState, Success, Failure} \subseteq SessionStates
  BY DEF SessionStates
<1>5. result.state \in SessionStates
  BY <1>1, <1>4, PhaseFacts DEF Outcome
<1> QED
  BY <1>3, <1>5 DEF result

\* A list in order has at most one target at work, and none when a target
\* that stopped the phase is not at work itself.
LEMMA InOrderOneBusy ==
  ASSUME NEW phase \in Phases, NEW tss \in Seq(TargetStatus), InOrder(phase, tss)
  PROVE  /\ \A i \in DOMAIN tss : Busy(tss[i]) <=> tss[i].state = phase
         /\ \A i, j \in DOMAIN tss : Busy(tss[i]) /\ Busy(tss[j]) => i = j
<1>1. \A i \in DOMAIN tss : Busy(tss[i]) <=> tss[i].state = phase
  BY PhaseFacts DEF InOrder, Busy
<1>2. \A i, j \in DOMAIN tss : i < j /\ Busy(tss[j]) => ~ Busy(tss[i])
  BY <1>1, PhaseFacts DEF InOrder
<1> QED
  BY <1>1, <1>2

\* Whatever the scheduler writes, it writes a coherent session, from any
\* list of targets in order and under any configuration that does not make
\* its index panic.
THEOREM AdvanceCoherent ==
  ASSUME NEW phase \in Phases, NEW tss \in Seq(TargetStatus), NEW specs \in Seq(TargetSpec),
         ~ PhasePanics(phase, tss, specs), InOrder(phase, tss),
         Advance(phase, tss, specs).state # NoState
  PROVE  LET result == Advance(phase, tss, specs)
         IN  /\ result.state \in SessionStates
             /\ result.targets \in Seq(TargetStatus)
             /\ Coherent(result.state, result.targets)
<1> DEFINE state   == Advance(phase, tss, specs).state
           targets == Advance(phase, tss, specs).targets
<1>1. Outcome(phase, tss, specs, [state |-> state, targets |-> targets])
  BY AdvanceOutcome DEF Advance
<1> SUFFICES /\ state \in SessionStates
             /\ targets \in Seq(TargetStatus)
             /\ Coherent(state, targets)
  OBVIOUS
<1> HIDE DEF state, targets
<1>2. state # NoState
  BY DEF state
<1>3. DOMAIN tss = 1..Len(tss) /\ Len(tss) \in Nat
  OBVIOUS
<1>4. CASE state = phase /\ targets = tss
  BY <1>4, PhaseFacts DEF Coherent
<1>5. CASE /\ state = phase
           /\ \E i \in DOMAIN tss :
                /\ tss[i].state \in {Before(phase), Failure}
                /\ \A j \in DOMAIN tss :
                     j < i => tss[j].state \notin {Before(phase), phase, Failure}
                /\ \E n \in Nat :
                     /\ n >= tss[i].try
                     /\ targets = GiveTurn(tss, i, phase, n)
  <2>1. PICK i \in DOMAIN tss, n \in Nat :
          /\ tss[i].state \in {Before(phase), Failure}
          /\ \A j \in DOMAIN tss :
               j < i => tss[j].state \notin {Before(phase), phase, Failure}
          /\ targets = GiveTurn(tss, i, phase, n)
    BY <1>5
  <2>2. /\ targets \in Seq(TargetStatus)
        /\ DOMAIN targets = DOMAIN tss
        /\ targets[i].state = phase
        /\ \A j \in DOMAIN tss : j # i => targets[j] = tss[j]
    <3>1. /\ GiveTurn(tss, i, phase, n) \in Seq(TargetStatus)
          /\ DOMAIN GiveTurn(tss, i, phase, n) = DOMAIN tss
          /\ GiveTurn(tss, i, phase, n)[i] =
               [kind |-> tss[i].kind, state |-> phase, try |-> n, snap |-> tss[i].snap]
          /\ \A j \in DOMAIN tss : j # i => GiveTurn(tss, i, phase, n)[j] = tss[j]
      BY GiveTurnType
    <3>2. targets = GiveTurn(tss, i, phase, n)
      BY <2>1
    <3>3. targets[i].state = phase
      BY <3>1, <3>2
    <3> QED
      BY <3>1, <3>2, <3>3
  <2>3. \A j \in DOMAIN tss : j < i => tss[j].state \in Done(phase)
    BY <2>1 DEF InOrder
  <2>4. \A j \in DOMAIN tss : i < j => tss[j].state = Before(phase)
    BY <2>1, PhaseFacts DEF InOrder
  <2>5. \A j \in DOMAIN targets :
          targets[j].state \in {Before(phase), phase, Failure} \cup Done(phase)
    BY <2>2 DEF InOrder
  <2>6. \A j, k \in DOMAIN targets :
          j < k /\ targets[k].state # Before(phase) => targets[j].state \in Done(phase)
    <3>1. SUFFICES ASSUME NEW j \in DOMAIN tss, NEW k \in DOMAIN tss,
                          j < k, targets[k].state # Before(phase)
                   PROVE  targets[j].state \in Done(phase)
      BY <2>2
    <3>2. k <= i
      BY <1>3, <2>2, <2>4, <3>1
    <3> QED
      BY <1>3, <2>2, <2>3, <3>1, <3>2
  <2>7. InOrder(phase, targets)
    BY <2>5, <2>6 DEF InOrder
  <2> QED
    BY <1>5, <2>2, <2>7, PhaseFacts DEF Coherent
<1>6. CASE /\ state = After(phase)
           /\ targets = tss
           /\ \A j \in DOMAIN tss :
                tss[j].state \notin {Before(phase), phase, Failure, WaitingForJob}
  <2>1. \A j \in DOMAIN tss : tss[j].state \in Done(phase) /\ tss[j].state # WaitingForJob
    BY <1>6 DEF InOrder
  <2>2. CASE phase = Finalize
    BY <1>6, <2>1, <2>2, PhaseFacts
       DEF Coherent, Busy, Phases, Initializing, Running, Finalize, Success, New, NoState
  <2>3. CASE phase # Finalize
    <3>1. \A j \in DOMAIN tss : tss[j].state = Before(After(phase))
      BY <2>1, <2>3, PhaseFacts
    <3>2. InOrder(After(phase), tss)
      BY <3>1 DEF InOrder
    <3>3. After(phase) \notin {NoState, New, Success, Failure}
      BY <2>3, PhaseFacts
    <3> QED
      BY <1>6, <3>2, <3>3, PhaseFacts DEF Coherent
  <2> QED
    BY <2>2, <2>3
<1>7. CASE /\ state = IF phase = Finalize THEN Success ELSE Failure
           /\ targets = tss
           /\ \E i \in DOMAIN tss :
                /\ tss[i].state = Failure
                /\ \A j \in DOMAIN tss :
                     j < i => tss[j].state \notin {Before(phase), phase, Failure, WaitingForJob}
  <2>1. PICK i \in DOMAIN tss :
          /\ tss[i].state = Failure
          /\ \A j \in DOMAIN tss :
               j < i => tss[j].state \notin {Before(phase), phase, Failure, WaitingForJob}
    BY <1>7
  <2>2. \A j \in DOMAIN tss : i < j => tss[j].state = Before(phase)
    BY <2>1, PhaseFacts DEF InOrder
  <2>3. \A j \in DOMAIN tss : ~ Busy(tss[j])
    <3>1. SUFFICES ASSUME NEW j \in DOMAIN tss PROVE tss[j].state \notin Phases
      BY DEF Busy
    <3>2. CASE j < i
      BY <3>2, <2>1, PhaseFacts DEF InOrder
    <3>3. CASE j = i
      BY <3>3, <2>1, PhaseFacts
    <3>4. CASE i < j
      BY <3>4, <2>2, PhaseFacts
    <3> QED
      BY <1>3, <3>2, <3>3, <3>4
  <2>4. phase = Finalize => \A j \in DOMAIN tss : tss[j].state # WaitingForJob
    <3>1. SUFFICES ASSUME NEW j \in DOMAIN tss, phase = Finalize
                   PROVE  tss[j].state # WaitingForJob
      OBVIOUS
    <3>2. Before(phase) # WaitingForJob /\ Failure # WaitingForJob
      BY <3>1 DEF Before, Waiting, WaitingForJob, Failure, Finalize, Initializing, Running
    <3> QED
      BY <1>3, <2>1, <2>2, <3>2
  <2>5. state \in {Success, Failure} /\ (state = Success => phase = Finalize)
    BY <1>7 DEF Success, Failure
  <2> QED
    BY <1>7, <2>3, <2>4, <2>5
       DEF Coherent, SessionStates, Phases, Success, Failure, NoState, New, Initializing,
           Running, Finalize
<1> QED
  BY <1>1, <1>2, <1>4, <1>5, <1>6, <1>7 DEF Outcome

\* The report of the target at work, and of a Job, keeps the list in order.
LEMMA ReportInOrder ==
  ASSUME NEW phase \in Phases, NEW tss \in Seq(TargetStatus), InOrder(phase, tss),
         NEW i \in DOMAIN tss, NEW status \in TargetStatus,
         \/ tss[i].state = phase /\ status.state \in Done(phase) \cup {Failure}
         \/ tss[i].state \in Done(phase) /\ status.state \in Done(phase)
  PROVE  InOrder(phase, [tss EXCEPT ![i] = status])
<1> DEFINE new == [tss EXCEPT ![i] = status]
<1>1. /\ DOMAIN new = DOMAIN tss
      /\ new[i] = status
      /\ \A j \in DOMAIN tss : j # i => new[j] = tss[j]
  OBVIOUS
<1>2. DOMAIN tss = 1..Len(tss) /\ Len(tss) \in Nat
  OBVIOUS
<1> HIDE DEF new
<1>3. \A j \in DOMAIN new : new[j].state \in {Before(phase), phase, Failure} \cup Done(phase)
  BY <1>1 DEF InOrder
<1>4. \A j, k \in DOMAIN new :
        j < k /\ new[k].state # Before(phase) => new[j].state \in Done(phase)
  <2>1. SUFFICES ASSUME NEW j \in DOMAIN tss, NEW k \in DOMAIN tss,
                        j < k, new[k].state # Before(phase)
                 PROVE  new[j].state \in Done(phase)
    BY <1>1
  <2>2. tss[k].state # Before(phase)
    BY <1>1, <2>1, PhaseFacts
  <2>3. tss[j].state \in Done(phase)
    BY <2>1, <2>2 DEF InOrder
  <2> QED
    BY <1>1, <2>3, PhaseFacts
<1> QED
  BY <1>3, <1>4 DEF InOrder, new

-----------------------------------------------------------------------------
(* The retention rules.                                                    *)

\* The tally before each session of the pass of cleanupSessions.
IsTally(t, dates, policy) ==
  t = [i \in 0..Len(dates) |-> IF i = 0 THEN StartTally(policy) ELSE Count(dates[i], t[i - 1])]

\* The pass keeps a tally.
LEMMA TallyExists ==
  ASSUME NEW dates, Len(dates) \in Nat, NEW policy
  PROVE  \E t : IsTally(t, dates, policy)
<1> DEFINE Upto(t, n) == t = [i \in 0..n |-> IF i = 0 THEN StartTally(policy)
                                                     ELSE Count(dates[i], t[i - 1])]
           S == {n \in Nat : \E t : Upto(t, n)}
<1>1. 0 \in S
  <2>1. Upto([i \in 0..0 |-> StartTally(policy)], 0)
    OBVIOUS
  <2> QED
    BY <2>1
<1>2. ASSUME NEW n \in Nat, n \in S PROVE n + 1 \in S
  <2>1. PICK t : Upto(t, n)
    BY <1>2
  <2> DEFINE u == [i \in 0..(n + 1) |-> IF i <= n THEN t[i] ELSE Count(dates[n + 1], t[n])]
  <2>2. \A i \in 0..(n + 1) : u[i] = IF i = 0 THEN StartTally(policy) ELSE Count(dates[i], u[i - 1])
    <3>1. ASSUME NEW i \in 0..n PROVE t[i] = IF i = 0 THEN StartTally(policy) ELSE Count(dates[i], t[i - 1])
      BY <2>1
    <3>3. /\ \A i \in 0..n : u[i] = t[i]
          /\ u[n + 1] = Count(dates[n + 1], t[n])
      OBVIOUS
    <3> SUFFICES ASSUME NEW i \in 0..(n + 1)
                 PROVE  u[i] = IF i = 0 THEN StartTally(policy) ELSE Count(dates[i], u[i - 1])
      OBVIOUS
    <3> HIDE DEF u
    <3>4. CASE i = n + 1
      BY <3>3, <3>4
    <3>5. CASE i # n + 1
      <4>1. i \in 0..n
        BY <3>5
      <4>2. CASE i = 0
        BY <3>1, <3>3, <4>1, <4>2
      <4>3. CASE i # 0
        <5>1. i - 1 \in 0..n
          BY <4>1, <4>3
        <5> QED
          BY <3>1, <3>3, <4>1, <4>3, <5>1
      <4> QED
        BY <4>2, <4>3
    <3> QED
      BY <3>4, <3>5
  <2>3. Upto(u, n + 1)
    BY <2>2
  <2>4. \E v : Upto(v, n + 1)
    BY <2>3
  <2> HIDE DEF u
  <2> QED
    BY <2>4
<1>3. Len(dates) \in S
  BY <1>1, <1>2, NumbersFollow
<1> QED
  BY <1>3 DEF IsTally

Tally(dates, policy) == CHOOSE t : IsTally(t, dates, policy)

\* What the pass gives the sessions.
LEMMA TagsOfTally ==
  ASSUME NEW dates, NEW policy
  PROVE  KeepTags(dates, policy) =
           [i \in DOMAIN dates |-> KeptBy(dates[i], Tally(dates, policy)[i - 1])]
BY DEF KeepTags, Tally, IsTally

\* What the pass does for one rule.
LEMMA TallyOfRule ==
  ASSUME NEW dates, Len(dates) \in Nat, NEW policy \in Policies, NEW r \in Rules
  PROVE  LET t == Tally(dates, policy)
         IN  /\ t[0].counter[r] = policy[r] /\ t[0].last[r] = ZeroTime
             /\ \A i \in 1..Len(dates) :
                  IF t[i - 1].counter[r] > 0 /\ Due(r, dates[i], t[i - 1].last[r])
                    THEN t[i].counter[r] = t[i - 1].counter[r] - 1 /\ t[i].last[r] = dates[i]
                    ELSE t[i].counter[r] = t[i - 1].counter[r] /\ t[i].last[r] = t[i - 1].last[r]
<1> DEFINE t == Tally(dates, policy)
<1>1. IsTally(t, dates, policy)
  BY TallyExists DEF Tally
<1>2. /\ t[0] = StartTally(policy)
      /\ \A i \in 1..Len(dates) : t[i] = Count(dates[i], t[i - 1])
  <2>1. \A i \in 0..Len(dates) :
          t[i] = IF i = 0 THEN StartTally(policy) ELSE Count(dates[i], t[i - 1])
    <3> HIDE DEF t
    <3> QED
      BY <1>1, Zenon DEF IsTally
  <2> HIDE DEF t
  <2> QED
    BY <2>1
<1> HIDE DEF t
<1>3. t[0].counter[r] = policy[r] /\ t[0].last[r] = ZeroTime
  BY <1>2 DEF StartTally
<1>4. ASSUME NEW i \in 1..Len(dates)
      PROVE  IF t[i - 1].counter[r] > 0 /\ Due(r, dates[i], t[i - 1].last[r])
               THEN t[i].counter[r] = t[i - 1].counter[r] - 1 /\ t[i].last[r] = dates[i]
               ELSE t[i].counter[r] = t[i - 1].counter[r] /\ t[i].last[r] = t[i - 1].last[r]
  <2>1. t[i] = Count(dates[i], t[i - 1])
    BY <1>2
  <2>2. (r \in KeptBy(dates[i], t[i - 1])) <=>
          t[i - 1].counter[r] > 0 /\ Due(r, dates[i], t[i - 1].last[r])
    BY DEF KeptBy
  <2>3. /\ t[i].counter[r] = IF r \in KeptBy(dates[i], t[i - 1])
                               THEN t[i - 1].counter[r] - 1 ELSE t[i - 1].counter[r]
        /\ t[i].last[r] = IF r \in KeptBy(dates[i], t[i - 1]) THEN dates[i] ELSE t[i - 1].last[r]
    BY <2>1 DEF Count
  <2> QED
    BY <2>2, <2>3
<1> QED
  BY <1>3, <1>4 DEF t

\* The periods of the sessions before the i-th one, E being the sessions that
\* the rule looks at.
PeriodsBefore(E, per, i) == {per[j] : j \in {k \in E : k < i}}

\* They are finitely many.
LEMMA PeriodsFinite ==
  ASSUME NEW n \in Nat, NEW E \in SUBSET (1..n), NEW per, NEW i \in Nat
  PROVE  IsFiniteSet(PeriodsBefore(E, per, i)) /\ Cardinality(PeriodsBefore(E, per, i)) \in Nat
<1>1. IsFiniteSet({k \in E : k < i})
  <2>1. IsFiniteSet(1..n)
    BY FS_Interval
  <2> QED
    BY <2>1, FS_Subset
<1>2. IsFiniteSet(PeriodsBefore(E, per, i))
  <2> DEFINE D == {k \in E : k < i}
             f == [k \in D |-> per[k]]
  <2>1. f \in Surjection(D, PeriodsBefore(E, per, i))
    BY DEF Surjection, PeriodsBefore
  <2> QED
    BY <1>1, <2>1, FS_Surjection
<1> QED
  BY <1>2, FS_CardinalityType

\* The periods of one session more.
LEMMA PeriodsGrow ==
  ASSUME NEW E \in SUBSET Nat, NEW per, NEW i \in Nat
  PROVE  /\ i \in E => PeriodsBefore(E, per, i + 1) = PeriodsBefore(E, per, i) \cup {per[i]}
         /\ i \notin E => PeriodsBefore(E, per, i + 1) = PeriodsBefore(E, per, i)
<1>1. \A k \in E : k < i + 1 <=> k < i \/ k = i
  OBVIOUS
<1>2. {k \in E : k < i + 1} = {k \in E : k < i} \cup (IF i \in E THEN {i} ELSE {})
  BY <1>1
<1> QED
  BY <1>2 DEF PeriodsBefore

\* A rule and a list of dates, the newest first: E are the sessions the rule
\* looks at, and per gives each of them its period.  The mark of the rule
\* tells the periods apart, and the sessions of a period are neighbours.
TellsApart(r, dates, E, per) ==
  /\ \A i \in DOMAIN dates : \A mark : Due(r, dates[i], mark) => i \in E
  /\ \A i \in E : Due(r, dates[i], ZeroTime)
  /\ \A i, j \in E : i < j => (Due(r, dates[j], dates[i]) <=> per[i] # per[j])
  /\ \A i, j, k \in E : i < j /\ j < k /\ per[i] = per[k] => per[j] = per[i]

\* The rule keeps the first session of each of its first periods.
KeepsFirst(E, per, limit, i) ==
  /\ i \in E
  /\ per[i] \notin PeriodsBefore(E, per, i)
  /\ Cardinality(PeriodsBefore(E, per, i)) < limit

\* The counter and the mark of a rule after n sessions: what is left of its
\* limit, and, if something is, the last period it has met.
RuleTallied(E, per, limit, dates, counter, mark, n) ==
  LET met == Cardinality(PeriodsBefore(E, per, n + 1))
  IN  /\ counter = IF met < limit THEN limit - met ELSE 0
      /\ counter > 0 =>
           \/ mark = ZeroTime /\ \A j \in E : j > n
           \/ \E j \in E : /\ j <= n /\ mark = dates[j]
                           /\ \A k \in E : j <= k /\ k <= n => per[k] = per[j]

\* One session more.
LEMMA RuleCounts ==
  ASSUME NEW r \in Rules, NEW dates, Len(dates) \in Nat, DOMAIN dates = 1..Len(dates),
         NEW E \in SUBSET DOMAIN dates, NEW per, TellsApart(r, dates, E, per),
         NEW limit \in Nat, NEW i \in 1..Len(dates), NEW counter, NEW mark, NEW counter2, NEW mark2,
         RuleTallied(E, per, limit, dates, counter, mark, i - 1),
         IF counter > 0 /\ Due(r, dates[i], mark)
           THEN counter2 = counter - 1 /\ mark2 = dates[i]
           ELSE counter2 = counter /\ mark2 = mark
  PROVE  /\ counter > 0 /\ Due(r, dates[i], mark) <=> KeepsFirst(E, per, limit, i)
         /\ RuleTallied(E, per, limit, dates, counter2, mark2, i)
<1> DEFINE before == PeriodsBefore(E, per, i)
           after  == PeriodsBefore(E, per, i + 1)
<1>1. /\ IsFiniteSet(before) /\ Cardinality(before) \in Nat
      /\ IsFiniteSet(after) /\ Cardinality(after) \in Nat
      /\ i \in E => after = before \cup {per[i]}
      /\ i \notin E => after = before
  <2>1. i \in Nat /\ i + 1 \in Nat /\ E \in SUBSET (1..Len(dates))
    OBVIOUS
  <2> HIDE DEF before, after
  <2>2. /\ IsFiniteSet(before) /\ Cardinality(before) \in Nat
        /\ IsFiniteSet(after) /\ Cardinality(after) \in Nat
    BY <2>1, PeriodsFinite, Zenon DEF before, after
  <2>3. E \in SUBSET Nat
    BY <2>1
  <2>4. /\ i \in E => after = before \cup {per[i]}
        /\ i \notin E => after = before
    BY <2>1, <2>3, PeriodsGrow, Zenon DEF before, after
  <2> QED
    BY <2>2, <2>4
<1>2. \A p : p \in before <=> \E k \in E : k < i /\ per[k] = p
  BY DEF PeriodsBefore
<1>3. counter = IF Cardinality(before) < limit THEN limit - Cardinality(before) ELSE 0
  BY DEF RuleTallied
<1>4. /\ counter \in Nat
      /\ counter > 0 <=> Cardinality(before) < limit
  BY <1>1, <1>3
<1> HIDE DEF before, after
<1>5. ASSUME counter > 0, i \in E
      PROVE  Due(r, dates[i], mark) <=> per[i] \notin before
  <2>1. CASE mark = ZeroTime /\ \A j \in E : j > i - 1
    <3>1. before = {}
      BY <1>2, <2>1
    <3> QED
      BY <1>5, <2>1, <3>1 DEF TellsApart
  <2>2. ASSUME NEW j \in E, j <= i - 1, mark = dates[j],
               \A k \in E : j <= k /\ k <= i - 1 => per[k] = per[j]
        PROVE  Due(r, dates[i], mark) <=> per[i] \notin before
    <3>1. j < i /\ (Due(r, dates[i], mark) <=> per[j] # per[i])
      BY <1>5, <2>2 DEF TellsApart
    <3>2. per[j] \in before
      BY <1>2, <3>1
    <3>3. ASSUME NEW k \in E, k < i, per[k] = per[i] PROVE per[j] = per[i]
      <4>1. CASE k < j
        <5>1. per[j] = per[k]
          BY <1>5, <3>1, <3>3, <4>1 DEF TellsApart
        <5> QED
          BY <3>3, <5>1
      <4>2. CASE j <= k
        BY <2>2, <3>3, <4>2
      <4> QED
        BY <4>1, <4>2
    <3> QED
      BY <1>2, <3>1, <3>2, <3>3
  <2> QED
    BY <1>5, <2>1, <2>2 DEF RuleTallied
<1>6. counter > 0 /\ Due(r, dates[i], mark) <=> KeepsFirst(E, per, limit, i)
  <2>1. Due(r, dates[i], mark) => i \in E
    BY DEF TellsApart
  <2> QED
    BY <1>4, <1>5, <2>1 DEF KeepsFirst, before
<1>7. CASE counter > 0 /\ Due(r, dates[i], mark)
  <2>1. i \in E /\ per[i] \notin before /\ Cardinality(before) < limit
    BY <1>6, <1>7 DEF KeepsFirst, before
  <2>2. Cardinality(after) = Cardinality(before) + 1
    BY <1>1, <2>1, FS_AddElement
  <2>3. counter2 = limit - Cardinality(after) /\ mark2 = dates[i] /\ counter2 \in Nat
    BY <1>1, <1>3, <1>7, <2>1, <2>2
  <2>4. counter2 = IF Cardinality(after) < limit THEN limit - Cardinality(after) ELSE 0
    BY <1>1, <2>1, <2>2, <2>3
  <2>5. \A k \in E : i <= k /\ k <= i => per[k] = per[i]
    OBVIOUS
  <2> QED
    BY <1>6, <2>1, <2>3, <2>4, <2>5 DEF RuleTallied, after
<1>8. CASE ~ (counter > 0 /\ Due(r, dates[i], mark)) /\ counter = 0
  <2>1. before \subseteq after
    BY <1>1
  <2>2. Cardinality(before) <= Cardinality(after)
    BY <1>1, <2>1, FS_Subset
  <2>3. counter2 = 0 /\ ~ (Cardinality(after) < limit)
    BY <1>1, <1>4, <1>8, <2>2
  <2> QED
    BY <1>6, <2>3 DEF RuleTallied, after
<1>9. CASE ~ (counter > 0 /\ Due(r, dates[i], mark)) /\ counter # 0
  <2>1. counter > 0 /\ ~ Due(r, dates[i], mark)
    BY <1>4, <1>9
  <2>2. i \in E => per[i] \in before
    BY <1>5, <2>1
  <2>3. after = before
    BY <1>1, <2>2
  <2>4. counter2 = counter /\ mark2 = mark
    BY <1>9
  <2>5. \/ mark = ZeroTime /\ \A j \in E : j > i
        \/ \E j \in E : /\ j <= i /\ mark = dates[j]
                        /\ \A k \in E : j <= k /\ k <= i => per[k] = per[j]
    <3>1. CASE mark = ZeroTime /\ \A j \in E : j > i - 1
      <4>1. before = {}
        BY <1>2, <3>1
      <4>2. i \notin E
        BY <2>2, <4>1
      <4>3. \A j \in E : j > i
        BY <3>1, <4>2
      <4> QED
        BY <3>1, <4>3
    <3>2. ASSUME NEW j \in E, j <= i - 1, mark = dates[j],
                 \A k \in E : j <= k /\ k <= i - 1 => per[k] = per[j]
          PROVE  \E l \in E : /\ l <= i /\ mark = dates[l]
                              /\ \A k \in E : l <= k /\ k <= i => per[k] = per[l]
      <4>1. i \in E => per[i] = per[j]
        <5>1. i \in E => (Due(r, dates[i], dates[j]) <=> per[j] # per[i])
          BY <3>2 DEF TellsApart
        <5> QED
          BY <2>1, <3>2, <5>1
      <4>2. \A k \in E : j <= k /\ k <= i => per[k] = per[j]
        BY <3>2, <4>1
      <4> QED
        BY <3>2, <4>2
    <3> QED
      BY <2>1, <3>1, <3>2 DEF RuleTallied
  <2> QED
    BY <1>3, <1>6, <2>3, <2>4, <2>5 DEF RuleTallied, after, before
<1> QED
  BY <1>7, <1>8, <1>9

\* The single pass of cleanupSessions, for one rule that may keep something
\* and whose mark tells the periods apart: it keeps the first session of each
\* of the first periods, and as many as its limit.
THEOREM PassKeepsFirst ==
  ASSUME NEW dates, Len(dates) \in Nat, DOMAIN dates = 1..Len(dates), NEW policy \in Policies,
         NEW r \in Rules, NEW E \in SUBSET DOMAIN dates, NEW per, TellsApart(r, dates, E, per),
         NEW i \in DOMAIN dates
  PROVE  (r \in KeepTags(dates, policy)[i]) <=> KeepsFirst(E, per, policy[r], i)
<1> DEFINE t == Tally(dates, policy)
           Tallied(n) == RuleTallied(E, per, policy[r], dates, t[n].counter[r], t[n].last[r], n)
           S == {n \in Nat : n <= Len(dates) => Tallied(n)}
<1>1. /\ t[0].counter[r] = policy[r] /\ t[0].last[r] = ZeroTime
      /\ \A n \in 1..Len(dates) :
           IF t[n - 1].counter[r] > 0 /\ Due(r, dates[n], t[n - 1].last[r])
             THEN t[n].counter[r] = t[n - 1].counter[r] - 1 /\ t[n].last[r] = dates[n]
             ELSE t[n].counter[r] = t[n - 1].counter[r] /\ t[n].last[r] = t[n - 1].last[r]
  BY TallyOfRule
<1>2. policy[r] \in Nat
  BY DEF Policies
<1>3. KeepTags(dates, policy)[i] = KeptBy(dates[i], t[i - 1])
  BY TagsOfTally
<1> HIDE DEF t
<1>4. Tallied(0)
  <2>1. PeriodsBefore(E, per, 0 + 1) = {}
    BY DEF PeriodsBefore
  <2>2. Cardinality(PeriodsBefore(E, per, 0 + 1)) = 0
    BY <2>1, FS_EmptySet
  <2>3. \A j \in E : j > 0
    OBVIOUS
  <2> QED
    BY <1>1, <1>2, <2>2, <2>3 DEF RuleTallied
<1>5. ASSUME NEW n \in 1..Len(dates), Tallied(n - 1)
      PROVE  /\ t[n - 1].counter[r] > 0 /\ Due(r, dates[n], t[n - 1].last[r])
                  <=> KeepsFirst(E, per, policy[r], n)
             /\ Tallied(n)
  <2> DEFINE counter  == t[n - 1].counter[r]
             mark     == t[n - 1].last[r]
             counter2 == t[n].counter[r]
             mark2    == t[n].last[r]
  <2>1. /\ RuleTallied(E, per, policy[r], dates, counter, mark, n - 1)
        /\ IF counter > 0 /\ Due(r, dates[n], mark)
             THEN counter2 = counter - 1 /\ mark2 = dates[n]
             ELSE counter2 = counter /\ mark2 = mark
    BY <1>1, <1>5
  <2> HIDE DEF counter, mark, counter2, mark2
  <2>2. /\ counter > 0 /\ Due(r, dates[n], mark) <=> KeepsFirst(E, per, policy[r], n)
        /\ RuleTallied(E, per, policy[r], dates, counter2, mark2, n)
    BY <1>2, <2>1, RuleCounts
  <2> QED
    BY <2>2 DEF counter, mark, counter2, mark2
<1> HIDE DEF Tallied
<1>6. ASSUME NEW n \in Nat, n \in S PROVE n + 1 \in S
  <2>1. SUFFICES ASSUME n + 1 <= Len(dates) PROVE Tallied(n + 1)
    OBVIOUS
  <2>2. n + 1 \in 1..Len(dates) /\ (n + 1) - 1 = n /\ Tallied(n)
    BY <1>6, <2>1
  <2> QED
    BY <1>5, <2>2
<1>7. i - 1 \in S
  <2>1. 0 \in S
    BY <1>4
  <2>2. \A n \in Nat : n \in S
    BY <1>6, <2>1, NumbersFollow
  <2> QED
    BY <2>2
<1>8. i \in 1..Len(dates) /\ Tallied(i - 1)
  BY <1>7
<1>9. t[i - 1].counter[r] > 0 /\ Due(r, dates[i], t[i - 1].last[r])
        <=> KeepsFirst(E, per, policy[r], i)
  BY <1>5, <1>8
<1> QED
  BY <1>3, <1>9 DEF KeptBy

\* A rule with the limit 0 keeps nothing.
LEMMA PassKeepsNone ==
  ASSUME NEW dates, Len(dates) \in Nat, DOMAIN dates = 1..Len(dates), NEW policy \in Policies,
         NEW r \in Rules, policy[r] = 0, NEW i \in DOMAIN dates
  PROVE  r \notin KeepTags(dates, policy)[i]
<1> DEFINE t == Tally(dates, policy)
           S == {n \in Nat : n <= Len(dates) => t[n].counter[r] = 0}
<1>1. /\ t[0].counter[r] = policy[r]
      /\ \A n \in 1..Len(dates) :
           IF t[n - 1].counter[r] > 0 /\ Due(r, dates[n], t[n - 1].last[r])
             THEN t[n].counter[r] = t[n - 1].counter[r] - 1
             ELSE t[n].counter[r] = t[n - 1].counter[r]
  <2>1. /\ t[0].counter[r] = policy[r] /\ t[0].last[r] = ZeroTime
        /\ \A n \in 1..Len(dates) :
             IF t[n - 1].counter[r] > 0 /\ Due(r, dates[n], t[n - 1].last[r])
               THEN t[n].counter[r] = t[n - 1].counter[r] - 1 /\ t[n].last[r] = dates[n]
               ELSE t[n].counter[r] = t[n - 1].counter[r] /\ t[n].last[r] = t[n - 1].last[r]
    BY TallyOfRule
  <2> HIDE DEF t
  <2> QED
    BY <2>1
<1>2. KeepTags(dates, policy)[i] = KeptBy(dates[i], t[i - 1])
  BY TagsOfTally
<1> HIDE DEF t
<1>3. ASSUME NEW n \in Nat, n \in S PROVE n + 1 \in S
  <2>1. SUFFICES ASSUME n + 1 <= Len(dates) PROVE t[n + 1].counter[r] = 0
    OBVIOUS
  <2>2. n + 1 \in 1..Len(dates) /\ (n + 1) - 1 = n /\ t[n].counter[r] = 0
    BY <1>3, <2>1
  <2>3. ~ (t[n].counter[r] > 0)
    BY <2>2
  <2> QED
    BY <1>1, <2>2, <2>3
<1>4. i - 1 \in S
  <2>1. 0 \in S
    BY <1>1
  <2>2. \A n \in Nat : n \in S
    BY <1>3, <2>1, NumbersFollow
  <2> QED
    BY <2>2
<1>5. ~ (t[i - 1].counter[r] > 0)
  BY <1>4
<1> QED
  BY <1>2, <1>5 DEF KeptBy

\* Whatever the dates, the rule "last" keeps the first sessions.
LEMMA PassKeepsLast ==
  ASSUME NEW dates, Len(dates) \in Nat, DOMAIN dates = 1..Len(dates), NEW policy \in Policies,
         NEW i \in DOMAIN dates
  PROVE  ("last" \in KeepTags(dates, policy)[i]) <=> i <= policy["last"]
<1> DEFINE E == DOMAIN dates
           per == [j \in E |-> j]
<1>1. "last" \in Rules /\ \A date, mark : Due("last", date, mark)
  BY DEF Rules, Due
<1>2. TellsApart("last", dates, E, per)
  BY <1>1 DEF TellsApart
<1>3. PeriodsBefore(E, per, i) = 1..(i - 1)
  BY DEF PeriodsBefore
<1>4. Cardinality(PeriodsBefore(E, per, i)) = i - 1
  BY <1>3, FS_Interval
<1>5. policy["last"] \in Nat
  BY <1>1 DEF Policies
<1> HIDE DEF E, per
<1>6. ("last" \in KeepTags(dates, policy)[i]) <=> KeepsFirst(E, per, policy["last"], i)
  BY <1>1, <1>2, PassKeepsFirst DEF E
<1>7. KeepsFirst(E, per, policy["last"], i) <=> i - 1 < policy["last"]
  BY <1>3, <1>4 DEF KeepsFirst, E, per
<1> QED
  BY <1>5, <1>6, <1>7
=============================================================================
