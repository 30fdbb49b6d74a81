----------------------- MODULE RetentionHistoryProofs -----------------------
(***************************************************************************)
(* What cleanupSessions makes of a history of backups, for any policies,   *)
(* any days and any number of backups, cleaned up after each or after      *)
(* some: it keeps the newest session of each of the last periods of every  *)
(* rule, it has never deleted what a cleanup of the whole history would    *)
(* keep, and a second cleanup changes nothing.                             *)
(*                                                                         *)
(* A cleanup is one pass over the sessions, the newest first, with a       *)
(* counter and a mark per rule.  PassKeepsFirst of AlgorithmProofs says    *)
(* which sessions such a pass keeps, by their places in the list; the      *)
(* lemmas here take it from places to sessions and from what the code      *)
(* compares to periods, with the two assumptions on the days.              *)
(***************************************************************************)
EXTENDS RetentionHistory, AlgorithmProofs

-----------------------------------------------------------------------------
(* The order of the sessions.                                              *)

\* How many sessions of S are newer than n.
Rank(S, n) == Cardinality({m \in S : m > n})

\* The newer, the fewer.
LEMMA RankFalls ==
  ASSUME NEW S \in SUBSET Nat, IsFiniteSet(S)
  PROVE  /\ \A n \in S : Rank(S, n) \in 0..(Cardinality(S) - 1)
         /\ \A m, n \in S : m < n <=> Rank(S, n) < Rank(S, m)
<1>0. \A n \in S : n \in Nat
  OBVIOUS
<1>1. \A n : IsFiniteSet({m \in S : m > n}) /\ Rank(S, n) \in Nat
  BY FS_Subset, FS_CardinalityType DEF Rank
<1>2. ASSUME NEW n \in S PROVE Rank(S, n) \in 0..(Cardinality(S) - 1)
  <2>1. {m \in S : m > n} \subseteq S /\ n \notin {m \in S : m > n}
    OBVIOUS
  <2>2. /\ Rank(S, n) <= Cardinality(S) /\ Rank(S, n) # Cardinality(S)
        /\ Cardinality(S) \in Nat /\ Rank(S, n) \in Nat
    BY <1>1, <2>1, FS_Subset, FS_CardinalityType DEF Rank
  <2> QED
    BY <2>2
<1>3. ASSUME NEW m \in S, NEW n \in S, m < n PROVE Rank(S, n) < Rank(S, m)
  <2>1. {k \in S : k > n} \subseteq {k \in S : k > m}
    <3>1. SUFFICES ASSUME NEW k \in S, k > n PROVE k > m
      OBVIOUS
    <3>2. m \in Nat /\ n \in Nat /\ k \in Nat
      OBVIOUS
    <3> QED
      BY <1>3, <3>1, <3>2
  <2>2. n \in {k \in S : k > m} /\ n \notin {k \in S : k > n}
    BY <1>3
  <2>3. Rank(S, n) <= Rank(S, m) /\ Rank(S, n) # Rank(S, m)
    BY <1>1, <2>1, <2>2, FS_Subset DEF Rank
  <2>4. Rank(S, n) \in Nat /\ Rank(S, m) \in Nat
    BY <1>1
  <2> QED
    BY <2>3, <2>4
<1>4. ASSUME NEW m \in S, NEW n \in S, Rank(S, n) < Rank(S, m) PROVE m < n
  <2>1. Rank(S, n) \in Nat /\ Rank(S, m) \in Nat /\ n \in Nat /\ m \in Nat
    BY <1>0, <1>1
  <2>2. n # m
    BY <1>4, <2>1
  <2>3. n < m => Rank(S, m) < Rank(S, n)
    BY <1>3
  <2> QED
    BY <1>4, <2>1, <2>2, <2>3
<1> QED
  BY <1>2, <1>3, <1>4

\* The order by date lists every session once, the newest first.
LEMMA OrderLists ==
  ASSUME NEW S \in SUBSET Nat, IsFiniteSet(S)
  PROVE  LET order == NewestFirst(S)
         IN  /\ Cardinality(S) \in Nat /\ DOMAIN order = 1..Cardinality(S)
             /\ \A i \in 1..Cardinality(S) : order[i] \in S /\ Rank(S, order[i]) = i - 1
             /\ \A i, j \in 1..Cardinality(S) : i < j <=> order[j] < order[i]
             /\ \A n \in S : /\ Rank(S, n) + 1 \in 1..Cardinality(S)
                             /\ order[Rank(S, n) + 1] = n
<1> DEFINE N == Cardinality(S)
           f == [n \in S |-> Rank(S, n) + 1]
           order == NewestFirst(S)
<1>1. N \in Nat
  BY FS_CardinalityType
<1>2. /\ \A n \in S : Rank(S, n) \in 0..(N - 1)
      /\ \A m, n \in S : m < n <=> Rank(S, n) < Rank(S, m)
  BY RankFalls
<1>3. f \in Injection(S, 1..N)
  <2>1. f \in [S -> 1..N]
    BY <1>1, <1>2
  <2>2. \A m, n \in S : f[m] = f[n] => m = n
    <3>1. SUFFICES ASSUME NEW m \in S, NEW n \in S, Rank(S, m) + 1 = Rank(S, n) + 1 PROVE m = n
      OBVIOUS
    <3>2. Rank(S, m) \in Int /\ Rank(S, n) \in Int /\ m \in Nat /\ n \in Nat
      BY <1>2
    <3>3. ~ (m < n) /\ ~ (n < m)
      BY <1>2, <3>1, <3>2
    <3> QED
      BY <3>2, <3>3
  <2> HIDE DEF f
  <2> QED
    BY <2>1, <2>2 DEF Injection, IsInjective
<1>4. f \in Surjection(S, 1..N)
  <2>1. IsFiniteSet(1..N) /\ Cardinality(1..N) = N
    BY <1>1, FS_Interval
  <2> HIDE DEF f
  <2> QED
    BY <1>3, <2>1, FS_Injection
<1>5. \A i \in 1..N : \E n \in S : Rank(S, n) = i - 1
  <2>1. \A i \in 1..N : \E n \in S : f[n] = i
    <3> HIDE DEF f
    <3> QED
      BY <1>4 DEF Surjection
  <2>2. \A n \in S : f[n] = Rank(S, n) + 1 /\ Rank(S, n) \in Int
    BY <1>2
  <2> HIDE DEF f
  <2> QED
    BY <2>1, <2>2
<1>6. DOMAIN order = 1..N /\ \A i \in 1..N : order[i] = CHOOSE n \in S : Rank(S, n) = i - 1
  BY DEF NewestFirst, Rank
<1>7. \A i \in 1..N : order[i] \in S /\ Rank(S, order[i]) = i - 1
  BY <1>5, <1>6
<1> HIDE DEF order, N, f
<1>8. ASSUME NEW i \in 1..N, NEW j \in 1..N PROVE i < j <=> order[j] < order[i]
  <2>1. /\ order[i] \in S /\ Rank(S, order[i]) = i - 1
        /\ order[j] \in S /\ Rank(S, order[j]) = j - 1
    BY <1>7
  <2>2. (order[j] < order[i]) <=> (Rank(S, order[i]) < Rank(S, order[j]))
    BY <1>2, <2>1
  <2>3. (order[j] < order[i]) <=> (i - 1 < j - 1)
    BY <2>1, <2>2
  <2> QED
    BY <1>1, <2>3
<1>9. ASSUME NEW n \in S
      PROVE  Rank(S, n) + 1 \in 1..N /\ order[Rank(S, n) + 1] = n
  <2>1. Rank(S, n) + 1 \in 1..N /\ Rank(S, n) \in Int
    BY <1>1, <1>2
  <2> DEFINE m == order[Rank(S, n) + 1]
  <2>2. m \in S /\ Rank(S, m) = Rank(S, n)
    BY <1>7, <2>1
  <2> HIDE DEF m
  <2>3. m \in Nat /\ n \in Nat
    BY <2>2
  <2>4. ~ (m < n) /\ ~ (n < m)
    BY <1>2, <2>1, <2>2
  <2>5. m = n
    BY <2>3, <2>4
  <2> QED
    BY <2>1, <2>5 DEF m
<1> QED
  BY <1>1, <1>6, <1>7, <1>8, <1>9 DEF order, N

-----------------------------------------------------------------------------
(* What a rule does on the days of a history.                              *)

\* The state of a history: the days do not go back, and the sessions kept
\* are some of those that came.
HistoryOK ==
  /\ case \in Cases
  /\ dates \in Seq(DOMAIN case.days)
  /\ \A m, n \in DOMAIN dates : m < n => dates[m] <= dates[n]
  /\ kept \subseteq DOMAIN dates

\* Comparing dates is comparing what the rule compares, on the days it is about.
LEMMA DueCompares ==
  ASSUME NEW rule \in Rules, rule # "last", NEW d, NEW mark
  PROVE  Due(rule, d, mark) <=> Eligible(rule, d) /\ Compared(rule, d) # Compared(rule, mark)
<1>1. CASE rule = "daily"
  BY <1>1 DEF Due, Eligible, Compared
<1>2. CASE rule = "weekly"
  BY <1>2 DEF Due, Eligible, Compared
<1>3. CASE rule = "monthly"
  BY <1>3 DEF Due, Eligible, Compared
<1>4. CASE rule = "yearly"
  BY <1>4 DEF Due, Eligible, Compared
<1> QED
  BY <1>1, <1>2, <1>3, <1>4 DEF Rules

\* What time.Time{} has everywhere.
LEMMA ZeroCompared ==
  ASSUME NEW rule \in Rules, rule # "last"
  PROVE  Compared(rule, ZeroTime) = 1
BY DEF Rules, Compared, ZeroTime

\* The days of a period are neighbours.
LEMMA PeriodsInOrder ==
  ASSUME NEW rule \in Rules, rule # "last", NEW d \in Dates, NEW e \in Dates, NEW f \in Dates,
         d = e \/ NotAfter(d, e), e = f \/ NotAfter(e, f), PeriodOf(rule, d) = PeriodOf(rule, f)
  PROVE  PeriodOf(rule, e) = PeriodOf(rule, f)
<1>1. \A x \in {d, e, f} : x.year \in Nat /\ x.month \in Nat /\ x.day \in Nat
  BY DEF Dates
<1>2. CASE rule \in {"daily", "weekly"}
  <2>1. d.year = f.year /\ d.month = f.month /\ d.day = f.day
    BY <1>2 DEF PeriodOf
  <2>2. e.year = f.year /\ e.month = f.month /\ e.day = f.day
    BY <1>1, <2>1 DEF NotAfter
  <2> QED
    BY <1>2, <2>2 DEF PeriodOf
<1>3. CASE rule = "monthly"
  <2>1. d.year = f.year /\ d.month = f.month
    BY <1>3 DEF PeriodOf
  <2>2. e.year = f.year /\ e.month = f.month
    BY <1>1, <2>1 DEF NotAfter
  <2> QED
    BY <1>3, <2>2 DEF PeriodOf
<1>4. CASE rule = "yearly"
  <2>1. d.year = f.year
    BY <1>4 DEF PeriodOf
  <2>2. e.year = f.year
    BY <1>1, <2>1 DEF NotAfter
  <2> QED
    BY <1>4, <2>2 DEF PeriodOf
<1> QED
  BY <1>2, <1>3, <1>4 DEF Rules

\* The days of the sessions.
LEMMA DaysOfSessions ==
  ASSUME HistoryOK
  PROVE  /\ case.policy \in Policies
         /\ Len(dates) \in Nat /\ DOMAIN dates = 1..Len(dates)
         /\ \A n \in DOMAIN dates : case.days[dates[n]] \in Dates /\ dates[n] \in DOMAIN case.days
         /\ \A m, n \in DOMAIN dates :
              m < n => \/ case.days[dates[m]] = case.days[dates[n]]
                       \/ NotAfter(case.days[dates[m]], case.days[dates[n]])
<1>1. case.policy \in Policies /\ case.days \in Seq(Dates)
  BY CasesAssumption DEF HistoryOK
<1>2. dates \in Seq(DOMAIN case.days)
  BY DEF HistoryOK
<1>3. \A n \in DOMAIN dates : dates[n] \in DOMAIN case.days /\ dates[n] \in Int
  BY <1>1, <1>2
<1>4. \A n \in DOMAIN dates : case.days[dates[n]] \in Dates
  BY <1>1, <1>3
<1>5. ASSUME NEW m \in DOMAIN dates, NEW n \in DOMAIN dates, m < n
      PROVE  \/ case.days[dates[m]] = case.days[dates[n]]
             \/ NotAfter(case.days[dates[m]], case.days[dates[n]])
  <2>1. dates[m] <= dates[n]
    BY <1>5 DEF HistoryOK
  <2>2. dates[m] = dates[n] \/ dates[m] < dates[n]
    BY <1>3, <2>1
  <2> QED
    BY <1>3, <2>2, OrderAssumption DEF HistoryOK
<1> QED
  BY <1>1, <1>2, <1>3, <1>4, <1>5

\* The sessions of a cleanup, the newest first.
DaysOf(S) == [i \in DOMAIN NewestFirst(S) |-> case.days[dates[NewestFirst(S)[i]]]]

EligibleOf(rule, S) == {i \in DOMAIN NewestFirst(S) : Eligible(rule, DaysOf(S)[i])}

PeriodsOf(rule, S) == [i \in DOMAIN NewestFirst(S) |-> Period(rule, NewestFirst(S)[i])]

\* A rule that is used tells the periods of the sessions apart.
LEMMA RuleTellsApart ==
  ASSUME HistoryOK, NEW S \in SUBSET DOMAIN dates, NEW rule \in Rules, case.policy[rule] > 0
  PROVE  TellsApart(rule, DaysOf(S), EligibleOf(rule, S), PeriodsOf(rule, S))
<1> DEFINE order == NewestFirst(S)
           E     == EligibleOf(rule, S)
           per   == PeriodsOf(rule, S)
           day(i) == case.days[dates[order[i]]]
<1>1. S \in SUBSET Nat /\ IsFiniteSet(S)
  <2>1. S \in SUBSET (1..Len(dates)) /\ Len(dates) \in Nat
    BY DaysOfSessions
  <2>2. IsFiniteSet(1..Len(dates))
    BY <2>1, FS_Interval
  <2> QED
    BY <2>1, <2>2, FS_Subset
<1>2. /\ Cardinality(S) \in Nat /\ DOMAIN order = 1..Cardinality(S)
      /\ \A i \in DOMAIN order : order[i] \in S
      /\ \A i, j \in DOMAIN order : i < j => order[j] < order[i]
  BY <1>1, OrderLists
<1>3. \A i \in DOMAIN order : order[i] \in DOMAIN dates /\ day(i) \in Dates
                             /\ dates[order[i]] \in DOMAIN case.days
  BY <1>2, DaysOfSessions
<1>4. \A i \in E : i \in DOMAIN order /\ Eligible(rule, day(i))
  BY DEF EligibleOf, DaysOf
<1>5. /\ DOMAIN DaysOf(S) = DOMAIN order
      /\ \A i \in DOMAIN order : /\ DaysOf(S)[i] = day(i)
                                 /\ per[i] = Period(rule, order[i])
                                 /\ i \in E <=> Eligible(rule, day(i))
  BY DEF DaysOf, PeriodsOf, EligibleOf
<1> HIDE DEF order, E, per
<1>6. ASSUME rule = "last" PROVE TellsApart(rule, DaysOf(S), E, per)
  <2>1. \A d, mark : Eligible(rule, d) /\ Due(rule, d, mark)
    BY <1>6 DEF Eligible, Due
  <2>2. \A i, j \in E : i # j => per[i] # per[j]
    <3>1. SUFFICES ASSUME NEW i \in E, NEW j \in E, i # j PROVE per[i] # per[j]
      OBVIOUS
    <3>2. i \in 1..Cardinality(S) /\ j \in 1..Cardinality(S) /\ i \in Int /\ j \in Int
      BY <1>2, <1>4
    <3>3. order[i] \in Nat /\ order[j] \in Nat
      BY <1>1, <1>2, <1>4
    <3>4. i < j \/ j < i
      BY <3>1, <3>2
    <3>5. order[i] # order[j]
      BY <1>2, <1>4, <3>3, <3>4
    <3> QED
      BY <1>4, <1>5, <1>6, <3>5 DEF Period
  <2>3. \A i \in E : i \in Int
    BY <1>2, <1>4
  <2> QED
    BY <1>5, <2>1, <2>2, <2>3 DEF TellsApart
<1>7. ASSUME rule # "last" PROVE TellsApart(rule, DaysOf(S), E, per)
  <2>1. \A i \in DOMAIN order : per[i] = PeriodOf(rule, day(i))
    BY <1>5, <1>7 DEF Period
  <2>2. \A i \in DOMAIN order : \A mark :
          Due(rule, day(i), mark) <=> Eligible(rule, day(i)) /\ Compared(rule, day(i)) # Compared(rule, mark)
    BY <1>7, DueCompares
  <2>3. \A i, j \in E : /\ Compared(rule, day(i)) # 1
                        /\ Compared(rule, day(j)) = Compared(rule, day(i)) <=> per[i] = per[j]
    <3>1. SUFFICES ASSUME NEW i \in E, NEW j \in E
                   PROVE  /\ Compared(rule, day(i)) # 1
                          /\ Compared(rule, day(j)) = Compared(rule, day(i))
                               <=> PeriodOf(rule, day(i)) = PeriodOf(rule, day(j))
      BY <1>4, <2>1
    <3>2. /\ dates[order[i]] \in DOMAIN case.days /\ dates[order[j]] \in DOMAIN case.days
          /\ Eligible(rule, day(i)) /\ Eligible(rule, day(j))
      BY <1>3, <1>4
    <3>3. case \in Cases /\ rule \in Rules \ {"last"}
      BY <1>7 DEF HistoryOK
    <3>4. \A a, b \in DOMAIN case.days :
            Eligible(rule, case.days[a]) /\ Eligible(rule, case.days[b]) =>
              /\ Compared(rule, case.days[a]) # 1
              /\ Compared(rule, case.days[a]) = Compared(rule, case.days[b])
                   <=> PeriodOf(rule, case.days[a]) = PeriodOf(rule, case.days[b])
      BY <3>3, ComparedAssumption
    <3> QED
      BY <3>2, <3>4
  <2>4. ASSUME NEW i \in E, NEW j \in E, NEW k \in E, i < j, j < k, per[i] = per[k]
        PROVE  per[j] = per[i]
    <3>1. order[j] < order[i] /\ order[k] < order[j]
      BY <1>2, <1>4, <2>4
    <3>2. /\ day(j) = day(i) \/ NotAfter(day(j), day(i))
          /\ day(k) = day(j) \/ NotAfter(day(k), day(j))
      BY <1>3, <1>4, <3>1, DaysOfSessions
    <3>3. PeriodOf(rule, day(k)) = PeriodOf(rule, day(i))
      BY <1>4, <2>1, <2>4
    <3>4. PeriodOf(rule, day(j)) = PeriodOf(rule, day(i))
      BY <1>3, <1>4, <1>7, <3>2, <3>3, PeriodsInOrder
    <3> QED
      BY <1>4, <2>1, <3>4
  <2>5. Compared(rule, ZeroTime) = 1
    BY <1>7, ZeroCompared
  <2>6. /\ \A i \in DOMAIN DaysOf(S) : \A mark : Due(rule, DaysOf(S)[i], mark) => i \in E
        /\ \A i \in E : Due(rule, DaysOf(S)[i], ZeroTime)
        /\ \A i, j \in E : i < j =>
             (Due(rule, DaysOf(S)[j], DaysOf(S)[i]) <=> per[i] # per[j])
    BY <1>4, <1>5, <2>2, <2>3, <2>5
  <2> QED
    BY <2>4, <2>6 DEF TellsApart
<1> QED
  BY <1>6, <1>7 DEF order, E, per

-----------------------------------------------------------------------------
(* The tags are the rules.                                                 *)

\* The periods of the sessions of S that are newer than n.
NewerPeriods(rule, n, S) ==
  {Period(rule, m) : m \in {k \in S : k > n /\ Eligible(rule, case.days[dates[k]])}}

\* They are finitely many.
LEMMA NewerPeriodsFinite ==
  ASSUME NEW S, IsFiniteSet(S), NEW rule, NEW n
  PROVE  IsFiniteSet(NewerPeriods(rule, n, S)) /\ Cardinality(NewerPeriods(rule, n, S)) \in Nat
<1> DEFINE D == {k \in S : k > n /\ Eligible(rule, case.days[dates[k]])}
           f == [k \in D |-> Period(rule, k)]
<1>1. IsFiniteSet(D)
  BY FS_Subset
<1>2. f \in Surjection(D, NewerPeriods(rule, n, S))
  BY DEF Surjection, NewerPeriods
<1> QED
  BY <1>1, <1>2, FS_Surjection, FS_CardinalityType

\* Sets of sessions are finite sets of numbers.
LEMMA SessionsFinite ==
  ASSUME HistoryOK, NEW S \in SUBSET DOMAIN dates
  PROVE  S \in SUBSET Nat /\ IsFiniteSet(S) /\ \A n \in S : n <= Len(dates)
<1>1. S \in SUBSET (1..Len(dates)) /\ Len(dates) \in Nat
  BY DaysOfSessions
<1>2. IsFiniteSet(1..Len(dates))
  BY <1>1, FS_Interval
<1> QED
  BY <1>1, <1>2, FS_Subset

\* A cleanup gives each session the rules it is meant to be kept by.
LEMMA TagsByRule ==
  ASSUME HistoryOK
  PROVE  \A S \in SUBSET DOMAIN dates : \A n \in S :
           Tags(S)[n] = {r \in Rules : KeepsByRule(r, n, S)}
<1> SUFFICES ASSUME NEW S \in SUBSET DOMAIN dates, NEW n \in S
             PROVE  Tags(S)[n] = {r \in Rules : KeepsByRule(r, n, S)}
  OBVIOUS
<1> DEFINE order == NewestFirst(S)
           i     == Rank(S, n) + 1
           tags  == KeepTags(DaysOf(S), case.policy)
<1>1. S \in SUBSET Nat /\ IsFiniteSet(S)
  BY SessionsFinite
<1>2. /\ Cardinality(S) \in Nat /\ DOMAIN order = 1..Cardinality(S)
      /\ \A j \in DOMAIN order : order[j] \in S /\ Rank(S, order[j]) = j - 1
      /\ \A j, k \in DOMAIN order : j < k <=> order[k] < order[j]
      /\ \A m \in S : Rank(S, m) + 1 \in DOMAIN order /\ order[Rank(S, m) + 1] = m
  BY <1>1, OrderLists
<1>3. i \in DOMAIN order /\ order[i] = n
  BY <1>2
<1>4. Tags(S)[n] = tags[i]
  <2>1. \A j \in DOMAIN order : order[j] = n => j = i
    BY <1>2
  <2>2. (CHOOSE j \in DOMAIN order : order[j] = n) = i
    BY <1>3, <2>1
  <2> HIDE DEF i
  <2> QED
    BY <2>2 DEF Tags, DaysOf
<1>5. case.policy \in Policies /\ \A r \in Rules : case.policy[r] \in Nat
  BY DaysOfSessions DEF Policies
<1>6. DOMAIN DaysOf(S) = 1..Cardinality(S) /\ Len(DaysOf(S)) = Cardinality(S)
  BY <1>2 DEF DaysOf
<1>7. tags[i] \subseteq Rules
  BY <1>3 DEF KeepTags, KeptBy, DaysOf
<1> HIDE DEF order, i, tags
<1>8. ASSUME NEW r \in Rules PROVE r \in tags[i] <=> KeepsByRule(r, n, S)
  <2>1. /\ IsFiniteSet(NewerPeriods(r, n, S)) /\ Cardinality(NewerPeriods(r, n, S)) \in Nat
    BY <1>1, NewerPeriodsFinite
  <2>2. KeepsByRule(r, n, S) <=>
          /\ Eligible(r, case.days[dates[n]])
          /\ Period(r, n) \notin NewerPeriods(r, n, S)
          /\ Cardinality(NewerPeriods(r, n, S)) < case.policy[r]
    BY DEF KeepsByRule, NewerPeriods
  <2>3. CASE case.policy[r] = 0
    <3>1. r \notin tags[i]
      BY <1>2, <1>3, <1>5, <1>6, <2>3, PassKeepsNone DEF tags
    <3> QED
      BY <2>1, <2>2, <2>3, <3>1
  <2>4. CASE case.policy[r] > 0
    <3> DEFINE E == EligibleOf(r, S)
               per == PeriodsOf(r, S)
               T == {m \in S : Eligible(r, case.days[dates[m]])}
    <3>1. TellsApart(r, DaysOf(S), E, per) /\ E \in SUBSET DOMAIN DaysOf(S)
      BY <2>4, RuleTellsApart DEF EligibleOf, DaysOf
    <3>2. /\ \A j \in DOMAIN order : per[j] = Period(r, order[j]) /\ (j \in E <=> order[j] \in T)
          /\ E \subseteq DOMAIN order
      BY <1>2 DEF EligibleOf, PeriodsOf, DaysOf, order
    <3>3. /\ \A p : p \in NewerPeriods(r, n, S) <=> \E m \in T : m > n /\ p = Period(r, m)
          /\ KeepsByRule(r, n, S) <=>
               /\ n \in T
               /\ Period(r, n) \notin NewerPeriods(r, n, S)
               /\ Cardinality(NewerPeriods(r, n, S)) < case.policy[r]
          /\ T \subseteq S
      BY <2>2 DEF NewerPeriods
    <3> HIDE DEF E, per, T
    <3>4. (r \in tags[i]) <=> KeepsFirst(E, per, case.policy[r], i)
      BY <1>2, <1>3, <1>5, <1>6, <3>1, PassKeepsFirst DEF tags
    <3>5. PeriodsBefore(E, per, i) = NewerPeriods(r, n, S)
      <4>1. ASSUME NEW p \in PeriodsBefore(E, per, i) PROVE p \in NewerPeriods(r, n, S)
        <5>1. PICK j \in E : j < i /\ p = per[j]
          BY DEF PeriodsBefore
        <5>2. order[j] \in T /\ order[j] > n /\ p = Period(r, order[j])
          BY <1>2, <1>3, <3>2, <5>1
        <5> QED
          BY <3>3, <5>2
      <4>2. ASSUME NEW p \in NewerPeriods(r, n, S) PROVE p \in PeriodsBefore(E, per, i)
        <5>1. PICK m \in T : m > n /\ p = Period(r, m)
          BY <3>3
        <5>2. PICK j \in DOMAIN order : order[j] = m
          BY <1>2, <3>3
        <5>3. j < i
          BY <1>2, <1>3, <5>1, <5>2
        <5>4. j \in E /\ per[j] = p
          BY <3>2, <5>1, <5>2
        <5> QED
          BY <5>3, <5>4 DEF PeriodsBefore
      <4> QED
        BY <4>1, <4>2
    <3>6. per[i] = Period(r, n) /\ (i \in E <=> n \in T)
      BY <1>3, <3>2
    <3> QED
      BY <3>4, <3>5, <3>6, <3>3 DEF KeepsFirst
  <2> QED
    BY <1>5, <2>3, <2>4
<1> QED
  BY <1>4, <1>7, <1>8

\* The sessions that a cleanup leaves are those kept by a rule.
LEMMA SurvivorsByRule ==
  ASSUME HistoryOK
  PROVE  \A S \in SUBSET DOMAIN dates :
           Survivors(S) = {n \in S : \E r \in Rules : KeepsByRule(r, n, S)}
<1>1. SUFFICES ASSUME NEW S \in SUBSET DOMAIN dates
               PROVE  Survivors(S) = {n \in S : \E r \in Rules : KeepsByRule(r, n, S)}
  OBVIOUS
<1>2. \A n \in S : Tags(S)[n] = {r \in Rules : KeepsByRule(r, n, S)}
  BY TagsByRule
<1>3. \A n \in S : Tags(S)[n] # {} <=> \E r \in Rules : KeepsByRule(r, n, S)
  BY <1>2
<1> QED
  BY <1>3 DEF Survivors

-----------------------------------------------------------------------------
(* The theorems.                                                           *)

\* A history goes on, and a cleanup leaves some of its sessions.
LEMMA HistoryStep ==
  ASSUME HistoryOK, [Next]_history
  PROVE  HistoryOK'
<1>1. /\ case \in Cases /\ dates \in Seq(DOMAIN case.days)
      /\ \A m, n \in DOMAIN dates : m < n => dates[m] <= dates[n]
      /\ kept \subseteq DOMAIN dates
      /\ DOMAIN dates = 1..Len(dates) /\ Len(dates) \in Nat
  BY DaysOfSessions DEF HistoryOK
<1>2. CASE Backup
  <2>1. PICK d \in DOMAIN case.days : /\ dates # <<>> => d >= Last(dates)
                                     /\ dates' = Append(dates, d)
    BY <1>2 DEF Backup
  <2>2. case' = case /\ kept' = kept \cup {Len(dates')}
    BY <1>2 DEF Backup
  <2>3. /\ dates' \in Seq(DOMAIN case.days)
        /\ Len(dates') = Len(dates) + 1 /\ DOMAIN dates' = 1..(Len(dates) + 1)
        /\ \A n \in 1..Len(dates) : dates'[n] = dates[n]
        /\ dates'[Len(dates) + 1] = d
    BY <1>1, <2>1
  <2>4. \A n \in DOMAIN dates : dates[n] <= d
    <3>1. SUFFICES ASSUME NEW n \in DOMAIN dates PROVE dates[n] <= d
      OBVIOUS
    <3>2. dates # <<>> /\ n \in 1..Len(dates) /\ Len(dates) \in DOMAIN dates
      BY <1>1
    <3>3. d >= dates[Len(dates)]
      BY <2>1, <3>2 DEF Last
    <3>4. DOMAIN case.days \subseteq Nat
      BY <1>1, CasesAssumption
    <3>5. d \in Nat /\ dates[n] \in Nat /\ dates[Len(dates)] \in Nat
      BY <1>1, <3>2, <3>4
    <3>6. n = Len(dates) \/ dates[n] <= dates[Len(dates)]
      BY <1>1, <3>2
    <3> QED
      BY <3>3, <3>5, <3>6
  <2>5. ASSUME NEW m \in DOMAIN dates', NEW n \in DOMAIN dates', m < n PROVE dates'[m] <= dates'[n]
    <3>1. m \in 1..Len(dates)
      BY <1>1, <2>3, <2>5
    <3>2. CASE n \in 1..Len(dates)
      BY <1>1, <2>3, <2>5, <3>1, <3>2
    <3>3. CASE n = Len(dates) + 1
      BY <1>1, <2>3, <2>4, <3>1, <3>3
    <3> QED
      BY <1>1, <2>3, <3>2, <3>3
  <2>6. kept' \subseteq DOMAIN dates'
    BY <1>1, <2>2, <2>3
  <2> QED
    BY <1>1, <2>2, <2>3, <2>5, <2>6 DEF HistoryOK
<1>3. CASE Cleanup
  <2>1. kept' \subseteq kept
    BY <1>3 DEF Cleanup, Survivors
  <2> QED
    BY <1>1, <1>3, <2>1 DEF Cleanup, HistoryOK
<1>4. CASE UNCHANGED history
  BY <1>1, <1>4 DEF history, HistoryOK
<1> QED
  BY <1>2, <1>3, <1>4 DEF Next

\* The inductive invariant of a history.
LEMMA HistoryInvariant == Spec => []HistoryOK
<1>1. Init => HistoryOK
  BY DEF Init, HistoryOK
<1>2. HistoryOK /\ [Next]_history => HistoryOK'
  BY HistoryStep
<1> QED
  BY <1>1, <1>2, PTL DEF Spec

\* With more sessions beside it a session is kept by fewer rules.
LEMMA FewerRules ==
  ASSUME HistoryOK, NEW S \in SUBSET DOMAIN dates, NEW T \in SUBSET S, NEW n \in T,
         NEW r \in Rules, KeepsByRule(r, n, S)
  PROVE  KeepsByRule(r, n, T)
<1>1. NewerPeriods(r, n, T) \subseteq NewerPeriods(r, n, S)
  BY DEF NewerPeriods
<1>2. IsFiniteSet(S) /\ IsFiniteSet(T)
  BY SessionsFinite, FS_Subset
<1>3. /\ IsFiniteSet(NewerPeriods(r, n, S))
      /\ Cardinality(NewerPeriods(r, n, S)) \in Nat
      /\ Cardinality(NewerPeriods(r, n, T)) \in Nat
  BY <1>2, NewerPeriodsFinite
<1>4. Cardinality(NewerPeriods(r, n, T)) <= Cardinality(NewerPeriods(r, n, S))
  BY <1>1, <1>3, FS_Subset
<1>5. case.policy[r] \in Nat
  BY DaysOfSessions DEF Policies
<1> QED
  BY <1>1, <1>3, <1>4, <1>5 DEF KeepsByRule, NewerPeriods

\* The one pass of cleanupSessions, whatever earlier cleanups have left it,
\* tags each session with exactly the rules it is to be kept by.
THEOREM TagsRight == Spec => []TagsAreTheRules
<1>1. HistoryOK => TagsAreTheRules
  BY TagsByRule DEF HistoryOK, TagsAreTheRules
<1> QED
  BY <1>1, HistoryInvariant, PTL

\* A rule that keeps a session among the survivors kept it before.  Else one
\* of the newer periods it counted has lost its sessions; the newest session
\* of such periods was itself kept by the rule, since all the periods that
\* count against it count against the older one too.
LEMMA StableTags == ASSUME HistoryOK PROVE CleanupIsStable
<1> DEFINE once == Survivors(kept)
<1>1. /\ kept \in SUBSET DOMAIN dates /\ once \in SUBSET kept
      /\ once = {n \in kept : \E r \in Rules : KeepsByRule(r, n, kept)}
  BY SurvivorsByRule DEF HistoryOK, Survivors
<1> HIDE DEF once
<1>2. SUFFICES ASSUME NEW n \in once, NEW r \in Rules
               PROVE  KeepsByRule(r, n, once) <=> KeepsByRule(r, n, kept)
  <2>1. SUFFICES ASSUME NEW m \in once PROVE Tags(once)[m] = Tags(kept)[m]
    BY DEF CleanupIsStable, once
  <2>2. /\ Tags(once)[m] = {q \in Rules : KeepsByRule(q, m, once)}
        /\ Tags(kept)[m] = {q \in Rules : KeepsByRule(q, m, kept)}
    <3>1. once \in SUBSET DOMAIN dates /\ kept \in SUBSET DOMAIN dates /\ m \in kept
      BY <1>1
    <3> QED
      BY <3>1, TagsByRule
  <2> QED
    BY <1>2, <2>2
<1>3. KeepsByRule(r, n, kept) => KeepsByRule(r, n, once)
  BY <1>1, FewerRules
<1>4. SUFFICES ASSUME KeepsByRule(r, n, once) PROVE KeepsByRule(r, n, kept)
  BY <1>3
<1> DEFINE now   == NewerPeriods(r, n, once)
           eligible == {m \in kept : Eligible(r, case.days[dates[m]])}
           lost  == {m \in eligible : m > n /\ Period(r, m) \notin now}
<1>5. /\ n \in eligible /\ Period(r, n) \notin now
      /\ Cardinality(now) < case.policy[r]
  BY <1>1, <1>4 DEF KeepsByRule, NewerPeriods
<1>6. CASE lost = {}
  <2>1. NewerPeriods(r, n, kept) = now
    <3>1. now \subseteq NewerPeriods(r, n, kept)
      BY <1>1 DEF NewerPeriods
    <3>2. NewerPeriods(r, n, kept) \subseteq now
      BY <1>6 DEF NewerPeriods
    <3> QED
      BY <3>1, <3>2
  <2> QED
    BY <1>5, <2>1 DEF KeepsByRule, NewerPeriods
<1>7. CASE lost # {}
  <2>1. /\ kept \in SUBSET Nat /\ IsFiniteSet(kept) /\ IsFiniteSet(once)
        /\ \A k \in kept : k <= Len(dates) /\ Len(dates) \in Nat
    BY <1>1, SessionsFinite, DaysOfSessions, FS_Subset
  <2>2. PICK m \in lost : \A k \in lost : k <= m
    BY <1>7, <2>1, LargestExists
  <2>3. m \in eligible /\ m \in kept /\ m > n /\ Period(r, m) \notin now
    OBVIOUS
  <2>4. ASSUME NEW k \in eligible, k > m PROVE Period(r, k) \in now
    <3>1. k \in Nat /\ m \in Nat /\ n \in Nat
      BY <1>1, <2>1, <2>3
    <3>2. k > n /\ ~ (k <= m)
      BY <2>3, <2>4, <3>1
    <3> QED
      BY <2>2, <3>2
  <2>5. ~ KeepsByRule(r, m, kept)
    <3>1. m \notin once
      BY <2>3 DEF NewerPeriods
    <3> QED
      BY <1>1, <2>3, <3>1
  <2>6. NewerPeriods(r, m, kept) \subseteq now
    BY <2>4 DEF NewerPeriods
  <2>7. ~ (Cardinality(NewerPeriods(r, m, kept)) < case.policy[r])
    <3>1. Period(r, m) \notin NewerPeriods(r, m, kept)
      BY <2>3, <2>6
    <3> QED
      BY <2>3, <2>5, <3>1 DEF KeepsByRule, NewerPeriods
  <2>8. /\ IsFiniteSet(now) /\ Cardinality(now) \in Nat
        /\ Cardinality(NewerPeriods(r, m, kept)) \in Nat
        /\ Cardinality(NewerPeriods(r, m, kept)) <= Cardinality(now)
    BY <2>1, <2>6, NewerPeriodsFinite, FS_Subset
  <2>9. case.policy[r] \in Nat
    BY DaysOfSessions DEF Policies
  <2> HIDE DEF now
  <2> QED
    BY <1>5, <2>7, <2>8, <2>9
<1> QED
  BY <1>6, <1>7

\* A cleanup right after a cleanup deletes nothing and writes the tags that
\* are there: the events of its own writes do not keep it going.
THEOREM CleanupStable == Spec => []CleanupIsStable
<1>1. HistoryOK => CleanupIsStable
  BY StableTags
<1> QED
  BY <1>1, HistoryInvariant, PTL

\* What the rules would keep of the whole history.
Wanted == {n \in DOMAIN dates : \E r \in Rules : KeepsByRule(r, n, DOMAIN dates)}

\* It is what a cleanup of the whole history would leave.
LEMMA WantedSurvive == HistoryOK => Survivors(DOMAIN dates) = Wanted
BY SurvivorsByRule DEF Wanted

\* A backup only adds newer sessions, and with them a rule keeps fewer of the
\* old ones; a cleanup sees fewer sessions, and with them it keeps more.
LEMMA WantedStep ==
  ASSUME HistoryOK, Wanted \subseteq kept, [Next]_history
  PROVE  Wanted' \subseteq kept'
<1>1. /\ DOMAIN dates = 1..Len(dates) /\ Len(dates) \in Nat
      /\ kept \subseteq DOMAIN dates
  BY DaysOfSessions DEF HistoryOK
<1>2. CASE Backup
  <2>1. PICK d \in DOMAIN case.days : dates' = Append(dates, d)
    BY <1>2 DEF Backup
  <2>2. case' = case /\ kept' = kept \cup {Len(dates')}
    BY <1>2 DEF Backup
  <2>3. /\ Len(dates') = Len(dates) + 1 /\ DOMAIN dates' = 1..(Len(dates) + 1)
        /\ \A n \in DOMAIN dates : dates'[n] = dates[n]
    BY <1>1, <2>1 DEF HistoryOK
  <2>4. SUFFICES ASSUME NEW n \in Wanted', n # Len(dates) + 1 PROVE n \in kept'
    BY <2>2, <2>3
  <2>5. n \in DOMAIN dates /\ n \in DOMAIN dates'
    BY <1>1, <2>3, <2>4 DEF Wanted
  <2>6. PICK r \in Rules : KeepsByRule(r, n, DOMAIN dates)'
    BY <2>4 DEF Wanted
  <2>7. \A m \in DOMAIN dates : Period(r, m)' = Period(r, m)
    BY <2>2, <2>3 DEF Period
  <2> DEFINE before == NewerPeriods(r, n, DOMAIN dates)
             after  == NewerPeriods(r, n, DOMAIN dates)'
             last   == Period(r, Len(dates))'
  <2>8. before \subseteq after /\ after \subseteq before \cup {last}
    <3>1. ASSUME NEW p \in before PROVE p \in after
      <4>1. PICK m \in DOMAIN dates : /\ m > n /\ Eligible(r, case.days[dates[m]])
                                      /\ p = Period(r, m)
        BY DEF NewerPeriods
      <4>2. /\ m \in DOMAIN dates' /\ Eligible(r, case'.days[dates'[m]])
            /\ p = Period(r, m)'
        BY <1>1, <2>2, <2>3, <2>7, <4>1
      <4> QED
        BY <4>1, <4>2 DEF NewerPeriods
    <3>2. ASSUME NEW p \in after, p # last PROVE p \in before
      <4>1. PICK m \in DOMAIN dates' : /\ m > n /\ Eligible(r, case'.days[dates'[m]])
                                       /\ p = Period(r, m)'
        BY DEF NewerPeriods
      <4>2. m \in DOMAIN dates
        <5>1. m # Len(dates')
          BY <3>2, <4>1
        <5> QED
          BY <1>1, <2>3, <5>1
      <4>3. Eligible(r, case.days[dates[m]]) /\ p = Period(r, m)
        BY <2>2, <2>3, <2>7, <4>1, <4>2
      <4> QED
        BY <4>1, <4>2, <4>3 DEF NewerPeriods
    <3> QED
      BY <3>1, <3>2
  <2>9. /\ IsFiniteSet(before) /\ Cardinality(before) \in Nat
        /\ IsFiniteSet(after) /\ Cardinality(after) \in Nat
        /\ Cardinality(before) <= Cardinality(after)
    <3>1. IsFiniteSet(DOMAIN dates)
      BY <1>1, FS_Interval
    <3>2. IsFiniteSet(before)
      BY <3>1, NewerPeriodsFinite
    <3> HIDE DEF before, after, last
    <3>3. IsFiniteSet(before \cup {last})
      BY <3>2, FS_AddElement
    <3> QED
      BY <2>8, <3>2, <3>3, FS_Subset, FS_CardinalityType
  <2>10. /\ Eligible(r, case.days[dates[n]]) /\ Period(r, n) \notin after
         /\ Cardinality(after) < case.policy[r]
    BY <2>2, <2>3, <2>5, <2>6, <2>7 DEF KeepsByRule, NewerPeriods
  <2>11. case.policy[r] \in Nat
    BY DaysOfSessions DEF Policies
  <2>12. /\ Eligible(r, case.days[dates[n]]) /\ Period(r, n) \notin before
         /\ Cardinality(before) < case.policy[r]
    <3> HIDE DEF before, after
    <3> QED
      BY <2>8, <2>9, <2>10, <2>11
  <2>13. KeepsByRule(r, n, DOMAIN dates)
    BY <2>12 DEF KeepsByRule, NewerPeriods
  <2>14. n \in Wanted
    BY <2>5, <2>13 DEF Wanted
  <2> QED
    BY <2>2, <2>14
<1>3. CASE Cleanup
  <2>1. Wanted' = Wanted
    BY <1>3 DEF Cleanup, Wanted, KeepsByRule, Period
  <2>2. kept' = {n \in kept : \E r \in Rules : KeepsByRule(r, n, kept)}
    BY <1>1, <1>3, SurvivorsByRule DEF Cleanup
  <2>3. ASSUME NEW n \in Wanted PROVE n \in kept'
    <3>1. PICK r \in Rules : KeepsByRule(r, n, DOMAIN dates)
      BY DEF Wanted
    <3>2. n \in kept
      OBVIOUS
    <3>3. KeepsByRule(r, n, kept)
      BY <1>1, <3>1, <3>2, FewerRules
    <3> QED
      BY <2>2, <3>2, <3>3
  <2> QED
    BY <2>1, <2>3
<1>4. CASE UNCHANGED history
  <2>1. case' = case /\ dates' = dates /\ kept' = kept
    BY <1>4 DEF history
  <2>2. Wanted' = Wanted
    BY <2>1 DEF Wanted, KeepsByRule, Period
  <2> QED
    BY <2>1, <2>2
<1> QED
  BY <1>2, <1>3, <1>4 DEF Next

\* Whenever the cleanups run, and however many were missed, a session that a
\* cleanup of the whole history would keep has not been deleted.
THEOREM NothingTooSoon == Spec => []NothingDeletedTooSoon
<1>1. Init => Wanted \subseteq kept
  BY DEF Init, Wanted
<1>2. HistoryOK /\ Wanted \subseteq kept /\ [Next]_history => (Wanted \subseteq kept)'
  BY WantedStep
<1>3. HistoryOK /\ Wanted \subseteq kept => NothingDeletedTooSoon
  BY WantedSurvive DEF NothingDeletedTooSoon
<1> QED
  BY <1>1, <1>2, <1>3, HistoryInvariant, PTL DEF Spec
=============================================================================
