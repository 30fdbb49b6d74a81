-------------------------- MODULE RetentionHistory --------------------------
(***************************************************************************)
(* The retention rules over a long history of backups.  cleanupSessions    *)
(* never sees the whole history: each cleanup looks only at what earlier   *)
(* ones left, and cleanups are missed when the controller is down.  The    *)
(* successful sessions of one configuration are numbered as they come.     *)
(***************************************************************************)
EXTENDS Retention, FiniteSetsExt, SequencesExt

CONSTANTS
  Cases,         \* the policies to try, each with the days it is tried on
  MaxSessions    \* bound: backups in a history

ASSUME CasesAssumption ==
  \A c \in Cases : c.policy \in Policies /\ c.days \in Seq(Dates)
ASSUME MaxSessionsAssumption == MaxSessions \in Nat

\* The days that a rule is about, the period of one, and what the code
\* compares to tell a period from the one before.
Eligible(rule, d) == CASE rule \in {"last", "daily"} -> TRUE
                       [] rule = "weekly"  -> d.sunday
                       [] rule = "monthly" -> d.day = 1
                       [] rule = "yearly"  -> d.yearDay = 1

PeriodOf(rule, d) == CASE rule \in {"daily", "weekly"} -> <<d.year, d.month, d.day>>
                       [] rule = "monthly" -> <<d.year, d.month>>
                       [] rule = "yearly"  -> <<d.year>>

Compared(rule, d) == CASE rule \in {"daily", "weekly"} -> d.yearDay
                       [] rule = "monthly" -> d.month
                       [] rule = "yearly"  -> d.year

NotAfter(d, e) ==
  \/ d.year < e.year
  \/ d.year = e.year /\ d.month < e.month
  \/ d.year = e.year /\ d.month = e.month /\ d.day <= e.day

\* The days come in their order.
ASSUME OrderAssumption ==
  \A c \in Cases : \A i, j \in DOMAIN c.days : i < j => NotAfter(c.days[i], c.days[j])

\* YearDay, Month or Year alone tells the periods of a rule that is used
\* apart, from each other and from those of time.Time{}.
ASSUME ComparedAssumption ==
  \A c \in Cases : \A rule \in Rules \ {"last"} :
    c.policy[rule] > 0 =>
      \A i, j \in DOMAIN c.days :
        LET d == c.days[i] e == c.days[j]
        IN  Eligible(rule, d) /\ Eligible(rule, e) =>
              /\ Compared(rule, d) # 1
              /\ Compared(rule, d) = Compared(rule, e) <=> PeriodOf(rule, d) = PeriodOf(rule, e)

VARIABLES
  case,      \* the policy and the days of this history
  dates,     \* dates[n] is the day of the n-th session, as its place in case.days
  kept       \* the sessions that still exist

history == <<case, dates, kept>>

\* The sessions of S, the newest first.
NewestFirst(S) ==
  [i \in 1..Cardinality(S) |->
     CHOOSE n \in S : Cardinality({m \in S : m > n}) = i - 1]

\* The tags that a cleanup gives the sessions of S.
Tags(S) ==
  LET order == NewestFirst(S)
      tags  == KeepTags([i \in DOMAIN order |-> case.days[dates[order[i]]]], case.policy)
  IN  [n \in S |-> tags[CHOOSE i \in DOMAIN order : order[i] = n]]

Survivors(S) == {n \in S : Tags(S)[n] # {}}

Init ==
  /\ case \in Cases
  /\ dates = <<>>
  /\ kept = {}

\* A backup on the day of the last one or later.
Backup ==
  /\ Len(dates) < MaxSessions
  /\ \E d \in DOMAIN case.days :
       /\ dates # <<>> => d >= Last(dates)
       /\ dates' = Append(dates, d)
  /\ kept' = kept \cup {Len(dates')}
  /\ UNCHANGED case

Cleanup ==
  /\ Cardinality(kept) >= 2
  /\ kept' = Survivors(kept)
  /\ UNCHANGED <<case, dates>>

Next == Backup \/ Cleanup

Spec == Init /\ [][Next]_history

-----------------------------------------------------------------------------
(* Properties.                                                             *)

\* A rule keeps one session of each period.
Period(rule, n) == IF rule = "last" THEN <<n>> ELSE PeriodOf(rule, case.days[dates[n]])

\* What the rules are meant to be, without counters and marks: a rule keeps
\* the newest session of each of the last policy[rule] periods that have one.
KeepsByRule(rule, n, S) ==
  LET newer == {Period(rule, m) : m \in {k \in S : /\ k > n
                                                  /\ Eligible(rule, case.days[dates[k]])}}
  IN  /\ Eligible(rule, case.days[dates[n]])
      /\ Period(rule, n) \notin newer
      /\ Cardinality(newer) < case.policy[rule]

\* The single pass of cleanupSessions, with a counter and the last date kept
\* per rule, tags exactly the sessions that the rules are meant to keep (on
\* days for which comparing YearDay or Month alone tells them apart).
TagsAreTheRules ==
  \A n \in kept : Tags(kept)[n] = {r \in Rules : KeepsByRule(r, n, kept)}

\* Cleaning up after every backup, after some or once at the end makes no
\* difference: whatever a cleanup of the whole history would keep has not
\* been deleted by an earlier cleanup of a part of it.
NothingDeletedTooSoon == Survivors(DOMAIN dates) \subseteq kept

\* A cleanup right after a cleanup deletes nothing and changes no tag: the
\* events of its own writes, which bring it back, do not go on for ever.
CleanupIsStable ==
  LET once == Survivors(kept)
  IN  \A n \in once : Tags(once)[n] = Tags(kept)[n]
=============================================================================
