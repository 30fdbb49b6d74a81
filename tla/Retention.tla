----------------------------- MODULE Retention ------------------------------
(***************************************************************************)
(* The retention rules of cleanupSessions                                  *)
(* (controllers/backupsession_controller_helper.go): which of the          *)
(* successful sessions of a configuration are kept, and for which reasons. *)
(*                                                                         *)
(* A date keeps what the rules ask of a time.Time: YearDay, Day, Month,    *)
(* Year and whether Weekday is Sunday.  A policy is the Spec.Keep of a     *)
(* configuration: how many sessions each rule may keep.                    *)
(***************************************************************************)
EXTENDS Integers, Sequences

Rules == {"last", "daily", "weekly", "monthly", "yearly"}

Policies == [Rules -> Nat]

Dates == [yearDay : 1..366, day : 1..31, month : 1..12, year : Nat, sunday : BOOLEAN]

\* Faulty variant: the rules start from the first of May 2023.
StartOfSeason == [yearDay |-> 121, day |-> 1, month |-> 5, year |-> 2023, sunday |-> FALSE]

\* time.Time{}, the Last of a rule that has not kept anything: Monday the
\* first of January of year 1.
ZeroTime == [yearDay |-> 1, day |-> 1, month |-> 1, year |-> 1, sunday |-> FALSE]

\* Faulty variant: every session of a day is its daily one.
DueEachTime(rule, date, mark) ==
  CASE rule \in {"last", "daily"} -> TRUE
    [] rule = "weekly"  -> date.sunday /\ date.yearDay # mark.yearDay
    [] rule = "monthly" -> date.day = 1 /\ date.month # mark.month
    [] rule = "yearly"  -> date.yearDay = 1 /\ date.year # mark.year

\* The rule accepts a session of this date, mark being the one it kept last.
Due(rule, date, mark) ==
  CASE rule = "last"    -> TRUE
    [] rule = "daily"   -> date.yearDay # mark.yearDay
    [] rule = "weekly"  -> date.sunday /\ date.yearDay # mark.yearDay
    [] rule = "monthly" -> date.day = 1 /\ date.month # mark.month
    [] rule = "yearly"  -> date.yearDay = 1 /\ date.year # mark.year

\* The tally: what each rule may still keep (Counter) and its mark (Last).
StartTally(policy) == [counter |-> policy, last |-> [r \in Rules |-> ZeroTime]]

KeptBy(date, tally) ==
  {r \in Rules : tally.counter[r] > 0 /\ Due(r, date, tally.last[r])}

\* Faulty variant: a rule uses itself up on sessions it does not keep.
CountAlways(date, tally) ==
  LET kept == KeptBy(date, tally)
  IN  [counter |-> [r \in Rules |-> IF tally.counter[r] > 0 THEN tally.counter[r] - 1
                                                            ELSE 0],
       last    |-> [r \in Rules |-> IF r \in kept THEN date ELSE tally.last[r]]]

Count(date, tally) ==
  LET kept == KeptBy(date, tally)
  IN  [counter |-> [r \in Rules |-> IF r \in kept THEN tally.counter[r] - 1
                                                  ELSE tally.counter[r]],
       last    |-> [r \in Rules |-> IF r \in kept THEN date ELSE tally.last[r]]]

\* The tags of each session, dates[1] being the newest one.  No tag: the
\* session is to be deleted.
KeepTags(dates, policy) ==
  LET tally[i \in 0..Len(dates)] ==
        IF i = 0 THEN StartTally(policy) ELSE Count(dates[i], tally[i - 1])
  IN  [i \in DOMAIN dates |-> KeptBy(dates[i], tally[i - 1])]
=============================================================================
