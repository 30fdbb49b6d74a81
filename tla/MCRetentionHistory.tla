------------------------- MODULE MCRetentionHistory -------------------------
(* Histories over a few days around the turn of a month, and around the    *)
(* turn of three years for the yearly rule.                                *)
EXTENDS RetentionHistory

Day(yearDay, day, month, year, sunday) ==
  [yearDay |-> yearDay, day |-> day, month |-> month, year |-> year, sunday |-> sunday]

Keep(last, daily, weekly, monthly, yearly) ==
  [r \in Rules |-> CASE r = "last" -> last [] r = "daily" -> daily
                     [] r = "weekly" -> weekly [] r = "monthly" -> monthly
                     [] r = "yearly" -> yearly]

\* Sundays 23 April, 30 April and 7 May; 1 May and 1 June.
Spring == <<Day(113, 23, 4, 2023, TRUE), Day(119, 29, 4, 2023, FALSE),
            Day(120, 30, 4, 2023, TRUE), Day(121, 1, 5, 2023, FALSE),
            Day(127, 7, 5, 2023, TRUE),  Day(152, 1, 6, 2023, FALSE)>>

\* 1 January of three years, and the days after.
NewYears == <<Day(1, 1, 1, 2021, FALSE), Day(2, 2, 1, 2021, FALSE),
              Day(1, 1, 1, 2022, FALSE), Day(2, 2, 1, 2022, TRUE),
              Day(1, 1, 1, 2023, TRUE)>>

MCCases ==
  {[policy |-> p, days |-> Spring] :
     p \in {Keep(1, 2, 0, 0, 0), Keep(0, 2, 3, 0, 0), Keep(1, 1, 1, 2, 0)}}
  \cup {[policy |-> p, days |-> NewYears] : p \in {Keep(1, 0, 0, 0, 2), Keep(0, 0, 0, 0, 1)}}
=============================================================================
