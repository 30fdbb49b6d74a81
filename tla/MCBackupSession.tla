-------------------------- MODULE MCBackupSession ---------------------------
(* Small instances of BackupSession.                                       *)
EXTENDS BackupSession

CONSTANTS s1, s2, s3, c1, c2

Online(n)   == [kind |-> "Online", retry |-> n]
Snapshot(n) == [kind |-> "Snapshot", retry |-> n]

KeepLast(n) == [r \in Rules |-> IF r = "last" THEN n ELSE 0]

Plain(specs) == [exists |-> TRUE, targets |-> specs, keep |-> KeepLast(1)]

NoEdits == {}

\* One configuration for all the sessions.
RefOne == [s \in Sessions |-> c1]

\* A single day.
OneDay == <<[yearDay |-> 40, day |-> 9, month |-> 2, year |-> 2023, sunday |-> FALSE]>>

\* Targets: a volume snapshot between two online backups.
ThreeTargets == [c \in Confs |-> Plain(<<Online(2), Snapshot(2), Online(0)>>)]

\* Two configurations with a session each; the target of one may be retried.
RefTwo == (s1 :> c1) @@ (s2 :> c2)
OneRetried == (c1 :> Plain(<<Online(2)>>)) @@ (c2 :> Plain(<<Online(1)>>))

\* The same, or the second configuration has no targets at all.
InitWithEmpty ==
  /\ api      = [s \in Sessions |-> NoObject]
  /\ cache    = api
  /\ queue    = {}
  /\ pending  = <<>>
  /\ conf     \in {InitialConf, [InitialConf EXCEPT ![c2] = Plain(<<>>)]}
  /\ now      = 1
  /\ restarts = 0
  /\ created  = {} /\ recorded = {} /\ purged = {} /\ unpurged = {}

WithEmptySpec == InitWithEmpty /\ [][Next]_vars /\ Fairness

\* A user grows the list of targets or shrinks it, and changes the retries.
TargetEdits == {Plain(<<Online(2)>>),
                Plain(<<Online(1), Snapshot(2), Online(2), Online(1)>>)}

\* A Saturday, the Sunday after it (twice), and the first of the next month.
Days == <<[yearDay |-> 119, day |-> 29, month |-> 4, year |-> 2023, sunday |-> FALSE],
          [yearDay |-> 120, day |-> 30, month |-> 4, year |-> 2023, sunday |-> TRUE],
          [yearDay |-> 120, day |-> 30, month |-> 4, year |-> 2023, sunday |-> TRUE],
          [yearDay |-> 121, day |-> 1,  month |-> 5, year |-> 2023, sunday |-> FALSE]>>

KeepDaily == [c \in Confs |->
  [exists |-> TRUE, targets |-> <<Online(1)>>,
   keep   |-> [r \in Rules |-> IF r \in {"last", "daily"} THEN 1
                               ELSE IF r = "weekly" THEN 1 ELSE 0]]]

\* s1 and s2 have been through their backups, on days of their own, and have
\* only to be declared a Success; s3 is created later and starts on a later
\* day.  The cache is up to date.
Backedup(day) == [NewObject EXCEPT
  !.finalizer = TRUE, !.state = Finalize, !.start = day,
  !.targets   = <<[kind |-> "Online", state |-> Success, try |-> 1, snap |-> TRUE]>>]

InitBackedup ==
  /\ \E first, second \in DOMAIN Calendar :
       /\ first < second /\ second < Len(Calendar)
       /\ api = (s1 :> Backedup(first)) @@ (s2 :> Backedup(second)) @@ (s3 :> NoObject)
       /\ now = second + 1
  /\ cache    = api
  /\ queue    = {s1, s2}
  /\ pending  = <<>>
  /\ conf     = InitialConf
  /\ restarts = 0
  /\ created  = {s1, s2}
  /\ recorded = {s1, s2} \X {1}
  /\ purged   = {}
  /\ unpurged = {}

BackedupSpec == InitBackedup /\ [][Next]_vars /\ Fairness
=============================================================================
