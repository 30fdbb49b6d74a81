------------------------ MODULE MCBackupConfiguration ------------------------
(* Small instances of BackupConfiguration.                                 *)
EXTENDS BackupConfiguration, TLC

CONSTANTS c1, c2, w1, w2, p1

Accounts == (w1 :> "default") @@ (w2 :> "app") @@ (p1 :> "app")

Hourly(targets) == [image |-> "v1", plan |-> "hourly", targets |-> targets]

BothTargets   == [c \in Confs |-> Hourly(<<w1, w2>>)]
OneTargetEach == (c1 :> Hourly(<<w1>>)) @@ (c2 :> Hourly(<<w2>>))

\* A new image; the cron job suspended; a Pod in the place of the second
\* target.
UpkeepEdits == {[Hourly(<<w1, w2>>) EXCEPT !.image = "v2"],
                [Hourly(<<w1, w2>>) EXCEPT !.plan = "suspended"],
                Hourly(<<w1, p1>>)}

NoEdits == {}
=============================================================================
