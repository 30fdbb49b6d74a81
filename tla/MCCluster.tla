------------------------------ MODULE MCCluster ------------------------------
(* A small instance of Cluster.                                            *)
EXTENDS Cluster, TLC

CONSTANTS s1, c1, w1

RefOne   == [s \in Sessions |-> c1]
Accounts == w1 :> "default"

OneTarget == [c \in Confs |-> [image |-> "v1", plan |-> "hourly", targets |-> <<w1>>]]

KeepOne == [r \in {"last", "daily", "weekly", "monthly", "yearly"} |-> IF r = "last" THEN 1 ELSE 0]

OneDay == <<[yearDay |-> 40, day |-> 9, month |-> 2, year |-> 2023, sunday |-> FALSE]>>
=============================================================================
