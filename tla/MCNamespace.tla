----------------------------- MODULE MCNamespace -----------------------------
(* Small instances of Namespace: one backup and one restore.               *)
EXTENDS Namespace

CONSTANTS s1, r1, c1, c2

Online(n) == [kind |-> "Online", retry |-> n]

Plain(specs) == [exists |-> TRUE, targets |-> specs, keep |-> [r \in Rules |-> 1]]

\* The restore is of another configuration, with a target more.
RefOne     == [s \in Sessions |-> c1]
RestoreTwo == [r \in Restores |-> c2]

OneDay == <<[yearDay |-> 40, day |-> 9, month |-> 2, year |-> 2023, sunday |-> FALSE]>>

OneAndTwo == (c1 :> Plain(<<Online(1)>>)) @@ (c2 :> Plain(<<Online(1), Online(1)>>))

\* The user takes the second target out.
OneTargetEdit == {Plain(<<Online(1)>>)}
=============================================================================
