------------------------------ MODULE MCSidecar ------------------------------
(* Small instances of Sidecar.                                             *)
EXTENDS Sidecar

Data == <<"data">>
Db   == <<"data", "db">>
Odd  == <<"cache", "db">>
Log  == <<"data", "db", "log">>
Etc  == <<"etc">>

Container(name, mounts) == [name |-> name, env |-> <<EnvVar("HOME", <<>>)>>, mounts |-> mounts]

\* Up to two mounts in any order, one below the other or with an item in
\* common by accident; the first volume is mounted at one of its directories.
Mounts ==
  {<<>>} \cup {<<Mount("v1", p, <<"s">>)>> : p \in {Data, Db, Odd}}
  \cup {<<Mount("v1", p[1], <<"s">>), Mount("v2", p[2], <<>>)>> :
          p \in {q \in {Data, Db, Odd} \X {Data, Db, Odd} : q[1] # q[2]}}

Paths == {<<p>> : p \in {Data, Db, Log, Etc}} \cup {<<Log, Data>>, <<Db, Log>>}

AppPod(mounts) ==
  [containers |-> <<Container("app", mounts),
                    [Container("web", <<Mount("v3", <<"srv">>, <<>>)>>) EXCEPT !.env = <<>>]>>,
   volumes |-> <<"v1", "v2", "v3">>, share |-> FALSE, hostPID |-> FALSE]

\* A pod that has the processes of the host.
HostPod(mounts) == [AppPod(mounts) EXCEPT !.hostPID = TRUE]

App(paths) == [name |-> "app", paths |-> paths, share |-> <<"formol-shared">>]
Web        == [name |-> "web", paths |-> <<<<"srv", "www">>>>, share |-> <<"formol-shared">>]

TargetOf(type, containers) == [type |-> type, containers |-> containers]

OwnSetups ==
  {[pod |-> AppPod(m), target |-> TargetOf(type, cs), local |-> l] :
     m \in Mounts, type \in {"Online", "Job", "Snapshot"},
     cs \in {{App(p)} : p \in Paths} \cup {{App(<<Db>>), Web}}, l \in BOOLEAN}

AllSetups ==
  OwnSetups \cup {[pod |-> HostPod(<<>>), target |-> TargetOf("Job", {App(<<Db>>)}), local |-> FALSE]}

OneContainer == {s \in OwnSetups : Web \notin s.target.containers}

Directories == <<<<"backup0">>, <<"backup1">>, <<"backup2">>>>

NewVariables == <<"A", "B", "C">>

Strings == STRING

OtherContainers == {{App(<<Db>>)}, {Web}, {App(<<Log>>), Web}}
=============================================================================
