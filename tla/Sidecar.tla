------------------------------- MODULE Sidecar -------------------------------
(***************************************************************************)
(* How addSidecar and DeleteSidecar rewrite the pod of a target            *)
(* (controllers/backupconfiguration_controller_helpers.go), with           *)
(* GetVolumeMounts, GetSharedPath and GetSidecar (api/v1alpha1/common.go). *)
(*                                                                         *)
(* A path is the sequence of its items: /data/db is <<"data", "db">>; it   *)
(* is absolute and clean.  The position j that the code gives an item is   *)
(* its index here.  Updates carry the version that was read: a pod that    *)
(* was changed in between is read again, so that each rewrite is one step. *)
(***************************************************************************)
EXTENDS Integers, Sequences, FiniteSets, FiniteSetsExt, SequencesExt

CONSTANTS
  Names,       \* the names in pods and the items of paths
  Setups,      \* the pods, targets and repositories to begin with
  Retargets,   \* the lists of containers a user may change a target to
  Variables,   \* the names of the variables that users add, in their order
  BackupDir,   \* BackupDir[i]: the directory of the sidecar for the i-th path
  MaxEdits     \* bound: variables added by users and changes of the target

SidecarName  == "formol"
Tag          == "FORMOL_TARGET"
BACKUP_PATHS == "BACKUP_PATHS"
SharedVolume == "formol-shared"
ResticVolume == "restic-volume"
ResticPath   == <<"restic-repo">>

NoName == ""
NoPath == <<>>

Mount(volume, path, sub) == [volume |-> volume, path |-> path, sub |-> sub]
EnvVar(name, paths)      == [name |-> name, paths |-> paths]

Path       == Seq(Names)
EnvVars    == [name : Names, paths : Seq(Path)]
Mounting   == [volume : Names, path : Path, sub : Path]
Containers == [name : Names, env : Seq(EnvVars), mounts : Seq(Mounting)]
Pods       == [containers : Seq(Containers), volumes : Seq(Names),
               share : BOOLEAN, hostPID : BOOLEAN]

\* What a target says of a container.  SharePath has a default.
TargetContainers ==
  {c \in [name : Names, paths : Seq(Path), share : Path] :
     c.share # NoPath /\ Len(c.paths) <= Len(BackupDir)}

\* A target names a container once.
TargetLists ==
  {cs \in SUBSET TargetContainers : \A c, d \in cs : c.name = d.name => c = d}

Targets == [type : {"Online", "Job", "Snapshot"}, containers : TargetLists]

\* What the API server demands of what is rewritten: no volume twice, each
\* mount has a volume of the pod and a directory of its own, and processes
\* are not shared in a pod that has those of the host.
Valid(p) ==
  /\ IsInjective(p.volumes)
  /\ ~ (p.share /\ p.hostPID)
  /\ \A i \in DOMAIN p.containers :
       LET mounts == p.containers[i].mounts
       IN  \A j \in DOMAIN mounts :
             /\ mounts[j].volume \in ToSet(p.volumes)
             /\ mounts[j].path # NoPath
             /\ \A k \in DOMAIN mounts : mounts[k].path = mounts[j].path => k = j

\* A pod that formol has not touched: it uses none of formol's names.
Untouched(p) ==
  /\ \A i \in DOMAIN p.volumes : p.volumes[i] \notin {SharedVolume, ResticVolume}
  /\ \A i \in DOMAIN p.containers :
       /\ p.containers[i].name # SidecarName
       /\ \A j \in DOMAIN p.containers[i].env : p.containers[i].env[j].name # Tag

ASSUME NamesAssumption ==
  {SidecarName, Tag, BACKUP_PATHS, "TARGET_NAME", "POD_NAMESPACE", SharedVolume, ResticVolume,
   NoName} \cup ToSet(ResticPath) \subseteq Names
ASSUME SetupsAssumption ==
  \A setup \in Setups :
    /\ setup.pod \in Pods /\ Valid(setup.pod) /\ Untouched(setup.pod)
    /\ setup.target \in Targets
    /\ setup.local \in BOOLEAN
ASSUME RetargetsAssumption == Retargets \subseteq TargetLists
ASSUME VariablesAssumption == Variables \in Seq(Names \ {Tag})
ASSUME EditsAssumption == MaxEdits \in 0..Len(Variables)

\* Each path has a directory of its own, /backup0, /backup1 and so on.
ASSUME BackupDirAssumption ==
  /\ BackupDir \in Seq(Path)
  /\ IsInjective(BackupDir)
  /\ \A i \in DOMAIN BackupDir : Len(BackupDir[i]) = 1 /\ BackupDir[i] # ResticPath

VARIABLES
  pod,       \* the pod template on the API server
  user,      \* history: the pod as its user wrote it
  target,    \* the target as the configuration has it
  local,     \* the backend of the repository is Local
  drifted,   \* history: the target was changed under a sidecar
  edits      \* edits so far

vars == <<pod, user, target, local, drifted, edits>>

-----------------------------------------------------------------------------
(* Assembling the sidecar.                                                 *)

\* The last position at which the two paths have the same item, whatever
\* comes before it; 0 if there is none.
Agreement(mountPath, path) ==
  Max({0} \cup {j \in DOMAIN mountPath \cap DOMAIN path : mountPath[j] = path[j]})

\* Faulty variant: the first mount that agrees at all is taken.
ChooseMountFirst(mounts, path) ==
  LET agree == {i \in DOMAIN mounts : Agreement(mounts[i].path, path) > 0}
  IN  IF agree = {} THEN 0 ELSE Min(agree)

\* The mount that GetVolumeMounts takes for a path: the first one of those
\* with the longest agreement.
ChooseMount(mounts, path) ==
  LET longest == Max({0} \cup {Agreement(mounts[i].path, path) : i \in DOMAIN mounts})
  IN  IF longest = 0 THEN 0
      ELSE Min({i \in DOMAIN mounts : Agreement(mounts[i].path, path) = longest})

\* filepath.Join(dir, rel) of rel, the path relative to the mount.  As dir
\* has one item, any step up from the mount leads to the root directory.
Rebase(dir, mountPath, path) ==
  LET below(common) == SubSeq(path, common + 1, Len(path))
  IN  IF IsPrefix(mountPath, path) THEN dir \o below(Len(mountPath))
      ELSE below(Len(LongestCommonPrefix({mountPath, path})))

\* For each path a mount, and the path in the sidecar.  A path that agrees
\* with no mount gets a mount without name and directory.
GetVolumeMounts(container, paths) ==
  LET chosen == [i \in DOMAIN paths |-> ChooseMount(container.mounts, paths[i])]
  IN  [paths  |-> [i \in DOMAIN paths |->
                     IF chosen[i] = 0 THEN NoPath
                     ELSE Rebase(BackupDir[i], container.mounts[chosen[i]].path, paths[i])],
       mounts |-> [i \in DOMAIN paths |->
                     IF chosen[i] = 0 THEN Mount(NoName, NoPath, NoPath)
                     ELSE Mount(container.mounts[chosen[i]].volume, BackupDir[i],
                                container.mounts[chosen[i]].sub)]]

GetSidecar == [name   |-> SidecarName,
               env    |-> <<EnvVar("TARGET_NAME", <<>>), EnvVar("POD_NAMESPACE", <<>>)>>,
               mounts |-> <<>>]

HasSidecar(p) == \E i \in DOMAIN p.containers : p.containers[i].name = SidecarName

\* The entries of the target for a container of the pod.
Entries(container) == {e \in target.containers : e.name = container.name}
Entry(container)   == CHOOSE e \in Entries(container) : TRUE

SharedMount(container) == Mount(SharedVolume, Entry(container).share, NoPath)

\* A container of the pod once it has been visited.
Visited(container) ==
  IF Entries(container) = {} THEN container
  ELSE [container EXCEPT
          !.env    = Append(@, EnvVar(Tag, <<>>)),
          !.mounts = IF target.type = "Job" THEN Append(@, SharedMount(container)) ELSE @]

\* The sidecar after a container was visited: mounts of an earlier one are
\* replaced, its variable stays.
Extended(sidecar, container) ==
  IF Entries(container) = {} \/ target.type = "Snapshot" THEN sidecar
  ELSE IF target.type = "Job" THEN [sidecar EXCEPT !.mounts = <<SharedMount(container)>>]
  ELSE LET found == GetVolumeMounts(container, Entry(container).paths)
       IN  [sidecar EXCEPT !.env    = Append(@, EnvVar(BACKUP_PATHS, found.paths)),
                           !.mounts = found.mounts]

\* Faulty variant: each container brings the shared volume along.
SharedVolumesEach(p) ==
  [i \in 1..Cardinality({j \in DOMAIN p.containers : Entries(p.containers[j]) # {}})
     |-> SharedVolume]

\* The shared volume, if a container needs it and it is not there.
SharedVolumes(p) ==
  IF /\ \E i \in DOMAIN p.containers : Entries(p.containers[i]) # {}
     /\ \A i \in DOMAIN p.volumes : p.volumes[i] # SharedVolume
    THEN <<SharedVolume>> ELSE <<>>

\* The sidecar for a pod, all of its containers visited.
SidecarFor(p) ==
  LET upto[i \in 0..Len(p.containers)] ==
        IF i = 0 THEN GetSidecar ELSE Extended(upto[i - 1], p.containers[i])
  IN  upto[Len(p.containers)]

\* The pod that addSidecar writes when there is no sidecar yet.
WithSidecar(p) ==
  LET sidecar == SidecarFor(p)
  IN  [containers |->
         [i \in DOMAIN p.containers |-> Visited(p.containers[i])]
           \o <<IF local THEN [sidecar EXCEPT
                                 !.mounts = Append(@, Mount(ResticVolume, ResticPath, NoPath))]
                ELSE sidecar>>,
       volumes |-> p.volumes \o (IF target.type = "Job" THEN SharedVolumes(p) ELSE <<>>)
                             \o (IF local THEN <<ResticVolume>> ELSE <<>>),
       share |-> TRUE, hostPID |-> p.hostPID]

-----------------------------------------------------------------------------
(* Taking it out.                                                          *)

\* Faulty variant: the tag is taken for the last variable.
RemoveLast(env) ==
  IF \E j \in DOMAIN env : env[j].name = Tag THEN Front(env) ELSE env

\* The tag is the last variable, or else the last variable takes the place
\* of the first tag.
RemoveTag(env) ==
  LET tags == {j \in DOMAIN env : env[j].name = Tag}
  IN  IF tags = {} THEN env
      ELSE IF Len(env) > 1 /\ Last(env).name = Tag THEN Front(env)
      ELSE Front([env EXCEPT ![Min(tags)] = Last(env)])

\* The items of s at the places of a set, in their order: what the loops of
\* DeleteSidecar append to a new list.
ItemsAt(s, places) ==
  [k \in 1..Cardinality(places) |->
     s[CHOOSE i \in places : Cardinality({j \in places : j < i}) = k - 1]]

OwnMounts(mounts) == {i \in DOMAIN mounts : mounts[i].volume # SharedVolume}

OwnVolumes(volumes) == {i \in DOMAIN volumes : volumes[i] \notin {SharedVolume, ResticVolume}}

OwnContainers(containers) == {i \in DOMAIN containers : containers[i].name # SidecarName}

\* A container that stays, with its own mounts; then removeTags.
Restored(container) ==
  [container EXCEPT
     !.mounts = ItemsAt(@, OwnMounts(@)),
     !.env    = IF Entries(container) = {} THEN @ ELSE RemoveTag(@)]

\* The pod that DeleteSidecar writes.
WithoutSidecar(p) ==
  LET left == ItemsAt(p.containers, OwnContainers(p.containers))
  IN  [containers |-> [i \in DOMAIN left |-> Restored(left[i])],
       volumes    |-> ItemsAt(p.volumes, OwnVolumes(p.volumes)),
       share      |-> p.share,
       hostPID    |-> p.hostPID]

-----------------------------------------------------------------------------
(* The API server and the history of a pod.                                *)

\* A pod with a sidecar is not assembled again; one that the API server
\* refuses leaves the old one in place.
AddSidecar ==
  /\ ~ HasSidecar(pod)
  /\ Valid(WithSidecar(pod))
  /\ pod' = WithSidecar(pod)
  /\ UNCHANGED <<user, target, local, drifted, edits>>

DeleteSidecar ==
  /\ pod' = WithoutSidecar(pod)
  /\ pod' # pod
  /\ UNCHANGED <<user, target, local, drifted, edits>>

\* A user gives a container one more variable.
AddVariable(i) ==
  /\ edits < MaxEdits
  /\ edits' = edits + 1
  /\ LET new(c) == [c EXCEPT !.env = Append(@, EnvVar(Variables[edits'], <<>>))]
     IN  /\ pod'  = [pod EXCEPT !.containers[i] = new(@)]
         /\ user' = [user EXCEPT !.containers[i] = new(@)]
  /\ UNCHANGED <<target, local, drifted>>

\* A user changes the containers of the target in the configuration.
Retarget ==
  /\ edits < MaxEdits
  /\ edits' = edits + 1
  /\ \E containers \in Retargets : target' = [target EXCEPT !.containers = containers]
  /\ target' # target
  /\ drifted' = (drifted \/ HasSidecar(pod))
  /\ UNCHANGED <<pod, user, local>>

Init ==
  /\ \E setup \in Setups : pod = setup.pod /\ target = setup.target /\ local = setup.local
  /\ user = pod
  /\ drifted = FALSE
  /\ edits = 0

Next ==
  \/ AddSidecar \/ DeleteSidecar \/ Retarget
  \/ \E i \in DOMAIN user.containers : AddVariable(i)

Spec == Init /\ [][Next]_vars
-----------------------------------------------------------------------------
(* Properties.                                                             *)

\* The variables but for the tags are those of env, in whatever order.
Untagged(tagged, env) ==
  LET own == {j \in DOMAIN tagged : tagged[j].name # Tag}
  IN  \E place \in Bijection(own, DOMAIN env) : \A j \in own : tagged[j] = env[place[j]]

\* DeleteSidecar gives a pod back as its user has it: the containers with
\* their mounts, the volumes, and the variables in whatever order, those
\* included that were added behind the tag.  Tags stay behind only when the
\* target was given other containers while the sidecar was there.
RoundTrip ==
  ~ HasSidecar(pod) =>
    /\ pod.volumes = user.volumes
    /\ DOMAIN pod.containers = DOMAIN user.containers
    /\ \A i \in DOMAIN pod.containers :
         LET is == pod.containers[i] was == user.containers[i]
         IN  /\ is.name = was.name /\ is.mounts = was.mounts
             /\ Untagged(is.env, was.env)
             /\ ~ drifted => Len(is.env) = Len(was.env)

\* What a container finds at a path: a place in the volume mounted deepest
\* above it, or nothing but its own image.
Holding(mounts, path) == {i \in DOMAIN mounts : IsPrefix(mounts[i].path, path)}

Deepest(mounts, path) ==
  CHOOSE i \in Holding(mounts, path) :
    \A j \in Holding(mounts, path) : Len(mounts[j].path) <= Len(mounts[i].path)

Place(mounts, path) ==
  IF Holding(mounts, path) = {} THEN <<>>
  ELSE LET m == mounts[Deepest(mounts, path)]
       IN  <<m.volume, m.sub \o SubSeq(path, Len(m.path) + 1, Len(path))>>

TheSidecar == Last(pod.containers)

\* Of a variable given twice the last value counts.
BackupPaths ==
  LET given == {j \in DOMAIN TheSidecar.env : TheSidecar.env[j].name = BACKUP_PATHS}
  IN  TheSidecar.env[Max(given)].paths

\* The last container that the target lists.
Served ==
  LET listed == {i \in DOMAIN user.containers : Entries(user.containers[i]) # {}}
  IN  user.containers[Max(listed)]

\* The sidecar finds at the i-th of its paths what the container has at the
\* i-th of the paths to back up.
SamePlace(i) ==
  Place(TheSidecar.mounts, BackupPaths[i]) = Place(Served.mounts, Entry(Served).paths[i])

Assembled ==
  /\ HasSidecar(pod) /\ ~ drifted /\ target.type = "Online"
  /\ \E i \in DOMAIN user.containers : Entries(user.containers[i]) # {}

\* No mount above the deepest one that holds the path stands in its way: the
\* earlier ones agree with the path less far, the later ones no further.
Unambiguous(mounts, path) ==
  LET d == Deepest(mounts, path)
  IN  \A j \in DOMAIN mounts \ {d} :
        Agreement(mounts[j].path, path) < Len(mounts[d].path) + (IF j > d THEN 1 ELSE 0)

\* What is mounted below a path, and where.
Below(mounts, path) ==
  {<<mounts[i].volume, mounts[i].sub, SubSeq(mounts[i].path, Len(path) + 1, Len(mounts[i].path))>> :
     i \in {j \in DOMAIN mounts : IsStrictPrefix(path, mounts[j].path)}}

\* The i-th path is on a volume of the container, and no other mount agrees
\* with it by accident.
Findable(i) ==
  LET path == Entry(Served).paths[i]
  IN  Holding(Served.mounts, path) # {} /\ Unambiguous(Served.mounts, path)

\* For every path on a volume, also one below other mounts or with a
\* sub-path, the sidecar backs up the place where the path lies, provided that
\* no other mount agrees with the path by accident, and nothing is mounted
\* below it that the container has not there.  What the container does have
\* mounted below the path is not compared: the sidecar gets one mount for each
\* path, and the files of the others are missing from it.
PathsAreFound ==
  Assembled =>
    \A i \in DOMAIN Entry(Served).paths :
      Findable(i) =>
        /\ SamePlace(i)
        /\ Below(TheSidecar.mounts, BackupPaths[i])
             \subseteq Below(Served.mounts, Entry(Served).paths[i])

\* The pod that addSidecar writes is one the API server accepts, after any
\* history of additions, removals and changes of the target, unless a path
\* agrees with no mount at all, the shared volume goes where the user has a
\* mount of his own or the sidecar has the repository, or the pod has the
\* processes of the host.
PodIsAccepted ==
  /\ ~ HasSidecar(pod) /\ ~ pod.hostPID
  /\ \A i \in DOMAIN pod.containers :
       LET container == pod.containers[i]
       IN  Entries(container) # {} =>
             /\ target.type = "Online" =>
                  \A p \in ToSet(Entry(container).paths) : ChooseMount(container.mounts, p) # 0
             /\ target.type = "Job" =>
                  /\ \A m \in ToSet(container.mounts) : m.path # Entry(container).share
                  /\ local => Entry(container).share # ResticPath
  => Valid(WithSidecar(pod))
-----------------------------------------------------------------------------
(* What a comment says, and the code does not do.  "We have to find what   *)
(* volumes are mounted under those paths and mount them under a path that  *)
(* exists in the sidecar container" (GetVolumeMounts).                     *)

\* The sidecar finds every path to back up that is on a volume.
MountedInSidecar ==
  Assembled =>
    \A i \in DOMAIN Entry(Served).paths :
      Holding(Served.mounts, Entry(Served).paths[i]) # {} => SamePlace(i)
=============================================================================
