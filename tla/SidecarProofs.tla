--------------------------- MODULE SidecarProofs ----------------------------
(***************************************************************************)
(* Proofs about Sidecar, for pods with any containers, mounts, volumes and *)
(* variables, and any target, repository and history.                      *)
(*                                                                         *)
(* Shape relates the pod to the one its user wrote: the user's containers, *)
(* mounts and volumes come first, the user's variables are all there, and  *)
(* a container has a tag exactly while it has to.  SidecarServes says that *)
(* the sidecar fits the last container that the target lists.              *)
(***************************************************************************)
EXTENDS Sidecar, FiniteSetTheorems, SequenceTheorems, TLAPS

\* The lemmas about numbers.
A == INSTANCE AlgorithmProofs

-----------------------------------------------------------------------------
(* Numbers, sequences and places in them.                                  *)

\* The largest of a bounded set of numbers is what Max returns.
LEMMA MaxIsLargest ==
  ASSUME NEW S \in SUBSET Nat, S # {}, NEW n \in Nat, \A k \in S : k <= n
  PROVE  Max(S) \in S /\ \A k \in S : k <= Max(S)
<1>1. \E m \in S : \A k \in S : k <= m
  BY A!LargestExists
<1>2. \E m \in S : \A k \in S : m >= k
  BY <1>1
<1> QED
  BY <1>2 DEF Max

\* The smallest is what Min returns.
LEMMA MinIsSmallest ==
  ASSUME NEW S \in SUBSET Nat, S # {}
  PROVE  Min(S) \in S /\ \A k \in S : Min(S) <= k
<1>1. A!Min(S) \in S /\ \A k \in S : A!Min(S) <= k
  BY A!MinIsFirst
<1> QED
  BY <1>1 DEF Min, A!Min

\* The first n numbers are n.
LEMMA FirstNumbers ==
  ASSUME NEW n \in Nat
  PROVE  IsFiniteSet(1..n) /\ Cardinality(1..n) = n
BY FS_Interval

\* The items at the first places are the first items.
LEMMA ItemsAtStart ==
  ASSUME NEW s, NEW n \in Nat
  PROVE  ItemsAt(s, 1..n) = [k \in 1..n |-> s[k]]
<1>1. Cardinality(1..n) = n
  BY FS_Interval
<1>2. ASSUME NEW i \in 1..n PROVE Cardinality({j \in 1..n : j < i}) = i - 1
  <2>1. {j \in 1..n : j < i} = 1..(i - 1) /\ 1 \in Int /\ i - 1 \in Int
    OBVIOUS
  <2>2. Cardinality(1..(i - 1)) = i - 1
    <3>1. Cardinality(1..(i - 1)) = IF 1 > i - 1 THEN 0 ELSE i - 1 - 1 + 1
      BY <2>1, FS_Interval
    <3>2. i \in Nat /\ i >= 1
      OBVIOUS
    <3> QED
      BY <3>1, <3>2
  <2> QED
    BY <2>1, <2>2, Zenon
<1>3. ASSUME NEW k \in 1..n
      PROVE  (CHOOSE i \in 1..n : Cardinality({j \in 1..n : j < i}) = k - 1) = k
  <2>1. \A i \in 1..n : Cardinality({j \in 1..n : j < i}) = k - 1 <=> i = k
    BY <1>2
  <2> QED
    BY <2>1
<1> DEFINE at == [k \in 1..n |-> CHOOSE i \in 1..n : Cardinality({j \in 1..n : j < i}) = k - 1]
<1>4. ItemsAt(s, 1..n) = [k \in 1..n |-> s[at[k]]]
  BY <1>1 DEF ItemsAt
<1>5. \A k \in 1..n : at[k] = k
  BY <1>3
<1> HIDE DEF at
<1> QED
  BY <1>4, <1>5

\* All items but the last.
LEMMA FrontItems ==
  ASSUME NEW T, NEW s \in Seq(T)
  PROVE  Front(s) = [j \in 1..(Len(s) - 1) |-> s[j]]
<1>1. Len(s) \in Nat
  OBVIOUS
<1>2. Front(s) = SubSeq(s, 1, Len(s) - 1)
  BY DEF Front
<1>3. SubSeq(s, 1, Len(s) - 1) = [j \in 1..(Len(s) - 1) |-> s[j]]
  BY <1>1
<1> QED
  BY <1>2, <1>3

-----------------------------------------------------------------------------
(* The variables of a container.                                           *)

TagsOf(env) == {j \in DOMAIN env : env[j].name = Tag}

TagVar == EnvVar(Tag, <<>>)

\* A tag is a variable.
LEMMA TagVarType == TagVar \in EnvVars /\ TagVar.name = Tag
<1>1. <<>> \in Seq(Path)
  OBVIOUS
<1>2. "FORMOL_TARGET" \in Names
  BY NamesAssumption DEF Tag
<1> QED
  BY <1>1, <1>2 DEF TagVar, EnvVar, EnvVars, Tag

\* One place more, or one instead of another.
LEMMA PlaceIn ==
  ASSUME NEW S, NEW T, NEW place \in Bijection(S, T)
  PROVE  /\ \A j \in S : place[j] \in T
         /\ \A j, k \in S : place[j] = place[k] => j = k
         /\ \A t \in T : \E j \in S : place[j] = t
         /\ place \in [S -> T]
BY DEF Bijection, Injection, Surjection, IsInjective

LEMMA PlaceOf ==
  ASSUME NEW S, NEW T, NEW place \in [S -> T],
         \A j, k \in S : place[j] = place[k] => j = k,
         \A t \in T : \E j \in S : place[j] = t
  PROVE  place \in Bijection(S, T)
BY DEF Bijection, Injection, Surjection, IsInjective

\* Variables without a tag are as they were.
LEMMA NoTagYet ==
  ASSUME NEW env \in Seq(EnvVars), \A j \in DOMAIN env : env[j].name # Tag
  PROVE  Untagged(env, env) /\ TagsOf(env) = {}
<1> DEFINE place == [j \in DOMAIN env |-> j]
<1>1. place \in Bijection(DOMAIN env, DOMAIN env)
  <2>1. /\ place \in [DOMAIN env -> DOMAIN env]
        /\ \A j \in DOMAIN env : place[j] = j
    OBVIOUS
  <2> HIDE DEF place
  <2> QED
    BY <2>1, PlaceOf
<1>2. {j \in DOMAIN env : env[j].name # Tag} = DOMAIN env
  OBVIOUS
<1>3. \A j \in DOMAIN env : place[j] = j
  OBVIOUS
<1> HIDE DEF place
<1>4. Untagged(env, env)
  BY <1>1, <1>2, <1>3 DEF Untagged
<1> QED
  BY <1>4 DEF TagsOf

\* A tag is added.
LEMMA TagAdded ==
  ASSUME NEW env \in Seq(EnvVars), NEW was \in Seq(EnvVars), Untagged(env, was)
  PROVE  LET new == Append(env, TagVar)
         IN  /\ new \in Seq(EnvVars) /\ Untagged(new, was)
             /\ TagsOf(new) = TagsOf(env) \cup {Len(env) + 1}
<1> DEFINE new == Append(env, TagVar)
<1>1. /\ new \in Seq(EnvVars) /\ DOMAIN new = 1..(Len(env) + 1) /\ DOMAIN env = 1..Len(env)
      /\ \A j \in DOMAIN env : new[j] = env[j]
      /\ new[Len(env) + 1].name = Tag
      /\ Len(env) \in Nat
  BY TagVarType
<1> HIDE DEF new
<1>2. {j \in DOMAIN new : new[j].name # Tag} = {j \in DOMAIN env : env[j].name # Tag}
  BY <1>1
<1>3. TagsOf(new) = TagsOf(env) \cup {Len(env) + 1}
  BY <1>1 DEF TagsOf
<1>4. Untagged(new, was)
  <2>1. PICK place \in Bijection({j \in DOMAIN env : env[j].name # Tag}, DOMAIN was) :
          \A j \in {k \in DOMAIN env : env[k].name # Tag} : env[j] = was[place[j]]
    BY DEF Untagged
  <2>2. \A j \in {k \in DOMAIN new : new[k].name # Tag} : new[j] = was[place[j]]
    BY <1>1, <1>2, <2>1
  <2> QED
    BY <1>2, <2>1, <2>2 DEF Untagged
<1> QED
  BY <1>1, <1>3, <1>4 DEF new

\* A user adds a variable.
LEMMA VariableAdded ==
  ASSUME NEW env \in Seq(EnvVars), NEW was \in Seq(EnvVars), Untagged(env, was),
         NEW v \in EnvVars, v.name # Tag
  PROVE  /\ Append(env, v) \in Seq(EnvVars) /\ Untagged(Append(env, v), Append(was, v))
         /\ TagsOf(Append(env, v)) = TagsOf(env)
<1> DEFINE new == Append(env, v)
           now == Append(was, v)
<1>1. /\ new \in Seq(EnvVars) /\ DOMAIN new = 1..(Len(env) + 1) /\ DOMAIN env = 1..Len(env)
      /\ \A j \in DOMAIN env : new[j] = env[j]
      /\ new[Len(env) + 1] = v
      /\ Len(env) \in Nat
  OBVIOUS
<1>2. /\ DOMAIN now = 1..(Len(was) + 1) /\ DOMAIN was = 1..Len(was)
      /\ \A j \in DOMAIN was : now[j] = was[j]
      /\ now[Len(was) + 1] = v
      /\ Len(was) \in Nat
  OBVIOUS
<1> DEFINE own == {j \in DOMAIN env : env[j].name # Tag}
<1> HIDE DEF new, now
<1>3. /\ {j \in DOMAIN new : new[j].name # Tag} = own \cup {Len(env) + 1}
      /\ Len(env) + 1 \notin own
      /\ DOMAIN now = DOMAIN was \cup {Len(was) + 1}
      /\ Len(was) + 1 \notin DOMAIN was
  BY <1>1, <1>2
<1>4. TagsOf(new) = TagsOf(env)
  BY <1>1 DEF TagsOf
<1>5. Untagged(new, now)
  <2>1. PICK place \in Bijection(own, DOMAIN was) : \A j \in own : env[j] = was[place[j]]
    BY DEF Untagged
  <2> HIDE DEF own
  <2> DEFINE to == [j \in own \cup {Len(env) + 1} |-> IF j \in own THEN place[j] ELSE Len(was) + 1]
  <2>2. /\ \A j \in own : to[j] = place[j]
        /\ to[Len(env) + 1] = Len(was) + 1
        /\ DOMAIN to = own \cup {Len(env) + 1}
    BY <1>3
  <2>3. to \in [own \cup {Len(env) + 1} -> DOMAIN now]
    BY <1>3, <2>1, PlaceIn
  <2> HIDE DEF to
  <2>4. to \in Bijection(own \cup {Len(env) + 1}, DOMAIN now)
    <3>1. /\ \A j \in own : place[j] \in DOMAIN was
          /\ \A j, k \in own : place[j] = place[k] => j = k
          /\ \A t \in DOMAIN was : \E j \in own : place[j] = t
      BY <2>1, PlaceIn
    <3>2. \A j, k \in own \cup {Len(env) + 1} : to[j] = to[k] => j = k
      BY <1>3, <2>2, <3>1
    <3>3. \A t \in DOMAIN now : \E j \in own \cup {Len(env) + 1} : to[j] = t
      BY <1>3, <2>2, <3>1
    <3> QED
      BY <2>3, <3>2, <3>3, PlaceOf
  <2>5. \A j \in own \cup {Len(env) + 1} : new[j] = now[to[j]]
    <3>1. \A j \in own : j \in DOMAIN env /\ place[j] \in DOMAIN was
      BY <2>1, PlaceIn DEF own
    <3> QED
      BY <1>1, <1>2, <2>1, <2>2, <3>1
  <2> QED
    BY <1>3, <2>4, <2>5 DEF Untagged, own
<1> QED
  BY <1>1, <1>4, <1>5 DEF new, now

\* RemoveTag takes one tag out, if there is one, and no variable with it,
\* whether the tag is at the end or users have added variables behind it.
LEMMA TagTaken ==
  ASSUME NEW env \in Seq(EnvVars), NEW was \in Seq(EnvVars), Untagged(env, was)
  PROVE  /\ RemoveTag(env) \in Seq(EnvVars) /\ Untagged(RemoveTag(env), was)
         /\ TagsOf(env) = {} => RemoveTag(env) = env
         /\ \A t : TagsOf(env) = {t} => TagsOf(RemoveTag(env)) = {}
<1>0. DOMAIN env = 1..Len(env) /\ Len(env) \in Nat /\ TagsOf(env) \in SUBSET Nat
  BY DEF TagsOf
<1>1. CASE TagsOf(env) = {}
  BY <1>1 DEF RemoveTag, TagsOf
<1>2. ASSUME TagsOf(env) # {} PROVE
        \E m \in TagsOf(env) :
          LET new == [j \in 1..(Len(env) - 1) |-> IF j = m THEN env[Len(env)] ELSE env[j]]
          IN  RemoveTag(env) = new /\ (m # Len(env) => env[Len(env)].name # Tag \/ Len(env) = 1)
  <2>1. Len(env) \in 1..Len(env)
    BY <1>0, <1>2 DEF TagsOf
  <2>2. CASE Len(env) > 1 /\ Last(env).name = Tag
    <3>1. Len(env) \in TagsOf(env)
      BY <1>0, <2>1, <2>2 DEF TagsOf, Last
    <3>2. RemoveTag(env) = Front(env)
      BY <1>2, <2>2 DEF RemoveTag, TagsOf
    <3>3. Front(env) = [j \in 1..(Len(env) - 1) |-> IF j = Len(env) THEN env[Len(env)] ELSE env[j]]
      <4>1. Front(env) = [j \in 1..(Len(env) - 1) |-> env[j]]
        BY <1>0, FrontItems
      <4> QED
        BY <1>0, <4>1
    <3> QED
      BY <3>1, <3>2, <3>3
  <2>3. CASE ~ (Len(env) > 1 /\ Last(env).name = Tag)
    <3> DEFINE m == Min(TagsOf(env))
    <3>1. m \in TagsOf(env)
      BY <1>0, <1>2, MinIsSmallest
    <3>2. RemoveTag(env) = Front([env EXCEPT ![m] = Last(env)])
      BY <1>2, <2>3 DEF RemoveTag, TagsOf
    <3> HIDE DEF m
    <3> DEFINE moved == [env EXCEPT ![m] = Last(env)]
    <3>3. /\ moved \in Seq(EnvVars) /\ Len(moved) = Len(env)
          /\ \A j \in 1..Len(env) : moved[j] = IF j = m THEN env[Len(env)] ELSE env[j]
      <4>1. m \in 1..Len(env) /\ Last(env) = env[Len(env)] /\ env[Len(env)] \in EnvVars
        BY <1>0, <2>1, <3>1 DEF Last, TagsOf
      <4> QED
        BY <1>0, <4>1
    <3> HIDE DEF moved
    <3>4. Front(moved) = [j \in 1..(Len(env) - 1) |-> moved[j]]
      BY <3>3, FrontItems
    <3>5. RemoveTag(env) = [j \in 1..(Len(env) - 1) |-> IF j = m THEN env[Len(env)] ELSE env[j]]
      <4>1. RemoveTag(env) = Front(moved)
        BY <3>2 DEF moved
      <4>2. \A j \in 1..(Len(env) - 1) : j \in 1..Len(env)
        BY <1>0
      <4>3. [j \in 1..(Len(env) - 1) |-> moved[j]] =
              [j \in 1..(Len(env) - 1) |-> IF j = m THEN env[Len(env)] ELSE env[j]]
        BY <3>3, <4>2
      <4> QED
        BY <3>4, <4>1, <4>3, Zenon
    <3>6. env[Len(env)].name # Tag \/ Len(env) = 1
      BY <1>0, <2>1, <2>3 DEF Last
    <3> QED
      BY <3>1, <3>5, <3>6
  <2> QED
    BY <2>2, <2>3
<1>3. CASE TagsOf(env) # {}
  <2>1. PICK m \in TagsOf(env) :
          /\ RemoveTag(env) = [j \in 1..(Len(env) - 1) |-> IF j = m THEN env[Len(env)] ELSE env[j]]
          /\ m # Len(env) => env[Len(env)].name # Tag \/ Len(env) = 1
    BY <1>2, <1>3
  <2> DEFINE new == RemoveTag(env)
             n   == Len(env)
             own == {j \in DOMAIN env : env[j].name # Tag}
             left == {j \in DOMAIN new : new[j].name # Tag}
  <2>2. n \in Nat /\ n >= 1 /\ m \in 1..n /\ env[m].name = Tag /\ m \notin own
    BY <1>0, <2>1 DEF TagsOf
  <2>3. /\ DOMAIN new = 1..(n - 1)
        /\ \A j \in 1..(n - 1) : new[j] = IF j = m THEN env[n] ELSE env[j]
    BY <2>1
  <2>4. new \in Seq(EnvVars)
    <3>1. \A j \in 1..(n - 1) : new[j] \in EnvVars
      BY <1>0, <2>2, <2>3
    <3>2. n - 1 \in Nat
      BY <2>2
    <3> QED
      BY <2>1, <3>1, <3>2
  <2>5. m # n => n \in own
    <3>1. m # n => env[n].name # Tag
      BY <2>1, <2>2
    <3>2. n \in DOMAIN env
      BY <1>0, <2>2
    <3> QED
      BY <3>1, <3>2
  <2> HIDE DEF new, n, own, left
  <2>6. /\ \A j \in own : j \in 1..n /\ env[j].name # Tag
        /\ \A j \in 1..n : j \in own <=> env[j].name # Tag
    BY <1>0 DEF own, n
  <2>7. \A t : TagsOf(env) = {t} => TagsOf(new) = {}
    <3>1. SUFFICES ASSUME NEW j \in 1..(n - 1), new[j].name = Tag, TagsOf(env) = {m} PROVE FALSE
      BY <2>1, <2>3 DEF TagsOf
    <3>2. j # m => j \in TagsOf(env)
      BY <1>0, <2>2, <2>3, <3>1 DEF TagsOf, n
    <3>3. j = m => m # n /\ env[n].name = Tag
      BY <2>2, <2>3, <3>1
    <3> QED
      BY <2>5, <2>6, <3>1, <3>2, <3>3
  <2>8. Untagged(new, was)
    <3>1. PICK place \in Bijection(own, DOMAIN was) : \A j \in own : env[j] = was[place[j]]
      BY DEF Untagged, own
    <3> DEFINE from(j) == IF j = m THEN n ELSE j
               to == [j \in left |-> place[from(j)]]
    <3>2. /\ \A j \in left : from(j) \in own /\ new[j] = env[from(j)] /\ j \in 1..(n - 1)
          /\ \A j, k \in left : from(j) = from(k) => j = k
      BY <2>2, <2>3, <2>5, <2>6 DEF left
    <3>3. \A k \in own : \E j \in left : from(j) = k
      <4>1. SUFFICES ASSUME NEW k \in own PROVE \E j \in left : from(j) = k
        OBVIOUS
      <4>2. k \in 1..n /\ env[k].name # Tag /\ k # m
        BY <2>2, <2>6
      <4>3. CASE k # n
        <5>1. k \in 1..(n - 1) /\ new[k] = env[k]
          BY <2>2, <2>3, <4>2, <4>3
        <5>2. k \in left
          BY <2>3, <4>2, <5>1 DEF left
        <5> QED
          BY <4>2, <5>2
      <4>4. CASE k = n
        <5>1. m \in 1..(n - 1) /\ new[m] = env[n]
          BY <2>2, <2>3, <4>2, <4>4
        <5>2. m \in left
          BY <2>3, <4>2, <4>4, <5>1 DEF left
        <5> QED
          BY <4>4, <5>2
      <4> QED
        BY <4>3, <4>4
    <3>4. /\ \A j \in own : place[j] \in DOMAIN was
          /\ \A j, k \in own : place[j] = place[k] => j = k
          /\ \A t \in DOMAIN was : \E j \in own : place[j] = t
      BY <3>1, PlaceIn
    <3>5. \A j \in left : to[j] = place[from(j)]
      OBVIOUS
    <3>6. to \in [left -> DOMAIN was]
      BY <3>2, <3>4
    <3> HIDE DEF from, to
    <3>7. to \in Bijection(left, DOMAIN was)
      <4>1. \A j, k \in left : to[j] = to[k] => j = k
        BY <3>2, <3>4, <3>5
      <4>2. \A t \in DOMAIN was : \E j \in left : to[j] = t
        BY <3>3, <3>4, <3>5
      <4> QED
        BY <3>6, <4>1, <4>2, PlaceOf
    <3>8. \A j \in left : new[j] = was[to[j]]
      BY <3>1, <3>2, <3>5
    <3> QED
      BY <3>7, <3>8 DEF Untagged, left
  <2> QED
    BY <1>3, <2>4, <2>7, <2>8 DEF new
<1> QED
  BY <1>1, <1>3

-----------------------------------------------------------------------------
(* Paths and mounts.                                                       *)

\* What two paths have in common is no longer than either.
LEMMA CommonLength ==
  ASSUME NEW m \in Path, NEW p \in Path
  PROVE  Len(LongestCommonPrefix({m, p})) \in 0..Len(p)
<1> DEFINE C == CommonPrefixes({m, p})
           L == {Len(t) : t \in C}
<1>1. Len(m) \in Nat /\ Len(p) \in Nat
  BY DEF Path
<1>2. \A t \in C : Len(t) \in 0..Len(p)
  <2>1. SUFFICES ASSUME NEW t \in C PROVE Len(t) \in 0..Len(p)
    OBVIOUS
  <2>2. PICK s \in {m, p} : t \in Prefixes(s)
    BY <2>1 DEF CommonPrefixes
  <2>3. PICK l \in 0..Len(s) : t = SubSeq(s, 1, l)
    BY <2>2 DEF Prefixes
  <2>4. Len(t) \in Nat
    BY <1>1, <2>3 DEF Path
  <2>5. Len(t) <= Len(p)
    BY <2>1 DEF CommonPrefixes, IsPrefix
  <2> QED
    BY <1>1, <2>4, <2>5
<1>3. <<>> \in C
  <2>1. <<>> \in Prefixes(m)
    <3>1. <<>> = SubSeq(m, 1, 0) /\ 0 \in 0..Len(m)
      BY <1>1 DEF Path
    <3> QED
      BY <3>1 DEF Prefixes
  <2>2. IsPrefix(<<>>, m) /\ IsPrefix(<<>>, p)
    BY <1>1 DEF IsPrefix, Path
  <2> QED
    BY <2>1, <2>2 DEF CommonPrefixes
<1> HIDE DEF C
<1>4. L # {} /\ L \in SUBSET Nat /\ \A k \in L : k <= Len(p)
  BY <1>1, <1>2, <1>3
<1>5. PICK l \in L : \A k \in L : k <= l
  BY <1>1, <1>4, A!LargestExists
<1>6. \E t \in C : \A u \in C : Len(u) <= Len(t)
  BY <1>5
<1>7. LongestCommonPrefix({m, p}) \in C
  BY <1>6 DEF LongestCommonPrefix, C
<1> QED
  BY <1>2, <1>7

\* A path in the sidecar is a path.
LEMMA RebaseType ==
  ASSUME NEW dir \in Path, NEW m \in Path, NEW p \in Path
  PROVE  Rebase(dir, m, p) \in Path
<1>1. Len(LongestCommonPrefix({m, p})) \in Nat /\ Len(m) \in Nat /\ Len(p) \in Nat
  BY CommonLength DEF Path
<1>2. \A n \in Nat : SubSeq(p, n + 1, Len(p)) \in Path
  BY <1>1 DEF Path
<1>3. \A s, t \in Path : s \o t \in Path
  BY DEF Path
<1> QED
  BY <1>1, <1>2, <1>3 DEF Rebase

\* The last position at which two paths agree.
LEMMA AgreementIsLast ==
  ASSUME NEW m \in Path, NEW p \in Path
  PROVE  /\ Agreement(m, p) \in 0..Len(p)
         /\ Agreement(m, p) # 0 => Agreement(m, p) \in DOMAIN m
         /\ \A j \in DOMAIN m \cap DOMAIN p : m[j] = p[j] => j <= Agreement(m, p)
<1> DEFINE S == {0} \cup {j \in DOMAIN m \cap DOMAIN p : m[j] = p[j]}
<1>1. Len(p) \in Nat /\ DOMAIN p = 1..Len(p) /\ DOMAIN m = 1..Len(m)
  BY DEF Path
<1>2. S \in SUBSET Nat /\ S # {} /\ \A k \in S : k <= Len(p)
  BY <1>1
<1>3. Max(S) \in S /\ \A k \in S : k <= Max(S)
  BY <1>1, <1>2, MaxIsLargest
<1> QED
  BY <1>1, <1>3 DEF Agreement

\* The mount for a path: none agrees further with it, and none before it as far.
LEMMA ChosenIsFirst ==
  ASSUME NEW mounts \in Seq(Mounting), NEW p \in Path
  PROVE  LET c == ChooseMount(mounts, p)
             far(i) == Agreement(mounts[i].path, p)
         IN  /\ c = 0 => \A i \in DOMAIN mounts : far(i) = 0
             /\ c # 0 => /\ c \in DOMAIN mounts
                         /\ \A i \in DOMAIN mounts : far(i) <= far(c)
                         /\ \A i \in DOMAIN mounts : i < c => far(i) < far(c)
<1> DEFINE c == ChooseMount(mounts, p)
           far(i) == Agreement(mounts[i].path, p)
           S == {0} \cup {far(i) : i \in DOMAIN mounts}
           longest == Max(S)
           T == {i \in DOMAIN mounts : far(i) = longest}
<1>1. Len(p) \in Nat /\ DOMAIN mounts \in SUBSET Nat
  BY DEF Path
<1>2. \A i \in DOMAIN mounts : far(i) \in Nat /\ far(i) <= Len(p)
  <2>1. \A i \in DOMAIN mounts : mounts[i].path \in Path
    <3>1. \A i \in DOMAIN mounts : mounts[i] \in Mounting
      OBVIOUS
    <3> QED
      BY <3>1 DEF Mounting
  <2> QED
    BY <1>1, <2>1, AgreementIsLast
<1> HIDE DEF far
<1>3. longest \in S /\ \A k \in S : k <= longest
  <2>1. S \in SUBSET Nat /\ S # {} /\ \A k \in S : k <= Len(p)
    BY <1>1, <1>2
  <2> HIDE DEF S
  <2> QED
    BY <1>1, <2>1, MaxIsLargest
<1>4. c = IF longest = 0 THEN 0 ELSE Min(T)
  BY DEF ChooseMount, far
<1> HIDE DEF longest, c
<1>5. \A i \in DOMAIN mounts : far(i) <= longest
  BY <1>3
<1>6. CASE longest = 0
  BY <1>2, <1>4, <1>5, <1>6 DEF c, far
<1>7. CASE longest # 0
  <2>1. T # {} /\ T \in SUBSET Nat
    BY <1>1, <1>3, <1>7
  <2>2. Min(T) \in T /\ \A k \in T : Min(T) <= k
    BY <2>1, MinIsSmallest
  <2>3. c \in DOMAIN mounts /\ far(c) = longest /\ \A k \in T : c <= k
    BY <1>4, <1>7, <2>2
  <2>4. c # 0
    BY <2>3
  <2>5. ASSUME NEW i \in DOMAIN mounts, i < c PROVE far(i) < far(c)
    <3>1. i \in Nat /\ c \in Nat
      BY <1>1, <2>3
    <3>2. far(i) # longest
      BY <2>3, <2>5, <3>1
    <3>3. longest \in Nat
      BY <1>2, <2>3
    <3> QED
      BY <1>2, <1>5, <2>3, <3>2, <3>3
  <2> QED
    BY <1>5, <2>3, <2>4, <2>5 DEF c, far
<1> QED
  BY <1>6, <1>7

-----------------------------------------------------------------------------
(* The sidecar.                                                            *)

\* The directories of the sidecar differ.
LEMMA BackupDirs ==
  /\ \A i \in DOMAIN BackupDir :
       BackupDir[i] \in Path /\ Len(BackupDir[i]) = 1 /\ BackupDir[i] # ResticPath
  /\ \A i, j \in DOMAIN BackupDir : BackupDir[i] = BackupDir[j] => i = j
  /\ DOMAIN BackupDir = 1..Len(BackupDir) /\ Len(BackupDir) \in Nat
BY BackupDirAssumption DEF IsInjective

\* What the target says of a container.
LEMMA EntryType ==
  ASSUME target \in Targets, NEW container, Entries(container) # {}
  PROVE  /\ Entry(container).paths \in Seq(Path) /\ Entry(container).share \in Path
         /\ Entry(container).share # NoPath
         /\ Len(Entry(container).paths) <= Len(BackupDir)
<1>1. Entry(container) \in Entries(container)
  BY DEF Entry
<1>2. Entry(container) \in TargetContainers
  BY <1>1 DEF Entries, Targets, TargetLists
<1> QED
  BY <1>2 DEF TargetContainers

\* What GetVolumeMounts returns are paths and mounts.
LEMMA FoundType ==
  ASSUME NEW container \in Containers, NEW paths \in Seq(Path), Len(paths) <= Len(BackupDir)
  PROVE  LET found == GetVolumeMounts(container, paths)
         IN  found.paths \in Seq(Path) /\ found.mounts \in Seq(Mounting)
<1> DEFINE chosen == [i \in DOMAIN paths |-> ChooseMount(container.mounts, paths[i])]
           there(i) == IF chosen[i] = 0 THEN NoPath
                       ELSE Rebase(BackupDir[i], container.mounts[chosen[i]].path, paths[i])
           mount(i) == IF chosen[i] = 0 THEN Mount(NoName, NoPath, NoPath)
                       ELSE Mount(container.mounts[chosen[i]].volume, BackupDir[i],
                                  container.mounts[chosen[i]].sub)
<1>1. container.mounts \in Seq(Mounting) /\ DOMAIN paths = 1..Len(paths) /\ Len(paths) \in Nat
  BY DEF Containers
<1>2. NoPath \in Path /\ NoName \in Names
  BY NamesAssumption DEF NoPath, Path
<1>3. ASSUME NEW i \in DOMAIN paths PROVE there(i) \in Path /\ mount(i) \in Mounting
  <2>1. paths[i] \in Path /\ BackupDir[i] \in Path
    BY <1>1, BackupDirs
  <2>2. chosen[i] = 0 \/ container.mounts[chosen[i]] \in Mounting
    BY <1>1, <2>1, ChosenIsFirst
  <2> HIDE DEF chosen
  <2>3. CASE chosen[i] = 0
    BY <1>2, <2>3 DEF Mounting, Mount
  <2>4. CASE chosen[i] # 0
    BY <2>1, <2>2, <2>4, RebaseType DEF Mounting, Mount
  <2> QED
    BY <2>3, <2>4
<1>4. GetVolumeMounts(container, paths) =
        [paths |-> [i \in DOMAIN paths |-> there(i)], mounts |-> [i \in DOMAIN paths |-> mount(i)]]
  BY DEF GetVolumeMounts
<1> HIDE DEF there, mount
<1> QED
  BY <1>1, <1>3, <1>4

\* The sidecar to begin with is a container.
LEMMA GetSidecarType ==
  GetSidecar \in Containers /\ GetSidecar.name = SidecarName /\ GetSidecar.mounts = <<>>
<1>1. <<>> \in Seq(Path) /\ <<>> \in Seq(Mounting)
  OBVIOUS
<1>2. {"TARGET_NAME", "POD_NAMESPACE", SidecarName} \subseteq Names
  BY NamesAssumption
<1>3. EnvVar("TARGET_NAME", <<>>) \in EnvVars /\ EnvVar("POD_NAMESPACE", <<>>) \in EnvVars
  BY <1>1, <1>2 DEF EnvVar, EnvVars
<1>4. GetSidecar.env \in Seq(EnvVars)
  BY <1>3 DEF GetSidecar
<1> QED
  BY <1>1, <1>2, <1>4 DEF GetSidecar, Containers

\* What the sidecar has for the container it was last extended by.
Serves(sidecar, container) ==
  CASE target.type = "Snapshot" -> sidecar.mounts = <<>>
    [] target.type = "Job" -> sidecar.mounts = <<SharedMount(container)>>
    [] target.type = "Online" ->
         LET found == GetVolumeMounts(container, Entry(container).paths)
         IN  /\ sidecar.mounts = found.mounts
             /\ sidecar.env # <<>>
             /\ sidecar.env[Len(sidecar.env)] = EnvVar(BACKUP_PATHS, found.paths)

\* The shared volume is mounted.
LEMMA SharedMountType ==
  ASSUME target \in Targets, NEW container, Entries(container) # {}
  PROVE  SharedMount(container) \in Mounting
<1>1. NoPath \in Path /\ SharedVolume \in Names
  BY NamesAssumption DEF NoPath, Path
<1> QED
  BY <1>1, EntryType DEF SharedMount, Mount, Mounting

\* One container more.
LEMMA ExtendedServes ==
  ASSUME target \in Targets, NEW sidecar \in Containers, NEW container \in Containers
  PROVE  /\ Extended(sidecar, container) \in Containers
         /\ Extended(sidecar, container).name = sidecar.name
         /\ Entries(container) = {} => Extended(sidecar, container) = sidecar
         /\ target.type = "Snapshot" => Extended(sidecar, container) = sidecar
         /\ Entries(container) # {} /\ (target.type = "Snapshot" => sidecar.mounts = <<>>)
              => Serves(Extended(sidecar, container), container)
<1>1. target.type \in {"Online", "Job", "Snapshot"}
  BY DEF Targets
<1>2. CASE Entries(container) = {} \/ target.type = "Snapshot"
  BY <1>2 DEF Extended, Serves
<1>3. CASE Entries(container) # {} /\ target.type = "Job"
  <2>1. Extended(sidecar, container) = [sidecar EXCEPT !.mounts = <<SharedMount(container)>>]
    BY <1>3 DEF Extended
  <2>2. <<SharedMount(container)>> \in Seq(Mounting)
    BY <1>3, SharedMountType
  <2> QED
    BY <1>3, <2>1, <2>2 DEF Serves, Containers
<1>4. CASE Entries(container) # {} /\ target.type = "Online"
  <2> DEFINE found == GetVolumeMounts(container, Entry(container).paths)
             var   == EnvVar(BACKUP_PATHS, found.paths)
  <2>1. Extended(sidecar, container) =
          [sidecar EXCEPT !.env = Append(@, var), !.mounts = found.mounts]
    BY <1>4 DEF Extended
  <2>2. found.paths \in Seq(Path) /\ found.mounts \in Seq(Mounting)
    BY <1>4, EntryType, FoundType
  <2> HIDE DEF found
  <2>3. var \in EnvVars
    BY <2>2, NamesAssumption DEF EnvVar, EnvVars
  <2> HIDE DEF var
  <2>4. /\ sidecar.env \in Seq(EnvVars) /\ Append(sidecar.env, var) \in Seq(EnvVars)
        /\ Append(sidecar.env, var) # <<>>
        /\ Append(sidecar.env, var)[Len(Append(sidecar.env, var))] = var
    <3>1. sidecar.env \in Seq(EnvVars)
      BY DEF Containers
    <3>2. /\ Append(sidecar.env, var) \in Seq(EnvVars)
          /\ Len(Append(sidecar.env, var)) = Len(sidecar.env) + 1
          /\ Append(sidecar.env, var)[Len(sidecar.env) + 1] = var
          /\ Len(sidecar.env) \in Nat
      BY <2>3, <3>1
    <3>3. Append(sidecar.env, var) # <<>>
      BY <3>2
    <3> QED
      BY <3>1, <3>2, <3>3
  <2>5. /\ Extended(sidecar, container).env = Append(sidecar.env, var)
        /\ Extended(sidecar, container).mounts = found.mounts
        /\ Extended(sidecar, container).name = sidecar.name
        /\ Extended(sidecar, container) \in Containers
    BY <2>1, <2>2, <2>4 DEF Containers
  <2>6. Serves(Extended(sidecar, container), container)
    BY <1>4, <2>4, <2>5 DEF Serves, var, found
  <2> QED
    BY <1>4, <2>5, <2>6
<1> QED
  BY <1>1, <1>2, <1>3, <1>4

\* The sidecar after the first i containers of a pod.
IsAssembling(t, p) ==
  t = [i \in 0..Len(p.containers) |->
         IF i = 0 THEN GetSidecar ELSE Extended(t[i - 1], p.containers[i])]

\* The containers can be visited one by one.
LEMMA AssemblingExists ==
  ASSUME NEW p, Len(p.containers) \in Nat
  PROVE  \E t : IsAssembling(t, p)
<1> DEFINE Upto(t, n) == t = [i \in 0..n |-> IF i = 0 THEN GetSidecar
                                             ELSE Extended(t[i - 1], p.containers[i])]
           S == {n \in Nat : \E t : Upto(t, n)}
<1>1. 0 \in S
  <2>1. Upto([i \in 0..0 |-> GetSidecar], 0)
    OBVIOUS
  <2> QED
    BY <2>1
<1>2. ASSUME NEW n \in Nat, n \in S PROVE n + 1 \in S
  <2>1. PICK t : Upto(t, n)
    BY <1>2
  <2> DEFINE u == [i \in 0..(n + 1) |-> IF i <= n THEN t[i]
                                        ELSE Extended(t[n], p.containers[n + 1])]
  <2>2. ASSUME NEW i \in 0..(n + 1)
        PROVE  u[i] = IF i = 0 THEN GetSidecar ELSE Extended(u[i - 1], p.containers[i])
    <3>1. \A k \in 0..n : t[k] = IF k = 0 THEN GetSidecar ELSE Extended(t[k - 1], p.containers[k])
      BY <2>1
    <3>2. /\ \A k \in 0..n : u[k] = t[k]
          /\ u[n + 1] = Extended(t[n], p.containers[n + 1])
      OBVIOUS
    <3> HIDE DEF u
    <3>3. CASE i = n + 1
      BY <3>2, <3>3
    <3>4. CASE i # n + 1
      <4>1. i \in 0..n
        BY <3>4
      <4>2. CASE i = 0
        BY <3>1, <3>2, <4>1, <4>2
      <4>3. CASE i # 0
        <5>1. i - 1 \in 0..n
          BY <4>1, <4>3
        <5> QED
          BY <3>1, <3>2, <4>1, <4>3, <5>1
      <4> QED
        BY <4>2, <4>3
    <3> QED
      BY <3>3, <3>4
  <2>3. Upto(u, n + 1)
    BY <2>2
  <2>4. \E v : Upto(v, n + 1)
    BY <2>3
  <2> HIDE DEF u
  <2> QED
    BY <2>4
<1>3. Len(p.containers) \in S
  BY <1>1, <1>2, A!NumbersFollow
<1> QED
  BY <1>3 DEF IsAssembling

\* The containers of a pod that the target lists.
Listed(p) == {i \in DOMAIN p.containers : Entries(p.containers[i]) # {}}

\* The sidecar of a pod is there for the last container that the target
\* lists: the mounts of earlier ones are replaced, and of the variables the
\* last one is its.
LEMMA SidecarServesLast ==
  ASSUME target \in Targets, NEW p \in Pods
  PROVE  /\ SidecarFor(p) \in Containers
         /\ SidecarFor(p).name = SidecarName
         /\ Listed(p) = {} => SidecarFor(p).mounts = <<>>
         /\ \A k \in Listed(p) :
              (\A i \in Listed(p) : i <= k) => Serves(SidecarFor(p), p.containers[k])
<1> DEFINE n == Len(p.containers)
           t == CHOOSE u : IsAssembling(u, p)
           Good(i) ==
             /\ t[i] \in Containers /\ t[i].name = SidecarName
             /\ target.type = "Snapshot" => t[i].mounts = <<>>
             /\ (\A j \in Listed(p) : j > i) => t[i].mounts = <<>>
             /\ \A k \in Listed(p) :
                  k <= i /\ (\A j \in Listed(p) : j <= i => j <= k) => Serves(t[i], p.containers[k])
           S == {i \in Nat : i <= n => Good(i)}
<1>1. /\ n \in Nat /\ DOMAIN p.containers = 1..n
      /\ \A i \in 1..n : p.containers[i] \in Containers
      /\ Listed(p) \subseteq 1..n
  BY DEF Pods, Listed
<1>2. IsAssembling(t, p)
  BY <1>1, AssemblingExists
<1>3. SidecarFor(p) = t[n]
  BY <1>2 DEF SidecarFor, IsAssembling
<1>4. /\ t[0] = GetSidecar
      /\ \A i \in 1..n : t[i] = Extended(t[i - 1], p.containers[i])
  <2>1. t = [i \in 0..n |-> IF i = 0 THEN GetSidecar ELSE Extended(t[i - 1], p.containers[i])]
    BY <1>2, Zenon DEF IsAssembling
  <2> HIDE DEF t
  <2>2. \A i \in 0..n : t[i] = IF i = 0 THEN GetSidecar ELSE Extended(t[i - 1], p.containers[i])
    BY <2>1
  <2>3. 0 \in 0..n /\ \A i \in 1..n : i \in 0..n /\ i # 0
    BY <1>1
  <2> QED
    BY <2>2, <2>3
<1> HIDE DEF t
<1>5. Good(0)
  BY <1>1, <1>4, GetSidecarType
<1>6. ASSUME NEW i \in 1..n, Good(i - 1) PROVE Good(i)
  <2> DEFINE before == t[i - 1]
             c == p.containers[i]
  <2>1. /\ t[i] = Extended(before, c) /\ c \in Containers
        /\ before \in Containers /\ before.name = SidecarName
    BY <1>1, <1>4, <1>6
  <2>2. /\ t[i] \in Containers /\ t[i].name = SidecarName
        /\ Entries(c) = {} => t[i] = before
        /\ target.type = "Snapshot" => t[i] = before
        /\ Entries(c) # {} /\ (target.type = "Snapshot" => before.mounts = <<>>) => Serves(t[i], c)
    BY <2>1, ExtendedServes
  <2>3. target.type = "Snapshot" => before.mounts = <<>>
    BY <1>6
  <2>4. i \in Nat /\ \A j \in Listed(p) : j \in Nat
    BY <1>1
  <2>5. CASE Entries(c) = {}
    <3>1. i \notin Listed(p)
      BY <2>5 DEF Listed
    <3>2. \A j \in Listed(p) : (j <= i <=> j <= i - 1) /\ (j > i <=> j > i - 1)
      BY <2>4, <3>1
    <3>3. t[i] = before
      BY <2>2, <2>5
    <3> QED
      BY <1>6, <2>2, <2>3, <3>2, <3>3
  <2>6. CASE Entries(c) # {}
    <3>1. i \in Listed(p) /\ ~ (i > i)
      BY <1>1, <2>4, <2>6 DEF Listed
    <3>2. Serves(t[i], c)
      BY <2>2, <2>3, <2>6
    <3>3. ASSUME NEW k \in Listed(p), k <= i, \A j \in Listed(p) : j <= i => j <= k
          PROVE  k = i
      BY <2>4, <3>1, <3>3
    <3> QED
      BY <2>2, <2>3, <3>1, <3>2, <3>3
  <2> QED
    BY <2>5, <2>6
<1>7. n \in S
  <2>1. 0 \in S
    BY <1>5
  <2>2. ASSUME NEW i \in Nat, i \in S PROVE i + 1 \in S
    <3>1. CASE i + 1 <= n
      <4>1. Good(i) /\ i + 1 \in 1..n /\ (i + 1) - 1 = i
        BY <1>1, <2>2, <3>1
      <4>2. Good((i + 1) - 1)
        BY <4>1
      <4> HIDE DEF Good
      <4> QED
        BY <1>6, <4>1, <4>2
    <3>2. CASE ~ (i + 1 <= n)
      BY <2>2, <3>2
    <3> QED
      BY <3>1, <3>2
  <2> HIDE DEF S
  <2> QED
    BY <1>1, <2>1, <2>2, A!NumbersFollow
<1>8. Good(n)
  BY <1>1, <1>7
<1>9. \A j \in Listed(p) : j <= n
  BY <1>1
<1> QED
  BY <1>3, <1>8, <1>9

-----------------------------------------------------------------------------
(* What the rewrites leave of the pod as its user wrote it.                *)

\* The items of short come first, and the places are theirs.
Keeps(long, short, places) ==
  /\ places = 1..Len(short)
  /\ Len(short) <= Len(long)
  /\ \A k \in 1..Len(short) : long[k] = short[k]

\* Taking the items at their places gives them back.
LEMMA KeptItems ==
  ASSUME NEW T, NEW short \in Seq(T), NEW long, NEW places, Keeps(long, short, places)
  PROVE  ItemsAt(long, places) = short
<1>1. Len(short) \in Nat /\ short = [k \in 1..Len(short) |-> short[k]]
  OBVIOUS
<1>2. ItemsAt(long, places) = [k \in 1..Len(short) |-> long[k]]
  BY <1>1, ItemsAtStart DEF Keeps
<1>3. [k \in 1..Len(short) |-> long[k]] = [k \in 1..Len(short) |-> short[k]]
  BY DEF Keeps
<1> QED
  BY <1>1, <1>2, <1>3

\* A container of the pod and the one the user wrote.
SameContainer(is, was) ==
  /\ is.name = was.name
  /\ Keeps(is.mounts, was.mounts, OwnMounts(is.mounts))
  /\ Untagged(is.env, was.env)

\* The invariant, part by part: the types,
TypeOK ==
  /\ pod \in Pods /\ user \in Pods
  /\ target \in Targets
  /\ local \in BOOLEAN /\ drifted \in BOOLEAN
  /\ edits \in 0..MaxEdits

\* the user's own pod,
UserKeeps == Valid(user) /\ Untouched(user)

\* what the pod has of it,
PodKeeps ==
  /\ Len(pod.containers) <= Len(user.containers) + 1
  /\ Len(user.containers) <= Len(pod.containers)
  /\ OwnContainers(pod.containers) = 1..Len(user.containers)
  /\ Keeps(pod.volumes, user.volumes, OwnVolumes(pod.volumes))
  /\ \A i \in DOMAIN user.containers : SameContainer(pod.containers[i], user.containers[i])
  /\ ~ HasSidecar(pod) =>
       /\ pod.volumes = user.volumes
       /\ \A i \in DOMAIN user.containers : pod.containers[i].mounts = user.containers[i].mounts

\* and the tags: a container has one while the sidecar is there and the
\* target lists it.
TagsCounted ==
  ~ drifted =>
    \A i \in DOMAIN user.containers :
      IF HasSidecar(pod) /\ Entries(user.containers[i]) # {}
        THEN \E t : TagsOf(pod.containers[i].env) = {t}
        ELSE TagsOf(pod.containers[i].env) = {}

\* The inductive invariant.
Shape == TypeOK /\ UserKeeps /\ PodKeeps /\ TagsCounted

\* The containers of a pod.
LEMMA PodParts ==
  ASSUME NEW p \in Pods
  PROVE  /\ p.containers \in Seq(Containers) /\ Len(p.containers) \in Nat
         /\ DOMAIN p.containers = 1..Len(p.containers)
         /\ \A i \in DOMAIN p.containers :
              /\ p.containers[i] \in Containers
              /\ p.containers[i].name \in Names
              /\ p.containers[i].env \in Seq(EnvVars)
              /\ p.containers[i].mounts \in Seq(Mounting)
         /\ p.volumes \in Seq(Names)
         /\ p.share \in BOOLEAN /\ p.hostPID \in BOOLEAN
<1>1. /\ p.containers \in Seq(Containers) /\ p.volumes \in Seq(Names)
      /\ p.share \in BOOLEAN /\ p.hostPID \in BOOLEAN
  BY DEF Pods
<1>2. \A i \in DOMAIN p.containers : p.containers[i] \in Containers
  BY <1>1
<1> QED
  BY <1>1, <1>2 DEF Containers

\* Mounts of users are not on formol's volumes.
LEMMA MountsOwn ==
  ASSUME NEW p \in Pods, Valid(p), Untouched(p), NEW i \in DOMAIN p.containers
  PROVE  /\ \A j \in DOMAIN p.containers[i].mounts :
              p.containers[i].mounts[j].volume \notin {SharedVolume, ResticVolume}
         /\ OwnMounts(p.containers[i].mounts) = 1..Len(p.containers[i].mounts)
<1>1. \A j \in DOMAIN p.containers[i].mounts :
        p.containers[i].mounts[j].volume \notin {SharedVolume, ResticVolume}
  BY DEF Valid, Untouched, ToSet
<1>2. DOMAIN p.containers[i].mounts = 1..Len(p.containers[i].mounts)
  BY PodParts
<1> QED
  BY <1>1, <1>2 DEF OwnMounts

\* A sequence keeps itself.
LEMMA KeepsItself ==
  ASSUME NEW T, NEW s \in Seq(T), NEW places, places = 1..Len(s)
  PROVE  Keeps(s, s, places)
BY DEF Keeps

\* A pod is one longer with the sidecar than without it.
LEMMA SidecarIsLast ==
  ASSUME TypeOK, PodKeeps
  PROVE  LET n == Len(user.containers)
         IN  /\ n \in Nat /\ DOMAIN user.containers = 1..n
             /\ \A i \in 1..n : i \in DOMAIN pod.containers
             /\ ~ HasSidecar(pod) => Len(pod.containers) = n
             /\ HasSidecar(pod) => Len(pod.containers) = n + 1
<1> DEFINE n == Len(user.containers)
           m == Len(pod.containers)
<1>1. n \in Nat /\ m \in Nat /\ DOMAIN user.containers = 1..n /\ DOMAIN pod.containers = 1..m
  BY PodParts DEF TypeOK
<1>2. m <= n + 1 /\ n <= m /\ OwnContainers(pod.containers) = 1..n
  BY DEF PodKeeps
<1>3. \A i \in 1..m : i \in 1..n <=> pod.containers[i].name # SidecarName
  BY <1>1, <1>2 DEF OwnContainers
<1>4. HasSidecar(pod) <=> \E i \in 1..m : pod.containers[i].name = SidecarName
  BY <1>1 DEF HasSidecar
<1> HIDE DEF n, m
<1>5. ~ HasSidecar(pod) => m = n
  <2>1. SUFFICES ASSUME ~ HasSidecar(pod), m # n PROVE FALSE
    OBVIOUS
  <2>2. m \in 1..m /\ m \notin 1..n
    BY <1>1, <1>2, <2>1
  <2> QED
    BY <1>3, <1>4, <2>1, <2>2
<1>6. HasSidecar(pod) => m = n + 1
  <2>1. SUFFICES ASSUME HasSidecar(pod), m # n + 1 PROVE FALSE
    OBVIOUS
  <2>2. m = n
    BY <1>1, <1>2, <2>1
  <2> QED
    BY <1>3, <1>4, <2>1, <2>2
<1> QED
  BY <1>1, <1>2, <1>5, <1>6 DEF n, m

\* The invariant says that a pod comes back as its user has it.
LEMMA ShapeTrip == Shape => RoundTrip
<1>1. SUFFICES ASSUME Shape, ~ HasSidecar(pod) PROVE
        /\ pod.volumes = user.volumes
        /\ DOMAIN pod.containers = DOMAIN user.containers
        /\ \A i \in DOMAIN pod.containers :
             /\ pod.containers[i].name = user.containers[i].name
             /\ pod.containers[i].mounts = user.containers[i].mounts
             /\ Untagged(pod.containers[i].env, user.containers[i].env)
             /\ ~ drifted => Len(pod.containers[i].env) = Len(user.containers[i].env)
  BY DEF RoundTrip
<1>2. TypeOK /\ PodKeeps /\ TagsCounted /\ pod \in Pods /\ user \in Pods
  BY <1>1 DEF Shape, TypeOK
<1>3. /\ DOMAIN pod.containers = DOMAIN user.containers
      /\ pod.volumes = user.volumes
  BY <1>1, <1>2, SidecarIsLast, PodParts DEF PodKeeps
<1>4. ASSUME NEW i \in DOMAIN user.containers, ~ drifted
      PROVE  Len(pod.containers[i].env) = Len(user.containers[i].env)
  <2> DEFINE is == pod.containers[i].env
             was == user.containers[i].env
  <2>1. is \in Seq(EnvVars) /\ was \in Seq(EnvVars)
    BY <1>2, <1>3, PodParts
  <2>2. Untagged(is, was) /\ TagsOf(is) = {}
    BY <1>1, <1>2, <1>4 DEF PodKeeps, SameContainer, TagsCounted
  <2> HIDE DEF is, was
  <2>3. {j \in DOMAIN is : is[j].name # Tag} = DOMAIN is
    BY <2>2 DEF TagsOf
  <2>4. PICK place \in Bijection(DOMAIN is, DOMAIN was) : TRUE
    BY <2>2, <2>3 DEF Untagged
  <2>5. /\ DOMAIN is = 1..Len(is) /\ DOMAIN was = 1..Len(was)
        /\ Len(is) \in Nat /\ Len(was) \in Nat
    BY <2>1
  <2>6. /\ IsFiniteSet(DOMAIN is) /\ Cardinality(DOMAIN is) = Len(is)
        /\ IsFiniteSet(DOMAIN was) /\ Cardinality(DOMAIN was) = Len(was)
    BY <2>5, FirstNumbers
  <2>7. Cardinality(DOMAIN is) = Cardinality(DOMAIN was)
    BY <2>4, <2>6, FS_Bijection DEF ExistsBijection
  <2> QED
    BY <2>6, <2>7 DEF is, was
<1> QED
  BY <1>1, <1>2, <1>3, <1>4 DEF PodKeeps, SameContainer

-----------------------------------------------------------------------------
(* The pod with the sidecar.                                               *)

ResticMount == Mount(ResticVolume, ResticPath, NoPath)

\* The volumes that are added to those of a pod.
NewVolumes(p) ==
  (IF target.type = "Job" THEN SharedVolumes(p) ELSE <<>>)
    \o (IF local THEN <<ResticVolume>> ELSE <<>>)

\* They are formol's, and no two are the same.
LEMMA NewVolumesAre ==
  ASSUME NEW p
  PROVE  /\ NewVolumes(p) \in Seq(Names)
         /\ \A k \in DOMAIN NewVolumes(p) : NewVolumes(p)[k] \in {SharedVolume, ResticVolume}
         /\ IsInjective(NewVolumes(p))
         /\ local => ResticVolume \in ToSet(NewVolumes(p))
         /\ target.type = "Job" /\ SharedVolumes(p) # <<>> => SharedVolume \in ToSet(NewVolumes(p))
<1>1. ResticVolume \in Names /\ SharedVolume \in Names /\ SharedVolume # ResticVolume
  BY NamesAssumption DEF SharedVolume, ResticVolume
<1>2. SharedVolumes(p) = <<>> \/ SharedVolumes(p) = <<SharedVolume>>
  BY DEF SharedVolumes
<1>3. <<SharedVolume>> \o <<ResticVolume>> = <<SharedVolume, ResticVolume>>
  <2>1. <<SharedVolume>> \in Seq(Names) /\ <<ResticVolume>> \in Seq(Names)
    BY <1>1
  <2>2. <<SharedVolume, ResticVolume>> \in Seq(Names)
    BY <1>1
  <2> DEFINE c == <<SharedVolume>> \o <<ResticVolume>>
  <2>3. c \in Seq(Names) /\ Len(c) = 2 /\ c[1] = SharedVolume /\ c[2] = ResticVolume
    BY <2>1
  <2> HIDE DEF c
  <2>4. \A i \in 1..Len(c) : c[i] = <<SharedVolume, ResticVolume>>[i]
    BY <2>3
  <2>5. Len(<<SharedVolume, ResticVolume>>) = 2
    OBVIOUS
  <2>6. c = <<SharedVolume, ResticVolume>>
    BY <2>2, <2>3, <2>4, <2>5, SeqEqual
  <2> QED
    BY <2>6 DEF c
<1>4. NewVolumes(p) =
        IF target.type = "Job" /\ SharedVolumes(p) # <<>>
          THEN IF local THEN <<SharedVolume, ResticVolume>> ELSE <<SharedVolume>>
          ELSE IF local THEN <<ResticVolume>> ELSE <<>>
  <2>1. <<>> \in Seq(Names) /\ <<ResticVolume>> \in Seq(Names) /\ <<SharedVolume>> \in Seq(Names)
    BY <1>1
  <2>2. /\ <<>> \o <<>> = <<>>
        /\ <<>> \o <<ResticVolume>> = <<ResticVolume>>
        /\ <<SharedVolume>> \o <<>> = <<SharedVolume>>
    BY <2>1, ConcatEmptySeq
  <2> QED
    BY <1>2, <1>3, <2>2 DEF NewVolumes
<1>5. <<SharedVolume>> # <<>>
  OBVIOUS
<1>6. CASE target.type = "Job" /\ SharedVolumes(p) # <<>> /\ local
  BY <1>1, <1>4, <1>6 DEF IsInjective, ToSet
<1>7. CASE target.type = "Job" /\ SharedVolumes(p) # <<>> /\ ~ local
  BY <1>1, <1>4, <1>7 DEF IsInjective, ToSet
<1>8. CASE ~ (target.type = "Job" /\ SharedVolumes(p) # <<>>) /\ local
  BY <1>1, <1>4, <1>8 DEF IsInjective, ToSet
<1>9. CASE ~ (target.type = "Job" /\ SharedVolumes(p) # <<>>) /\ ~ local
  BY <1>1, <1>4, <1>9 DEF IsInjective, ToSet
<1> QED
  BY <1>6, <1>7, <1>8, <1>9

\* A container that is visited.
LEMMA VisitedType ==
  ASSUME target \in Targets, NEW c \in Containers
  PROVE  /\ Visited(c) \in Containers /\ Visited(c).name = c.name
         /\ Entries(c) = {} => Visited(c) = c
         /\ Entries(c) # {} =>
              /\ Visited(c).env = Append(c.env, TagVar)
              /\ target.type # "Job" => Visited(c).mounts = c.mounts
              /\ target.type = "Job" => Visited(c).mounts = Append(c.mounts, SharedMount(c))
<1>1. CASE Entries(c) = {}
  BY <1>1 DEF Visited
<1>2. CASE Entries(c) # {}
  <2> DEFINE mounts == IF target.type = "Job" THEN Append(c.mounts, SharedMount(c)) ELSE c.mounts
             env == Append(c.env, TagVar)
  <2>1. Visited(c) = [c EXCEPT !.env = env, !.mounts = mounts]
    BY <1>2 DEF Visited, TagVar
  <2>2. c.env \in Seq(EnvVars) /\ c.mounts \in Seq(Mounting)
    BY DEF Containers
  <2>3. env \in Seq(EnvVars) /\ mounts \in Seq(Mounting)
    BY <1>2, <2>2, TagVarType, SharedMountType
  <2>4. Visited(c).env = env /\ Visited(c).mounts = mounts /\ Visited(c) \in Containers
          /\ Visited(c).name = c.name
    <3> HIDE DEF env, mounts
    <3> QED
      BY <2>1, <2>3 DEF Containers
  <2> QED
    BY <1>2, <2>4
<1> QED
  BY <1>1, <1>2

\* The parts of the pod that addSidecar writes.
LEMMA WithSidecarParts ==
  ASSUME target \in Targets, local \in BOOLEAN, NEW p \in Pods
  PROVE  LET q == WithSidecar(p)
             n == Len(p.containers)
         IN  /\ q \in Pods
             /\ Len(q.containers) = n + 1
             /\ \A i \in 1..n : q.containers[i] = Visited(p.containers[i])
             /\ q.containers[n + 1].name = SidecarName
             /\ q.containers[n + 1].env = SidecarFor(p).env
             /\ q.containers[n + 1].mounts =
                  IF local THEN Append(SidecarFor(p).mounts, ResticMount) ELSE SidecarFor(p).mounts
             /\ q.volumes = p.volumes \o NewVolumes(p)
             /\ q.hostPID = p.hostPID
<1> DEFINE n  == Len(p.containers)
           sc == SidecarFor(p)
           q  == WithSidecar(p)
           last == IF local THEN [sc EXCEPT !.mounts = Append(@, ResticMount)] ELSE sc
           first == [i \in DOMAIN p.containers |-> Visited(p.containers[i])]
           s == IF target.type = "Job" THEN SharedVolumes(p) ELSE <<>>
           r == IF local THEN <<ResticVolume>> ELSE <<>>
<1>1. q = [containers |-> first \o <<last>>, volumes |-> p.volumes \o s \o r,
           share |-> TRUE, hostPID |-> p.hostPID]
  BY DEF WithSidecar, ResticMount
<1> HIDE DEF q
<1>2. sc \in Containers /\ sc.name = SidecarName
  BY SidecarServesLast
<1> HIDE DEF sc
<1>3. ResticMount \in Mounting
  BY NamesAssumption DEF ResticMount, Mount, Mounting, Path, ResticPath, NoPath, ToSet
<1>4. sc.mounts \in Seq(Mounting) /\ Append(sc.mounts, ResticMount) \in Seq(Mounting)
  BY <1>2, <1>3 DEF Containers
<1>5. /\ last \in Containers /\ last.name = SidecarName /\ last.env = sc.env
      /\ last.mounts = IF local THEN Append(sc.mounts, ResticMount) ELSE sc.mounts
  BY <1>2, <1>4 DEF Containers
<1> HIDE DEF last
<1>6. n \in Nat /\ DOMAIN p.containers = 1..n
  BY PodParts
<1>7. first \in Seq(Containers) /\ Len(first) = n /\ \A i \in 1..n : first[i] = Visited(p.containers[i])
  <2>1. \A i \in 1..n : Visited(p.containers[i]) \in Containers
    BY <1>6, PodParts, VisitedType
  <2> QED
    BY <1>6, <2>1
<1> HIDE DEF first
<1>8. /\ first \o <<last>> \in Seq(Containers) /\ Len(first \o <<last>>) = n + 1
      /\ \A i \in 1..n : (first \o <<last>>)[i] = first[i]
      /\ (first \o <<last>>)[n + 1] = last
  BY <1>5, <1>6, <1>7
<1>9. q.volumes = p.volumes \o NewVolumes(p) /\ q.volumes \in Seq(Names)
  <2>1. p.volumes \in Seq(Names)
    BY PodParts
  <2>2. ResticVolume \in Names /\ SharedVolume \in Names
    BY NamesAssumption
  <2>3. s \in Seq(Names) /\ r \in Seq(Names)
    BY <2>2 DEF SharedVolumes
  <2>5. NewVolumes(p) = s \o r
    BY DEF NewVolumes
  <2> HIDE DEF s, r
  <2>4. q.volumes = (p.volumes \o s) \o r
    BY <1>1
  <2>6. (p.volumes \o s) \o r = p.volumes \o (s \o r)
    <3>1. \A x, y, z \in Seq(Names) : (x \o y) \o z = x \o (y \o z)
      BY ConcatAssociative
    <3> QED
      BY <2>1, <2>3, <3>1, Zenon
  <2>7. (p.volumes \o s) \o r \in Seq(Names)
    BY <2>1, <2>3
  <2> QED
    BY <2>4, <2>5, <2>6, <2>7
<1>10. q \in Pods /\ q.hostPID = p.hostPID
  <2>1. p.hostPID \in BOOLEAN
    BY PodParts
  <2> QED
    BY <1>1, <1>8, <1>9, <2>1 DEF Pods
<1>11. /\ Len(q.containers) = n + 1
       /\ \A i \in 1..n : q.containers[i] = Visited(p.containers[i])
       /\ q.containers[n + 1] = last
  BY <1>1, <1>7, <1>8
<1> QED
  BY <1>5, <1>9, <1>10, <1>11 DEF q, sc

-----------------------------------------------------------------------------
(* Every step keeps the shape.                                             *)

\* The target lists containers by name.
LEMMA EntriesByName ==
  ASSUME NEW c, NEW d, c.name = d.name
  PROVE  Entries(c) = Entries(d) /\ Entry(c) = Entry(d)
BY DEF Entries, Entry

\* A container that is visited is the user's, with a tag if it is listed.
LEMMA VisitedKeeps ==
  ASSUME target \in Targets, NEW is \in Containers, NEW was \in Containers,
         is.name = was.name, is.mounts = was.mounts, Untagged(is.env, was.env),
         OwnMounts(was.mounts) = 1..Len(was.mounts)
  PROVE  /\ SameContainer(Visited(is), was)
         /\ Entries(was) = {} => TagsOf(Visited(is).env) = TagsOf(is.env)
         /\ Entries(was) # {} => TagsOf(Visited(is).env) = TagsOf(is.env) \cup {Len(is.env) + 1}
<1>1. /\ is.env \in Seq(EnvVars) /\ was.env \in Seq(EnvVars)
      /\ was.mounts \in Seq(Mounting) /\ is.mounts \in Seq(Mounting)
  BY DEF Containers
<1>2. Entries(is) = Entries(was)
  BY EntriesByName
<1>3. CASE Entries(was) = {}
  <2>1. Visited(is) = is
    BY <1>2, <1>3, VisitedType
  <2>2. Keeps(is.mounts, was.mounts, OwnMounts(is.mounts))
    BY <1>1, KeepsItself
  <2> QED
    BY <1>3, <2>1, <2>2 DEF SameContainer
<1>4. CASE Entries(was) # {}
  <2>1. /\ Visited(is).name = was.name
        /\ Visited(is).env = Append(is.env, TagVar)
        /\ target.type # "Job" => Visited(is).mounts = is.mounts
        /\ target.type = "Job" => Visited(is).mounts = Append(is.mounts, SharedMount(is))
    BY <1>2, <1>4, VisitedType
  <2>2. /\ Untagged(Append(is.env, TagVar), was.env)
        /\ TagsOf(Append(is.env, TagVar)) = TagsOf(is.env) \cup {Len(is.env) + 1}
    BY <1>1, TagAdded
  <2>3. Keeps(is.mounts, was.mounts, OwnMounts(is.mounts))
    BY <1>1, KeepsItself
  <2>4. Keeps(Append(is.mounts, SharedMount(is)), was.mounts,
              OwnMounts(Append(is.mounts, SharedMount(is))))
    <3> DEFINE old == was.mounts
               new == Append(is.mounts, SharedMount(is))
    <3>1. SharedMount(is) \in Mounting /\ SharedMount(is).volume = SharedVolume
      BY <1>2, <1>4, SharedMountType DEF SharedMount, Mount
    <3>2. /\ Len(new) = Len(old) + 1 /\ DOMAIN new = 1..(Len(old) + 1) /\ Len(old) \in Nat
          /\ \A k \in 1..Len(old) : new[k] = old[k]
          /\ new[Len(old) + 1].volume = SharedVolume
          /\ DOMAIN old = 1..Len(old)
      BY <1>1, <3>1
    <3> HIDE DEF new
    <3>3. \A k \in 1..Len(old) : old[k].volume # SharedVolume
      BY <3>2 DEF OwnMounts
    <3> HIDE DEF old
    <3>4. OwnMounts(new) = 1..Len(old)
      <4>1. \A k \in 1..(Len(old) + 1) : new[k].volume # SharedVolume <=> k \in 1..Len(old)
        BY <3>2, <3>3
      <4> QED
        BY <3>2, <4>1 DEF OwnMounts
    <3>5. Len(old) <= Len(new)
      BY <3>2
    <3> QED
      BY <3>2, <3>4, <3>5 DEF Keeps, new, old
  <2> QED
    BY <1>4, <2>1, <2>2, <2>3, <2>4 DEF SameContainer
<1> QED
  BY <1>3, <1>4

\* The volumes that are added come behind the user's.
LEMMA AddedVolumes ==
  ASSUME NEW old \in Seq(Names), NEW extra \in Seq(Names),
         \A k \in DOMAIN old : old[k] \notin {SharedVolume, ResticVolume},
         \A k \in DOMAIN extra : extra[k] \in {SharedVolume, ResticVolume}
  PROVE  Keeps(old \o extra, old, OwnVolumes(old \o extra))
<1> DEFINE new == old \o extra
           m == Len(old)
           e == Len(extra)
<1>1. /\ m \in Nat /\ e \in Nat /\ Len(new) = m + e /\ DOMAIN new = 1..(m + e)
      /\ DOMAIN old = 1..m /\ DOMAIN extra = 1..e
      /\ \A k \in 1..m : new[k] = old[k]
      /\ \A k \in 1..(m + e) : ~ (k <= m) => new[k] = extra[k - m]
  BY ConcatProperties
<1> HIDE DEF new, m, e
<1>2. \A k \in 1..(m + e) : new[k] \notin {SharedVolume, ResticVolume} <=> k \in 1..m
  <2>1. SUFFICES ASSUME NEW k \in 1..(m + e)
                 PROVE  new[k] \notin {SharedVolume, ResticVolume} <=> k \in 1..m
    OBVIOUS
  <2>2. CASE k <= m
    <3>1. k \in 1..m
      BY <1>1, <2>2
    <3> QED
      BY <1>1, <3>1
  <2>3. CASE ~ (k <= m)
    <3>1. k - m \in 1..e /\ k \notin 1..m
      BY <1>1, <2>3
    <3> QED
      BY <1>1, <2>3, <3>1
  <2> QED
    BY <2>2, <2>3
<1>3. OwnVolumes(new) = 1..m
  BY <1>1, <1>2 DEF OwnVolumes
<1> QED
  BY <1>1, <1>3 DEF Keeps, new, m

\* A container that stays is the user's, but for tags of containers that the
\* target does not list any more.
LEMMA RestoredKeeps ==
  ASSUME NEW is \in Containers, NEW was \in Containers, SameContainer(is, was)
  PROVE  /\ Restored(is) \in Containers
         /\ Restored(is).name = was.name /\ Restored(is).mounts = was.mounts
         /\ Untagged(Restored(is).env, was.env)
         /\ TagsOf(is.env) = {} => TagsOf(Restored(is).env) = {}
         /\ Entries(was) # {} => \A t : TagsOf(is.env) = {t} => TagsOf(Restored(is).env) = {}
<1>1. /\ is.env \in Seq(EnvVars) /\ was.env \in Seq(EnvVars) /\ was.mounts \in Seq(Mounting)
      /\ is.name \in Names
  BY DEF Containers
<1>2. /\ is.name = was.name /\ Untagged(is.env, was.env)
      /\ Keeps(is.mounts, was.mounts, OwnMounts(is.mounts))
  BY DEF SameContainer
<1>3. ItemsAt(is.mounts, OwnMounts(is.mounts)) = was.mounts
  BY <1>1, <1>2, KeptItems
<1>4. Entries(is) = Entries(was)
  BY <1>2, EntriesByName
<1> DEFINE env == IF Entries(was) = {} THEN is.env ELSE RemoveTag(is.env)
<1>5. Restored(is) = [is EXCEPT !.mounts = was.mounts, !.env = env]
  BY <1>3, <1>4 DEF Restored
<1>6. /\ RemoveTag(is.env) \in Seq(EnvVars) /\ Untagged(RemoveTag(is.env), was.env)
      /\ TagsOf(is.env) = {} => RemoveTag(is.env) = is.env
      /\ \A t : TagsOf(is.env) = {t} => TagsOf(RemoveTag(is.env)) = {}
  BY <1>1, <1>2, TagTaken
<1>7. env \in Seq(EnvVars) /\ Untagged(env, was.env)
  BY <1>1, <1>2, <1>6
<1>8. /\ Restored(is) \in Containers
      /\ Restored(is).name = was.name /\ Restored(is).mounts = was.mounts
      /\ Restored(is).env = env
  <2> HIDE DEF env
  <2> QED
    BY <1>1, <1>2, <1>5, <1>7 DEF Containers
<1> QED
  BY <1>6, <1>7, <1>8

\* The user's pod keeps to itself.
LEMMA UserParts ==
  ASSUME TypeOK, UserKeeps
  PROVE  /\ \A i \in DOMAIN user.containers :
              /\ user.containers[i] \in Containers
              /\ user.containers[i].name # SidecarName
              /\ OwnMounts(user.containers[i].mounts) = 1..Len(user.containers[i].mounts)
         /\ \A k \in DOMAIN user.volumes : user.volumes[k] \notin {SharedVolume, ResticVolume}
         /\ OwnVolumes(user.volumes) = 1..Len(user.volumes)
<1>1. user \in Pods /\ Valid(user) /\ Untouched(user)
  BY DEF TypeOK, UserKeeps
<1>2. \A k \in DOMAIN user.volumes : user.volumes[k] \notin {SharedVolume, ResticVolume}
  BY <1>1 DEF Untouched
<1>3. DOMAIN user.volumes = 1..Len(user.volumes)
  BY <1>1, PodParts
<1>4. OwnVolumes(user.volumes) = 1..Len(user.volumes)
  BY <1>2, <1>3 DEF OwnVolumes
<1> QED
  BY <1>1, <1>2, <1>4, PodParts, MountsOwn DEF Untouched

\* addSidecar appends to the user's pod.
LEMMA AddKeepsShape ==
  ASSUME Shape, AddSidecar
  PROVE  Shape'
<1> DEFINE n == Len(user.containers)
           q == WithSidecar(pod)
<1>1. /\ TypeOK /\ UserKeeps /\ PodKeeps /\ TagsCounted
      /\ pod \in Pods /\ user \in Pods /\ target \in Targets /\ local \in BOOLEAN
  BY DEF Shape, TypeOK
<1>2. /\ ~ HasSidecar(pod) /\ pod' = q
      /\ user' = user /\ target' = target /\ local' = local /\ drifted' = drifted /\ edits' = edits
  BY DEF AddSidecar
<1>3. /\ n \in Nat /\ DOMAIN user.containers = 1..n /\ Len(pod.containers) = n
      /\ DOMAIN pod.containers = 1..n
  BY <1>1, <1>2, SidecarIsLast, PodParts
<1>4. /\ q \in Pods /\ Len(q.containers) = n + 1
      /\ \A i \in 1..n : q.containers[i] = Visited(pod.containers[i])
      /\ q.containers[n + 1].name = SidecarName
      /\ q.volumes = pod.volumes \o NewVolumes(pod)
  BY <1>1, <1>3, WithSidecarParts
<1>5. DOMAIN q.containers = 1..(n + 1)
  BY <1>4, PodParts
<1> HIDE DEF q, n
<1>6. TypeOK'
  BY <1>1, <1>2, <1>4 DEF TypeOK
<1>7. UserKeeps'
  BY <1>1, <1>2 DEF UserKeeps
<1>8. ASSUME NEW i \in 1..n
      PROVE  /\ SameContainer(q.containers[i], user.containers[i])
             /\ Entries(user.containers[i]) = {} =>
                  TagsOf(q.containers[i].env) = TagsOf(pod.containers[i].env)
             /\ Entries(user.containers[i]) # {} =>
                  TagsOf(q.containers[i].env) =
                    TagsOf(pod.containers[i].env) \cup {Len(pod.containers[i].env) + 1}
  <2>1. pod.containers[i] \in Containers /\ user.containers[i] \in Containers
    BY <1>1, <1>3, PodParts
  <2>2. /\ SameContainer(pod.containers[i], user.containers[i])
        /\ pod.containers[i].mounts = user.containers[i].mounts
    BY <1>1, <1>2, <1>3 DEF PodKeeps
  <2>3. OwnMounts(user.containers[i].mounts) = 1..Len(user.containers[i].mounts)
    BY <1>1, <1>3, UserParts
  <2> QED
    BY <1>1, <1>4, <2>1, <2>2, <2>3, VisitedKeeps DEF SameContainer
<1>9. HasSidecar(q)
  <2>1. n + 1 \in DOMAIN q.containers
    BY <1>3, <1>5
  <2> QED
    BY <1>4, <2>1 DEF HasSidecar
<1>10. OwnContainers(q.containers) = 1..n
  <2>1. \A i \in 1..n : q.containers[i].name # SidecarName
    BY <1>1, <1>3, <1>8, UserParts DEF SameContainer
  <2>2. \A i \in 1..(n + 1) : q.containers[i].name # SidecarName <=> i \in 1..n
    BY <1>3, <1>4, <2>1
  <2> QED
    BY <1>3, <1>5, <2>2 DEF OwnContainers
<1>11. Keeps(q.volumes, user.volumes, OwnVolumes(q.volumes))
  <2>1. pod.volumes = user.volumes /\ user.volumes \in Seq(Names)
    BY <1>1, <1>2, PodParts DEF PodKeeps
  <2>2. /\ NewVolumes(pod) \in Seq(Names)
        /\ \A k \in DOMAIN NewVolumes(pod) : NewVolumes(pod)[k] \in {SharedVolume, ResticVolume}
    BY NewVolumesAre
  <2> QED
    BY <1>1, <1>4, <2>1, <2>2, UserParts, AddedVolumes
<1>12. PodKeeps'
  <2>1. /\ Len(q.containers) <= n + 1 /\ n <= Len(q.containers)
    BY <1>3, <1>4
  <2> QED
    BY <1>2, <1>3, <1>8, <1>9, <1>10, <1>11, <2>1 DEF PodKeeps, n
<1>13. TagsCounted'
  <2>1. SUFFICES ASSUME ~ drifted, NEW i \in 1..n
                 PROVE  IF Entries(user.containers[i]) # {}
                          THEN \E t : TagsOf(q.containers[i].env) = {t}
                          ELSE TagsOf(q.containers[i].env) = {}
    <3>1. \A c : Entries(c)' = Entries(c)
      BY <1>2 DEF Entries
    <3> QED
      BY <1>2, <1>3, <1>9, <3>1 DEF TagsCounted, TagsOf
  <2>2. TagsOf(pod.containers[i].env) = {}
    BY <1>1, <1>2, <1>3, <2>1 DEF TagsCounted
  <2> QED
    BY <1>8, <2>1, <2>2
<1> QED
  BY <1>6, <1>7, <1>12, <1>13 DEF Shape

\* DeleteSidecar takes away what was appended.
LEMMA DeleteKeepsShape ==
  ASSUME Shape, DeleteSidecar
  PROVE  Shape' /\ ~ HasSidecar(pod')
<1> DEFINE n == Len(user.containers)
           q == WithoutSidecar(pod)
           left == ItemsAt(pod.containers, OwnContainers(pod.containers))
<1>1. /\ TypeOK /\ UserKeeps /\ PodKeeps /\ TagsCounted
      /\ pod \in Pods /\ user \in Pods /\ target \in Targets /\ local \in BOOLEAN
  BY DEF Shape, TypeOK
<1>2. /\ pod' = q
      /\ user' = user /\ target' = target /\ local' = local /\ drifted' = drifted /\ edits' = edits
  BY DEF DeleteSidecar
<1>3. n \in Nat /\ DOMAIN user.containers = 1..n /\ \A i \in 1..n : i \in DOMAIN pod.containers
  BY <1>1, SidecarIsLast
<1>4. left = [k \in 1..n |-> pod.containers[k]]
  BY <1>1, <1>3, ItemsAtStart DEF PodKeeps
<1>5. q = [containers |-> [i \in DOMAIN left |-> Restored(left[i])],
           volumes |-> ItemsAt(pod.volumes, OwnVolumes(pod.volumes)),
           share |-> pod.share, hostPID |-> pod.hostPID]
  BY DEF WithoutSidecar
<1> HIDE DEF q, left, n
<1>6. /\ q.volumes = user.volumes /\ user.volumes \in Seq(Names)
      /\ q.share \in BOOLEAN /\ q.hostPID \in BOOLEAN
  <2>1. user.volumes \in Seq(Names) /\ pod.share \in BOOLEAN /\ pod.hostPID \in BOOLEAN
    BY <1>1, PodParts
  <2>2. ItemsAt(pod.volumes, OwnVolumes(pod.volumes)) = user.volumes
    BY <1>1, <2>1, KeptItems DEF PodKeeps
  <2> QED
    BY <1>5, <2>1, <2>2
<1>7. q.containers = [i \in 1..n |-> Restored(pod.containers[i])]
  <2>1. DOMAIN left = 1..n /\ \A i \in 1..n : left[i] = pod.containers[i]
    BY <1>4
  <2> QED
    BY <1>5, <2>1
<1>8. ASSUME NEW i \in 1..n
      PROVE  /\ q.containers[i] \in Containers
             /\ q.containers[i].name = user.containers[i].name
             /\ q.containers[i].mounts = user.containers[i].mounts
             /\ Untagged(q.containers[i].env, user.containers[i].env)
             /\ TagsOf(pod.containers[i].env) = {} => TagsOf(q.containers[i].env) = {}
             /\ Entries(user.containers[i]) # {} =>
                  \A t : TagsOf(pod.containers[i].env) = {t} => TagsOf(q.containers[i].env) = {}
  <2>1. pod.containers[i] \in Containers /\ user.containers[i] \in Containers
    BY <1>1, <1>3, PodParts
  <2>2. SameContainer(pod.containers[i], user.containers[i])
    BY <1>1, <1>3 DEF PodKeeps
  <2>3. q.containers[i] = Restored(pod.containers[i])
    BY <1>7
  <2> DEFINE r == Restored(pod.containers[i])
  <2>4. /\ r \in Containers
        /\ r.name = user.containers[i].name /\ r.mounts = user.containers[i].mounts
        /\ Untagged(r.env, user.containers[i].env)
        /\ TagsOf(pod.containers[i].env) = {} => TagsOf(r.env) = {}
        /\ Entries(user.containers[i]) # {} =>
             \A t : TagsOf(pod.containers[i].env) = {t} => TagsOf(r.env) = {}
    BY <2>1, <2>2, RestoredKeeps
  <2>5. q.containers[i] = r
    BY <2>3
  <2> HIDE DEF r
  <2> QED
    BY <2>4, <2>5, Zenon
<1>9. q.containers \in Seq(Containers) /\ Len(q.containers) = n /\ DOMAIN q.containers = 1..n
  <2>1. \A i \in 1..n : Restored(pod.containers[i]) \in Containers
    BY <1>7, <1>8
  <2> QED
    BY <1>3, <1>7, <2>1
<1>10. TypeOK'
  <2>1. q \in Pods
    BY <1>5, <1>6, <1>9 DEF Pods
  <2> QED
    BY <1>1, <1>2, <2>1 DEF TypeOK
<1>11. UserKeeps'
  BY <1>1, <1>2 DEF UserKeeps
<1>12. \A i \in 1..n : q.containers[i].name # SidecarName
  BY <1>1, <1>3, <1>8, UserParts
<1>13. ~ HasSidecar(q) /\ OwnContainers(q.containers) = 1..n
  BY <1>9, <1>12 DEF HasSidecar, OwnContainers
<1>14. ASSUME NEW i \in 1..n PROVE SameContainer(q.containers[i], user.containers[i])
  <2>1. user.containers[i].mounts \in Seq(Mounting)
    BY <1>1, <1>3, PodParts
  <2>2. OwnMounts(user.containers[i].mounts) = 1..Len(user.containers[i].mounts)
    BY <1>1, <1>3, UserParts
  <2>3. Keeps(user.containers[i].mounts, user.containers[i].mounts,
              OwnMounts(user.containers[i].mounts))
    BY <2>1, <2>2, KeepsItself
  <2> QED
    BY <1>8, <2>3 DEF SameContainer
<1>15. Keeps(q.volumes, user.volumes, OwnVolumes(q.volumes))
  BY <1>1, <1>6, UserParts, KeepsItself
<1>16. PodKeeps'
  <2>1. Len(q.containers) <= n + 1 /\ n <= Len(q.containers)
    BY <1>3, <1>9
  <2> QED
    BY <1>2, <1>3, <1>6, <1>8, <1>13, <1>14, <1>15, <2>1 DEF PodKeeps, n
<1>17. TagsCounted'
  <2>1. SUFFICES ASSUME ~ drifted, NEW i \in 1..n PROVE TagsOf(q.containers[i].env) = {}
    BY <1>2, <1>3, <1>13 DEF TagsCounted, TagsOf
  <2>2. IF HasSidecar(pod) /\ Entries(user.containers[i]) # {}
          THEN \E t : TagsOf(pod.containers[i].env) = {t}
          ELSE TagsOf(pod.containers[i].env) = {}
    BY <1>1, <1>3, <2>1 DEF TagsCounted
  <2> QED
    BY <1>8, <2>2
<1> QED
  BY <1>2, <1>10, <1>11, <1>13, <1>16, <1>17 DEF Shape

\* A change of the target leaves the pod alone.
LEMMA RetargetKeepsShape ==
  ASSUME Shape, Retarget
  PROVE  Shape'
<1>1. /\ TypeOK /\ UserKeeps /\ PodKeeps /\ TagsCounted
      /\ pod \in Pods /\ user \in Pods /\ target \in Targets /\ local \in BOOLEAN
      /\ drifted \in BOOLEAN /\ edits \in 0..MaxEdits
  BY DEF Shape, TypeOK
<1>2. /\ pod' = pod /\ user' = user /\ local' = local
      /\ edits < MaxEdits /\ edits' = edits + 1
      /\ drifted' = (drifted \/ HasSidecar(pod))
  BY DEF Retarget
<1>3. PICK containers \in Retargets : target' = [target EXCEPT !.containers = containers]
  BY DEF Retarget
<1>4. target' \in Targets
  BY <1>1, <1>3, RetargetsAssumption DEF Targets
<1>5. edits' \in 0..MaxEdits
  BY <1>1, <1>2, EditsAssumption, VariablesAssumption
<1>6. TypeOK'
  BY <1>1, <1>2, <1>4, <1>5 DEF TypeOK
<1>7. UserKeeps' /\ PodKeeps'
  BY <1>1, <1>2 DEF UserKeeps, PodKeeps
<1>8. TagsCounted'
  BY <1>1, <1>2 DEF TagsCounted
<1> QED
  BY <1>6, <1>7, <1>8 DEF Shape

\* A pod with one more variable in one of its containers.
Longer(container, v) == [container EXCEPT !.env = Append(container.env, v)]

LEMMA WithVariable ==
  ASSUME NEW p \in Pods, NEW i \in DOMAIN p.containers, NEW v \in EnvVars, NEW q,
         q = [p EXCEPT !.containers[i] = Longer(p.containers[i], v)]
  PROVE  /\ q \in Pods /\ q.volumes = p.volumes
         /\ DOMAIN q.containers = DOMAIN p.containers
         /\ Len(q.containers) = Len(p.containers)
         /\ \A j \in DOMAIN p.containers :
              /\ q.containers[j].name = p.containers[j].name
              /\ q.containers[j].mounts = p.containers[j].mounts
              /\ j # i => q.containers[j].env = p.containers[j].env
         /\ q.containers[i].env = Append(p.containers[i].env, v)
<1> DEFINE c == Longer(p.containers[i], v)
           s == [p.containers EXCEPT ![i] = c]
<1>1. p.containers \in Seq(Containers) /\ p.containers[i] \in Containers /\ p \in Pods
  BY PodParts
<1>2. /\ c \in Containers /\ c.name = p.containers[i].name /\ c.mounts = p.containers[i].mounts
      /\ c.env = Append(p.containers[i].env, v)
  <2>1. Append(p.containers[i].env, v) \in Seq(EnvVars)
    BY PodParts
  <2> QED
    BY <1>1, <2>1 DEF Containers, Longer
<1> HIDE DEF c
<1>3. /\ s \in Seq(Containers) /\ Len(s) = Len(p.containers) /\ DOMAIN s = DOMAIN p.containers
      /\ s[i] = c /\ \A j \in DOMAIN p.containers : j # i => s[j] = p.containers[j]
  BY <1>1, <1>2
<1>4. q = [p EXCEPT !.containers = s]
  BY DEF c
<1> HIDE DEF s
<1>5. q.containers = s /\ q.volumes = p.volumes /\ q \in Pods
  BY <1>3, <1>4 DEF Pods
<1>6. \A j \in DOMAIN p.containers : s[j] = IF j = i THEN c ELSE p.containers[j]
  BY <1>3
<1> QED
  BY <1>2, <1>3, <1>5, <1>6

\* A step of a user who adds a variable, in the user's pod and in the real one.
LEMMA VariableParts ==
  ASSUME Shape, NEW i \in DOMAIN user.containers, AddVariable(i)
  PROVE  /\ edits' \in 1..MaxEdits /\ i \in DOMAIN pod.containers
         /\ target' = target /\ local' = local /\ drifted' = drifted
         /\ \E v \in EnvVars :
              /\ v.name # Tag
              /\ user' \in Pods /\ user'.volumes = user.volumes
              /\ user'.share = user.share /\ user'.hostPID = user.hostPID
              /\ DOMAIN user'.containers = DOMAIN user.containers
              /\ Len(user'.containers) = Len(user.containers)
              /\ \A j \in DOMAIN user.containers :
                   /\ user'.containers[j].name = user.containers[j].name
                   /\ user'.containers[j].mounts = user.containers[j].mounts
                   /\ j # i => user'.containers[j].env = user.containers[j].env
              /\ user'.containers[i].env = Append(user.containers[i].env, v)
              /\ pod' \in Pods /\ pod'.volumes = pod.volumes
              /\ DOMAIN pod'.containers = DOMAIN pod.containers
              /\ Len(pod'.containers) = Len(pod.containers)
              /\ \A j \in DOMAIN pod.containers :
                   /\ pod'.containers[j].name = pod.containers[j].name
                   /\ pod'.containers[j].mounts = pod.containers[j].mounts
                   /\ j # i => pod'.containers[j].env = pod.containers[j].env
              /\ pod'.containers[i].env = Append(pod.containers[i].env, v)
<1> DEFINE n == Len(user.containers)
           v == EnvVar(Variables[edits'], <<>>)
<1>1. /\ TypeOK /\ UserKeeps /\ PodKeeps /\ TagsCounted
      /\ pod \in Pods /\ user \in Pods /\ target \in Targets /\ local \in BOOLEAN
      /\ drifted \in BOOLEAN /\ edits \in 0..MaxEdits
  BY DEF Shape, TypeOK
<1>2. /\ edits < MaxEdits /\ edits' = edits + 1
      /\ target' = target /\ local' = local /\ drifted' = drifted
      /\ pod'  = [pod EXCEPT !.containers[i] = Longer(pod.containers[i], v)]
      /\ user' = [user EXCEPT !.containers[i] = Longer(user.containers[i], v)]
  BY DEF AddVariable, Longer
<1>3. edits' \in 1..MaxEdits /\ edits' \in 1..Len(Variables)
  BY <1>1, <1>2, EditsAssumption, VariablesAssumption
<1>4. v \in EnvVars /\ v.name # Tag
  <2>1. Variables[edits'] \in Names /\ Variables[edits'] # Tag
    BY <1>3, VariablesAssumption
  <2>2. <<>> \in Seq(Path)
    OBVIOUS
  <2> QED
    BY <2>1, <2>2 DEF EnvVar, EnvVars
<1> HIDE DEF v
<1>5. n \in Nat /\ DOMAIN user.containers = 1..n /\ i \in 1..n /\ \A j \in 1..n : j \in DOMAIN pod.containers
  BY <1>1, SidecarIsLast
<1>6. /\ user' \in Pods /\ user'.volumes = user.volumes
      /\ user'.share = user.share /\ user'.hostPID = user.hostPID
      /\ DOMAIN user'.containers = DOMAIN user.containers
      /\ Len(user'.containers) = Len(user.containers)
      /\ \A j \in DOMAIN user.containers :
           /\ user'.containers[j].name = user.containers[j].name
           /\ user'.containers[j].mounts = user.containers[j].mounts
           /\ j # i => user'.containers[j].env = user.containers[j].env
      /\ user'.containers[i].env = Append(user.containers[i].env, v)
  <2>1. i \in DOMAIN user.containers
    BY <1>5
  <2>2. user' = [user EXCEPT !.containers[i] = Longer(user.containers[i], v)]
    BY <1>2
  <2>3. \A q : q = [user EXCEPT !.containers[i] = Longer(user.containers[i], v)] =>
          /\ q \in Pods /\ q.volumes = user.volumes
          /\ DOMAIN q.containers = DOMAIN user.containers
          /\ Len(q.containers) = Len(user.containers)
          /\ \A j \in DOMAIN user.containers :
               /\ q.containers[j].name = user.containers[j].name
               /\ q.containers[j].mounts = user.containers[j].mounts
               /\ j # i => q.containers[j].env = user.containers[j].env
          /\ q.containers[i].env = Append(user.containers[i].env, v)
    BY <1>1, <1>4, <2>1, WithVariable, Zenon
  <2>4. user'.share = user.share /\ user'.hostPID = user.hostPID
    BY <1>1, <2>2 DEF Pods
  <2> QED
    BY <1>5, <2>2, <2>3, <2>4
<1>7. /\ pod' \in Pods /\ pod'.volumes = pod.volumes
      /\ DOMAIN pod'.containers = DOMAIN pod.containers
      /\ Len(pod'.containers) = Len(pod.containers)
      /\ \A j \in DOMAIN pod.containers :
           /\ pod'.containers[j].name = pod.containers[j].name
           /\ pod'.containers[j].mounts = pod.containers[j].mounts
           /\ j # i => pod'.containers[j].env = pod.containers[j].env
      /\ pod'.containers[i].env = Append(pod.containers[i].env, v)
  <2>1. i \in DOMAIN pod.containers
    BY <1>5
  <2>2. pod' = [pod EXCEPT !.containers[i] = Longer(pod.containers[i], v)]
    BY <1>2
  <2>3. \A q : q = [pod EXCEPT !.containers[i] = Longer(pod.containers[i], v)] =>
          /\ q \in Pods /\ q.volumes = pod.volumes
          /\ DOMAIN q.containers = DOMAIN pod.containers
          /\ Len(q.containers) = Len(pod.containers)
          /\ \A j \in DOMAIN pod.containers :
               /\ q.containers[j].name = pod.containers[j].name
               /\ q.containers[j].mounts = pod.containers[j].mounts
               /\ j # i => q.containers[j].env = pod.containers[j].env
          /\ q.containers[i].env = Append(pod.containers[i].env, v)
    BY <1>1, <1>4, <2>1, WithVariable, Zenon
  <2> QED
    BY <1>5, <2>2, <2>3
<1> HIDE DEF n
<1> QED
  BY <1>2, <1>3, <1>4, <1>5, <1>6, <1>7

\* A user's variable comes behind the tags, in both pods.
LEMMA VariableKeepsShape ==
  ASSUME Shape, NEW i \in DOMAIN user.containers, AddVariable(i)
  PROVE  Shape'
<1> DEFINE n == Len(user.containers)
<1>1. /\ TypeOK /\ UserKeeps /\ PodKeeps /\ TagsCounted
      /\ pod \in Pods /\ user \in Pods /\ target \in Targets /\ local \in BOOLEAN
      /\ drifted \in BOOLEAN /\ edits \in 0..MaxEdits
  BY DEF Shape, TypeOK
<1>2. target' = target /\ local' = local /\ drifted' = drifted
  BY VariableParts
<1>3. edits' \in 1..MaxEdits /\ MaxEdits \in Nat
  BY VariableParts, EditsAssumption, VariablesAssumption
<1>4. PICK v \in EnvVars :
        /\ v.name # Tag
        /\ user' \in Pods /\ user'.volumes = user.volumes
        /\ user'.share = user.share /\ user'.hostPID = user.hostPID
        /\ DOMAIN user'.containers = DOMAIN user.containers
        /\ Len(user'.containers) = Len(user.containers)
        /\ \A j \in DOMAIN user.containers :
             /\ user'.containers[j].name = user.containers[j].name
             /\ user'.containers[j].mounts = user.containers[j].mounts
             /\ j # i => user'.containers[j].env = user.containers[j].env
        /\ user'.containers[i].env = Append(user.containers[i].env, v)
        /\ pod' \in Pods /\ pod'.volumes = pod.volumes
        /\ DOMAIN pod'.containers = DOMAIN pod.containers
        /\ Len(pod'.containers) = Len(pod.containers)
        /\ \A j \in DOMAIN pod.containers :
             /\ pod'.containers[j].name = pod.containers[j].name
             /\ pod'.containers[j].mounts = pod.containers[j].mounts
             /\ j # i => pod'.containers[j].env = pod.containers[j].env
        /\ pod'.containers[i].env = Append(pod.containers[i].env, v)
  BY VariableParts
<1>5. n \in Nat /\ DOMAIN user.containers = 1..n /\ i \in 1..n /\ \A j \in 1..n : j \in DOMAIN pod.containers
  BY <1>1, SidecarIsLast
<1>6. /\ user' \in Pods /\ user'.volumes = user.volumes
      /\ user'.share = user.share /\ user'.hostPID = user.hostPID
      /\ DOMAIN user'.containers = DOMAIN user.containers
      /\ Len(user'.containers) = n
      /\ \A j \in 1..n :
           /\ user'.containers[j].name = user.containers[j].name
           /\ user'.containers[j].mounts = user.containers[j].mounts
           /\ j # i => user'.containers[j].env = user.containers[j].env
      /\ user'.containers[i].env = Append(user.containers[i].env, v)
  BY <1>4, <1>5
<1>7. /\ pod' \in Pods /\ pod'.volumes = pod.volumes
      /\ DOMAIN pod'.containers = DOMAIN pod.containers
      /\ Len(pod'.containers) = Len(pod.containers)
      /\ \A j \in DOMAIN pod.containers :
           /\ pod'.containers[j].name = pod.containers[j].name
           /\ pod'.containers[j].mounts = pod.containers[j].mounts
           /\ j # i => pod'.containers[j].env = pod.containers[j].env
      /\ pod'.containers[i].env = Append(pod.containers[i].env, v)
  BY <1>4
<1> HIDE DEF n
<1>8. TypeOK'
  <2>1. edits' \in 0..MaxEdits
    BY <1>3
  <2> QED
    BY <1>1, <1>2, <1>6, <1>7, <2>1 DEF TypeOK
<1>9. UserKeeps'
  <2>1. Valid(user) /\ Untouched(user)
    BY <1>1 DEF UserKeeps
  <2>2. Valid(user')
    BY <1>5, <1>6, <2>1 DEF Valid
  <2>3. \A j \in 1..n : \A k \in DOMAIN user'.containers[j].env :
          user'.containers[j].env[k].name # Tag
    <3>1. SUFFICES ASSUME NEW j \in 1..n, NEW k \in DOMAIN user'.containers[j].env
                   PROVE  user'.containers[j].env[k].name # Tag
      OBVIOUS
    <3>2. \A m \in DOMAIN user.containers[j].env : user.containers[j].env[m].name # Tag
      BY <1>5, <2>1 DEF Untouched
    <3>3. user.containers[j].env \in Seq(EnvVars)
      BY <1>1, <1>5, PodParts
    <3>4. CASE j = i
      <4> DEFINE old == user.containers[i].env
                 new == Append(old, v)
      <4>1. user'.containers[j].env = new
        BY <1>6, <3>4
      <4>2. \A m \in DOMAIN new : new[m].name # Tag
        <5>1. old \in Seq(EnvVars) /\ \A m \in DOMAIN old : old[m].name # Tag
          BY <3>2, <3>3, <3>4
        <5> HIDE DEF old
        <5>2. /\ DOMAIN new = 1..(Len(old) + 1) /\ DOMAIN old = 1..Len(old) /\ Len(old) \in Nat
              /\ \A m \in 1..Len(old) : new[m] = old[m]
              /\ new[Len(old) + 1] = v
          BY <1>4, <5>1
        <5> HIDE DEF new
        <5>3. \A m \in 1..(Len(old) + 1) : m \in 1..Len(old) \/ m = Len(old) + 1
          BY <5>2
        <5> QED
          BY <1>4, <5>1, <5>2, <5>3
      <4> HIDE DEF new
      <4> QED
        BY <3>1, <4>1, <4>2
    <3>5. CASE j # i
      BY <1>6, <3>1, <3>2, <3>5
    <3> QED
      BY <3>4, <3>5
  <2>4. Untouched(user')
    BY <1>5, <1>6, <2>1, <2>3 DEF Untouched
  <2> QED
    BY <2>2, <2>4 DEF UserKeeps
<1>10. (HasSidecar(pod))' <=> HasSidecar(pod)
  BY <1>7 DEF HasSidecar
<1>11. OwnContainers(pod'.containers) = OwnContainers(pod.containers)
  BY <1>7 DEF OwnContainers
<1>12. ASSUME NEW j \in 1..n
       PROVE  /\ SameContainer(pod'.containers[j], user'.containers[j])
              /\ TagsOf(pod'.containers[j].env) = TagsOf(pod.containers[j].env)
  <2>1. /\ pod.containers[j].env \in Seq(EnvVars) /\ user.containers[j].env \in Seq(EnvVars)
    BY <1>1, <1>5, PodParts
  <2>2. SameContainer(pod.containers[j], user.containers[j])
    BY <1>1, <1>5 DEF PodKeeps
  <2>3. /\ pod'.containers[j].name = user'.containers[j].name
        /\ Keeps(pod'.containers[j].mounts, user'.containers[j].mounts,
                 OwnMounts(pod'.containers[j].mounts))
    BY <1>5, <1>6, <1>7, <2>2 DEF SameContainer
  <2>4. CASE j # i
    BY <1>5, <1>6, <1>7, <2>2, <2>3, <2>4 DEF SameContainer
  <2>5. CASE j = i
    <3>1. /\ Untagged(Append(pod.containers[j].env, v), Append(user.containers[j].env, v))
          /\ TagsOf(Append(pod.containers[j].env, v)) = TagsOf(pod.containers[j].env)
      BY <1>4, <2>1, <2>2, VariableAdded DEF SameContainer
    <3>2. /\ pod'.containers[j].env = Append(pod.containers[j].env, v)
          /\ user'.containers[j].env = Append(user.containers[j].env, v)
      BY <1>6, <1>7, <2>5
    <3> QED
      BY <2>3, <3>1, <3>2 DEF SameContainer
  <2> QED
    BY <2>4, <2>5
<1>13. PodKeeps'
  <2>1. /\ Len(pod.containers) <= n + 1 /\ n <= Len(pod.containers)
        /\ OwnContainers(pod.containers) = 1..n
        /\ Keeps(pod.volumes, user.volumes, OwnVolumes(pod.volumes))
        /\ ~ HasSidecar(pod) =>
             /\ pod.volumes = user.volumes
             /\ \A j \in 1..n : pod.containers[j].mounts = user.containers[j].mounts
    BY <1>1, <1>5 DEF PodKeeps, n
  <2>2. /\ (Len(pod.containers) <= Len(user.containers) + 1)'
        /\ (Len(user.containers) <= Len(pod.containers))'
        /\ (OwnContainers(pod.containers) = 1..Len(user.containers))'
        /\ (Keeps(pod.volumes, user.volumes, OwnVolumes(pod.volumes)))'
    BY <1>6, <1>7, <1>11, <2>1
  <2>3. (\A j \in DOMAIN user.containers : SameContainer(pod.containers[j], user.containers[j]))'
    BY <1>5, <1>6, <1>12
  <2>4. (~ HasSidecar(pod) =>
          /\ pod.volumes = user.volumes
          /\ \A j \in DOMAIN user.containers :
               pod.containers[j].mounts = user.containers[j].mounts)'
    BY <1>5, <1>6, <1>7, <1>10, <2>1
  <2> QED
    BY <2>2, <2>3, <2>4 DEF PodKeeps
<1>14. TagsCounted'
  <2>1. \A c : Entries(c)' = Entries(c)
    BY <1>2 DEF Entries
  <2>2. \A j \in 1..n : Entries(user'.containers[j]) = Entries(user.containers[j])
    BY <1>6, EntriesByName
  <2>3. ~ drifted =>
          \A j \in 1..n : IF HasSidecar(pod) /\ Entries(user.containers[j]) # {}
                            THEN \E t : TagsOf(pod.containers[j].env) = {t}
                            ELSE TagsOf(pod.containers[j].env) = {}
    BY <1>1, <1>5 DEF TagsCounted
  <2>4. ~ drifted' =>
          \A j \in 1..n : IF HasSidecar(pod)' /\ Entries(user'.containers[j]) # {}
                            THEN \E t : TagsOf(pod'.containers[j].env) = {t}
                            ELSE TagsOf(pod'.containers[j].env) = {}
    BY <1>2, <1>10, <1>12, <2>2, <2>3
  <2>5. DOMAIN user'.containers = 1..n
    BY <1>5, <1>6
  <2> QED
    BY <2>1, <2>4, <2>5 DEF TagsCounted
<1> QED
  BY <1>8, <1>9, <1>13, <1>14 DEF Shape

\* At first the pod is the user's.
LEMMA InitHasShape == Init => Shape
<1>1. SUFFICES ASSUME Init PROVE Shape
  OBVIOUS
<1>2. PICK setup \in Setups : pod = setup.pod /\ target = setup.target /\ local = setup.local
  BY <1>1 DEF Init
<1>3. user = pod /\ drifted = FALSE /\ edits = 0
  BY <1>1 DEF Init
<1>4. pod \in Pods /\ Valid(pod) /\ Untouched(pod) /\ target \in Targets /\ local \in BOOLEAN
  BY <1>2, SetupsAssumption
<1>5. TypeOK
  <2>1. 0 \in 0..MaxEdits
    BY EditsAssumption, VariablesAssumption
  <2> QED
    BY <1>3, <1>4, <2>1 DEF TypeOK
<1>6. UserKeeps
  BY <1>3, <1>4 DEF UserKeeps
<1>7. \A i \in DOMAIN pod.containers :
        /\ pod.containers[i].name # SidecarName
        /\ SameContainer(pod.containers[i], pod.containers[i])
        /\ TagsOf(pod.containers[i].env) = {}
  <2>1. SUFFICES ASSUME NEW i \in DOMAIN pod.containers
                 PROVE  /\ pod.containers[i].name # SidecarName
                        /\ SameContainer(pod.containers[i], pod.containers[i])
                        /\ TagsOf(pod.containers[i].env) = {}
    OBVIOUS
  <2>2. pod.containers[i].env \in Seq(EnvVars) /\ pod.containers[i].mounts \in Seq(Mounting)
    BY <1>4, PodParts
  <2>3. Untagged(pod.containers[i].env, pod.containers[i].env) /\ TagsOf(pod.containers[i].env) = {}
    BY <1>4, <2>2, NoTagYet DEF Untouched
  <2>4. Keeps(pod.containers[i].mounts, pod.containers[i].mounts, OwnMounts(pod.containers[i].mounts))
    BY <1>4, <2>2, MountsOwn, KeepsItself
  <2> QED
    BY <1>4, <2>3, <2>4 DEF SameContainer, Untouched
<1>8. ~ HasSidecar(pod)
  BY <1>7 DEF HasSidecar
<1>9. PodKeeps
  <2>1. Len(pod.containers) \in Nat /\ DOMAIN pod.containers = 1..Len(pod.containers)
        /\ pod.volumes \in Seq(Names)
    BY <1>4, PodParts
  <2>2. OwnContainers(pod.containers) = 1..Len(pod.containers)
    BY <1>7, <2>1 DEF OwnContainers
  <2>3. Keeps(pod.volumes, pod.volumes, OwnVolumes(pod.volumes))
    BY <1>3, <1>5, <1>6, <2>1, UserParts, KeepsItself
  <2>4. Len(pod.containers) <= Len(pod.containers) + 1 /\ Len(pod.containers) <= Len(pod.containers)
    BY <2>1
  <2> QED
    BY <1>3, <1>7, <2>2, <2>3, <2>4 DEF PodKeeps
<1>10. TagsCounted
  BY <1>3, <1>7, <1>8 DEF TagsCounted
<1> QED
  BY <1>5, <1>6, <1>9, <1>10 DEF Shape

\* The inductive invariant: through additions and removals of the sidecar,
\* new variables and changes of the target, the pod is the user's with what
\* addSidecar appended.
THEOREM ShapeInvariant == Spec => []Shape
<1>1. ASSUME Shape, [Next]_vars PROVE Shape'
  <2>1. CASE UNCHANGED vars
    BY <1>1, <2>1 DEF vars, Shape, TypeOK, UserKeeps, PodKeeps, TagsCounted, Entries
  <2> QED
    BY <1>1, <2>1, AddKeepsShape, DeleteKeepsShape, RetargetKeepsShape, VariableKeepsShape DEF Next
<1> QED
  BY <1>1, InitHasShape, PTL DEF Spec

\* RoundTrip: DeleteSidecar gives the pod back as its user has it.
THEOREM ComesBack == Spec => []RoundTrip
BY ShapeInvariant, ShapeTrip, PTL

-----------------------------------------------------------------------------
(* Places under mounts.                                                    *)

\* The items of a mount's directory are the first ones of a path below it.
LEMMA PrefixItems ==
  ASSUME NEW m \in Path, NEW p \in Path
  PROVE  IsPrefix(m, p) <=> Len(m) <= Len(p) /\ \A j \in 1..Len(m) : m[j] = p[j]
<1>1. Len(m) \in Nat /\ Len(p) \in Nat /\ m \in Seq(Names) /\ p \in Seq(Names)
  BY DEF Path
<1>2. /\ SubSeq(m, 1, Len(m)) = [j \in 1..Len(m) |-> m[j]]
      /\ SubSeq(p, 1, Len(m)) = [j \in 1..Len(m) |-> p[j]]
  BY <1>1
<1> QED
  BY <1>1, <1>2 DEF IsPrefix

\* A path below a directory of one item.
LEMMA PathJoined ==
  ASSUME NEW dir \in Path, NEW rel \in Path, Len(dir) = 1
  PROVE  dir \o rel \in Path /\ 1 <= Len(dir \o rel)
<1>1. dir \in Seq(Names) /\ rel \in Seq(Names) /\ Len(rel) \in Nat
  BY DEF Path
<1>2. dir \o rel \in Seq(Names) /\ Len(dir \o rel) = Len(dir) + Len(rel)
  BY <1>1, ConcatProperties
<1> QED
  BY <1>1, <1>2 DEF Path

\* A path of at most one item is below no path but the root.
LEMMA NothingBelow ==
  ASSUME NEW m \in Path, NEW p \in Path, Len(m) <= 1, 1 <= Len(p)
  PROVE  ~ IsStrictPrefix(p, m)
<1>1. Len(m) \in Nat /\ Len(p) \in Nat /\ m \in Seq(Names) /\ p \in Seq(Names)
  BY DEF Path
<1>2. SUFFICES ASSUME IsPrefix(p, m), p # m PROVE FALSE
  BY DEF IsStrictPrefix
<1>3. Len(p) <= Len(m) /\ \A j \in 1..Len(p) : p[j] = m[j]
  BY <1>2, PrefixItems
<1>4. Len(p) = Len(m)
  BY <1>1, <1>3
<1>5. p = m
  BY <1>1, <1>3, <1>4
<1> QED
  BY <1>2, <1>5

\* The parts of mounts.
LEMMA MountPaths ==
  ASSUME NEW mounts \in Seq(Mounting)
  PROVE  /\ DOMAIN mounts = 1..Len(mounts) /\ Len(mounts) \in Nat
         /\ \A i \in DOMAIN mounts : /\ mounts[i].path \in Path /\ mounts[i].volume \in Names
                                     /\ mounts[i].sub \in Path
                                     /\ Len(mounts[i].path) \in Nat
<1>1. \A i \in DOMAIN mounts : mounts[i] \in Mounting
  OBVIOUS
<1> QED
  BY <1>1 DEF Mounting, Path

\* Of the mounts that hold a path one is the deepest.
LEMMA DeepestHolds ==
  ASSUME NEW mounts \in Seq(Mounting), NEW p \in Path, Holding(mounts, p) # {}
  PROVE  LET d == Deepest(mounts, p)
         IN  /\ d \in Holding(mounts, p)
             /\ \A j \in Holding(mounts, p) : Len(mounts[j].path) <= Len(mounts[d].path)
<1> DEFINE H == Holding(mounts, p)
           L == {Len(mounts[i].path) : i \in H}
<1>1. \A i \in H : i \in DOMAIN mounts /\ Len(mounts[i].path) \in Nat /\ Len(mounts[i].path) <= Len(p)
  BY MountPaths, PrefixItems DEF Holding
<1>2. Len(p) \in Nat
  BY DEF Path
<1> HIDE DEF H
<1>3. L # {} /\ L \in SUBSET Nat /\ \A k \in L : k <= Len(p)
  BY <1>1 DEF H
<1>4. \E l \in L : \A k \in L : k <= l
  <2> HIDE DEF L
  <2> QED
    BY <1>2, <1>3, A!LargestExists
<1>5. \E i \in H : \A j \in H : Len(mounts[j].path) <= Len(mounts[i].path)
  BY <1>4
<1> QED
  BY <1>5 DEF Deepest, H

\* If no other mount stands in the way, GetVolumeMounts takes the deepest one.
LEMMA ChosenIsDeepest ==
  ASSUME NEW mounts \in Seq(Mounting), NEW p \in Path, Holding(mounts, p) # {},
         \A j \in DOMAIN mounts : mounts[j].path # NoPath,
         Unambiguous(mounts, p)
  PROVE  ChooseMount(mounts, p) = Deepest(mounts, p) /\ ChooseMount(mounts, p) # 0
<1> DEFINE d == Deepest(mounts, p)
           c == ChooseMount(mounts, p)
           far(i) == Agreement(mounts[i].path, p)
           l == Len(mounts[d].path)
<1>1. d \in DOMAIN mounts /\ IsPrefix(mounts[d].path, p)
  BY DeepestHolds DEF Holding
<1>2. \A j \in DOMAIN mounts \ {d} : far(j) < l + (IF j > d THEN 1 ELSE 0)
  BY DEF Unambiguous
<1> HIDE DEF d
<1>3. /\ mounts[d].path \in Path /\ l \in Nat /\ l <= Len(p) /\ Len(p) \in Nat
      /\ DOMAIN p = 1..Len(p) /\ DOMAIN mounts[d].path = 1..l
      /\ \A j \in 1..l : mounts[d].path[j] = p[j]
      /\ l # 0
  <2>1. mounts[d].path \in Path /\ mounts[d].path # <<>>
    BY <1>1, MountPaths DEF NoPath
  <2> QED
    BY <1>1, <2>1, PrefixItems DEF Path
<1>4. far(d) \in Nat /\ far(d) >= l
  <2>1. l \in DOMAIN mounts[d].path \cap DOMAIN p /\ mounts[d].path[l] = p[l]
    BY <1>3
  <2>2. far(d) \in 0..Len(p) /\ l <= far(d)
    BY <1>3, <2>1, AgreementIsLast
  <2> QED
    BY <1>3, <2>2
<1>5. \A j \in DOMAIN mounts : j \in Nat /\ far(j) \in Nat
  <2>1. \A j \in DOMAIN mounts : far(j) \in 0..Len(p)
    BY MountPaths, AgreementIsLast
  <2> QED
    BY <1>3, <2>1, MountPaths
<1>6. /\ c = 0 => \A i \in DOMAIN mounts : far(i) = 0
      /\ c # 0 => /\ c \in DOMAIN mounts
                  /\ \A i \in DOMAIN mounts : far(i) <= far(c)
                  /\ \A i \in DOMAIN mounts : i < c => far(i) < far(c)
  BY ChosenIsFirst
<1> HIDE DEF c, far, l
<1>7. c # 0
  BY <1>1, <1>3, <1>4, <1>6
<1>8. far(d) <= far(c) /\ c \in DOMAIN mounts
  BY <1>1, <1>6, <1>7
<1>9. ~ (c < d)
  <2>1. SUFFICES ASSUME c < d PROVE FALSE
    OBVIOUS
  <2>2. far(c) < l
    BY <1>1, <1>2, <1>3, <1>5, <1>8, <2>1
  <2> QED
    BY <1>1, <1>3, <1>4, <1>5, <1>8, <2>2
<1>10. ~ (d < c)
  <2>1. SUFFICES ASSUME d < c PROVE FALSE
    OBVIOUS
  <2>2. far(c) < l + 1
    BY <1>1, <1>2, <1>3, <1>5, <1>8, <2>1
  <2>3. far(d) < far(c)
    BY <1>1, <1>6, <1>7, <2>1
  <2> QED
    BY <1>1, <1>3, <1>4, <1>5, <1>8, <2>2, <2>3
<1>11. c = d
  BY <1>1, <1>5, <1>8, <1>9, <1>10
<1> QED
  BY <1>7, <1>11 DEF c, d

\* What GetVolumeMounts returns for the i-th path.
LEMMA FoundAt ==
  ASSUME NEW container \in Containers, NEW paths \in Seq(Path), Len(paths) <= Len(BackupDir),
         NEW i \in DOMAIN paths
  PROVE  LET found == GetVolumeMounts(container, paths)
             c == ChooseMount(container.mounts, paths[i])
         IN  /\ DOMAIN found.mounts = DOMAIN paths
             /\ i \in DOMAIN BackupDir
             /\ \A j \in DOMAIN paths : found.mounts[j].path \in {NoPath, BackupDir[j]}
             /\ c # 0 => /\ found.paths[i] =
                              Rebase(BackupDir[i], container.mounts[c].path, paths[i])
                         /\ found.mounts[i].path = BackupDir[i]
                         /\ found.mounts[i].volume = container.mounts[c].volume
                         /\ found.mounts[i].sub = container.mounts[c].sub
<1> DEFINE chosen == [k \in DOMAIN paths |-> ChooseMount(container.mounts, paths[k])]
           there(k) == IF chosen[k] = 0 THEN NoPath
                       ELSE Rebase(BackupDir[k], container.mounts[chosen[k]].path, paths[k])
           mount(k) == IF chosen[k] = 0 THEN Mount(NoName, NoPath, NoPath)
                       ELSE Mount(container.mounts[chosen[k]].volume, BackupDir[k],
                                  container.mounts[chosen[k]].sub)
           found == GetVolumeMounts(container, paths)
<1>1. found = [paths |-> [k \in DOMAIN paths |-> there(k)],
               mounts |-> [k \in DOMAIN paths |-> mount(k)]]
  BY DEF GetVolumeMounts
<1>2. chosen[i] = ChooseMount(container.mounts, paths[i])
  OBVIOUS
<1>3. i \in DOMAIN BackupDir
  BY BackupDirs
<1> HIDE DEF found, chosen
<1>4. \A k \in DOMAIN paths : mount(k).path \in {NoPath, BackupDir[k]}
  BY DEF Mount
<1>5. chosen[i] # 0 => /\ there(i) = Rebase(BackupDir[i], container.mounts[chosen[i]].path, paths[i])
                       /\ mount(i).path = BackupDir[i]
                       /\ mount(i).volume = container.mounts[chosen[i]].volume
                       /\ mount(i).sub = container.mounts[chosen[i]].sub
  BY DEF Mount
<1> HIDE DEF there, mount
<1>6. /\ DOMAIN found.mounts = DOMAIN paths /\ \A k \in DOMAIN paths : found.mounts[k] = mount(k)
      /\ found.paths[i] = there(i)
  BY <1>1
<1> QED
  BY <1>2, <1>3, <1>4, <1>5, <1>6 DEF found

\* In the sidecar a path below the i-th directory is under the i-th mount.
LEMMA DeepestIsOwn ==
  ASSUME NEW mounts \in Seq(Mounting), NEW i \in DOMAIN mounts, NEW below \in Path,
         mounts[i].path \in Path, Len(mounts[i].path) = 1,
         \A j \in DOMAIN mounts : Len(mounts[j].path) <= 1,
         \A j \in DOMAIN mounts : mounts[j].path = mounts[i].path => j = i
  PROVE  LET p == mounts[i].path \o below
         IN  /\ Holding(mounts, p) # {}
             /\ Deepest(mounts, p) = i
             /\ SubSeq(p, 2, Len(p)) = below
<1> DEFINE dir == mounts[i].path
           p == dir \o below
<1>1. /\ p \in Path /\ p[1] = dir[1] /\ Len(p) = Len(below) + 1 /\ Len(below) \in Nat
      /\ \A k \in 1..Len(below) : p[k + 1] = below[k]
  <2>0. dir \in Seq(Names) /\ below \in Seq(Names)
    BY DEF Path
  <2>1. /\ p \in Seq(Names) /\ Len(p) = Len(dir) + Len(below) /\ Len(below) \in Nat
        /\ dir \in Seq(Names) /\ below \in Seq(Names)
    <3> HIDE DEF dir
    <3> QED
      BY <2>0, ConcatProperties
  <2>2. \A k \in 1..(Len(dir) + Len(below)) :
          p[k] = IF k <= Len(dir) THEN dir[k] ELSE below[k - Len(dir)]
    BY <2>1, ConcatProperties
  <2> HIDE DEF p, dir
  <2>3. Len(dir) = 1
    BY DEF dir
  <2>4. p[1] = dir[1]
    <3>1. 1 \in 1..(Len(dir) + Len(below)) /\ 1 <= Len(dir)
      BY <2>1, <2>3
    <3> QED
      BY <2>2, <3>1
  <2>5. ASSUME NEW k \in 1..Len(below) PROVE p[k + 1] = below[k]
    <3>1. k + 1 \in 1..(Len(dir) + Len(below)) /\ ~ (k + 1 <= Len(dir)) /\ (k + 1) - Len(dir) = k
      BY <2>1, <2>3
    <3> QED
      BY <2>2, <3>1
  <2> QED
    BY <2>1, <2>3, <2>4, <2>5 DEF Path
<1> HIDE DEF p
<1>2. \A j \in DOMAIN mounts :
        mounts[j].path \in Path /\ Len(mounts[j].path) \in Nat
  BY MountPaths
<1>3. i \in Holding(mounts, p)
  <2>1. IsPrefix(dir, p)
    BY <1>1, PrefixItems
  <2> QED
    BY <2>1 DEF Holding
<1>4. ASSUME NEW j \in Holding(mounts, p), Len(mounts[j].path) = 1 PROVE j = i
  <2>1. j \in DOMAIN mounts /\ IsPrefix(mounts[j].path, p)
    BY DEF Holding
  <2>2. mounts[j].path[1] = p[1]
    BY <1>1, <1>2, <1>4, <2>1, PrefixItems
  <2>3. mounts[j].path = dir
    <3>1. mounts[j].path \in Seq(Names) /\ dir \in Seq(Names) /\ Len(dir) = 1
      BY <1>2, <2>1 DEF Path
    <3>2. \A k \in 1..Len(dir) : mounts[j].path[k] = dir[k]
      BY <1>1, <2>2, <3>1
    <3> QED
      BY <1>4, <3>1, <3>2, SeqEqual
  <2> QED
    BY <2>1, <2>3
<1>5. Deepest(mounts, p) = i
  <2>1. \A j \in Holding(mounts, p) : j \in DOMAIN mounts
    BY DEF Holding
  <2>2. /\ Deepest(mounts, p) \in Holding(mounts, p)
        /\ \A j \in Holding(mounts, p) : Len(mounts[j].path) <= Len(mounts[Deepest(mounts, p)].path)
    BY <1>1, <1>3, DeepestHolds
  <2> DEFINE e == Deepest(mounts, p)
  <2> HIDE DEF dir
  <2>3. e \in DOMAIN mounts /\ 1 <= Len(mounts[e].path)
    BY <1>3, <2>1, <2>2
  <2> HIDE DEF e
  <2>4. Len(mounts[e].path) = 1
    <3> DEFINE l == Len(mounts[e].path)
    <3>1. l \in Nat /\ l <= 1 /\ 1 <= l
      BY <1>2, <2>3
    <3> HIDE DEF l
    <3>2. l = 1
      BY <3>1
    <3> QED
      BY <3>2 DEF l
  <2> QED
    BY <1>4, <2>2, <2>4 DEF e
<1>6. SubSeq(p, 2, Len(p)) = below
  <2>1. SubSeq(p, 2, Len(p)) = [k \in 1..Len(below) |-> p[k + 1]]
    BY <1>1 DEF Path
  <2>2. below = [k \in 1..Len(below) |-> below[k]]
    BY DEF Path
  <2> QED
    BY <1>1, <2>1, <2>2
<1> QED
  BY <1>3, <1>5, <1>6 DEF p, dir

-----------------------------------------------------------------------------
(* The sidecar is the one for the last container listed.                   *)

\* The mounts and the last variable of the sidecar, as they were when it was
\* assembled: it is not assembled again when the pod or the target changes.
SidecarServes ==
  HasSidecar(pod) /\ ~ drifted =>
    \A k \in Listed(user) : (\A i \in Listed(user) : i <= k) =>
      \E sc \in Containers :
        /\ Serves(sc, user.containers[k])
        /\ TheSidecar.env = sc.env
        /\ TheSidecar.mounts = IF local THEN Append(sc.mounts, ResticMount) ELSE sc.mounts

\* Only the name and the mounts of the container matter.
LEMMA ServesAlike ==
  ASSUME NEW sc, NEW c, NEW d, c.name = d.name, c.mounts = d.mounts, Serves(sc, c)
  PROVE  Serves(sc, d)
<1>1. Entry(c) = Entry(d)
  BY EntriesByName
<1>2. \A paths : GetVolumeMounts(c, paths) = GetVolumeMounts(d, paths)
  BY DEF GetVolumeMounts
<1>3. SharedMount(c) = SharedMount(d)
  BY <1>1 DEF SharedMount
<1>4. GetVolumeMounts(c, Entry(c).paths) = GetVolumeMounts(d, Entry(d).paths)
  BY <1>1, <1>2
<1> QED
  BY <1>3, <1>4 DEF Serves

\* The target says the same of the same containers.
LEMMA SameTarget ==
  ASSUME target' = target, NEW c
  PROVE  /\ Entries(c)' = Entries(c) /\ Entry(c)' = Entry(c)
         /\ \A sc : Serves(sc, c)' <=> Serves(sc, c)
<1>1. Entries(c)' = Entries(c)
  BY DEF Entries
<1>2. Entry(c)' = Entry(c)
  BY <1>1 DEF Entry
<1>3. SharedMount(c)' = SharedMount(c)
  BY <1>2 DEF SharedMount
<1> QED
  BY <1>1, <1>2, <1>3 DEF Serves

\* addSidecar makes the sidecar for the last container.
LEMMA AddServes ==
  ASSUME Shape, AddSidecar
  PROVE  SidecarServes'
<1> DEFINE n == Len(user.containers)
           q == WithSidecar(pod)
<1>0. PICK sc : sc = SidecarFor(pod)
  OBVIOUS
<1>1. /\ TypeOK /\ PodKeeps
      /\ pod \in Pods /\ user \in Pods /\ target \in Targets /\ local \in BOOLEAN
  BY DEF Shape, TypeOK
<1>2. /\ ~ HasSidecar(pod) /\ pod' = q
      /\ user' = user /\ target' = target /\ local' = local /\ drifted' = drifted
  BY DEF AddSidecar
<1>3. /\ n \in Nat /\ DOMAIN user.containers = 1..n /\ Len(pod.containers) = n
      /\ DOMAIN pod.containers = 1..n
  BY <1>1, <1>2, SidecarIsLast, PodParts
<1>4. /\ Len(q.containers) = n + 1
      /\ q.containers[n + 1].env = sc.env
      /\ q.containers[n + 1].mounts = IF local THEN Append(sc.mounts, ResticMount) ELSE sc.mounts
  BY <1>0, <1>1, <1>3, WithSidecarParts
<1> HIDE DEF q, n
<1>5. TheSidecar' = q.containers[n + 1]
  BY <1>2, <1>4 DEF TheSidecar, Last
<1>6. \A i \in 1..n : /\ pod.containers[i].name = user.containers[i].name
                      /\ pod.containers[i].mounts = user.containers[i].mounts
  BY <1>1, <1>2, <1>3 DEF PodKeeps, SameContainer
<1>7. Listed(pod) = Listed(user)
  <2>1. \A i \in 1..n : Entries(pod.containers[i]) = Entries(user.containers[i])
    BY <1>6, EntriesByName
  <2> QED
    BY <1>3, <2>1 DEF Listed
<1>8. Listed(user)' = Listed(user)
  <2>1. \A c : Entries(c)' = Entries(c)
    BY <1>2, SameTarget
  <2> QED
    BY <1>2, <2>1 DEF Listed
<1>9. ASSUME NEW k \in Listed(user), \A i \in Listed(user) : i <= k
      PROVE  sc \in Containers /\ Serves(sc, user.containers[k])
  <2>1. sc \in Containers /\ Serves(sc, pod.containers[k])
    BY <1>0, <1>1, <1>7, <1>9, SidecarServesLast
  <2>2. k \in 1..n
    BY <1>3 DEF Listed
  <2> QED
    BY <1>6, <2>1, <2>2, ServesAlike
<1>10. ASSUME NEW k \in Listed(user), \A i \in Listed(user) : i <= k
       PROVE  /\ sc \in Containers
              /\ Serves(sc, user.containers[k])'
              /\ (TheSidecar.env = sc.env)'
              /\ (TheSidecar.mounts =
                    IF local THEN Append(sc.mounts, ResticMount) ELSE sc.mounts)'
  <2>1. \A c : Serves(sc, c)' <=> Serves(sc, c)
    BY <1>2, SameTarget
  <2>2. sc \in Containers /\ Serves(sc, user.containers[k])
    BY <1>9, <1>10
  <2>3. Serves(sc, user.containers[k])'
    BY <1>2, <2>1, <2>2
  <2>4. (TheSidecar.env = sc.env)'
    BY <1>4, <1>5
  <2>5. (TheSidecar.mounts = IF local THEN Append(sc.mounts, ResticMount) ELSE sc.mounts)'
    BY <1>2, <1>4, <1>5 DEF ResticMount
  <2> QED
    BY <2>2, <2>3, <2>4, <2>5
<1>11. (\A k \in Listed(user) : (\A i \in Listed(user) : i <= k) =>
          \E s \in Containers :
            /\ Serves(s, user.containers[k])
            /\ TheSidecar.env = s.env
            /\ TheSidecar.mounts = IF local THEN Append(s.mounts, ResticMount) ELSE s.mounts)'
  BY <1>8, <1>10
<1> QED
  BY <1>11 DEF SidecarServes

\* A new variable of another container does not change that.
LEMMA VariableServes ==
  ASSUME Shape, SidecarServes, NEW i \in DOMAIN user.containers, AddVariable(i)
  PROVE  SidecarServes'
<1> DEFINE n == Len(user.containers)
<1>1. TypeOK /\ PodKeeps
  BY DEF Shape
<1>2. target' = target /\ local' = local /\ drifted' = drifted
  BY VariableParts
<1>3. PICK v \in EnvVars :
        /\ v.name # Tag
        /\ user' \in Pods /\ user'.volumes = user.volumes
        /\ user'.share = user.share /\ user'.hostPID = user.hostPID
        /\ DOMAIN user'.containers = DOMAIN user.containers
        /\ Len(user'.containers) = Len(user.containers)
        /\ \A j \in DOMAIN user.containers :
             /\ user'.containers[j].name = user.containers[j].name
             /\ user'.containers[j].mounts = user.containers[j].mounts
             /\ j # i => user'.containers[j].env = user.containers[j].env
        /\ user'.containers[i].env = Append(user.containers[i].env, v)
        /\ pod' \in Pods /\ pod'.volumes = pod.volumes
        /\ DOMAIN pod'.containers = DOMAIN pod.containers
        /\ Len(pod'.containers) = Len(pod.containers)
        /\ \A j \in DOMAIN pod.containers :
             /\ pod'.containers[j].name = pod.containers[j].name
             /\ pod'.containers[j].mounts = pod.containers[j].mounts
             /\ j # i => pod'.containers[j].env = pod.containers[j].env
        /\ pod'.containers[i].env = Append(pod.containers[i].env, v)
  BY VariableParts
<1>4. SUFFICES ASSUME HasSidecar(pod)', ~ drifted' PROVE SidecarServes'
  BY DEF SidecarServes
<1>5. HasSidecar(pod) /\ ~ drifted
  BY <1>2, <1>3, <1>4 DEF HasSidecar
<1>6. /\ n \in Nat /\ DOMAIN user.containers = 1..n /\ Len(pod.containers) = n + 1
      /\ DOMAIN pod.containers = 1..(n + 1)
  BY <1>1, <1>5, SidecarIsLast, PodParts DEF TypeOK
<1> HIDE DEF n
<1>7. TheSidecar'.env = TheSidecar.env /\ TheSidecar'.mounts = TheSidecar.mounts
  <2>1. n + 1 \in DOMAIN pod.containers /\ n + 1 # i
    BY <1>6
  <2>2. /\ pod'.containers[n + 1].env = pod.containers[n + 1].env
        /\ pod'.containers[n + 1].mounts = pod.containers[n + 1].mounts
    BY <1>3, <2>1
  <2>3. TheSidecar = pod.containers[n + 1] /\ TheSidecar' = pod'.containers[n + 1]
    BY <1>3, <1>6 DEF TheSidecar, Last
  <2> QED
    BY <2>2, <2>3
<1>8. \A j \in DOMAIN user.containers : Entries(user'.containers[j]) = Entries(user.containers[j])
  BY <1>3, EntriesByName
<1>9. Listed(user)' = Listed(user)
  <2>1. \A c : Entries(c)' = Entries(c)
    BY <1>2, SameTarget
  <2> QED
    BY <1>3, <1>8, <2>1 DEF Listed
<1>10. ASSUME NEW k \in Listed(user), \A j \in Listed(user) : j <= k
       PROVE  \E sc \in Containers :
                /\ Serves(sc, user.containers[k])'
                /\ (TheSidecar.env = sc.env)'
                /\ (TheSidecar.mounts =
                      IF local THEN Append(sc.mounts, ResticMount) ELSE sc.mounts)'
  <2>1. PICK sc \in Containers :
          /\ Serves(sc, user.containers[k])
          /\ TheSidecar.env = sc.env
          /\ TheSidecar.mounts = IF local THEN Append(sc.mounts, ResticMount) ELSE sc.mounts
    BY <1>5, <1>10 DEF SidecarServes
  <2>2. k \in DOMAIN user.containers
    BY DEF Listed
  <2>3. Serves(sc, user'.containers[k])
    BY <1>3, <2>1, <2>2, ServesAlike
  <2>4. \A c : Serves(sc, c)' <=> Serves(sc, c)
    BY <1>2, SameTarget
  <2>5. Serves(sc, user.containers[k])'
    BY <2>3, <2>4
  <2>6. (TheSidecar.env = sc.env)'
    BY <1>7, <2>1
  <2>7. (TheSidecar.mounts = IF local THEN Append(sc.mounts, ResticMount) ELSE sc.mounts)'
    BY <1>2, <1>7, <2>1 DEF ResticMount
  <2> QED
    BY <2>5, <2>6, <2>7
<1>11. (\A k \in Listed(user) : (\A j \in Listed(user) : j <= k) =>
          \E sc \in Containers :
            /\ Serves(sc, user.containers[k])
            /\ TheSidecar.env = sc.env
            /\ TheSidecar.mounts = IF local THEN Append(sc.mounts, ResticMount) ELSE sc.mounts)'
  BY <1>9, <1>10
<1> QED
  BY <1>11 DEF SidecarServes

\* Nor does a step of nobody.
LEMMA StillServes ==
  ASSUME SidecarServes, UNCHANGED vars
  PROVE  SidecarServes'
<1>1. /\ pod' = pod /\ user' = user /\ target' = target /\ local' = local /\ drifted' = drifted
  BY DEF vars
<1>2. \A c : Entries(c)' = Entries(c) /\ \A sc : Serves(sc, c)' <=> Serves(sc, c)
  BY <1>1, SameTarget
<1>3. Listed(user)' = Listed(user)
  BY <1>1, <1>2 DEF Listed
<1>4. TheSidecar' = TheSidecar
  BY <1>1 DEF TheSidecar
<1> QED
  BY <1>1, <1>2, <1>3, <1>4 DEF SidecarServes, ResticMount

\* The sidecar, for as long as the target stays as it is, has the mounts and
\* the paths of the last container that the target lists.
THEOREM ServesInvariant == Spec => []SidecarServes
<1>1. Init => SidecarServes
  <2>1. ASSUME Init PROVE ~ HasSidecar(pod)
    <3>1. user = pod /\ UserKeeps /\ TypeOK
      BY <2>1, InitHasShape DEF Init, Shape
    <3> QED
      BY <3>1, UserParts DEF HasSidecar
  <2> QED
    BY <2>1 DEF SidecarServes
<1>2. ASSUME Shape, SidecarServes, [Next]_vars PROVE SidecarServes'
  <2>1. CASE AddSidecar
    BY <1>2, <2>1, AddServes
  <2>2. CASE DeleteSidecar
    BY <1>2, <2>2, DeleteKeepsShape DEF SidecarServes
  <2>3. CASE Retarget
    <3>1. pod' = pod /\ drifted' = (drifted \/ HasSidecar(pod))
      BY <2>3 DEF Retarget
    <3> QED
      BY <3>1 DEF SidecarServes
  <2>4. ASSUME NEW i \in DOMAIN user.containers, AddVariable(i) PROVE SidecarServes'
    BY <1>2, <2>4, VariableServes
  <2>5. CASE UNCHANGED vars
    BY <1>2, <2>5, StillServes
  <2> QED
    BY <1>2, <2>1, <2>2, <2>3, <2>4, <2>5 DEF Next
<1> QED
  BY <1>1, <1>2, ShapeInvariant, PTL DEF Spec

-----------------------------------------------------------------------------
(* The paths are found.                                                    *)

\* The last container that the target lists.
LEMMA ServedIsLast ==
  ASSUME user \in Pods, Listed(user) # {}
  PROVE  LET k == Max(Listed(user))
         IN  /\ k \in Listed(user) /\ \A i \in Listed(user) : i <= k
             /\ Served = user.containers[k]
<1> DEFINE L == Listed(user)
<1>1. DOMAIN user.containers = 1..Len(user.containers) /\ Len(user.containers) \in Nat
  BY PodParts
<1>2. L \in SUBSET Nat /\ \A i \in L : i <= Len(user.containers)
  BY <1>1 DEF Listed
<1>3. Max(L) \in L /\ \A i \in L : i <= Max(L)
  <2> HIDE DEF L
  <2> QED
    BY <1>1, <1>2, MaxIsLargest DEF L
<1>4. Served = user.containers[Max(L)]
  BY DEF Served, Listed
<1> QED
  BY <1>3, <1>4

\* The paths that the sidecar gets are those it was given last.
LEMMA PathsGivenLast ==
  ASSUME NEW env \in Seq(EnvVars), env # <<>>, NEW paths,
         env[Len(env)] = EnvVar(BACKUP_PATHS, paths), TheSidecar.env = env
  PROVE  BackupPaths = paths
<1> DEFINE given == {j \in DOMAIN env : env[j].name = BACKUP_PATHS}
           n == Len(env)
<1>1. n \in Nat /\ n \in DOMAIN env /\ DOMAIN env = 1..n
  BY EmptySeq
<1>2. env[n].name = BACKUP_PATHS /\ env[n].paths = paths
  BY DEF EnvVar
<1>3. n \in given /\ given \in SUBSET Nat /\ \A j \in given : j <= n
  BY <1>1, <1>2
<1> HIDE DEF given, n
<1>4. Max(given) \in given /\ \A j \in given : j <= Max(given)
  BY <1>1, <1>3, MaxIsLargest
<1>5. Max(given) = n
  <2> DEFINE m == Max(given)
  <2>1. m \in Nat /\ m <= n /\ n <= m
    BY <1>3, <1>4
  <2> HIDE DEF m
  <2>2. m = n
    BY <1>1, <2>1
  <2> QED
    BY <2>2 DEF m
<1>6. BackupPaths = env[Max(given)].paths
  BY DEF BackupPaths, given
<1> QED
  BY <1>2, <1>5, <1>6

\* The mounts for the paths, and the one for a local repository.
AllMounts(mounts) == IF local THEN Append(mounts, ResticMount) ELSE mounts

\* The mounts of the sidecar have directories of one item or none, and no two
\* of one item are the same.
LEMMA SidecarMounts ==
  ASSUME NEW container \in Containers, NEW paths \in Seq(Path), Len(paths) <= Len(BackupDir),
         local \in BOOLEAN, NEW i \in DOMAIN paths,
         ChooseMount(container.mounts, paths[i]) # 0
  PROVE  LET found == GetVolumeMounts(container, paths)
             mounts == AllMounts(found.mounts)
         IN  /\ mounts \in Seq(Mounting) /\ i \in DOMAIN mounts
             /\ mounts[i] = found.mounts[i]
             /\ mounts[i].path = BackupDir[i]
             /\ Len(mounts[i].path) = 1
             /\ \A j \in DOMAIN mounts : Len(mounts[j].path) <= 1
             /\ \A j \in DOMAIN mounts : mounts[j].path = mounts[i].path => j = i
<1> DEFINE found == GetVolumeMounts(container, paths)
           n == Len(found.mounts)
           mounts == AllMounts(found.mounts)
<1>1. found.mounts \in Seq(Mounting)
  BY FoundType
<1>2. /\ DOMAIN found.mounts = DOMAIN paths /\ i \in DOMAIN BackupDir
      /\ \A j \in DOMAIN paths : found.mounts[j].path \in {NoPath, BackupDir[j]}
      /\ found.mounts[i].path = BackupDir[i]
  BY FoundAt
<1> HIDE DEF found
<1>3. DOMAIN paths = 1..Len(paths) /\ Len(paths) \in Nat
  OBVIOUS
<1>4. \A j \in DOMAIN paths : j \in DOMAIN BackupDir /\ BackupDir[j] \in Path /\ Len(BackupDir[j]) = 1
  BY <1>3, BackupDirs
<1>5. Len(NoPath) = 0 /\ NoPath # BackupDir[i]
  <2>1. Len(NoPath) = 0
    BY DEF NoPath
  <2>2. Len(BackupDir[i]) = 1
    BY <1>2, BackupDirs
  <2>3. 0 # 1
    OBVIOUS
  <2> QED
    BY <2>1, <2>2, <2>3, Zenon
<1>6. /\ Len(found.mounts[i].path) = 1
      /\ \A j \in DOMAIN paths : Len(found.mounts[j].path) <= 1
      /\ \A j \in DOMAIN paths : found.mounts[j].path = found.mounts[i].path => j = i
  <2>1. ASSUME NEW j \in DOMAIN paths PROVE Len(found.mounts[j].path) <= 1
    <3> DEFINE l == Len(found.mounts[j].path)
    <3>1. l = 0 \/ l = 1
      BY <1>2, <1>4, <1>5
    <3> HIDE DEF l
    <3>2. l <= 1
      BY <3>1
    <3> QED
      BY <3>2 DEF l
  <2>2. \A j \in DOMAIN paths : BackupDir[j] = BackupDir[i] => j = i
    BY <1>2, <1>4, BackupDirs
  <2>3. \A j \in DOMAIN paths : found.mounts[j].path = found.mounts[i].path => j = i
    BY <1>2, <1>5, <2>2
  <2>4. Len(found.mounts[i].path) = 1
    BY <1>2, <1>4
  <2> QED
    BY <2>1, <2>3, <2>4
<1>7. CASE ~ local
  <2>1. mounts = found.mounts
    BY <1>7 DEF AllMounts
  <2> HIDE DEF mounts
  <2>2. /\ mounts \in Seq(Mounting) /\ i \in DOMAIN mounts
        /\ mounts[i].path = BackupDir[i] /\ Len(mounts[i].path) = 1
        /\ \A k \in DOMAIN mounts : Len(mounts[k].path) <= 1
        /\ \A k \in DOMAIN mounts : mounts[k].path = mounts[i].path => k = i
    BY <1>1, <1>2, <1>6, <2>1
  <2> QED
    BY <2>1, <2>2 DEF found, mounts
<1>8. CASE local
  <2>1. ResticMount \in Mounting /\ ResticMount.path = ResticPath /\ Len(ResticPath) = 1
    BY NamesAssumption DEF ResticMount, Mount, Mounting, Path, ResticPath, NoPath, ToSet
  <2>2. mounts = Append(found.mounts, ResticMount)
    BY <1>8 DEF AllMounts
  <2> HIDE DEF mounts
  <2>3. /\ mounts \in Seq(Mounting) /\ n \in Nat /\ DOMAIN mounts = 1..(n + 1)
        /\ DOMAIN found.mounts = 1..n
        /\ \A j \in 1..n : mounts[j] = found.mounts[j]
        /\ mounts[n + 1] = ResticMount
    <3> DEFINE f == found.mounts
    <3>1. f \in Seq(Mounting)
      BY <1>1
    <3> HIDE DEF f
    <3>2. /\ Append(f, ResticMount) \in Seq(Mounting) /\ Len(f) \in Nat
          /\ DOMAIN Append(f, ResticMount) = 1..(Len(f) + 1) /\ DOMAIN f = 1..Len(f)
          /\ \A j \in 1..Len(f) : Append(f, ResticMount)[j] = f[j]
          /\ Append(f, ResticMount)[Len(f) + 1] = ResticMount
      BY <2>1, <3>1
    <3> QED
      BY <2>2, <3>2, Zenon DEF f
  <2> HIDE DEF n
  <2>4. i \in 1..n /\ mounts[i] = found.mounts[i] /\ i \in DOMAIN mounts
    BY <1>2, <2>3
  <2>5. ResticPath # BackupDir[i]
    BY <1>2, BackupDirs
  <2>6. ASSUME NEW j \in 1..(n + 1)
        PROVE  Len(mounts[j].path) <= 1 /\ (mounts[j].path = mounts[i].path => j = i)
    <3>1. CASE j \in 1..n
      BY <1>2, <1>6, <2>3, <2>4, <3>1
    <3>2. CASE j = n + 1
      <4>1. mounts[j].path = ResticPath
        BY <2>1, <2>3, <3>2
      <4>2. mounts[j].path # mounts[i].path
        BY <1>2, <2>4, <2>5, <4>1
      <4>3. Len(mounts[j].path) = 1
        BY <2>1, <4>1
      <4>4. 1 <= 1
        OBVIOUS
      <4>5. Len(mounts[j].path) <= 1
        BY <4>3, <4>4, Zenon
      <4> QED
        BY <4>2, <4>5, Zenon
    <3>3. j \in 1..n \/ j = n + 1
      BY <2>3
    <3> QED
      BY <3>1, <3>2, <3>3, Zenon
  <2>7. /\ mounts[i].path = BackupDir[i] /\ Len(mounts[i].path) = 1
        /\ \A k \in DOMAIN mounts : Len(mounts[k].path) <= 1
        /\ \A k \in DOMAIN mounts : mounts[k].path = mounts[i].path => k = i
    BY <1>2, <1>6, <2>3, <2>4, <2>6
  <2> QED
    BY <2>3, <2>4, <2>7 DEF found, mounts
<1> QED
  BY <1>7, <1>8

\* The place of a path in the container is that in its sidecar, which has no
\* mount below it.
LEMMA FoundPlace ==
  ASSUME NEW container \in Containers, NEW paths \in Seq(Path), Len(paths) <= Len(BackupDir),
         local \in BOOLEAN, NEW i \in DOMAIN paths,
         \A j \in DOMAIN container.mounts : container.mounts[j].path # NoPath,
         Holding(container.mounts, paths[i]) # {}, Unambiguous(container.mounts, paths[i])
  PROVE  LET found == GetVolumeMounts(container, paths)
         IN  /\ Place(AllMounts(found.mounts), found.paths[i]) = Place(container.mounts, paths[i])
             /\ Below(AllMounts(found.mounts), found.paths[i]) = {}
<1> DEFINE found == GetVolumeMounts(container, paths)
           mounts == AllMounts(found.mounts)
           own == container.mounts
           p == paths[i]
           d == Deepest(own, p)
           l == Len(own[d].path)
           below == SubSeq(p, l + 1, Len(p))
           there == BackupDir[i] \o below
<1>1. own \in Seq(Mounting) /\ p \in Path
  BY DEF Containers
<1>2. ChooseMount(own, p) = d /\ ChooseMount(own, p) # 0
  BY <1>1, ChosenIsDeepest
<1>3. d \in DOMAIN own /\ IsPrefix(own[d].path, p)
  BY <1>1, DeepestHolds DEF Holding
<1>4. own[d].path \in Path /\ l \in Nat
  BY <1>1, <1>3, MountPaths
<1>5. below \in Path
  <2> HIDE DEF l, p
  <2>1. p \in Seq(Names) /\ Len(p) \in Nat
    BY <1>1 DEF Path
  <2>2. SubSeq(p, l + 1, Len(p)) \in Seq(Names)
    BY <1>4, <2>1
  <2> QED
    BY <2>2 DEF Path
<1>6. Place(own, p) = <<own[d].volume, own[d].sub \o below>>
  BY DEF Place
<1>7. /\ found.paths[i] = Rebase(BackupDir[i], own[d].path, p)
      /\ found.mounts[i].path = BackupDir[i]
      /\ found.mounts[i].volume = own[d].volume
      /\ found.mounts[i].sub = own[d].sub
  BY <1>2, FoundAt
<1>8. found.paths[i] = there
  BY <1>3, <1>7 DEF Rebase
<1>9. /\ mounts \in Seq(Mounting) /\ i \in DOMAIN mounts
      /\ mounts[i] = found.mounts[i]
      /\ mounts[i].path = BackupDir[i]
      /\ Len(mounts[i].path) = 1
      /\ \A j \in DOMAIN mounts : Len(mounts[j].path) <= 1
      /\ \A j \in DOMAIN mounts : mounts[j].path = mounts[i].path => j = i
  <2>1. ChooseMount(container.mounts, paths[i]) # 0
    BY <1>2
  <2> HIDE DEF own, p, d, l, below, there
  <2> QED
    BY <2>1, SidecarMounts
<1> HIDE DEF below, d, l, found, mounts
<1>10. mounts[i].path \in Path
  BY <1>9, MountPaths
<1>11. LET q == mounts[i].path \o below
       IN  /\ Holding(mounts, q) # {}
           /\ Deepest(mounts, q) = i
           /\ SubSeq(q, 2, Len(q)) = below
  BY <1>5, <1>9, <1>10, DeepestIsOwn
<1>12. /\ Holding(mounts, there) # {}
       /\ Deepest(mounts, there) = i
       /\ SubSeq(there, 2, Len(there)) = below
  BY <1>9, <1>11
<1> HIDE DEF there
<1>13. Place(mounts, there) = <<mounts[i].volume, mounts[i].sub \o SubSeq(there, 1 + 1, Len(there))>>
  BY <1>9, <1>12, Zenon DEF Place
<1>14. 1 + 1 = 2
  OBVIOUS
<1>15. Place(mounts, there) = <<own[d].volume, own[d].sub \o below>>
  BY <1>7, <1>9, <1>12, <1>13, <1>14, Zenon
<1>16. Below(mounts, there) = {}
  <2> HIDE DEF mounts
  <2>1. there \in Path /\ 1 <= Len(there)
    BY <1>5, <1>9, <1>10, PathJoined DEF there
  <2>2. ASSUME NEW j \in DOMAIN mounts PROVE ~ IsStrictPrefix(there, mounts[j].path)
    <3>1. mounts[j].path \in Path /\ Len(mounts[j].path) <= 1
      BY <1>9, MountPaths
    <3> QED
      BY <2>1, <3>1, NothingBelow
  <2> QED
    BY <2>2 DEF Below
<1> QED
  BY <1>6, <1>8, <1>15, <1>16, Zenon DEF found, mounts

\* The invariants say that the paths are found.
LEMMA ServesFinds == Shape /\ SidecarServes => PathsAreFound
<1>1. SUFFICES ASSUME Shape, SidecarServes, Assembled, NEW i \in DOMAIN Entry(Served).paths,
                      Holding(Served.mounts, Entry(Served).paths[i]) # {},
                      Unambiguous(Served.mounts, Entry(Served).paths[i])
               PROVE  SamePlace(i) /\ Below(TheSidecar.mounts, BackupPaths[i]) = {}
  BY DEF PathsAreFound, Findable
<1> DEFINE k == Max(Listed(user))
           paths == Entry(Served).paths
           found == GetVolumeMounts(Served, paths)
<1>2. user \in Pods /\ pod \in Pods /\ target \in Targets /\ local \in BOOLEAN
  BY <1>1 DEF Shape, TypeOK
<1>3. HasSidecar(pod) /\ ~ drifted /\ target.type = "Online" /\ Listed(user) # {}
  BY <1>1 DEF Assembled, Listed
<1>4. k \in Listed(user) /\ (\A j \in Listed(user) : j <= k) /\ Served = user.containers[k]
  BY <1>2, <1>3, ServedIsLast
<1>5. PICK sc \in Containers :
        /\ Serves(sc, user.containers[k])
        /\ TheSidecar.env = sc.env
        /\ TheSidecar.mounts = IF local THEN Append(sc.mounts, ResticMount) ELSE sc.mounts
  BY <1>1, <1>3, <1>4 DEF SidecarServes
<1> HIDE DEF k
<1>6. k \in DOMAIN user.containers /\ Entries(Served) # {} /\ Served \in Containers
  BY <1>2, <1>4, PodParts DEF Listed
<1>7. paths \in Seq(Path) /\ Len(paths) <= Len(BackupDir)
  BY <1>2, <1>6, EntryType
<1>8. \A j \in DOMAIN Served.mounts : Served.mounts[j].path # NoPath
  BY <1>1, <1>4, <1>6 DEF Shape, UserKeeps, Valid
<1>9. /\ sc.mounts = found.mounts /\ sc.env # <<>>
      /\ sc.env[Len(sc.env)] = EnvVar(BACKUP_PATHS, found.paths)
  BY <1>3, <1>4, <1>5 DEF Serves
<1>10. BackupPaths = found.paths
  <2>1. sc.env \in Seq(EnvVars)
    BY DEF Containers
  <2> HIDE DEF found
  <2> QED
    BY <1>5, <1>9, <2>1, PathsGivenLast
<1>11. TheSidecar.mounts = AllMounts(found.mounts)
  BY <1>5, <1>9 DEF AllMounts
<1>12. /\ Place(TheSidecar.mounts, found.paths[i]) = Place(Served.mounts, paths[i])
       /\ Below(TheSidecar.mounts, found.paths[i]) = {}
  BY <1>1, <1>2, <1>6, <1>7, <1>8, <1>11, FoundPlace
<1> QED
  BY <1>10, <1>12 DEF SamePlace

\* PathsAreFound: whatever the mounts, nested or with sub-paths, and whatever
\* was done to the pod since, the sidecar finds the place of every path, and
\* has nothing mounted below it.
THEOREM PathsFound == Spec => []PathsAreFound
BY ShapeInvariant, ServesInvariant, ServesFinds, PTL

-----------------------------------------------------------------------------
(* The pod with the sidecar is accepted.                                   *)

\* The mounts of one container, on a set of volumes.
ValidMounts(mounts, volumes) ==
  \A j \in DOMAIN mounts :
    /\ mounts[j].volume \in volumes
    /\ mounts[j].path # NoPath
    /\ \A k \in DOMAIN mounts : mounts[k].path = mounts[j].path => k = j

\* A pod is valid if its volumes and the mounts of each container are.
LEMMA ValidByMounts ==
  ASSUME NEW p
  PROVE  Valid(p) <=> /\ IsInjective(p.volumes) /\ ~ (p.share /\ p.hostPID)
                      /\ \A i \in DOMAIN p.containers :
                           ValidMounts(p.containers[i].mounts, ToSet(p.volumes))
BY DEF Valid, ValidMounts

\* One mount more, in a directory that was free.
LEMMA MountAdded ==
  ASSUME NEW mounts \in Seq(Mounting), NEW volumes, NEW m \in Mounting,
         ValidMounts(mounts, volumes), m.volume \in volumes, m.path # NoPath,
         \A j \in DOMAIN mounts : mounts[j].path # m.path
  PROVE  ValidMounts(Append(mounts, m), volumes)
<1> DEFINE new == Append(mounts, m)
           n == Len(mounts)
<1>1. /\ n \in Nat /\ DOMAIN mounts = 1..n /\ DOMAIN new = 1..(n + 1)
      /\ \A j \in 1..n : new[j] = mounts[j]
      /\ new[n + 1] = m
  OBVIOUS
<1> HIDE DEF new, n
<1>2. \A j \in 1..(n + 1) : j \in 1..n \/ j = n + 1
  BY <1>1
<1>3. ASSUME NEW j \in 1..(n + 1) PROVE new[j].volume \in volumes /\ new[j].path # NoPath
  BY <1>1, <1>2 DEF ValidMounts
<1>4. ASSUME NEW j \in 1..(n + 1), NEW k \in 1..(n + 1), new[k].path = new[j].path PROVE k = j
  <2>1. CASE j \in 1..n /\ k \in 1..n
    BY <1>1, <1>4, <2>1 DEF ValidMounts
  <2>2. CASE ~ (j \in 1..n /\ k \in 1..n)
    BY <1>1, <1>2, <1>4, <2>2
  <2> QED
    BY <2>1, <2>2
<1> QED
  BY <1>1, <1>3, <1>4 DEF ValidMounts, new

\* More volumes make no mount invalid.
LEMMA VolumesKeepMounts ==
  ASSUME NEW mounts, NEW volumes, NEW more, volumes \subseteq more, ValidMounts(mounts, volumes)
  PROVE  ValidMounts(mounts, more)
BY DEF ValidMounts

\* Volumes of two pods of which neither has one of the other.
LEMMA VolumesJoined ==
  ASSUME NEW old \in Seq(Names), NEW extra \in Seq(Names),
         IsInjective(old), IsInjective(extra),
         \A j \in DOMAIN old, k \in DOMAIN extra : old[j] # extra[k]
  PROVE  /\ IsInjective(old \o extra)
         /\ ToSet(old) \subseteq ToSet(old \o extra)
         /\ ToSet(extra) \subseteq ToSet(old \o extra)
<1> DEFINE new == old \o extra
           m == Len(old)
           e == Len(extra)
<1>1. /\ m \in Nat /\ e \in Nat /\ Len(new) = m + e /\ DOMAIN new = 1..(m + e)
      /\ DOMAIN old = 1..m /\ DOMAIN extra = 1..e
      /\ \A k \in 1..m : new[k] = old[k]
      /\ \A k \in 1..(m + e) : ~ (k <= m) => new[k] = extra[k - m]
  BY ConcatProperties
<1> HIDE DEF new, m, e
<1>2. \A j, k \in 1..m : old[j] = old[k] => j = k
  BY <1>1 DEF IsInjective
<1>3. \A j, k \in 1..e : extra[j] = extra[k] => j = k
  BY <1>1 DEF IsInjective
<1>4. ASSUME NEW j \in 1..(m + e), NEW k \in 1..(m + e), new[j] = new[k] PROVE j = k
  <2>1. CASE j <= m /\ k <= m
    <3>1. j \in 1..m /\ k \in 1..m
      BY <1>1, <2>1
    <3> QED
      BY <1>1, <1>2, <1>4, <3>1
  <2>2. CASE ~ (j <= m) /\ ~ (k <= m)
    <3>1. j - m \in 1..e /\ k - m \in 1..e
      BY <1>1, <2>2
    <3>2. new[j] = extra[j - m] /\ new[k] = extra[k - m]
      BY <1>1, <2>2
    <3>3. j - m = k - m
      BY <1>3, <1>4, <3>1, <3>2
    <3> QED
      BY <1>1, <3>3
  <2>3. CASE j <= m /\ ~ (k <= m)
    <3>1. j \in 1..m /\ k - m \in 1..e
      BY <1>1, <2>3
    <3>2. new[j] = old[j] /\ new[k] = extra[k - m]
      BY <1>1, <2>3, <3>1
    <3>3. old[j] # extra[k - m]
      BY <1>1, <3>1
    <3> QED
      BY <1>4, <3>2, <3>3, Zenon
  <2>4. CASE ~ (j <= m) /\ k <= m
    <3>1. k \in 1..m /\ j - m \in 1..e
      BY <1>1, <2>4
    <3>2. new[k] = old[k] /\ new[j] = extra[j - m]
      BY <1>1, <2>4, <3>1
    <3>3. old[k] # extra[j - m]
      BY <1>1, <3>1
    <3> QED
      BY <1>4, <3>2, <3>3, Zenon
  <2> QED
    BY <2>1, <2>2, <2>3, <2>4
<1>5. IsInjective(new)
  BY <1>1, <1>4 DEF IsInjective
<1>6. ToSet(old) \subseteq ToSet(new)
  <2>1. \A k \in 1..m : k \in 1..(m + e) /\ new[k] = old[k]
    BY <1>1
  <2>2. DOMAIN new = 1..(m + e) /\ DOMAIN old = 1..m
    BY <1>1
  <2> QED
    BY <2>1, <2>2 DEF ToSet
<1>7. ToSet(extra) \subseteq ToSet(new)
  <2>1. \A k \in 1..e : k + m \in 1..(m + e) /\ new[k + m] = extra[k]
    <3>1. \A k \in 1..e : k + m \in 1..(m + e) /\ ~ (k + m <= m) /\ (k + m) - m = k
      BY <1>1
    <3>2. \A k \in 1..(m + e) : ~ (k <= m) => new[k] = extra[k - m]
      BY <1>1
    <3> QED
      BY <3>1, <3>2
  <2>2. DOMAIN new = 1..(m + e) /\ DOMAIN extra = 1..e
    BY <1>1
  <2> QED
    BY <2>1, <2>2 DEF ToSet
<1> QED
  BY <1>5, <1>6, <1>7 DEF new

\* The mounts for paths that all agree with some mount.
LEMMA FoundMountsValid ==
  ASSUME NEW container \in Containers, NEW paths \in Seq(Path), Len(paths) <= Len(BackupDir),
         \A i \in DOMAIN paths : ChooseMount(container.mounts, paths[i]) # 0,
         NEW volumes, \A j \in DOMAIN container.mounts : container.mounts[j].volume \in volumes
  PROVE  LET mounts == GetVolumeMounts(container, paths).mounts
         IN  /\ ValidMounts(mounts, volumes)
             /\ \A i \in DOMAIN mounts : mounts[i].path # ResticPath
<1> DEFINE found == GetVolumeMounts(container, paths)
<1>1. ASSUME NEW i \in DOMAIN paths
      PROVE  /\ i \in DOMAIN BackupDir /\ found.mounts[i].path = BackupDir[i]
             /\ found.mounts[i].volume \in volumes
             /\ DOMAIN found.mounts = DOMAIN paths
  <2>1. container.mounts \in Seq(Mounting) /\ paths[i] \in Path
    BY DEF Containers
  <2>2. ChooseMount(container.mounts, paths[i]) \in DOMAIN container.mounts
    BY <2>1, ChosenIsFirst
  <2> HIDE DEF found
  <2>3. LET f == GetVolumeMounts(container, paths)
            c == ChooseMount(container.mounts, paths[i])
        IN  /\ DOMAIN f.mounts = DOMAIN paths
            /\ i \in DOMAIN BackupDir
            /\ f.mounts[i].path = BackupDir[i]
            /\ f.mounts[i].volume = container.mounts[c].volume
    BY FoundAt
  <2> QED
    BY <2>2, <2>3 DEF found
<1>2. DOMAIN found.mounts = DOMAIN paths
  BY DEF GetVolumeMounts
<1> HIDE DEF found
<1>3. \A i \in DOMAIN paths : BackupDir[i] # NoPath /\ BackupDir[i] # ResticPath
  <2>1. Len(NoPath) = 0
    BY DEF NoPath
  <2>2. \A i \in DOMAIN paths : Len(BackupDir[i]) = 1 /\ BackupDir[i] # ResticPath
    BY <1>1, BackupDirs
  <2>3. 0 # 1
    OBVIOUS
  <2> QED
    BY <2>1, <2>2, <2>3, Zenon
<1>4. \A i, k \in DOMAIN paths : BackupDir[i] = BackupDir[k] => i = k
  BY <1>1, BackupDirs
<1> QED
  BY <1>1, <1>2, <1>3, <1>4 DEF ValidMounts, found

\* What PodIsAccepted asks for.
Placeable(container) ==
  /\ target.type = "Online" =>
       \A p \in ToSet(Entry(container).paths) : ChooseMount(container.mounts, p) # 0
  /\ target.type = "Job" =>
       /\ \A m \in ToSet(container.mounts) : m.path # Entry(container).share
       /\ local => Entry(container).share # ResticPath

\* A container that is visited has valid mounts.
LEMMA VisitedMounts ==
  ASSUME target \in Targets, NEW c \in Containers, NEW volumes,
         ValidMounts(c.mounts, volumes),
         Entries(c) # {} /\ target.type = "Job" => SharedVolume \in volumes,
         Entries(c) # {} => Placeable(c)
  PROVE  ValidMounts(Visited(c).mounts, volumes)
<1>1. CASE Entries(c) = {} \/ target.type # "Job"
  <2>1. Visited(c).mounts = c.mounts
    BY <1>1, VisitedType
  <2> QED
    BY <2>1
<1>2. CASE Entries(c) # {} /\ target.type = "Job"
  <2> DEFINE m == SharedMount(c)
  <2>1. Visited(c).mounts = Append(c.mounts, m)
    BY <1>2, VisitedType
  <2>2. m \in Mounting /\ m.volume = SharedVolume /\ m.path = Entry(c).share
    BY <1>2, SharedMountType DEF SharedMount, Mount
  <2>3. m.path # NoPath
    BY <1>2, <2>2, EntryType
  <2>4. c.mounts \in Seq(Mounting)
    BY DEF Containers
  <2>5. \A j \in DOMAIN c.mounts : c.mounts[j].path # m.path
    BY <1>2, <2>2, <2>4 DEF Placeable, ToSet
  <2> HIDE DEF m
  <2>6. m.volume \in volumes
    BY <1>2, <2>2
  <2> QED
    BY <2>1, <2>2, <2>3, <2>4, <2>5, <2>6, MountAdded
<1> QED
  BY <1>1, <1>2

\* The sidecar for a container has valid mounts.
LEMMA ServesMounts ==
  ASSUME target \in Targets, local \in BOOLEAN, NEW sc \in Containers, NEW c \in Containers,
         NEW volumes, ValidMounts(c.mounts, volumes), Entries(c) # {},
         target.type = "Job" => SharedVolume \in volumes,
         local => ResticVolume \in volumes,
         Serves(sc, c), Placeable(c)
  PROVE  ValidMounts(AllMounts(sc.mounts), volumes)
<1>1. sc.mounts \in Seq(Mounting) /\ target.type \in {"Online", "Job", "Snapshot"}
  BY DEF Containers, Targets
<1>2. ValidMounts(sc.mounts, volumes) /\ (local => \A i \in DOMAIN sc.mounts : sc.mounts[i].path # ResticPath)
  <2>1. CASE target.type = "Snapshot"
    <3>1. sc.mounts = <<>>
      BY <2>1 DEF Serves
    <3> QED
      BY <3>1 DEF ValidMounts
  <2>2. CASE target.type = "Job"
    <3> DEFINE m == SharedMount(c)
    <3>1. sc.mounts = <<m>>
      BY <2>2 DEF Serves
    <3>2. m.volume = SharedVolume /\ m.path = Entry(c).share
      BY DEF SharedMount, Mount
    <3>3. m.path # NoPath /\ (local => m.path # ResticPath) /\ m.volume \in volumes
      BY <2>2, <3>2, EntryType DEF Placeable
    <3> HIDE DEF m
    <3>4. DOMAIN sc.mounts = {1} /\ sc.mounts[1] = m
      BY <3>1
    <3> QED
      BY <3>3, <3>4 DEF ValidMounts
  <2>3. CASE target.type = "Online"
    <3> DEFINE paths == Entry(c).paths
               found == GetVolumeMounts(c, paths)
    <3>1. sc.mounts = found.mounts
      BY <2>3 DEF Serves
    <3>2. paths \in Seq(Path) /\ Len(paths) <= Len(BackupDir)
      BY EntryType
    <3>3. \A i \in DOMAIN paths : ChooseMount(c.mounts, paths[i]) # 0
      BY <2>3, <3>2 DEF Placeable, ToSet
    <3>4. \A j \in DOMAIN c.mounts : c.mounts[j].volume \in volumes
      BY DEF ValidMounts
    <3> HIDE DEF paths
    <3>5. ValidMounts(found.mounts, volumes) /\ \A i \in DOMAIN found.mounts : found.mounts[i].path # ResticPath
      BY <3>2, <3>3, <3>4, FoundMountsValid
    <3> QED
      BY <3>1, <3>5
  <2> QED
    BY <1>1, <2>1, <2>2, <2>3
<1>3. CASE ~ local
  BY <1>2, <1>3 DEF AllMounts
<1>4. CASE local
  <2>1. ResticMount \in Mounting /\ ResticMount.path = ResticPath /\ ResticMount.volume = ResticVolume
    BY NamesAssumption DEF ResticMount, Mount, Mounting, Path, ResticPath, NoPath, ToSet
  <2>2. ResticPath # NoPath
    BY DEF ResticPath, NoPath
  <2>3. ValidMounts(Append(sc.mounts, ResticMount), volumes)
    BY <1>1, <1>2, <1>4, <2>1, <2>2, MountAdded
  <2> QED
    BY <1>4, <2>3 DEF AllMounts
<1> QED
  BY <1>3, <1>4

\* The invariant says that the pod is accepted.
LEMMA ShapeAccepted == Shape => PodIsAccepted
<1>1. SUFFICES ASSUME Shape, ~ HasSidecar(pod), ~ pod.hostPID,
                      \A i \in DOMAIN pod.containers :
                        Entries(pod.containers[i]) # {} => Placeable(pod.containers[i])
               PROVE  Valid(WithSidecar(pod))
  BY DEF PodIsAccepted, Placeable
<1> DEFINE n == Len(user.containers)
           q == WithSidecar(pod)
           sc == SidecarFor(pod)
           volumes == ToSet(q.volumes)
<1>2. /\ TypeOK /\ UserKeeps /\ PodKeeps
      /\ pod \in Pods /\ user \in Pods /\ target \in Targets /\ local \in BOOLEAN
      /\ Valid(user) /\ Untouched(user)
  BY <1>1 DEF Shape, TypeOK, UserKeeps
<1>3. /\ n \in Nat /\ DOMAIN user.containers = 1..n /\ Len(pod.containers) = n
      /\ DOMAIN pod.containers = 1..n
  BY <1>1, <1>2, SidecarIsLast, PodParts
<1>4. /\ q \in Pods /\ Len(q.containers) = n + 1
      /\ \A i \in 1..n : q.containers[i] = Visited(pod.containers[i])
      /\ q.containers[n + 1].mounts = AllMounts(sc.mounts)
      /\ q.volumes = pod.volumes \o NewVolumes(pod)
      /\ q.hostPID = pod.hostPID
  BY <1>2, <1>3, WithSidecarParts DEF AllMounts
<1>5. DOMAIN q.containers = 1..(n + 1)
  BY <1>4, PodParts
<1> HIDE DEF q, n, sc
<1>6. /\ pod.volumes = user.volumes
      /\ \A i \in 1..n : pod.containers[i].mounts = user.containers[i].mounts
  BY <1>1, <1>2, <1>3 DEF PodKeeps
<1>7. IsInjective(user.volumes) /\ \A i \in 1..n : ValidMounts(user.containers[i].mounts, ToSet(user.volumes))
  BY <1>2, <1>3, ValidByMounts
<1>8. /\ IsInjective(q.volumes) /\ ToSet(user.volumes) \subseteq volumes
      /\ ToSet(NewVolumes(pod)) \subseteq volumes
  <2>1. user.volumes \in Seq(Names)
        /\ \A k \in DOMAIN user.volumes : user.volumes[k] \notin {SharedVolume, ResticVolume}
    BY <1>2, PodParts, UserParts
  <2>2. /\ NewVolumes(pod) \in Seq(Names) /\ IsInjective(NewVolumes(pod))
        /\ \A k \in DOMAIN NewVolumes(pod) : NewVolumes(pod)[k] \in {SharedVolume, ResticVolume}
    BY NewVolumesAre
  <2>3. \A j \in DOMAIN user.volumes, k \in DOMAIN NewVolumes(pod) : user.volumes[j] # NewVolumes(pod)[k]
    BY <2>1, <2>2
  <2>4. /\ IsInjective(user.volumes \o NewVolumes(pod))
        /\ ToSet(user.volumes) \subseteq ToSet(user.volumes \o NewVolumes(pod))
        /\ ToSet(NewVolumes(pod)) \subseteq ToSet(user.volumes \o NewVolumes(pod))
    BY <1>7, <2>1, <2>2, <2>3, VolumesJoined
  <2>5. q.volumes = user.volumes \o NewVolumes(pod)
    BY <1>4, <1>6
  <2> QED
    BY <2>4, <2>5, Zenon
<1> HIDE DEF volumes
<1>9. local => ResticVolume \in volumes
  BY <1>8, NewVolumesAre
<1>10. ASSUME NEW i \in 1..n, Entries(pod.containers[i]) # {}, target.type = "Job"
       PROVE  SharedVolume \in volumes
  <2>1. \A k \in DOMAIN pod.volumes : pod.volumes[k] # SharedVolume
    BY <1>2, <1>6, UserParts
  <2>2. SharedVolumes(pod) = <<SharedVolume>>
    BY <1>3, <1>10, <2>1 DEF SharedVolumes
  <2>3. SharedVolumes(pod) # <<>>
    BY <2>2
  <2> QED
    BY <1>8, <1>10, <2>3, NewVolumesAre
<1>11. \A i \in 1..n : /\ pod.containers[i] \in Containers
                       /\ ValidMounts(pod.containers[i].mounts, volumes)
                       /\ Entries(pod.containers[i]) # {} => Placeable(pod.containers[i])
  <2>1. SUFFICES ASSUME NEW i \in 1..n
                 PROVE  /\ pod.containers[i] \in Containers
                        /\ ValidMounts(pod.containers[i].mounts, volumes)
                        /\ Entries(pod.containers[i]) # {} => Placeable(pod.containers[i])
    OBVIOUS
  <2>2. ValidMounts(user.containers[i].mounts, volumes)
    BY <1>7, <1>8, VolumesKeepMounts
  <2>3. ValidMounts(pod.containers[i].mounts, volumes)
    BY <1>6, <2>2
  <2> QED
    BY <1>1, <1>2, <1>3, <2>3, PodParts
<1>12. ASSUME NEW i \in 1..n PROVE ValidMounts(q.containers[i].mounts, volumes)
  <2>1. ValidMounts(Visited(pod.containers[i]).mounts, volumes)
    BY <1>2, <1>10, <1>11, VisitedMounts
  <2> QED
    BY <1>4, <2>1
<1>13. ValidMounts(AllMounts(sc.mounts), volumes)
  <2>1. sc \in Containers
    BY <1>2, SidecarServesLast DEF sc
  <2>2. CASE Listed(pod) = {}
    <3>1. sc.mounts = <<>>
      BY <1>2, <2>2, SidecarServesLast DEF sc
    <3>2. <<>> \in Seq(Mounting) /\ ValidMounts(<<>>, volumes)
      BY DEF ValidMounts
    <3>3. ResticMount \in Mounting /\ ResticMount.path # NoPath /\ ResticMount.volume = ResticVolume
      BY NamesAssumption DEF ResticMount, Mount, Mounting, Path, ResticPath, NoPath, ToSet
    <3>4. ASSUME local PROVE ValidMounts(Append(sc.mounts, ResticMount), volumes)
      <4>1. sc.mounts \in Seq(Mounting) /\ ValidMounts(sc.mounts, volumes)
        BY <3>1, <3>2
      <4>2. \A j \in DOMAIN sc.mounts : sc.mounts[j].path # ResticMount.path
        BY <3>1
      <4>3. ResticMount.volume \in volumes
        BY <1>9, <3>3, <3>4
      <4> QED
        BY <3>3, <4>1, <4>2, <4>3, MountAdded
    <3> QED
      BY <1>2, <3>1, <3>2, <3>4 DEF AllMounts
  <2>3. CASE Listed(pod) # {}
    <3>1. Listed(pod) \in SUBSET Nat /\ \A i \in Listed(pod) : i <= n
      BY <1>3 DEF Listed
    <3>2. PICK k \in Listed(pod) : \A i \in Listed(pod) : i <= k
      BY <1>3, <2>3, <3>1, A!LargestExists
    <3>3. Serves(sc, pod.containers[k])
      BY <1>2, <3>2, SidecarServesLast DEF sc
    <3>4. k \in 1..n /\ Entries(pod.containers[k]) # {}
      BY <1>3 DEF Listed
    <3> QED
      BY <1>2, <1>9, <1>10, <1>11, <2>1, <3>3, <3>4, ServesMounts
  <2> QED
    BY <2>2, <2>3
<1>14. \A i \in 1..(n + 1) : ValidMounts(q.containers[i].mounts, volumes)
  <2>1. \A i \in 1..(n + 1) : i \in 1..n \/ i = n + 1
    BY <1>3
  <2>2. ValidMounts(q.containers[n + 1].mounts, volumes)
    BY <1>4, <1>13
  <2> QED
    BY <1>12, <2>1, <2>2
<1>15. Valid(q)
  <2>1. ~ q.hostPID
    BY <1>1, <1>4
  <2> QED
    BY <1>5, <1>8, <1>14, <2>1, ValidByMounts DEF volumes
<1> QED
  BY <1>15 DEF q

\* PodIsAccepted: after any history the API server accepts the next pod with
\* a sidecar, if its mounts go to free directories and the pod does not have
\* the processes of the host.
THEOREM Accepted == Spec => []PodIsAccepted
BY ShapeInvariant, ShapeAccepted, PTL

=============================================================================
