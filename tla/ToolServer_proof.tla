-------------------------- MODULE ToolServer_proof --------------------------
(***************************************************************************)
(* Proofs about the tools of the shared server: the inductive invariant of *)
(* ToolServer holds in every state, whatever the packages, the reloads and *)
(* the clients; with it, that a list served from the cache is the one that *)
(* would be made now, that every listed tool is served by a living         *)
(* package, and that the clients of the event stream know the tools.       *)
(***************************************************************************)
EXTENDS ToolServer, FiniteSetTheorems, WellFoundedInduction, TLAPS

-----------------------------------------------------------------------------
(* The list of clients *)

\* Counting up to each of them numbers the positions of a list in order.
LEMMA PlacesInOrder ==
  ASSUME NEW m \in Nat, NEW kept \in SUBSET (1..m)
  PROVE  /\ Cardinality(kept) \in 0..m
         /\ \A n \in 1..Cardinality(kept) : Place(kept, n) \in kept
         /\ \A n, k \in 1..Cardinality(kept) : n < k => Place(kept, n) < Place(kept, k)
         /\ \A i \in kept : \E n \in 1..Cardinality(kept) : Place(kept, n) = i
  <1> DEFINE Upto(i) == {j \in kept : j <= i}
             size == Cardinality(kept)
             Rank == [i \in kept |-> Cardinality(Upto(i))]
  <1>1. IsFiniteSet(kept) /\ size \in 0..m
    <2>1. IsFiniteSet(1..m) /\ Cardinality(1..m) = m
      BY FS_Interval
    <2>2. IsFiniteSet(kept) /\ Cardinality(kept) <= m
      BY <2>1, FS_Subset
    <2>3. Cardinality(kept) \in Nat
      BY <2>2, FS_CardinalityType
    <2> QED
      BY <2>2, <2>3
  <1>0. \A i \in kept : i \in Int
    OBVIOUS
  <1>2. \A i \in kept : IsFiniteSet(Upto(i)) /\ Cardinality(Upto(i)) \in 1..size
    <2> TAKE i \in kept
    <2>1. Upto(i) \subseteq kept /\ i \in Upto(i)
      OBVIOUS
    <2> HIDE DEF Upto
    <2>2. IsFiniteSet(Upto(i)) /\ Cardinality(Upto(i)) <= size
      BY <2>1, <1>1, FS_Subset
    <2>3. Cardinality(Upto(i)) \in Nat /\ Cardinality(Upto(i)) # 0
      BY <2>1, <2>2, FS_CardinalityType, FS_EmptySet
    <2> QED
      BY <2>2, <2>3, <1>1
  <1>3. \A i, k \in kept : i < k => Rank[i] < Rank[k]
    <2> SUFFICES ASSUME NEW i \in kept, NEW k \in kept, i < k
                 PROVE  Rank[i] < Rank[k]
      OBVIOUS
    <2>0. i \in Int /\ k \in Int
      BY <1>0
    <2>1. Upto(i) \subseteq Upto(k) /\ k \in Upto(k) /\ k \notin Upto(i)
      <3>1. ASSUME NEW j \in Upto(i) PROVE j \in Upto(k)
        <4>1. j \in kept /\ j \in Int /\ j <= i
          BY <1>0
        <4> QED
          BY <4>1, <2>0
      <3>2. k \in Upto(k) /\ ~(k <= i)
        BY <2>0
      <3> QED
        BY <3>1, <3>2
    <2>2. Rank[i] = Cardinality(Upto(i)) /\ Rank[k] = Cardinality(Upto(k))
      OBVIOUS
    <2>3. IsFiniteSet(Upto(k)) /\ Cardinality(Upto(i)) \in Int /\ Cardinality(Upto(k)) \in Int
      BY <1>2
    <2> HIDE DEF Upto, Rank
    <2>4. Cardinality(Upto(i)) <= Cardinality(Upto(k))
      BY <2>1, <2>3, FS_Subset
    <2>5. Cardinality(Upto(i)) # Cardinality(Upto(k))
      BY <2>1, <2>3, FS_Subset
    <2> QED
      BY <2>2, <2>3, <2>4, <2>5
  <1>4. \A i, k \in kept : Rank[i] = Rank[k] => i = k
    <2> SUFFICES ASSUME NEW i \in kept, NEW k \in kept, i # k
                 PROVE  Rank[i] # Rank[k]
      OBVIOUS
    <2>1. Rank[i] \in Int /\ Rank[k] \in Int
      BY <1>2
    <2>2. i < k \/ k < i
      BY <1>0
    <2> HIDE DEF Rank
    <2> QED
      BY <1>3, <2>1, <2>2
  <1>5. \A n \in 1..size : \E i \in kept : Rank[i] = n
    <2>1. Rank \in Injection(kept, 1..size)
      <3>1. Rank \in [kept -> 1..size]
        BY <1>2
      <3> HIDE DEF Rank
      <3> QED
        BY <3>1, <1>4 DEF Injection, IsInjective
    <2>2. IsFiniteSet(1..size) /\ Cardinality(1..size) = size
      BY <1>1, FS_Interval
    <2> HIDE DEF Rank, size
    <2>3. Rank \in Surjection(kept, 1..size)
      BY <2>1, <2>2, FS_Injection DEF size
    <2> QED
      BY <2>3 DEF Surjection
  <1>6. \A n \in 1..size : Place(kept, n) \in kept /\ Rank[Place(kept, n)] = n
    <2> TAKE n \in 1..size
    <2>1. \E i \in kept : Cardinality({j \in kept : j <= i}) = n
      BY <1>5
    <2> QED
      BY <2>1 DEF Place
  <1>7. \A i \in kept : Rank[i] \in 1..size
    BY <1>2
  <1> HIDE DEF Rank, size
  <1>8. \A i \in kept : Place(kept, Rank[i]) = i
    BY <1>4, <1>6, <1>7
  <1>9. ASSUME NEW n \in 1..size, NEW k \in 1..size, n < k
        PROVE  Place(kept, n) < Place(kept, k)
    <2> DEFINE a == Place(kept, n)
               b == Place(kept, k)
    <2>0. n \in Int /\ k \in Int
      BY <1>1
    <2>1. /\ a \in kept /\ b \in kept /\ Rank[a] = n /\ Rank[b] = k
          /\ a \in Int /\ b \in Int
      BY <1>0, <1>6
    <2> HIDE DEF a, b
    <2>2. CASE b < a
      BY <1>3, <1>9, <2>0, <2>1, <2>2
    <2>3. CASE b = a
      BY <1>9, <2>0, <2>1, <2>3
    <2> QED
      BY <2>0, <2>1, <2>2, <2>3 DEF a, b
  <1> QED
    BY <1>1, <1>6, <1>7, <1>8, <1>9 DEF size

\* What is left of a list: elements of it that are not gone, all of those, in
\* their order.
LEMMA WithoutKeeps ==
  ASSUME NEW S, NEW s \in Seq(S), NEW gone
  PROVE  LET w == Without(s, gone)
         IN  /\ w \in Seq(S) /\ Len(w) <= Len(s)
             /\ ToSet(w) = ToSet(s) \ gone
             /\ \A i, j \in 1..Len(w) : i < j =>
                  \E k, l \in 1..Len(s) : k < l /\ w[i] = s[k] /\ w[j] = s[l]
  <1> DEFINE kept == Staying(s, gone)
             w == Without(s, gone)
             At == [n \in 1..Cardinality(kept) |-> Place(kept, n)]
  <1>1. Len(s) \in Nat /\ kept \in SUBSET (1..Len(s)) /\ \A i \in 1..Len(s) : s[i] \in S
    BY DEF Staying
  <1>2. /\ Cardinality(kept) \in 0..Len(s)
        /\ At \in [1..Cardinality(kept) -> kept]
        /\ \A n, k \in 1..Cardinality(kept) : n < k => At[n] < At[k]
        /\ \A i \in kept : \E n \in 1..Cardinality(kept) : At[n] = i
    <2> HIDE DEF kept
    <2> QED
      BY <1>1, PlacesInOrder
  <1>3. w = [n \in 1..Cardinality(kept) |-> s[At[n]]]
    BY DEF Without
  <1> HIDE DEF At, w
  <1>4. w \in Seq(S) /\ Len(w) = Cardinality(kept)
    <2> HIDE DEF kept
    <2>1. \A n \in 1..Cardinality(kept) : s[At[n]] \in S
      BY <1>1, <1>2
    <2> QED
      BY <1>2, <1>3, <2>1
  <1>5. ToSet(w) = ToSet(s) \ gone
    <2>1. ToSet(w) = {w[i] : i \in 1..Len(w)} /\ ToSet(s) = {s[i] : i \in 1..Len(s)}
      BY <1>4 DEF ToSet
    <2>2. \A i \in 1..Len(w) : w[i] \in ToSet(s) \ gone
      BY <1>1, <1>2, <1>3, <1>4, <2>1 DEF Staying
    <2>3. ASSUME NEW x \in ToSet(s) \ gone
          PROVE  \E i \in 1..Len(w) : w[i] = x
      <3>1. PICK k \in 1..Len(s) : s[k] = x
        BY <2>1
      <3>2. k \in kept
        BY <3>1 DEF Staying
      <3>3. PICK n \in 1..Cardinality(kept) : At[n] = k
        BY <1>2, <3>2
      <3> QED
        BY <1>3, <1>4, <3>1, <3>3
    <2> QED
      BY <2>1, <2>2, <2>3
  <1>6. ASSUME NEW i \in 1..Len(w), NEW j \in 1..Len(w), i < j
        PROVE  \E k, l \in 1..Len(s) : k < l /\ w[i] = s[k] /\ w[j] = s[l]
    BY <1>1, <1>2, <1>3, <1>4, <1>6
  <1> QED
    BY <1>1, <1>2, <1>4, <1>5, <1>6 DEF w

\* Taking nothing out of a list leaves it as it is.
LEMMA WithoutNothing ==
  ASSUME NEW S, NEW s \in Seq(S)
  PROVE  Without(s, {}) = s
  <1> DEFINE size == Len(s)
  <1>1. size \in Nat /\ Staying(s, {}) = 1..size
    BY DEF Staying
  <1>2. IsFiniteSet(1..size) /\ Cardinality(1..size) = size
    BY <1>1, FS_Interval
  <1>3. ASSUME NEW n \in 1..size PROVE Place(1..size, n) = n
    <2>1. \A i \in 1..size : {j \in 1..size : j <= i} = 1..i
      BY <1>1
    <2>2. \A i \in 1..size : Cardinality({j \in 1..size : j <= i}) = i
      <3> TAKE i \in 1..size
      <3>1. i \in Nat /\ Cardinality(1..i) = i
        BY <1>1, FS_Interval
      <3> QED
        BY <2>1, <3>1
    <2> HIDE DEF size
    <2> QED
      BY <2>2 DEF Place
  <1>4. Without(s, {}) = [n \in 1..size |-> s[Place(1..size, n)]]
    BY <1>1, <1>2 DEF Without
  <1>5. s = [n \in 1..size |-> s[n]]
    OBVIOUS
  <1> HIDE DEF size
  <1> QED
    BY <1>3, <1>4, <1>5

\* No client is in what is left of the list twice.
LEMMA WithoutTwice ==
  ASSUME NEW s \in Seq(Clients), NEW gone,
         \A i, j \in 1..Len(s) : s[i] = s[j] => i = j
  PROVE  LET w == Without(s, gone)
         IN  /\ w \in Seq(Clients)
             /\ ToSet(w) = ToSet(s) \ gone
             /\ \A i, j \in 1..Len(w) : w[i] = w[j] => i = j
  <1> DEFINE w == Without(s, gone)
  <1>1. /\ w \in Seq(Clients) /\ ToSet(w) = ToSet(s) \ gone
        /\ \A i, j \in 1..Len(w) : i < j =>
             \E k, l \in 1..Len(s) : k < l /\ w[i] = s[k] /\ w[j] = s[l]
    BY WithoutKeeps
  <1> HIDE DEF w
  <1>2. \A i, j \in 1..Len(w) : i < j => w[i] # w[j]
    <2> SUFFICES ASSUME NEW i \in 1..Len(w), NEW j \in 1..Len(w), i < j
                 PROVE  w[i] # w[j]
      OBVIOUS
    <2>1. PICK k \in 1..Len(s), l \in 1..Len(s) : k < l /\ w[i] = s[k] /\ w[j] = s[l]
      BY <1>1
    <2>2. k \in Int /\ l \in Int /\ k # l
      BY <2>1
    <2> QED
      BY <2>1, <2>2
  <1>3. \A i, j \in 1..Len(w) : i # j => i < j \/ j < i
    <2>1. Len(w) \in Nat
      BY <1>1
    <2> QED
      BY <2>1
  <1> QED
    BY <1>1, <1>2, <1>3 DEF w

-----------------------------------------------------------------------------
(* The number of a load *)

Below == {p \in Nat \X Nat : p[1] < p[2]}

LEMMA BelowWF == IsWellFoundedOn(Below, Nat)
  <1>1. OpToRel(<, Nat) = Below
    BY DEF OpToRel, Below
  <1> QED
    BY <1>1, NatLessThanWellFounded

\* Numbers have a least one.
LEMMA LeastThereIs ==
  ASSUME NEW numbers, numbers \subseteq Nat, numbers # {}
  PROVE  \E n \in numbers : \A m \in numbers : n <= m
  <1>1. IsWellFoundedOn(Below, Nat)
    BY BelowWF
  <1>2. \A n, m \in Nat : <<m, n>> \in Below <=> m < n
    BY DEF Below
  <1> HIDE DEF Below
  <1>3. PICK n \in numbers : \A m \in numbers : ~(<<m, n>> \in Below)
    BY ONLY <1>1, WFMin, numbers \subseteq Nat, numbers # {}
  <1>4. ASSUME NEW m \in numbers PROVE n <= m
    <2>1. n \in Nat /\ m \in Nat
      OBVIOUS
    <2>2. ~(m < n)
      BY <1>2, <1>3, <2>1
    <2> QED
      BY <2>1, <2>2
  <1> QED
    BY <1>4

\* A load takes a number within the bound.
LEMMA NumberOfALoad ==
  ASSUME ToolAssumption, Unused # {}
  PROVE  Least(Unused) \in 1..MaxLoads
  <1>1. Unused \subseteq Nat /\ Unused \subseteq 1..MaxLoads
    BY DEF ToolAssumption, Unused
  <1>2. \E n \in Unused : \A m \in Unused : n <= m
    BY <1>1, LeastThereIs
  <1>3. Least(Unused) \in Unused
    <2> HIDE DEF Unused
    <2> QED
      BY <1>2 DEF Least
  <1> QED
    BY <1>1, <1>3

-----------------------------------------------------------------------------
(* The list of tools *)

\* No object is of both kinds.
LEMMA NoneOfBothKinds ==
  ASSUME KindsApart
  PROVE  \A i \in loaded["builtin"] : i \notin loaded["external"]
  BY DEF KindsApart, Kinds, Of

\* The list that is served is the one that would be made now.
LEMMA ListIsTrue ==
  ASSUME IInv
  PROVE  CacheSound /\ ToolsList = ListOf(RegistryNow)
  <1>1. ASSUME cached # None, cached.key = Signature
        PROVE  cached.list = ListOf(RegistryNow)
    <2>1. cached.key[1] = enabled /\ cached.key[2] = PackagesOf(RegistryNow)
      BY <1>1 DEF Signature
    <2>2. cached.list = {p \in cached.key[2] : p \in External \/ p \in cached.key[1]}
      BY <1>1 DEF IInv, CacheTrue
    <2> QED
      BY <2>1, <2>2 DEF ListOf
  <1> QED
    BY <1>1 DEF CacheSound, ToolsList

\* The invariant holds when the server is created.
LEMMA InitIsSound ==
  ASSUME ToolAssumption, Init
  PROVE  IInv
  <1>1. Idle \in Calls /\ Doing("shut", "builtin", {}) \in Calls
    BY DEF Idle, Doing, Calls, Kinds
  <1>2. /\ task \in [Tasks -> Calls] /\ Start \in Tasks
        /\ task[Start] = Doing("shut", "builtin", {})
        /\ \A t \in Reloads : task[t] = Idle
        /\ \A t \in Tasks : t # Start => task[t] = Idle
    BY <1>1 DEF Init, Tasks, ToolAssumption
  <1>3. Idle.pc = "idle" /\ Doing("shut", "builtin", {}).pc = "shut"
        /\ Doing("shut", "builtin", {}).kind = "builtin"
    BY DEF Idle, Doing
  <1>4. TasksSound
    BY <1>2, <1>3 DEF TasksSound
  <1>5. Loading = {Start}
    BY <1>2, <1>3 DEF Loading
  <1>6. /\ enabled = Packages /\ loaded = [kind \in Kinds |-> {}]
        /\ alive = {} /\ registry = {} /\ ready = FALSE /\ cached = None
        /\ sse = <<>> /\ broken = {} /\ told = {}
        /\ seen = [c \in Clients |-> None]
        /\ begun = 0 /\ overlapped = FALSE /\ disturbed = FALSE
    BY DEF Init
  <1>7. loaded["builtin"] = {} /\ loaded["external"] = {} /\ AllLoaded = {}
    BY <1>6 DEF Kinds, AllLoaded
  <1>8. KindsApart /\ LoadedLives
    BY <1>6 DEF KindsApart, LoadedLives
  <1>9. RegistryFollows /\ CacheTrue
    BY <1>5, <1>6 DEF RegistryFollows, CacheTrue
  <1>10. NoneLeft
    BY <1>2, <1>3, <1>5, <1>6, <1>7 DEF NoneLeft, Kinds
  <1>11. WillBeTold
    <2>1. ToSet(sse) = {}
      BY <1>6 DEF ToSet
    <2> QED
      BY <1>6, <2>1 DEF WillBeTold
  <1>12. TypeOK
    <2>1. sse \in Seq(Clients) /\ \A i, j \in 1..Len(sse) : sse[i] = sse[j] => i = j
      BY <1>6
    <2>2. \A t \in Tasks : /\ task[t].pc \in {"idle", "shut", "load", "send"}
                           /\ task[t].kind \in Kinds /\ task[t].picked \subseteq Of(task[t].kind)
                           /\ task[t].dead \subseteq Clients
      BY <1>2 DEF Idle, Doing, Kinds
    <2>3. begun \in 0..MaxReloads
      BY <1>6 DEF ToolAssumption
    <2> QED
      BY <1>6, <2>1, <2>2, <2>3 DEF TypeOK
  <1> QED
    BY <1>4, <1>6, <1>8, <1>9, <1>10, <1>11, <1>12 DEF IInv

\* A step of another kind than a reload's work leaves what is said of the
\* packages and of the tasks as it is.
LEMMA PackagesStand ==
  ASSUME IInv,
         enabled' = enabled, loaded' = loaded, alive' = alive, begun' = begun,
         overlapped' = overlapped,
         task' \in [Tasks -> Calls],
         \A t \in Tasks : \/ task'[t] = task[t]
                          \/ task[t].pc = "send" /\ task'[t].pc = "send" /\ task'[t].picked = {}
                          \/ task[t].pc = "send" /\ task'[t] = Idle
  PROVE  /\ TasksSound' /\ KindsApart' /\ LoadedLives' /\ NoneLeft'
         /\ Loading' = Loading /\ AllLoaded' = AllLoaded
         /\ \A t \in Tasks : /\ task'[t].pc \in {"idle", "shut", "load", "send"}
                             /\ task'[t].kind \in Kinds /\ task'[t].picked \subseteq Of(task'[t].kind)
                             /\ task'[t].dead \subseteq Clients
  <1>1. /\ task \in [Tasks -> Calls] /\ Start \in Tasks
        /\ \A t \in Tasks : task[t].pc = "idle" => task[t] = Idle
        /\ task[Start].pc # "send" /\ Reloads \subseteq Tasks
        /\ task[Start].pc # "idle" => \A t \in Reloads : task[t].pc = "idle"
    BY DEF IInv, TasksSound, Tasks
  <1>2. Idle.pc = "idle" /\ Idle.picked = {}
    BY DEF Idle, Doing
  <1>3. \A t \in Tasks : task[t].pc # "send" => task'[t] = task[t]
    OBVIOUS
  <1>4. \A t \in Tasks : task[t].pc = "send" => task'[t].pc \in {"send", "idle"}
    BY <1>2
  <1>5. Loading' = Loading
    BY <1>3, <1>4 DEF Loading
  <1>6. \A t \in Loading : task'[t] = task[t]
    BY <1>3 DEF Loading
  <1>7. AllLoaded' = AllLoaded
    BY DEF AllLoaded
  <1>8. TasksSound'
    <2>1. \A t \in Tasks : task'[t].pc = "idle" => task'[t] = Idle
      BY <1>1
    <2>2. task'[Start] = task[Start]
      BY <1>1
    <2>3. task[Start].pc # "idle" => \A t \in Reloads : task'[t].pc = "idle"
      BY <1>1, <1>3
    <2> QED
      BY <1>1, <2>1, <2>2, <2>3 DEF TasksSound
  <1>9. KindsApart'
    BY DEF IInv, KindsApart
  <1>10. LoadedLives'
    BY <1>3 DEF IInv, LoadedLives
  <1>11. NoneLeft'
    BY <1>5, <1>6, <1>7 DEF IInv, NoneLeft
  <1>12. ASSUME NEW t \in Tasks
         PROVE  /\ task'[t].pc \in {"idle", "shut", "load", "send"}
                /\ task'[t].kind \in Kinds /\ task'[t].picked \subseteq Of(task'[t].kind)
                /\ task'[t].dead \subseteq Clients
    <2>1. /\ task'[t].pc \in {"idle", "shut", "load", "send"}
          /\ task'[t].kind \in Kinds /\ task'[t].dead \subseteq Clients
      BY DEF Calls
    <2>2. task[t].picked \subseteq Of(task[t].kind)
      BY DEF IInv, TypeOK
    <2> QED
      BY <1>2, <2>1, <2>2
  <1> QED
    BY <1>5, <1>7, <1>8, <1>9, <1>10, <1>11, <1>12

-----------------------------------------------------------------------------
(* The event stream *)

\* What a step of the event stream has to show.
LEMMA StreamStep ==
  ASSUME IInv,
         enabled' = enabled, loaded' = loaded, alive' = alive, begun' = begun,
         overlapped' = overlapped,
         registry' = registry, ready' = ready, cached' = cached,
         task' \in [Tasks -> Calls],
         \A t \in Tasks : \/ task'[t] = task[t]
                          \/ task[t].pc = "send" /\ task'[t].pc = "send" /\ task'[t].picked = {}
                          \/ task[t].pc = "send" /\ task'[t] = Idle,
         sse' \in Seq(Clients), \A i, j \in 1..Len(sse') : sse'[i] = sse'[j] => i = j,
         broken' \subseteq Clients, told' \subseteq Clients, DOMAIN seen' = Clients,
         WillBeTold'
  PROVE  IInv'
  <1>1. /\ TasksSound' /\ KindsApart' /\ LoadedLives' /\ NoneLeft'
        /\ Loading' = Loading /\ AllLoaded' = AllLoaded
        /\ \A t \in Tasks : /\ task'[t].pc \in {"idle", "shut", "load", "send"}
                            /\ task'[t].kind \in Kinds /\ task'[t].picked \subseteq Of(task'[t].kind)
                            /\ task'[t].dead \subseteq Clients
    BY PackagesStand
  <1>2. CacheTrue' /\ RegistryFollows'
    BY <1>1 DEF IInv, CacheTrue, RegistryFollows
  <1>3. TypeOK'
    BY <1>1 DEF IInv, TypeOK
  <1> QED
    BY <1>1, <1>2, <1>3 DEF IInv

\* What the registry is does not change while it and what is loaded stand.
LEMMA ListStands ==
  ASSUME enabled' = enabled, loaded' = loaded, registry' = registry, ready' = ready
  PROVE  ListOf(RegistryNow)' = ListOf(RegistryNow)
  BY DEF ListOf, RegistryNow, AllLoaded, PackagesOf

LEMMA ConnectKeeps ==
  ASSUME IInv, NEW c \in Clients, Connect(c)
  PROVE  IInv'
  <1>1. /\ c \notin ToSet(sse) \cup broken
        /\ sse' = Append(sse, c) /\ told' = told \cup {c}
        /\ enabled' = enabled /\ loaded' = loaded /\ alive' = alive /\ begun' = begun
        /\ overlapped' = overlapped /\ registry' = registry /\ ready' = ready /\ cached' = cached
        /\ broken' = broken /\ seen' = seen /\ task' = task /\ disturbed' = disturbed
    BY DEF Connect, tools
  <1>2. /\ sse \in Seq(Clients) /\ \A i, j \in 1..Len(sse) : sse[i] = sse[j] => i = j
        /\ broken \subseteq Clients /\ told \subseteq Clients /\ DOMAIN seen = Clients
        /\ task \in [Tasks -> Calls]
    BY DEF IInv, TypeOK, TasksSound
  <1>3. /\ sse' \in Seq(Clients) /\ Len(sse') = Len(sse) + 1 /\ sse'[Len(sse) + 1] = c
        /\ \A i \in 1..Len(sse) : sse'[i] = sse[i]
    BY <1>1, <1>2
  <1>4. \A i \in 1..Len(sse) : sse[i] # c
    BY <1>1, <1>2 DEF ToSet
  <1>5. \A i, j \in 1..Len(sse') : sse'[i] = sse'[j] => i = j
    BY <1>2, <1>3, <1>4
  <1>6. ToSet(sse') = ToSet(sse) \cup {c}
    <2>1. Len(sse) \in Nat /\ 1..(Len(sse) + 1) = 1..Len(sse) \cup {Len(sse) + 1}
      BY <1>2
    <2>2. /\ ToSet(sse') = {sse'[i] : i \in 1..(Len(sse) + 1)}
          /\ ToSet(sse) = {sse[i] : i \in 1..Len(sse)}
      BY <1>2, <1>3 DEF ToSet
    <2> QED
      BY <1>3, <2>1, <2>2
  <1>7. WillBeTold'
    <2>1. Loading' = Loading /\ ListOf(RegistryNow)' = ListOf(RegistryNow)
      BY <1>1, ListStands DEF Loading
    <2>2. ASSUME NEW d \in Clients, Due(d) PROVE Due(d)'
      <3>1. PICK t \in Tasks : task[t].pc = "send" /\ \E i \in task[t].at..Len(sse) : sse[i] = d
        BY <2>2 DEF Due
      <3>2. PICK i \in task[t].at..Len(sse) : sse[i] = d
        BY <3>1
      <3>3. task[t].at \in Nat \ {0} /\ Len(sse) \in Nat
        BY <1>2 DEF Calls
      <3>4. i \in 1..Len(sse) /\ i \in task[t].at..Len(sse')
        BY <1>3, <3>2, <3>3
      <3>5. sse'[i] = d
        BY <1>3, <3>2, <3>4
      <3> QED
        BY <1>1, <3>1, <3>4, <3>5 DEF Due
    <2>3. ToSet(sse) \subseteq Clients
      BY <1>2 DEF ToSet
    <2> QED
      BY <1>1, <1>6, <2>1, <2>2, <2>3 DEF IInv, WillBeTold
  <1> QED
    BY <1>1, <1>2, <1>3, <1>5, <1>7, StreamStep

LEMMA LeaveKeeps ==
  ASSUME IInv, NEW c \in Clients, Leave(c)
  PROVE  IInv'
  <1>1. /\ sse' = Without(sse, {c}) /\ broken' = broken \ {c} /\ told' = told \ {c}
        /\ seen' = [seen EXCEPT ![c] = None]
        /\ disturbed' = (disturbed \/ Sending)
        /\ enabled' = enabled /\ loaded' = loaded /\ alive' = alive /\ begun' = begun
        /\ overlapped' = overlapped /\ registry' = registry /\ ready' = ready /\ cached' = cached
        /\ task' = task
    BY DEF Leave, tools
  <1>2. /\ sse \in Seq(Clients) /\ \A i, j \in 1..Len(sse) : sse[i] = sse[j] => i = j
        /\ broken \subseteq Clients /\ told \subseteq Clients /\ DOMAIN seen = Clients
        /\ task \in [Tasks -> Calls]
    BY DEF IInv, TypeOK, TasksSound
  <1>3. /\ sse' \in Seq(Clients) /\ ToSet(sse') = ToSet(sse) \ {c}
        /\ \A i, j \in 1..Len(sse') : sse'[i] = sse'[j] => i = j
    BY <1>1, <1>2, WithoutTwice
  <1>4. DOMAIN seen' = Clients /\ \A d \in Clients : seen'[d] = IF d = c THEN None ELSE seen[d]
    BY <1>1, <1>2
  <1>5. WillBeTold'
    <2>1. Loading' = Loading /\ ListOf(RegistryNow)' = ListOf(RegistryNow)
      BY <1>1, ListStands DEF Loading
    <2>2. ASSUME ~disturbed' PROVE ~disturbed /\ \A d \in Clients : ~Due(d)
      BY <1>1, <2>2 DEF Due, Sending
    <2>3. ToSet(sse) \subseteq Clients
      BY <1>2 DEF ToSet
    <2>4. ASSUME ~disturbed', task'[Start].pc # "idle"
          PROVE  \A d \in Clients : seen'[d] = None
      BY <1>1, <1>4, <2>2, <2>4 DEF IInv, WillBeTold
    <2>5. ASSUME ~disturbed', NEW d \in ToSet(sse') \ (broken' \cup told')
          PROVE  seen'[d] \in {None, ListOf(RegistryNow)} \/ Loading # {}
      <3>1. d \in ToSet(sse) \ (broken \cup told) /\ d # c /\ d \in Clients
        BY <1>1, <1>3, <2>3
      <3> QED
        BY <1>4, <2>2, <2>5, <3>1 DEF IInv, WillBeTold
    <2> QED
      BY <2>1, <2>4, <2>5 DEF WillBeTold
  <1>6. broken' \subseteq Clients /\ told' \subseteq Clients
    BY <1>1, <1>2
  <1> QED
    BY <1>1, <1>2, <1>3, <1>4, <1>5, <1>6, StreamStep

LEMMA SendKeeps ==
  ASSUME IInv, NEW t \in Tasks, Send(t)
  PROVE  IInv'
  <1> DEFINE c == sse[task[t].at]
  <1>1. /\ task[t].pc = "send" /\ task[t].at <= Len(sse)
        /\ enabled' = enabled /\ loaded' = loaded /\ alive' = alive /\ begun' = begun
        /\ overlapped' = overlapped /\ registry' = registry /\ ready' = ready /\ cached' = cached
        /\ sse' = sse /\ seen' = seen /\ disturbed' = disturbed
    BY DEF Send, tools
  <1>2. /\ sse \in Seq(Clients) /\ \A i, j \in 1..Len(sse) : sse[i] = sse[j] => i = j
        /\ broken \subseteq Clients /\ told \subseteq Clients /\ DOMAIN seen = Clients
        /\ task \in [Tasks -> Calls] /\ task[Start].pc # "send"
    BY DEF IInv, TypeOK, TasksSound
  <1>3. /\ task[t].at \in Nat \ {0} /\ task[t].dead \subseteq Clients
        /\ \A u \in Tasks : task[u].at \in Nat \ {0}
    BY <1>2 DEF Calls
  <1>4. c \in Clients /\ Len(sse) \in Nat
    BY <1>1, <1>2, <1>3
  <1>5. PICK dead : /\ dead \subseteq Clients
                    /\ task' = [task EXCEPT ![t] = Sent(t, dead)]
                    /\ \/ told' = told \cup {c} /\ broken' = broken
                       \/ told' = told /\ broken' = broken \cup {c}
    <2>1. CASE /\ told' = told \cup {c} /\ broken' = broken
               /\ task' = [task EXCEPT ![t] = Sent(t, task[t].dead)]
      BY <1>3, <2>1
    <2>2. CASE /\ told' = told /\ broken' = broken \cup {c}
               /\ task' = [task EXCEPT ![t] = Sent(t, task[t].dead \cup {c})]
      BY <1>3, <1>4, <2>2
    <2> QED
      BY <2>1, <2>2 DEF Send
  <1>6. /\ Sent(t, dead) \in Calls /\ Sent(t, dead).pc = "send"
        /\ Sent(t, dead).picked = {} /\ Sent(t, dead).at = task[t].at + 1
    BY <1>3, <1>5 DEF Sent, Calls, Kinds
  <1>7. /\ task' \in [Tasks -> Calls] /\ task'[t] = Sent(t, dead)
        /\ \A u \in Tasks : u # t => task'[u] = task[u]
    BY <1>2, <1>5, <1>6
  <1>8. \A u \in Tasks : \/ task'[u] = task[u]
                         \/ task[u].pc = "send" /\ task'[u].pc = "send" /\ task'[u].picked = {}
    BY <1>1, <1>6, <1>7
  <1>9. broken' \subseteq Clients /\ told' \subseteq Clients
    BY <1>2, <1>4, <1>5
  <1>10. WillBeTold'
    <2>1. Loading' = Loading /\ ListOf(RegistryNow)' = ListOf(RegistryNow)
      <3>1. \A u \in Tasks : task'[u].pc = task[u].pc
        BY <1>1, <1>6, <1>7
      <3> QED
        BY <1>1, <3>1, ListStands DEF Loading
    <2>2. ASSUME NEW d \in Clients, d # c, Due(d) PROVE Due(d)'
      <3>1. PICK u \in Tasks : task[u].pc = "send" /\ \E i \in task[u].at..Len(sse) : sse[i] = d
        BY <2>2 DEF Due
      <3>2. PICK i \in task[u].at..Len(sse) : sse[i] = d
        BY <3>1
      <3>3. task'[u].pc = "send" /\ i \in task'[u].at..Len(sse')
        <4>1. CASE u # t
          BY <1>1, <1>7, <3>1, <3>2, <4>1
        <4>2. CASE u = t
          <5>1. i # task[t].at /\ i \in Int
            BY <2>2, <3>2, <1>3, <1>4
          <5> QED
            BY <1>1, <1>3, <1>4, <1>6, <1>7, <3>2, <4>2, <5>1
        <4> QED
          BY <4>1, <4>2
      <3> QED
        BY <1>1, <3>2, <3>3 DEF Due
    <2>3. ToSet(sse) \subseteq Clients
      BY <1>2 DEF ToSet
    <2>4. task'[Start] = task[Start]
      BY <1>1, <1>2, <1>7 DEF Tasks
    <2>5. ASSUME ~disturbed', NEW d \in ToSet(sse') \ (broken' \cup told')
          PROVE  seen'[d] \in {None, ListOf(RegistryNow)} \/ Loading # {} \/ Due(d)'
      <3>1. d \in ToSet(sse) \ (broken \cup told) /\ d # c /\ d \in Clients
        BY <1>1, <1>5, <2>3
      <3>2. seen[d] \in {None, ListOf(RegistryNow)} \/ Loading # {} \/ Due(d)
        BY <1>1, <2>5, <3>1 DEF IInv, WillBeTold
      <3> QED
        BY <1>1, <2>2, <3>1, <3>2
    <2>6. ASSUME ~disturbed', task'[Start].pc # "idle"
          PROVE  \A d \in Clients : seen'[d] = None
      BY <1>1, <2>4, <2>6 DEF IInv, WillBeTold
    <2> QED
      BY <2>1, <2>5, <2>6 DEF WillBeTold
  <1> HIDE DEF c
  <1>11. /\ sse' \in Seq(Clients) /\ \A i, j \in 1..Len(sse') : sse'[i] = sse'[j] => i = j
         /\ DOMAIN seen' = Clients
    BY <1>1, <1>2
  <1> QED
    BY <1>1, <1>7, <1>8, <1>9, <1>10, <1>11, StreamStep

LEMMA SendEndsKeeps ==
  ASSUME IInv, NEW t \in Tasks, SendEnds(t)
  PROVE  IInv'
  <1>1. /\ task[t].pc = "send" /\ task[t].at > Len(sse)
        /\ \E out \in SUBSET task[t].dead : sse' = Without(sse, out)
        /\ task' = [task EXCEPT ![t] = Idle]
        /\ disturbed' = (disturbed \/ /\ task[t].dead # {}
                                      /\ \E other \in Tasks \ {t} : task[other].pc = "send")
        /\ enabled' = enabled /\ loaded' = loaded /\ alive' = alive /\ begun' = begun
        /\ overlapped' = overlapped /\ registry' = registry /\ ready' = ready /\ cached' = cached
        /\ broken' = broken /\ told' = told /\ seen' = seen
    BY DEF SendEnds, tools
  <1>2. /\ sse \in Seq(Clients) /\ \A i, j \in 1..Len(sse) : sse[i] = sse[j] => i = j
        /\ broken \subseteq Clients /\ told \subseteq Clients /\ DOMAIN seen = Clients
        /\ task \in [Tasks -> Calls] /\ task[Start].pc # "send" /\ task[t].at \in Nat
    BY DEF IInv, TypeOK, TasksSound, Calls
  <1>3. /\ sse' \in Seq(Clients) /\ ToSet(sse') \subseteq ToSet(sse)
        /\ \A i, j \in 1..Len(sse') : sse'[i] = sse'[j] => i = j
        /\ task[t].dead = {} => sse' = sse
    <2>1. PICK out \in SUBSET task[t].dead : sse' = Without(sse, out)
      BY <1>1
    <2>2. /\ sse' \in Seq(Clients) /\ ToSet(sse') = ToSet(sse) \ out
          /\ \A i, j \in 1..Len(sse') : sse'[i] = sse'[j] => i = j
      BY <1>2, <2>1, WithoutTwice
    <2>3. task[t].dead = {} => out = {}
      OBVIOUS
    <2>4. task[t].dead = {} => sse' = sse
      BY <1>2, <2>1, <2>3, WithoutNothing
    <2> QED
      BY <2>2, <2>4
  <1>4. Idle \in Calls /\ Idle.pc = "idle"
    BY DEF Idle, Doing, Calls, Kinds
  <1>5. /\ task' \in [Tasks -> Calls] /\ task'[t] = Idle
        /\ \A u \in Tasks : u # t => task'[u] = task[u]
    BY <1>1, <1>2, <1>4
  <1>6. \A u \in Tasks : task'[u] = task[u] \/ (task[u].pc = "send" /\ task'[u] = Idle)
    BY <1>1, <1>5
  <1>7. WillBeTold'
    <2>1. Loading' = Loading /\ ListOf(RegistryNow)' = ListOf(RegistryNow)
      BY <1>1, <1>4, <1>6, ListStands DEF Loading
    <2>2. ASSUME ~disturbed', NEW d \in Clients, Due(d) PROVE Due(d)'
      <3>1. PICK u \in Tasks : task[u].pc = "send" /\ \E i \in task[u].at..Len(sse) : sse[i] = d
        BY <2>2 DEF Due
      <3>2. PICK i \in task[u].at..Len(sse) : sse[i] = d
        BY <3>1
      <3>3. u # t
        <4>1. Len(sse) \in Nat /\ task[u].at \in Int /\ task[u].at <= Len(sse)
          BY <1>2, <3>2 DEF Calls
        <4> QED
          BY <1>1, <1>2, <4>1
      <3>4. sse' = sse
        BY <1>1, <1>3, <2>2, <3>1, <3>3
      <3> QED
        BY <1>5, <3>1, <3>2, <3>3, <3>4 DEF Due
    <2>3. ToSet(sse) \subseteq Clients
      BY <1>2 DEF ToSet
    <2>4. task'[Start] = task[Start]
      BY <1>1, <1>2, <1>5 DEF Tasks
    <2>5. ASSUME ~disturbed', NEW d \in ToSet(sse') \ (broken' \cup told')
          PROVE  seen'[d] \in {None, ListOf(RegistryNow)} \/ Loading # {} \/ Due(d)'
      <3>1. d \in ToSet(sse) \ (broken \cup told) /\ d \in Clients /\ ~disturbed
        BY <1>1, <1>3, <2>3, <2>5
      <3>2. seen[d] \in {None, ListOf(RegistryNow)} \/ Loading # {} \/ Due(d)
        BY <3>1 DEF IInv, WillBeTold
      <3> QED
        BY <1>1, <2>2, <2>5, <3>1, <3>2
    <2>6. ASSUME ~disturbed', task'[Start].pc # "idle"
          PROVE  \A d \in Clients : seen'[d] = None
      BY <1>1, <2>4, <2>6 DEF IInv, WillBeTold
    <2> QED
      BY <2>1, <2>5, <2>6 DEF WillBeTold
  <1>8. broken' \subseteq Clients /\ told' \subseteq Clients /\ DOMAIN seen' = Clients
    BY <1>1, <1>2
  <1> QED
    BY <1>1, <1>3, <1>5, <1>6, <1>7, <1>8, StreamStep

LEMMA ListToolsKeeps ==
  ASSUME IInv, NEW c \in Clients, ListTools(c)
  PROVE  IInv'
  <1>1. /\ seen' = [seen EXCEPT ![c] = ToolsList] /\ told' = told \ {c}
        /\ registry' = RegistryNow /\ ready' = TRUE
        /\ cached' = [key |-> Signature, list |-> ToolsList]
        /\ disturbed' = (disturbed \/ task[Start].pc # "idle")
        /\ enabled' = enabled /\ loaded' = loaded /\ alive' = alive /\ begun' = begun
        /\ overlapped' = overlapped /\ task' = task /\ sse' = sse /\ broken' = broken
    BY DEF ListTools
  <1>2. /\ sse \in Seq(Clients) /\ broken \subseteq Clients /\ told \subseteq Clients
        /\ DOMAIN seen = Clients /\ task \in [Tasks -> Calls]
        /\ alive \subseteq Instances /\ loaded \in [Kinds -> SUBSET Instances]
        /\ registry \subseteq Instances /\ ready \in BOOLEAN
    BY DEF IInv, TypeOK, TasksSound
  <1>3. ToolsList = ListOf(RegistryNow)
    BY ListIsTrue
  <1>4. RegistryNow' = RegistryNow /\ AllLoaded' = AllLoaded /\ RegistryNow \subseteq Instances
    BY <1>1, <1>2 DEF RegistryNow, AllLoaded, Kinds
  <1>5. ListOf(RegistryNow)' = ListOf(RegistryNow)
    BY <1>1, <1>4 DEF ListOf, PackagesOf
  <1>6. /\ TasksSound' /\ KindsApart' /\ LoadedLives' /\ NoneLeft'
        /\ Loading' = Loading
        /\ \A t \in Tasks : /\ task'[t].pc \in {"idle", "shut", "load", "send"}
                            /\ task'[t].kind \in Kinds /\ task'[t].picked \subseteq Of(task'[t].kind)
                            /\ task'[t].dead \subseteq Clients
    <2>1. task' \in [Tasks -> Calls] /\ \A t \in Tasks : task'[t] = task[t]
      BY <1>1, <1>2
    <2> QED
      BY <1>1, <2>1, PackagesStand
  <1>7. CacheTrue'
    <2>1. cached'.key[2] = PackagesOf(RegistryNow) /\ cached'.key[1] = enabled
          /\ cached'.list = ListOf(RegistryNow)
      BY <1>1, <1>3 DEF Signature
    <2> QED
      BY <2>1 DEF CacheTrue, ListOf
  <1>8. RegistryFollows'
    BY <1>1, <1>4 DEF IInv, RegistryFollows, RegistryNow
  <1>9. DOMAIN seen' = Clients /\ \A d \in Clients : seen'[d] = IF d = c THEN ToolsList ELSE seen[d]
    BY <1>1, <1>2
  <1>10. WillBeTold'
    <2>1. ASSUME NEW d PROVE Due(d)' <=> Due(d)
      BY <1>1 DEF Due
    <2>2. ToSet(sse) \subseteq Clients
      BY <1>2 DEF ToSet
    <2>3. ASSUME ~disturbed', NEW d \in ToSet(sse') \ (broken' \cup told')
          PROVE  seen'[d] \in {None, ListOf(RegistryNow)} \/ Loading # {} \/ Due(d)'
      <3>1. CASE d = c
        BY <1>3, <1>9, <2>2, <3>1
      <3>2. CASE d # c
        <4>1. d \in ToSet(sse) \ (broken \cup told) /\ d \in Clients
          BY <1>1, <2>2, <2>3, <3>2
        <4> QED
          BY <1>1, <1>9, <2>1, <2>3, <3>2, <4>1 DEF IInv, WillBeTold
      <3> QED
        BY <3>1, <3>2
    <2>4. ~disturbed' => task'[Start].pc = "idle"
      BY <1>1
    <2> QED
      BY <1>5, <1>6, <2>3, <2>4 DEF WillBeTold
  <1>11. TypeOK'
    <2>1. DOMAIN cached' = {"key", "list"}
      BY <1>1
    <2>2. told' \subseteq Clients /\ registry' \subseteq Instances /\ ready' \in BOOLEAN
      BY <1>1, <1>2, <1>4
    <2> QED
      BY <1>1, <1>6, <2>1, <2>2 DEF IInv, TypeOK
  <1> QED
    BY <1>6, <1>7, <1>8, <1>9, <1>10, <1>11 DEF IInv

-----------------------------------------------------------------------------
(* The work of a reload *)

LEMMA BeginKeeps ==
  ASSUME ToolAssumption, IInv, NEW t \in Tasks, Begin(t),
         enabled' \subseteq Packages,
         loaded' = loaded, registry' = registry, ready' = ready, cached' = cached,
         sse' = sse, broken' = broken, told' = told, seen' = seen, disturbed' = disturbed
  PROVE  IInv'
  <1>1. /\ t \in Reloads /\ task[t] = Idle /\ task[Start].pc = "idle"
        /\ begun < MaxReloads /\ begun' = begun + 1
        /\ alive' = alive \ loaded["builtin"]
        /\ task' = [task EXCEPT ![t] = Doing("shut", "builtin", {})]
        /\ overlapped' = (overlapped \/ \E other \in Reloads : task[other].pc \in {"shut", "load"})
    BY DEF Begin, ShutDown
  <1>2. /\ task \in [Tasks -> Calls] /\ DOMAIN seen = Clients
        /\ \A u \in Tasks : task[u].pc = "idle" => task[u] = Idle
        /\ alive \subseteq Instances /\ loaded \in [Kinds -> SUBSET Instances]
        /\ Tasks = Reloads \cup {Start} /\ t # Start
    BY <1>1 DEF IInv, TypeOK, TasksSound, Tasks, ToolAssumption
  <1>3. /\ Doing("shut", "builtin", {}) \in Calls
        /\ Doing("shut", "builtin", {}).pc = "shut" /\ Doing("shut", "builtin", {}).kind = "builtin"
        /\ Doing("shut", "builtin", {}).picked = {} /\ Doing("shut", "builtin", {}).dead = {}
        /\ Idle.pc = "idle"
    BY DEF Doing, Idle, Calls, Kinds
  <1>4. /\ task' \in [Tasks -> Calls] /\ task'[t] = Doing("shut", "builtin", {})
        /\ \A u \in Tasks : u # t => task'[u] = task[u]
    BY <1>1, <1>2, <1>3
  <1>5. Loading' = Loading \cup {t}
    BY <1>2, <1>3, <1>4 DEF Loading
  <1>6. TasksSound'
    BY <1>1, <1>2, <1>3, <1>4 DEF IInv, TasksSound
  <1>7. KindsApart' /\ CacheTrue'
    BY DEF IInv, KindsApart, CacheTrue
  <1>8. RegistryFollows'
    BY <1>5 DEF IInv, RegistryFollows, AllLoaded
  <1>9. LoadedLives'
    <2>1. loaded["external"] \subseteq alive => loaded'["external"] \subseteq alive'
      BY <1>1, NoneOfBothKinds DEF IInv
    <2>2. ASSUME NEW u \in Tasks, task[u].pc = "shut", task[u].kind = "external"
          PROVE  task'[u].pc = "shut" /\ task'[u].kind = "external"
      BY <1>1, <1>3, <1>4, <2>2
    <2>3. loaded["external"] \subseteq alive \/
            \E u \in Tasks : task[u].pc = "shut" /\ task[u].kind = "external"
      BY DEF IInv, LoadedLives, Kinds
    <2>4. loaded'["external"] \subseteq alive' \/
            \E u \in Tasks : task'[u].pc = "shut" /\ task'[u].kind = "external"
      BY <2>1, <2>2, <2>3
    <2>5. task'[t].pc = "shut" /\ task'[t].kind = "builtin"
      BY <1>3, <1>4
    <2> QED
      BY <2>4, <2>5 DEF LoadedLives, Kinds
  <1>10. NoneLeft'
    <2> SUFFICES ASSUME ~overlapped'
                 PROVE  /\ \A u, v \in Loading' : u = v
                        /\ Loading' = {} => alive' = AllLoaded'
                        /\ \A u \in Loading' :
                             IF task'[u].pc = "shut"
                             THEN alive' = AllLoaded' \ loaded'[task'[u].kind]
                             ELSE loaded'[task'[u].kind] = {} /\ alive' = AllLoaded'
      BY DEF NoneLeft
    <2>1. Loading = {} /\ ~overlapped
      BY <1>1, <1>2 DEF Loading
    <2>2. alive = AllLoaded /\ AllLoaded' = AllLoaded
      BY <2>1 DEF IInv, NoneLeft, AllLoaded
    <2> QED
      BY <1>1, <1>3, <1>4, <1>5, <2>1, <2>2
  <1>11. WillBeTold'
    <2>1. task'[Start].pc = "idle"
      BY <1>1, <1>2, <1>4
    <2> QED
      BY <1>5, <2>1 DEF WillBeTold
  <1>12. TypeOK'
    <2>1. \A u \in Tasks : /\ task'[u].pc \in {"idle", "shut", "load", "send"}
                           /\ task'[u].kind \in Kinds /\ task'[u].picked \subseteq Of(task'[u].kind)
                           /\ task'[u].dead \subseteq Clients
      <3> TAKE u \in Tasks
      <3>1. CASE u = t
        BY <1>3, <1>4, <3>1 DEF Kinds
      <3>2. CASE u # t
        BY <1>4, <3>2 DEF IInv, TypeOK
      <3> QED
        BY <3>1, <3>2
    <2>2. begun' \in 0..MaxReloads /\ alive' \subseteq Instances
      <3>1. begun \in 0..MaxReloads /\ MaxReloads \in Nat
        BY DEF IInv, TypeOK, ToolAssumption
      <3> QED
        BY <1>1, <1>2, <3>1
    <2> QED
      BY <2>1, <2>2 DEF IInv, TypeOK
  <1>13. DOMAIN seen' = Clients
    BY <1>2
  <1> QED
    BY <1>6, <1>7, <1>8, <1>9, <1>10, <1>11, <1>12, <1>13 DEF IInv

\* What follows when the packages of one kind are shut down or loaded: `now` is
\* loaded, `living` are the objects that live, and task `t` goes on.
LEMMA OnwardKeeps ==
  ASSUME ToolAssumption, IInv, NEW t \in Loading, NEW kind, kind = task[t].kind,
         NEW now \in [Kinds -> SUBSET Instances], NEW living \in SUBSET Instances,
         \A k \in Kinds : k # kind => now[k] = loaded[k],
         now[kind] \subseteq Of(kind) \X (1..MaxLoads),
         \A i, j \in now[kind] : i[1] = j[1] => i = j,
         alive \subseteq living, now[kind] \subseteq living,
         ~overlapped => living = now["builtin"] \cup now["external"],
         Onward(t, kind, now, living), loaded' = now,
         enabled' = enabled, sse' = sse, broken' = broken, told' = told, seen' = seen,
         begun' = begun, overlapped' = overlapped, disturbed' = disturbed
  PROVE  IInv'
  <1>1. /\ task \in [Tasks -> Calls] /\ DOMAIN seen = Clients
        /\ \A u \in Tasks : task[u].pc = "idle" => task[u] = Idle
        /\ task[Start].pc # "idle" => \A u \in Reloads : task[u].pc = "idle"
        /\ task[Start].pc # "send"
        /\ Tasks = Reloads \cup {Start} /\ t \in Tasks /\ kind \in Kinds
        /\ task[t].pc \in {"shut", "load"}
    BY DEF IInv, TasksSound, Tasks, Loading, Calls
  <1>2. AllLoaded' = now["builtin"] \cup now["external"]
    BY DEF AllLoaded
  <1>3. KindsApart'
    BY DEF IInv, KindsApart
  <1>4. \A i \in now["builtin"] : i \notin now["external"]
    BY <1>3 DEF KindsApart, Kinds, Of
  <1>5. CASE kind = "builtin"
    <2> DEFINE next == Doing("shut", "external", {})
    <2>1. /\ alive' = living \ now["external"] /\ task' = [task EXCEPT ![t] = next]
          /\ registry' = registry /\ cached' = cached /\ ready' = FALSE
      BY <1>5 DEF Onward, ShutDown
    <2>2. /\ next \in Calls /\ next.pc = "shut" /\ next.kind = "external"
          /\ next.picked = {} /\ next.dead = {}
      BY DEF Doing, Calls, Kinds
    <2> HIDE DEF next
    <2>3. /\ task' \in [Tasks -> Calls] /\ task'[t] = next
          /\ \A u \in Tasks : u # t => task'[u] = task[u]
      BY <1>1, <2>1, <2>2
    <2>4. Loading' = Loading /\ Loading' # {}
      BY <1>1, <2>2, <2>3 DEF Loading
    <2>5. TasksSound'
      BY <1>1, <2>2, <2>3 DEF TasksSound
    <2>6. CacheTrue' /\ RegistryFollows'
      BY <2>1, <2>4 DEF IInv, CacheTrue, RegistryFollows
    <2>7. LoadedLives'
      <3>1. now["builtin"] \subseteq alive'
        BY <1>4, <1>5, <2>1
      <3> QED
        BY <1>1, <2>2, <2>3, <3>1 DEF LoadedLives, Kinds
    <2>8. NoneLeft'
      <3> SUFFICES ASSUME ~overlapped'
                   PROVE  /\ \A u, v \in Loading' : u = v
                          /\ Loading' = {} => alive' = AllLoaded'
                          /\ \A u \in Loading' :
                               IF task'[u].pc = "shut"
                               THEN alive' = AllLoaded' \ loaded'[task'[u].kind]
                               ELSE loaded'[task'[u].kind] = {} /\ alive' = AllLoaded'
        BY DEF NoneLeft
      <3>1. \A u \in Loading : u = t
        BY DEF IInv, NoneLeft
      <3>2. alive' = AllLoaded' \ loaded'["external"]
        BY <1>2, <2>1
      <3> QED
        BY <2>2, <2>3, <2>4, <3>1, <3>2
    <2>9. WillBeTold'
      <3>1. task'[Start].pc = task[Start].pc \/ task[Start].pc # "idle"
        BY <1>1, <2>3
      <3> QED
        BY <2>4, <3>1 DEF IInv, WillBeTold
    <2>10. TypeOK'
      <3>1. \A u \in Tasks : /\ task'[u].pc \in {"idle", "shut", "load", "send"}
                             /\ task'[u].kind \in Kinds /\ task'[u].picked \subseteq Of(task'[u].kind)
                             /\ task'[u].dead \subseteq Clients
        <4> TAKE u \in Tasks
        <4>1. CASE u = t
          BY <2>2, <2>3, <4>1 DEF Kinds
        <4>2. CASE u # t
          BY <2>3, <4>2 DEF IInv, TypeOK
        <4> QED
          BY <4>1, <4>2
      <3>2. \A k \in Kinds : \A i, j \in loaded'[k] : i[1] = j[1] => i = j
        BY DEF IInv, TypeOK
      <3>3. alive' \subseteq Instances /\ ready' \in BOOLEAN
        BY <2>1
      <3> QED
        BY <2>1, <3>1, <3>2, <3>3 DEF IInv, TypeOK
    <2>11. DOMAIN seen' = Clients
      BY <1>1
    <2> QED
      BY <1>3, <2>5, <2>6, <2>7, <2>8, <2>9, <2>10, <2>11 DEF IInv
  <1>6. CASE kind = "external"
    <2> DEFINE next == IF t = Start THEN Idle ELSE Doing("send", "builtin", {})
    <2>1. /\ registry' = now["builtin"] \cup now["external"] /\ ready' = TRUE
          /\ cached' = IF t = Start THEN cached ELSE None
          /\ task' = [task EXCEPT ![t] = next]
          /\ alive' = living
      BY <1>6 DEF Onward, Refresh
    <2>2. /\ next \in Calls /\ next.kind = "builtin" /\ next.picked = {} /\ next.dead = {}
          /\ t = Start => next = Idle /\ next.pc = "idle"
          /\ t # Start => next.pc = "send" /\ next.at = 1
      BY DEF Doing, Idle, Calls, Kinds
    <2> HIDE DEF next
    <2>3. /\ task' \in [Tasks -> Calls] /\ task'[t] = next
          /\ \A u \in Tasks : u # t => task'[u] = task[u]
      BY <1>1, <2>1, <2>2
    <2>4. Loading' = Loading \ {t}
      BY <1>1, <2>2, <2>3 DEF Loading
    <2>5. TasksSound'
      <3>1. \A u \in Tasks : task'[u].pc = "idle" => task'[u] = Idle
        BY <1>1, <2>2, <2>3
      <3>2. task'[Start].pc # "send"
        BY <1>1, <2>2, <2>3
      <3>3. task'[Start].pc # "idle" => \A u \in Reloads : task'[u].pc = "idle"
        BY <1>1, <2>2, <2>3
      <3> QED
        BY <2>3, <3>1, <3>2, <3>3 DEF TasksSound
    <2>6. CacheTrue'
      BY <2>1 DEF IInv, CacheTrue
    <2>7. RegistryFollows'
      BY <1>2, <2>1 DEF RegistryFollows
    <2>8. LoadedLives'
      <3>1. now["external"] \subseteq alive'
        BY <1>6, <2>1
      <3>2. now["builtin"] = loaded["builtin"]
        BY <1>6 DEF Kinds
      <3>3. CASE loaded["builtin"] \subseteq alive
        BY <2>1, <3>1, <3>2, <3>3 DEF LoadedLives, Kinds
      <3>4. CASE \E u \in Tasks : task[u].pc = "shut" /\ task[u].kind = "builtin"
        <4>1. PICK u \in Tasks : task[u].pc = "shut" /\ task[u].kind = "builtin"
          BY <3>4
        <4>2. u # t
          BY <1>6, <4>1
        <4>3. task'[u].pc = "shut" /\ task'[u].kind = "builtin"
          BY <2>3, <4>1, <4>2
        <4> QED
          BY <3>1, <4>3 DEF LoadedLives, Kinds
      <3> QED
        BY <3>3, <3>4 DEF IInv, LoadedLives, Kinds
    <2>9. NoneLeft'
      <3> SUFFICES ASSUME ~overlapped'
                   PROVE  /\ \A u, v \in Loading' : u = v
                          /\ Loading' = {} => alive' = AllLoaded'
                          /\ \A u \in Loading' :
                               IF task'[u].pc = "shut"
                               THEN alive' = AllLoaded' \ loaded'[task'[u].kind]
                               ELSE loaded'[task'[u].kind] = {} /\ alive' = AllLoaded'
        BY DEF NoneLeft
      <3>1. Loading' = {}
        BY <2>4 DEF IInv, NoneLeft
      <3>2. alive' = AllLoaded'
        BY <1>2, <2>1
      <3> QED
        BY <3>1, <3>2
    <2>10. WillBeTold'
      <3> SUFFICES ASSUME ~disturbed'
                   PROVE  /\ task'[Start].pc # "idle" => \A c \in Clients : seen'[c] = None
                          /\ \A c \in ToSet(sse') \ (broken' \cup told') :
                               seen'[c] \in {None, ListOf(RegistryNow)'} \/ Loading' # {} \/ Due(c)'
        BY DEF WillBeTold
      <3>1. sse \in Seq(Clients) /\ ToSet(sse) \subseteq Clients
        BY DEF IInv, TypeOK, ToSet
      <3>2. CASE t = Start
        <4>1. \A c \in Clients : seen[c] = None
          BY <1>1, <3>2 DEF IInv, WillBeTold
        <4> QED
          BY <3>1, <4>1
      <3>3. CASE t # Start
        <4>1. task[Start].pc = "idle" /\ task'[Start].pc = "idle"
          BY <1>1, <2>3, <3>3
        <4>2. ASSUME NEW c \in ToSet(sse) PROVE Due(c)'
          <5>1. PICK i \in 1..Len(sse) : sse[i] = c
            BY <3>1, <4>2 DEF ToSet
          <5> QED
            BY <1>1, <2>2, <2>3, <3>3, <5>1 DEF Due
        <4> QED
          BY <4>1, <4>2
      <3> QED
        BY <3>2, <3>3
    <2>11. TypeOK'
      <3>1. \A u \in Tasks : /\ task'[u].pc \in {"idle", "shut", "load", "send"}
                             /\ task'[u].kind \in Kinds /\ task'[u].picked \subseteq Of(task'[u].kind)
                             /\ task'[u].dead \subseteq Clients
        <4> TAKE u \in Tasks
        <4>1. CASE u = t
          BY <2>2, <2>3, <4>1 DEF Kinds, Calls
        <4>2. CASE u # t
          BY <2>3, <4>2 DEF IInv, TypeOK
        <4> QED
          BY <4>1, <4>2
      <3>2. \A k \in Kinds : \A i, j \in loaded'[k] : i[1] = j[1] => i = j
        BY DEF IInv, TypeOK
      <3>3. /\ alive' \subseteq Instances /\ registry' \subseteq Instances /\ ready' \in BOOLEAN
            /\ cached' = None \/ DOMAIN cached' = {"key", "list"}
        BY <2>1 DEF IInv, TypeOK, Kinds
      <3> QED
        BY <2>1, <3>1, <3>2, <3>3 DEF IInv, TypeOK
    <2>12. DOMAIN seen' = Clients
      BY <1>1
    <2> QED
      BY <1>3, <2>5, <2>6, <2>7, <2>8, <2>9, <2>10, <2>11, <2>12 DEF IInv
  <1> QED
    BY <1>1, <1>5, <1>6 DEF Kinds

LEMMA SelectKeepsIt ==
  ASSUME ToolAssumption, IInv, NEW t \in Tasks, Select(t)
  PROVE  IInv'
  <1> DEFINE kind == task[t].kind
             picked == enabled \cap Of(kind)
             now == [loaded EXCEPT ![kind] = {}]
  <1>1. /\ task[t].pc = "shut" /\ loaded' = now
        /\ enabled' = enabled /\ sse' = sse /\ broken' = broken /\ told' = told /\ seen' = seen
        /\ begun' = begun /\ overlapped' = overlapped /\ disturbed' = disturbed
    BY DEF Select, streams
  <1>2. \/ Onward(t, kind, now, alive)
        \/ /\ task' = [task EXCEPT ![t] = Doing("load", kind, picked)] /\ ready' = FALSE
           /\ alive' = alive /\ registry' = registry /\ cached' = cached
    BY DEF Select
  <1>3. /\ task \in [Tasks -> Calls] /\ DOMAIN seen = Clients
        /\ \A u \in Tasks : task[u].pc = "idle" => task[u] = Idle
        /\ task[Start].pc # "idle" => \A u \in Reloads : task[u].pc = "idle"
        /\ Tasks = Reloads \cup {Start} /\ t \in Loading /\ kind \in Kinds
        /\ alive \subseteq Instances /\ loaded \in [Kinds -> SUBSET Instances]
        /\ enabled \subseteq Packages
    BY <1>1 DEF IInv, TypeOK, TasksSound, Tasks, Loading, Calls
  <1>4. /\ now \in [Kinds -> SUBSET Instances] /\ now[kind] = {}
        /\ \A k \in Kinds : k # kind => now[k] = loaded[k]
    <2>1. loaded \in [Kinds -> SUBSET Instances] /\ kind \in Kinds
      BY <1>3
    <2> HIDE DEF kind
    <2> QED
      BY <2>1
  <1>5. ~overlapped => alive = now["builtin"] \cup now["external"]
    <2>1. ASSUME ~overlapped PROVE alive = AllLoaded \ loaded[kind]
      BY <1>1, <1>3, <2>1 DEF IInv, NoneLeft
    <2>2. CASE kind = "builtin"
      <3>1. now["builtin"] = {} /\ now["external"] = loaded["external"]
        BY <1>4, <2>2 DEF Kinds
      <3> HIDE DEF now, kind
      <3> QED
        BY <2>1, <2>2, <3>1, NoneOfBothKinds DEF IInv, AllLoaded
    <2>3. CASE kind = "external"
      <3>1. now["external"] = {} /\ now["builtin"] = loaded["builtin"]
        BY <1>4, <2>3 DEF Kinds
      <3> HIDE DEF now, kind
      <3> QED
        BY <2>1, <2>3, <3>1, NoneOfBothKinds DEF IInv, AllLoaded
    <2> HIDE DEF now, kind
    <2> QED
      BY <1>3, <2>2, <2>3 DEF Kinds
  <1> HIDE DEF now
  <1>6. CASE Onward(t, kind, now, alive)
    <2>1. kind = task[t].kind /\ alive \in SUBSET Instances /\ alive \subseteq alive
      BY <1>3
    <2>2. /\ now[kind] \subseteq Of(kind) \X (1..MaxLoads) /\ now[kind] \subseteq alive
          /\ \A i, j \in now[kind] : i[1] = j[1] => i = j
      BY <1>4
    <2> HIDE DEF kind
    <2> QED
      BY <1>1, <1>3, <1>4, <1>5, <1>6, <2>1, <2>2, OnwardKeeps
  <1>7. CASE /\ task' = [task EXCEPT ![t] = Doing("load", kind, picked)] /\ ready' = FALSE
             /\ alive' = alive /\ registry' = registry /\ cached' = cached
    <2> DEFINE next == Doing("load", kind, picked)
    <2>1. /\ next \in Calls /\ next.pc = "load" /\ next.kind = kind
          /\ next.picked \subseteq Of(kind) /\ next.dead = {}
      <3>1. picked \subseteq Packages /\ picked \subseteq Of(kind)
        BY <1>3
      <3> HIDE DEF picked, kind
      <3> QED
        BY <1>3, <3>1 DEF Doing, Calls
    <2> HIDE DEF next, picked, kind
    <2>2. /\ task' \in [Tasks -> Calls] /\ task'[t] = next
          /\ \A u \in Tasks : u # t => task'[u] = task[u]
      BY <1>3, <1>7, <2>1 DEF next
    <2>3. Loading' = Loading
      BY <1>1, <1>3, <2>1, <2>2 DEF Loading
    <2>4. TasksSound'
      <3>1. task'[Start].pc # "send"
        BY <2>1, <2>2, <1>3 DEF IInv, TasksSound
      <3>2. task'[Start].pc # "idle" => \A u \in Reloads : task'[u].pc = "idle"
        <4>1. CASE t = Start
          <5>1. \A u \in Reloads : u # t /\ u \in Tasks
            BY <1>3, <4>1 DEF ToolAssumption
          <5>2. \A u \in Reloads : task[u].pc = "idle"
            BY <1>1, <1>3, <4>1
          <5> QED
            BY <2>2, <5>1, <5>2
        <4>2. CASE t # Start
          <5>1. task[Start].pc = "idle"
            BY <1>1, <1>3, <4>2
          <5> QED
            BY <1>3, <2>2, <4>2, <5>1
        <4> QED
          BY <4>1, <4>2
      <3>3. \A u \in Tasks : task'[u].pc = "idle" => task'[u] = Idle
        BY <1>3, <2>1, <2>2
      <3> QED
        BY <2>2, <3>1, <3>2, <3>3 DEF TasksSound
    <2>5. KindsApart'
      BY <1>1, <1>4 DEF IInv, KindsApart
    <2>6. CacheTrue' /\ RegistryFollows'
      BY <1>3, <1>7, <2>3 DEF IInv, CacheTrue, RegistryFollows
    <2>7. LoadedLives'
      <3>1. ASSUME NEW k \in Kinds
            PROVE  loaded'[k] \subseteq alive' \/ \E u \in Tasks : task'[u].pc = "shut" /\ task'[u].kind = k
        <4>1. CASE k = kind
          BY <1>1, <1>4, <4>1
        <4>2. CASE k # kind
          <5>1. loaded'[k] = loaded[k]
            BY <1>1, <1>4, <4>2
          <5>2. CASE \E u \in Tasks : task[u].pc = "shut" /\ task[u].kind = k
            <6>1. PICK u \in Tasks : task[u].pc = "shut" /\ task[u].kind = k
              BY <5>2
            <6>2. u # t
              BY <4>2, <6>1 DEF kind
            <6> QED
              BY <2>2, <6>1, <6>2
          <5> QED
            BY <1>7, <5>1, <5>2 DEF IInv, LoadedLives
        <4> QED
          BY <4>1, <4>2
      <3> QED
        BY <3>1 DEF LoadedLives
    <2>8. NoneLeft'
      <3> SUFFICES ASSUME ~overlapped'
                   PROVE  /\ \A u, v \in Loading' : u = v
                          /\ Loading' = {} => alive' = AllLoaded'
                          /\ \A u \in Loading' :
                               IF task'[u].pc = "shut"
                               THEN alive' = AllLoaded' \ loaded'[task'[u].kind]
                               ELSE loaded'[task'[u].kind] = {} /\ alive' = AllLoaded'
        BY DEF NoneLeft
      <3>1. \A u \in Loading : u = t
        BY <1>1, <1>3 DEF IInv, NoneLeft
      <3>2. loaded'[kind] = {} /\ alive' = AllLoaded'
        BY <1>1, <1>4, <1>5, <1>7 DEF AllLoaded
      <3> QED
        BY <1>3, <2>1, <2>2, <2>3, <3>1, <3>2
    <2>9. WillBeTold'
      <3>1. task'[Start].pc = task[Start].pc \/ task[Start].pc # "idle"
        BY <1>1, <1>3, <2>2
      <3> QED
        BY <1>1, <1>3, <2>3, <3>1 DEF IInv, WillBeTold
    <2>10. TypeOK'
      <3>1. \A u \in Tasks : /\ task'[u].pc \in {"idle", "shut", "load", "send"}
                             /\ task'[u].kind \in Kinds /\ task'[u].picked \subseteq Of(task'[u].kind)
                             /\ task'[u].dead \subseteq Clients
        <4> TAKE u \in Tasks
        <4>1. CASE u = t
          BY <1>3, <2>1, <2>2, <4>1
        <4>2. CASE u # t
          BY <2>2, <4>2 DEF IInv, TypeOK
        <4> QED
          BY <4>1, <4>2
      <3>2. \A k \in Kinds : \A i, j \in loaded'[k] : i[1] = j[1] => i = j
        <4> TAKE k \in Kinds
        <4>1. CASE k = kind
          BY <1>1, <1>4, <4>1
        <4>2. CASE k # kind
          BY <1>1, <1>4, <4>2 DEF IInv, TypeOK
        <4> QED
          BY <4>1, <4>2
      <3>3. ready' \in BOOLEAN /\ loaded' \in [Kinds -> SUBSET Instances]
        BY <1>1, <1>4, <1>7
      <3> QED
        BY <1>1, <1>7, <3>1, <3>2, <3>3 DEF IInv, TypeOK
    <2>11. DOMAIN seen' = Clients
      BY <1>1, <1>3
    <2> QED
      BY <2>4, <2>5, <2>6, <2>7, <2>8, <2>9, <2>10, <2>11 DEF IInv
  <1> QED
    BY <1>2, <1>6, <1>7

LEMMA LoadEndsKeeps ==
  ASSUME ToolAssumption, IInv, NEW t \in Tasks, LoadEnds(t)
  PROVE  IInv'
  <1> DEFINE kind == task[t].kind
             number == Least(Unused)
  <1>1. /\ task[t].pc = "load" /\ Unused # {}
        /\ enabled' = enabled /\ sse' = sse /\ broken' = broken /\ told' = told /\ seen' = seen
        /\ begun' = begun /\ overlapped' = overlapped /\ disturbed' = disturbed
    BY DEF LoadEnds, streams
  <1>2. PICK good \in {task[t].picked} \cup (IF kind = "external" THEN {{}} ELSE {}) :
          LET objects == good \X {number}
              now == [loaded EXCEPT ![kind] = NewList(@, objects)]
          IN  loaded' = now /\ Onward(t, kind, now, alive \cup objects)
    BY DEF LoadEnds
  <1> DEFINE objects == good \X {number}
             now == [loaded EXCEPT ![kind] = objects]
  <1>3. loaded' = now /\ Onward(t, kind, now, alive \cup objects)
    BY <1>2 DEF NewList
  <1>4. /\ t \in Loading /\ kind \in Kinds /\ task[t].picked \subseteq Of(kind)
        /\ alive \subseteq Instances /\ loaded \in [Kinds -> SUBSET Instances]
    BY <1>1 DEF IInv, TypeOK, TasksSound, Loading, Calls
  <1>5. number \in 1..MaxLoads
    BY <1>1, NumberOfALoad
  <1>6. good \subseteq Of(kind) /\ Of(kind) \subseteq Packages
    BY <1>2, <1>4 DEF Of, ToolAssumption
  <1> HIDE DEF number, kind
  <1>7. /\ objects \subseteq Of(kind) \X (1..MaxLoads) /\ objects \subseteq Instances
        /\ \A i, j \in objects : i[1] = j[1] => i = j
    BY <1>5, <1>6 DEF Instances
  <1> HIDE DEF objects
  <1>8. /\ now \in [Kinds -> SUBSET Instances] /\ now[kind] = objects
        /\ \A k \in Kinds : k # kind => now[k] = loaded[k]
    BY <1>4, <1>7
  <1>9. ~overlapped => alive \cup objects = now["builtin"] \cup now["external"]
    <2>1. ASSUME ~overlapped PROVE loaded[kind] = {} /\ alive = AllLoaded
      BY <1>1, <1>4, <2>1 DEF IInv, NoneLeft, kind
    <2>2. CASE kind = "builtin"
      <3>1. now["builtin"] = objects /\ now["external"] = loaded["external"]
        BY <1>8, <2>2 DEF Kinds
      <3> HIDE DEF now
      <3> QED
        BY <2>1, <2>2, <3>1 DEF AllLoaded
    <2>3. CASE kind = "external"
      <3>1. now["external"] = objects /\ now["builtin"] = loaded["builtin"]
        BY <1>8, <2>3 DEF Kinds
      <3> HIDE DEF now
      <3> QED
        BY <2>1, <2>3, <3>1 DEF AllLoaded
    <2> QED
      BY <1>4, <2>2, <2>3 DEF Kinds
  <1> DEFINE living == alive \cup objects
  <1>10. living \in SUBSET Instances /\ alive \subseteq living /\ now[kind] \subseteq living
    BY <1>4, <1>7, <1>8
  <1>11. /\ Onward(t, kind, now, living) /\ kind = task[t].kind
         /\ ~overlapped => living = now["builtin"] \cup now["external"]
         /\ now[kind] \subseteq Of(kind) \X (1..MaxLoads)
         /\ \A i, j \in now[kind] : i[1] = j[1] => i = j
    BY <1>3, <1>7, <1>8, <1>9 DEF kind
  <1> HIDE DEF living, now
  <1> QED
    BY <1>1, <1>3, <1>4, <1>8, <1>10, <1>11, OnwardKeeps

-----------------------------------------------------------------------------
(* The theorems *)

\* Every step keeps the invariant.
LEMMA StepKeeps ==
  ASSUME ToolAssumption, IInv, [Next]_vars
  PROVE  IInv'
  <1>1. ASSUME NEW t \in Tasks, Reload(t) PROVE IInv'
    <2>1. enabled' = enabled /\ enabled \subseteq Packages
      BY <1>1 DEF Reload, IInv, TypeOK
    <2> QED
      BY <1>1, <2>1, BeginKeeps DEF Reload, streams
  <1>2. ASSUME NEW t \in Tasks, SaveSettings(t) PROVE IInv'
    BY <1>2, BeginKeeps DEF SaveSettings, streams
  <1>3. ASSUME NEW t \in Tasks, Select(t) PROVE IInv'
    BY <1>3, SelectKeepsIt
  <1>4. ASSUME NEW t \in Tasks, LoadEnds(t) PROVE IInv'
    BY <1>4, LoadEndsKeeps
  <1>5. ASSUME NEW t \in Tasks, Send(t) PROVE IInv'
    BY <1>5, SendKeeps
  <1>6. ASSUME NEW t \in Tasks, SendEnds(t) PROVE IInv'
    BY <1>6, SendEndsKeeps
  <1>7. ASSUME NEW c \in Clients, Connect(c) PROVE IInv'
    BY <1>7, ConnectKeeps
  <1>8. ASSUME NEW c \in Clients, Leave(c) PROVE IInv'
    BY <1>8, LeaveKeeps
  <1>9. ASSUME NEW c \in Clients, ListTools(c) PROVE IInv'
    BY <1>9, ListToolsKeeps
  <1>10. CASE UNCHANGED vars
    BY <1>10 DEF vars, tools, streams, IInv, TypeOK, TasksSound, KindsApart, CacheTrue,
       RegistryFollows, LoadedLives, NoneLeft, WillBeTold, Loading, AllLoaded, RegistryNow,
       ListOf, Due, PackagesOf
  <1> QED
    BY <1>1, <1>2, <1>3, <1>4, <1>5, <1>6, <1>7, <1>8, <1>9, <1>10 DEF Next

\* The inductive invariant holds in every state.
THEOREM InvariantHolds == Spec => []IInv
  <1>1. Init => IInv
    BY InitIsSound, ToolAssumption
  <1>2. IInv /\ [Next]_vars => IInv'
    BY StepKeeps, ToolAssumption
  <1> QED
    BY <1>1, <1>2, PTL DEF Spec

\* The packages, the tasks and the list that is kept are sound: a list that is
\* served from the cache is the list that would be made now, whatever settings,
\* reloads and requests came since it was kept (handle_tools_list).
THEOREM ListIsSound == Spec => []ListSound
  <1>1. IInv => ListSound
    BY ListIsTrue DEF IInv, ListSound
  <1> QED
    BY <1>1, InvariantHolds, PTL

\* When no reload runs, every listed tool has one package object behind it and
\* that object lives; and unless two reloads overlapped, no object is left
\* behind (reload_tool_packages).
THEOREM ToolsAreServed == Spec => []ToolsServed
  <1>1. ASSUME IInv, Quiet PROVE
          /\ \A p \in ToolsList : \E i \in registry : i[1] = p /\ i \in alive
          /\ registry = AllLoaded
          /\ ~overlapped => alive = AllLoaded
    <2>1. Loading = {} /\ \A t \in Tasks : task[t].pc # "shut"
      BY <1>1 DEF Quiet, Loading
    <2>2. ready /\ registry = AllLoaded /\ RegistryNow = registry
      BY <1>1, <2>1 DEF IInv, RegistryFollows, RegistryNow
    <2>3. AllLoaded \subseteq alive
      BY <1>1, <2>1 DEF IInv, LoadedLives, AllLoaded, Kinds
    <2>4. ~overlapped => alive = AllLoaded
      BY <1>1, <2>1 DEF IInv, NoneLeft
    <2>5. ASSUME NEW p \in ToolsList PROVE \E i \in registry : i[1] = p /\ i \in alive
      <3>1. p \in PackagesOf(registry)
        BY <1>1, <2>2, <2>5, ListIsTrue DEF ListOf
      <3> QED
        BY <2>2, <2>3, <3>1 DEF PackagesOf
    <2> QED
      BY <2>2, <2>4, <2>5
  <1>2. IInv => ToolsServed
    BY <1>1 DEF ToolsServed
  <1> QED
    BY <1>2, InvariantHolds, PTL

\* When no reload runs, a client of the event stream that has followed every
\* notification knows the tools, unless the stream's clients changed under a
\* broadcast (broadcast_notification).
THEOREM ClientsDoKnow == Spec => []ClientsKnow
  <1>1. ASSUME IInv, Quiet, ~disturbed, NEW c \in ToSet(sse) \ (broken \cup told)
        PROVE  seen[c] = None \/ seen[c] = ToolsList
    <2>1. Loading = {} /\ ~Due(c)
      BY <1>1 DEF Quiet, Loading, Due
    <2>2. seen[c] \in {None, ListOf(RegistryNow)}
      BY <1>1, <2>1 DEF IInv, WillBeTold
    <2> QED
      BY <1>1, <2>2, ListIsTrue
  <1>2. IInv => ClientsKnow
    BY <1>1 DEF ClientsKnow
  <1> QED
    BY <1>2, InvariantHolds, PTL
=============================================================================
