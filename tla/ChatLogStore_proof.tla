------------------------- MODULE ChatLogStore_proof -------------------------
(***************************************************************************)
(* Proofs about what the integration keeps in files of its own.  For the   *)
(* chat logs: the inductive invariant of ChatLogStore holds in every       *)
(* state, whatever the calls, the bounds and the size of a log; with it,   *)
(* that the file is sound, that what a clear removed stays removed, and    *)
(* that what a manager has in memory reaches the file.  For the memories:  *)
(* what the memory tools have told holds on, whatever the settings and the *)
(* texts, unless a restart follows a write that failed.                    *)
(***************************************************************************)
EXTENDS ChatLogStore, MemoryStore, FiniteSetTheorems, TLAPS

-----------------------------------------------------------------------------
(* Lists of logs *)

\* Counting up to each of them numbers the positions of a list in order.
LEMMA PlacesInOrder ==
  ASSUME NEW m \in Nat, NEW kept \in SUBSET (1..m)
  PROVE  /\ Cardinality(kept) \in 0..m
         /\ \A n \in 1..Cardinality(kept) : Place(kept, n) \in kept
         /\ \A n, k \in 1..Cardinality(kept) : n < k => Place(kept, n) < Place(kept, k)
         /\ \A i \in kept : \E n \in 1..Cardinality(kept) : Place(kept, n) = i
  <1> DEFINE Upto(i) == {j \in kept : j <= i}
             size == Cardinality(kept)
             Rank == [i \in kept |-> Cardinality(Upto(i))]
  <1>1. IsFiniteSet(kept) /\ size \in 0..m
    <2>1. IsFiniteSet(1..m) /\ Cardinality(1..m) = m
      BY FS_Interval
    <2>2. IsFiniteSet(kept) /\ Cardinality(kept) <= m
      BY <2>1, FS_Subset
    <2>3. Cardinality(kept) \in Nat
      BY <2>2, FS_CardinalityType
    <2> QED
      BY <2>2, <2>3
  <1>0. \A i \in kept : i \in Int
    OBVIOUS
  <1>2. \A i \in kept : IsFiniteSet(Upto(i)) /\ Cardinality(Upto(i)) \in 1..size
    <2> TAKE i \in kept
    <2>1. Upto(i) \subseteq kept /\ i \in Upto(i)
      OBVIOUS
    <2> HIDE DEF Upto
    <2>2. IsFiniteSet(Upto(i)) /\ Cardinality(Upto(i)) <= size
      BY <2>1, <1>1, FS_Subset
    <2>3. Cardinality(Upto(i)) \in Nat /\ Cardinality(Upto(i)) # 0
      BY <2>1, <2>2, FS_CardinalityType, FS_EmptySet
    <2> QED
      BY <2>2, <2>3, <1>1
  <1>3. \A i, k \in kept : i < k => Rank[i] < Rank[k]
    <2> SUFFICES ASSUME NEW i \in kept, NEW k \in kept, i < k
                 PROVE  Rank[i] < Rank[k]
      OBVIOUS
    <2>0. i \in Int /\ k \in Int
      BY <1>0
    <2>1. Upto(i) \subseteq Upto(k) /\ k \in Upto(k) /\ k \notin Upto(i)
      <3>1. ASSUME NEW j \in Upto(i) PROVE j \in Upto(k)
        <4>1. j \in kept /\ j \in Int /\ j <= i
          BY <1>0
        <4> QED
          BY <4>1, <2>0
      <3>2. k \in Upto(k) /\ ~(k <= i)
        BY <2>0
      <3> QED
        BY <3>1, <3>2
    <2>2. Rank[i] = Cardinality(Upto(i)) /\ Rank[k] = Cardinality(Upto(k))
      OBVIOUS
    <2>3. IsFiniteSet(Upto(k)) /\ Cardinality(Upto(i)) \in Int /\ Cardinality(Upto(k)) \in Int
      BY <1>2
    <2> HIDE DEF Upto, Rank
    <2>4. Cardinality(Upto(i)) <= Cardinality(Upto(k))
      BY <2>1, <2>3, FS_Subset
    <2>5. Cardinality(Upto(i)) # Cardinality(Upto(k))
      BY <2>1, <2>3, FS_Subset
    <2> QED
      BY <2>2, <2>3, <2>4, <2>5
  <1>4. \A i, k \in kept : Rank[i] = Rank[k] => i = k
    <2> SUFFICES ASSUME NEW i \in kept, NEW k \in kept, i # k
                 PROVE  Rank[i] # Rank[k]
      OBVIOUS
    <2>1. Rank[i] \in Int /\ Rank[k] \in Int
      BY <1>2
    <2>2. i < k \/ k < i
      BY <1>0
    <2> HIDE DEF Rank
    <2> QED
      BY <1>3, <2>1, <2>2
  <1>5. \A n \in 1..size : \E i \in kept : Rank[i] = n
    <2>1. Rank \in Injection(kept, 1..size)
      <3>1. Rank \in [kept -> 1..size]
        BY <1>2
      <3> HIDE DEF Rank
      <3> QED
        BY <3>1, <1>4 DEF Injection, IsInjective
    <2>2. IsFiniteSet(1..size) /\ Cardinality(1..size) = size
      BY <1>1, FS_Interval
    <2> HIDE DEF Rank, size
    <2>3. Rank \in Surjection(kept, 1..size)
      BY <2>1, <2>2, FS_Injection DEF size
    <2> QED
      BY <2>3 DEF Surjection
  <1>6. \A n \in 1..size : Place(kept, n) \in kept /\ Rank[Place(kept, n)] = n
    <2> TAKE n \in 1..size
    <2>1. \E i \in kept : Cardinality({j \in kept : j <= i}) = n
      BY <1>5
    <2> QED
      BY <2>1 DEF Place
  <1>7. \A i \in kept : Rank[i] \in 1..size
    BY <1>2
  <1> HIDE DEF Rank, size
  <1>8. \A i \in kept : Place(kept, Rank[i]) = i
    BY <1>4, <1>6, <1>7
  <1>9. ASSUME NEW n \in 1..size, NEW k \in 1..size, n < k
        PROVE  Place(kept, n) < Place(kept, k)
    <2> DEFINE a == Place(kept, n)
               b == Place(kept, k)
    <2>0. n \in Int /\ k \in Int
      BY <1>1
    <2>1. /\ a \in kept /\ b \in kept /\ Rank[a] = n /\ Rank[b] = k
          /\ a \in Int /\ b \in Int
      BY <1>0, <1>6
    <2> HIDE DEF a, b
    <2>2. CASE b < a
      BY <1>3, <1>9, <2>0, <2>1, <2>2
    <2>3. CASE b = a
      BY <1>9, <2>0, <2>1, <2>3
    <2> QED
      BY <2>0, <2>1, <2>2, <2>3 DEF a, b
  <1> QED
    BY <1>1, <1>6, <1>7, <1>8, <1>9 DEF size

\* What is left of a list: elements of it that are not gone, all of those, in
\* their order.
LEMMA WithoutKeeps ==
  ASSUME NEW S, NEW s \in Seq(S), NEW gone
  PROVE  LET w == Without(s, gone)
         IN  /\ w \in Seq(S) /\ Len(w) <= Len(s)
             /\ ToSet(w) = ToSet(s) \ gone
             /\ \A i, j \in 1..Len(w) : i < j =>
                  \E k, l \in 1..Len(s) : k < l /\ w[i] = s[k] /\ w[j] = s[l]
  <1> DEFINE kept == Staying(s, gone)
             w == Without(s, gone)
             At == [n \in 1..Cardinality(kept) |-> Place(kept, n)]
  <1>1. Len(s) \in Nat /\ kept \in SUBSET (1..Len(s)) /\ \A i \in 1..Len(s) : s[i] \in S
    BY DEF Staying
  <1>2. /\ Cardinality(kept) \in 0..Len(s)
        /\ At \in [1..Cardinality(kept) -> kept]
        /\ \A n, k \in 1..Cardinality(kept) : n < k => At[n] < At[k]
        /\ \A i \in kept : \E n \in 1..Cardinality(kept) : At[n] = i
    <2> HIDE DEF kept
    <2> QED
      BY <1>1, PlacesInOrder
  <1>3. w = [n \in 1..Cardinality(kept) |-> s[At[n]]]
    BY DEF Without
  <1> HIDE DEF At, w
  <1>4. w \in Seq(S) /\ Len(w) = Cardinality(kept)
    <2> HIDE DEF kept
    <2>1. \A n \in 1..Cardinality(kept) : s[At[n]] \in S
      BY <1>1, <1>2
    <2> QED
      BY <1>2, <1>3, <2>1
  <1>5. ToSet(w) = ToSet(s) \ gone
    <2>1. ToSet(w) = {w[i] : i \in 1..Len(w)} /\ ToSet(s) = {s[i] : i \in 1..Len(s)}
      BY <1>4 DEF ToSet
    <2>2. \A i \in 1..Len(w) : w[i] \in ToSet(s) \ gone
      BY <1>1, <1>2, <1>3, <1>4, <2>1 DEF Staying
    <2>3. ASSUME NEW x \in ToSet(s) \ gone
          PROVE  \E i \in 1..Len(w) : w[i] = x
      <3>1. PICK k \in 1..Len(s) : s[k] = x
        BY <2>1
      <3>2. k \in kept
        BY <3>1 DEF Staying
      <3>3. PICK n \in 1..Cardinality(kept) : At[n] = k
        BY <1>2, <3>2
      <3> QED
        BY <1>3, <1>4, <3>1, <3>3
    <2> QED
      BY <2>1, <2>2, <2>3
  <1>6. ASSUME NEW i \in 1..Len(w), NEW j \in 1..Len(w), i < j
        PROVE  \E k, l \in 1..Len(s) : k < l /\ w[i] = s[k] /\ w[j] = s[l]
    BY <1>1, <1>2, <1>3, <1>4, <1>6
  <1> QED
    BY <1>1, <1>2, <1>4, <1>5, <1>6 DEF w

LEMMA QuietIsNoList == Quiet \notin Seq(Logs)
  <1>1. Quiet[1] = None /\ Len(Quiet) = 1
    BY DEF Quiet
  <1>2. None \notin Logs
    BY LogAssumption
  <1> QED
    BY <1>1, <1>2

\* A log that is added to a list of earlier ones: the newest fit, and whatever
\* is newer than one that stayed has stayed.
LEMMA NewestKeeps ==
  ASSUME NEW logs \in Seq(Logs), Fits(logs), NEW log \in Logs,
         \A x \in ToSet(logs) : x[1] < log[1]
  PROVE  LET new == Newest(Append(logs, log))
         IN  /\ new \in Seq(Logs) /\ Fits(new) /\ log \in ToSet(new)
             /\ ToSet(new) \subseteq ToSet(logs) \cup {log}
             /\ \A x \in ToSet(logs), y \in ToSet(new) : y[1] < x[1] => x \in ToSet(new)
  <1> DEFINE all == Append(logs, log)
             new == Newest(all)
             L == Len(logs)
  <1>0. /\ Kept \in Nat \ {0} /\ L \in Nat /\ L <= Kept
        /\ \A x \in Logs : x[1] \in Int
    BY LogAssumption DEF Fits, Logs
  <1>1. /\ all \in Seq(Logs) /\ Len(all) = L + 1
        /\ \A i \in 1..L : all[i] = logs[i] /\ logs[i] \in Logs
        /\ all[L + 1] = log
        /\ \A i \in 1..L : logs[i] \in ToSet(logs)
    BY DEF ToSet
  <1>2. \A i, j \in 1..(L + 1) : i < j => all[i][1] < all[j][1]
    BY <1>0, <1>1 DEF Fits, Ascending
  <1>3. \A i \in 1..(L + 1) : all[i] \in Logs
    BY <1>0, <1>1
  <1>4. \E from \in {1, 2} :
          /\ new \in Seq(Logs) /\ Len(new) = L + 2 - from /\ Len(new) <= Kept
          /\ from <= L + 1
          /\ \A i \in 1..Len(new) : new[i] = all[i + from - 1]
    <2>1. CASE L + 1 > Kept
      <3>0. Kept = L /\ (L + 1) - Kept + 1 = 2 /\ Len(all) > Kept /\ Len(all) = L + 1
        <4> HIDE DEF all, L
        <4> QED
          BY <1>0, <1>1, <2>1
      <3>1. new = SubSeq(all, 2, L + 1) /\ Kept = L
        <4>1. new = SubSeq(all, Len(all) - Kept + 1, Len(all))
          BY <3>0 DEF Newest
        <4> HIDE DEF new, all, L
        <4> QED
          BY <3>0, <4>1
      <3>2. /\ new \in Seq(Logs) /\ Len(new) = L
            /\ \A i \in 1..L : new[i] = all[i + 1]
        BY <1>0, <1>1, <1>3, <3>1
      <3> HIDE DEF new, all, L
      <3>3. L + 2 - 2 = L /\ L <= Kept /\ 2 <= L + 1 /\ \A i \in 1..L : i + 2 - 1 = i + 1
        BY <1>0, <3>1
      <3> QED
        BY <3>2, <3>3
    <2>2. CASE ~(L + 1 > Kept)
      <3>1. new = all
        BY <1>1, <2>2 DEF Newest
      <3> HIDE DEF new, all, L
      <3>2. /\ new \in Seq(Logs) /\ Len(new) = L + 2 - 1 /\ Len(new) <= Kept /\ 1 <= L + 1
            /\ \A i \in 1..Len(new) : new[i] = all[i + 1 - 1]
        BY <1>0, <1>1, <2>2, <3>1
      <3> QED
        BY <3>2
    <2> QED
      BY <2>1, <2>2
  <1> HIDE DEF new, all, L
  <1>5. PICK from \in {1, 2} :
          /\ new \in Seq(Logs) /\ Len(new) = L + 2 - from /\ Len(new) <= Kept
          /\ from <= L + 1
          /\ \A i \in 1..Len(new) : new[i] = all[i + from - 1]
    BY <1>4
  <1>6. Fits(new)
    <2> SUFFICES ASSUME NEW i \in 1..Len(new), NEW j \in 1..Len(new), i < j
                 PROVE  new[i][1] < new[j][1]
      BY <1>5 DEF Fits, Ascending
    <2>1. i + from - 1 \in 1..(L + 1) /\ j + from - 1 \in 1..(L + 1) /\ i + from - 1 < j + from - 1
      BY <1>0, <1>5
    <2> QED
      BY <1>2, <1>5, <2>1
  <1>7. ToSet(new) = {new[i] : i \in 1..Len(new)} /\ ToSet(logs) = {logs[i] : i \in 1..L}
    BY DEF ToSet, L
  <1>8. log \in ToSet(new)
    <2>1. Len(new) \in 1..Len(new) /\ Len(new) + from - 1 = L + 1
      BY <1>0, <1>5
    <2> QED
      BY <1>1, <1>5, <1>7, <2>1
  <1>9. \A i \in 1..Len(new) : new[i] \in ToSet(logs) \cup {log}
    <2> TAKE i \in 1..Len(new)
    <2>1. i + from - 1 \in 1..(L + 1)
      BY <1>0, <1>5
    <2>2. CASE i + from - 1 = L + 1
      BY <1>1, <1>5, <2>2
    <2>3. CASE i + from - 1 # L + 1
      <3>1. i + from - 1 \in 1..L
        BY <1>0, <2>1, <2>3
      <3> QED
        BY <1>1, <1>5, <3>1
    <2> QED
      BY <2>2, <2>3
  <1>10. ASSUME NEW x \in ToSet(logs), NEW y \in ToSet(new), y[1] < x[1]
         PROVE  x \in ToSet(new)
    <2>1. PICK k \in 1..L : x = logs[k]
      BY <1>7
    <2>2. PICK i \in 1..Len(new) : y = new[i]
      BY <1>7
    <2>3. i + from - 1 \in 1..(L + 1) /\ k \in 1..(L + 1) /\ y = all[i + from - 1] /\ x = all[k]
      BY <1>0, <1>1, <1>5, <2>1, <2>2
    <2>4. k >= from
      <3>1. CASE k < i + from - 1
        <4>1. x[1] < y[1] /\ x[1] \in Int /\ y[1] \in Int
          BY <1>0, <1>2, <1>3, <2>3, <3>1
        <4> QED
          BY <1>10, <4>1
      <3>2. CASE ~(k < i + from - 1)
        BY <1>0, <2>3, <3>2
      <3> QED
        BY <3>1, <3>2
    <2>5. k + 1 - from \in 1..Len(new) /\ (k + 1 - from) + from - 1 = k
      BY <1>0, <1>5, <2>1, <2>4
    <2>6. new[k + 1 - from] = x
      BY <1>5, <2>3, <2>5
    <2> QED
      BY <1>7, <2>5, <2>6
  <1> QED
    BY <1>5, <1>6, <1>7, <1>8, <1>9, <1>10 DEF new, all

\* A list that is filtered stays in order.
LEMMA WithoutFits ==
  ASSUME NEW logs \in Seq(Logs), Fits(logs), NEW gone
  PROVE  /\ Without(logs, gone) \in Seq(Logs) /\ Fits(Without(logs, gone))
         /\ ToSet(Without(logs, gone)) = ToSet(logs) \ gone
  <1> DEFINE w == Without(logs, gone)
  <1>1. /\ w \in Seq(Logs) /\ Len(w) <= Len(logs)
        /\ ToSet(w) = ToSet(logs) \ gone
        /\ \A i, j \in 1..Len(w) : i < j =>
             \E k, l \in 1..Len(logs) : k < l /\ w[i] = logs[k] /\ w[j] = logs[l]
    BY WithoutKeeps
  <1>2. Kept \in Nat /\ Len(logs) \in Nat /\ Len(w) \in Nat
    BY <1>1, LogAssumption
  <1> HIDE DEF w
  <1>3. Fits(w)
    BY <1>1, <1>2 DEF Fits, Ascending
  <1> QED
    BY <1>1, <1>3 DEF w

-----------------------------------------------------------------------------
(* Locks *)

LEMMA InQueue ==
  ASSUME NEW q \in Seq(Calls), NEW c
  PROVE  c \in ToSet(q) <=> \E i \in 1..Len(q) : q[i] = c
  BY DEF ToSet

\* What a call is: its fields, and none of an idle call's.
LEMMA CallFacts ==
  ASSUME CallsSound, TypeOK
  PROVE  /\ \A c \in Calls : call[c].pc \in {"idle", "load", "wait", "have", "save"}
         /\ \A c \in Calls : call[c].pc # "idle" => call[c].mgr \in Managers /\ call[c].mgr # 0
         /\ \A c \in Calls : call[c].pc = "idle" =>
              /\ call[c] = Idle /\ call[c].mgr = 0 /\ call[c].op = "none"
  <1>1. \A c \in Calls : call[c].pc # "idle" => call[c].mgr \in Managers /\ call[c].mgr # 0
    BY LogAssumption DEF CallsSound, CallSound, TypeOK, Managers
  <1>2. Idle.mgr = 0 /\ Idle.op = "none"
    BY DEF Idle
  <1> QED
    BY <1>1, <1>2 DEF CallsSound, CallSound, TypeOK

\* The first that waits for a lock gets it.
LEMMA UnlockGives ==
  ASSUME TypeOK, NEW m \in Managers, Unlock(m)
  PROVE  /\ holder' \in [Managers -> Calls \cup {None}] /\ queue' \in [Managers -> Seq(Calls)]
         /\ \A n \in Managers \ {m} : holder'[n] = holder[n] /\ queue'[n] = queue[n]
         /\ \/ queue[m] = <<>> /\ holder'[m] = None /\ queue'[m] = <<>>
            \/ /\ Len(queue[m]) >= 1 /\ holder'[m] = queue[m][1] /\ holder'[m] \in Calls
               /\ Len(queue'[m]) = Len(queue[m]) - 1
               /\ \A i \in 1..Len(queue'[m]) : queue'[m][i] = queue[m][i + 1]
         /\ \A n \in Managers : holder'[n] = None => holder[n] = None \/ n = m
  <1>1. /\ holder \in [Managers -> Calls \cup {None}] /\ queue \in [Managers -> Seq(Calls)]
        /\ queue[m] \in Seq(Calls)
    BY DEF TypeOK
  <1>2. CASE queue[m] = <<>>
    BY <1>1, <1>2 DEF Unlock
  <1>3. CASE queue[m] # <<>>
    <2>1. /\ holder' = [holder EXCEPT ![m] = Head(queue[m])]
          /\ queue' = [queue EXCEPT ![m] = Tail(queue[m])]
      BY <1>3 DEF Unlock
    <2>2. /\ Len(queue[m]) \in Nat /\ Len(queue[m]) >= 1
          /\ Head(queue[m]) = queue[m][1] /\ Head(queue[m]) \in Calls
          /\ Tail(queue[m]) \in Seq(Calls) /\ Len(Tail(queue[m])) = Len(queue[m]) - 1
          /\ \A i \in 1..Len(Tail(queue[m])) : Tail(queue[m])[i] = queue[m][i + 1]
      BY <1>1, <1>3
    <2>3. Head(queue[m]) # None
      BY <2>2, LogAssumption
    <2>4. /\ holder'[m] = Head(queue[m]) /\ queue'[m] = Tail(queue[m])
          /\ \A n \in Managers \ {m} : holder'[n] = holder[n] /\ queue'[n] = queue[n]
          /\ holder' \in [Managers -> Calls \cup {None}] /\ queue' \in [Managers -> Seq(Calls)]
      BY <1>1, <2>1, <2>2
    <2> QED
      BY <2>2, <2>3, <2>4
  <1> QED
    BY <1>2, <1>3

\* The calls and locks when a call that has a lock gives it back and ends.
LEMMA ReleaseKeeps ==
  ASSUME TypeOK, CallsSound, LocksSound,
         NEW c \in Calls, call[c].pc \in {"wait", "have", "save"},
         holder[call[c].mgr] = c, Unlock(call[c].mgr), call' = [call EXCEPT ![c] = Idle]
  PROVE  /\ LocksSound'
         /\ holder' \in [Managers -> Calls \cup {None}] /\ queue' \in [Managers -> Seq(Calls)]
         /\ \A n \in Managers : holder'[n] = None => queue'[n] = <<>>
         /\ \A n \in Managers : holder[n] = None => holder'[n] = None
         /\ \A n \in Managers : queue[n] = <<>> => queue'[n] = <<>>
  <1> DEFINE m == call[c].mgr
             q == queue[m]
  <1>1. m \in Managers
    BY CallFacts
  <1>2. /\ holder' \in [Managers -> Calls \cup {None}] /\ queue' \in [Managers -> Seq(Calls)]
        /\ \A n \in Managers \ {m} : holder'[n] = holder[n] /\ queue'[n] = queue[n]
        /\ \/ queue[m] = <<>> /\ holder'[m] = None /\ queue'[m] = <<>>
           \/ /\ Len(queue[m]) >= 1 /\ holder'[m] = queue[m][1] /\ holder'[m] \in Calls
              /\ Len(queue'[m]) = Len(queue[m]) - 1
              /\ \A i \in 1..Len(queue'[m]) : queue'[m][i] = queue[m][i + 1]
    BY <1>1, UnlockGives
  <1>3. /\ call'[c] = Idle /\ \A d \in Calls \ {c} : call'[d] = call[d]
        /\ Idle.pc = "idle" /\ Idle.mgr = 0
    BY DEF CallsSound, Idle
  <1>4. /\ q \in Seq(Calls) /\ Len(q) \in Nat
        /\ holder[m] = c /\ c # None
        /\ \A n \in Managers : queue[n] \in Seq(Calls) /\ holder[n] \in Calls \cup {None}
        /\ \A n \in Managers : holder[n] = None => queue[n] = <<>>
    BY <1>1, LogAssumption DEF TypeOK
  <1>5. \A n \in Managers : \A i \in 1..Len(queue[n]) :
          /\ call[queue[n][i]].pc = "wait" /\ call[queue[n][i]].mgr = n
          /\ queue[n][i] # holder[n] /\ queue[n][i] # c
          /\ \A j \in 1..Len(queue[n]) : queue[n][i] = queue[n][j] => i = j
    BY <1>4 DEF LocksSound
  <1>6. \A d \in Calls : call[d].pc # "idle" => call[d].mgr \in Managers
    BY CallFacts
  <1> HIDE DEF m, q
  <1>7. \A d \in Calls : call'[d].pc \in {"load", "save"} => holder'[call'[d].mgr] = d
    <2> SUFFICES ASSUME NEW d \in Calls, call'[d].pc \in {"load", "save"}
                 PROVE  holder'[call'[d].mgr] = d
      OBVIOUS
    <2>1. d # c /\ call'[d] = call[d] /\ holder[call[d].mgr] = d /\ call[d].mgr \in Managers
      BY <1>3, <1>6 DEF LocksSound
    <2>2. call[d].mgr # m
      BY <1>4, <2>1
    <2> QED
      BY <1>2, <2>1, <2>2
  <1>8. \A d \in Calls : call'[d].pc \in {"wait", "have"} =>
          holder'[call'[d].mgr] = d \/ d \in ToSet(queue'[call'[d].mgr])
    <2> SUFFICES ASSUME NEW d \in Calls, call'[d].pc \in {"wait", "have"}
                 PROVE  holder'[call'[d].mgr] = d \/ d \in ToSet(queue'[call'[d].mgr])
      OBVIOUS
    <2>1. /\ d # c /\ call'[d] = call[d] /\ call[d].mgr \in Managers
          /\ holder[call[d].mgr] = d \/ d \in ToSet(queue[call[d].mgr])
      BY <1>3, <1>6 DEF LocksSound
    <2>2. CASE call[d].mgr # m
      BY <1>2, <2>1, <2>2
    <2>3. CASE call[d].mgr = m
      <3>1. PICK i \in 1..Len(q) : q[i] = d
        BY <1>4, <2>1, <2>3, InQueue DEF q
      <3>2. Len(q) >= 1 /\ queue[m] # <<>>
        BY <1>4, <3>1 DEF q
      <3>3. CASE i = 1
        BY <1>2, <2>1, <2>3, <3>1, <3>2, <3>3 DEF q
      <3>4. CASE i # 1
        <4>1. i - 1 \in 1..Len(queue'[m]) /\ (i - 1) + 1 = i
          BY <1>2, <1>4, <3>1, <3>2, <3>4 DEF q
        <4>2. queue'[m][i - 1] = d /\ queue'[m] \in Seq(Calls)
          BY <1>1, <1>2, <3>1, <3>2, <4>1 DEF m, q
        <4> QED
          BY <2>1, <2>3, <4>1, <4>2, InQueue
      <3> QED
        BY <3>3, <3>4
    <2> QED
      BY <2>2, <2>3
  <1>9. \A n \in Managers : holder'[n] # None => call'[holder'[n]].mgr = n
    <2> SUFFICES ASSUME NEW n \in Managers, holder'[n] # None
                 PROVE  call'[holder'[n]].mgr = n
      OBVIOUS
    <2>1. CASE n # m
      <3>1. holder'[n] = holder[n] /\ holder[n] \in Calls /\ call[holder[n]].mgr = n
        BY <1>2, <1>4, <2>1 DEF LocksSound
      <3> QED
        BY <1>3, <2>1, <3>1 DEF m
    <2>2. CASE n = m
      <3>1. Len(q) >= 1 /\ holder'[m] = q[1] /\ holder'[m] \in Calls
        BY <1>2, <2>2 DEF q
      <3>2. q[1] # c /\ call[q[1]].mgr = m
        BY <1>1, <1>4, <1>5, <3>1 DEF m, q
      <3> QED
        BY <1>3, <2>2, <3>1, <3>2
    <2> QED
      BY <2>1, <2>2
  <1>10. \A n \in Managers : \A i \in 1..Len(queue'[n]) :
           /\ call'[queue'[n][i]].pc = "wait" /\ call'[queue'[n][i]].mgr = n
           /\ queue'[n][i] # holder'[n]
           /\ \A j \in 1..Len(queue'[n]) : queue'[n][i] = queue'[n][j] => i = j
    <2> SUFFICES ASSUME NEW n \in Managers, NEW i \in 1..Len(queue'[n])
                 PROVE  /\ call'[queue'[n][i]].pc = "wait" /\ call'[queue'[n][i]].mgr = n
                        /\ queue'[n][i] # holder'[n]
                        /\ \A j \in 1..Len(queue'[n]) : queue'[n][i] = queue'[n][j] => i = j
      OBVIOUS
    <2>1. CASE n # m
      <3>1. queue'[n] = queue[n] /\ holder'[n] = holder[n]
        BY <1>2, <2>1
      <3>2. queue[n][i] \in Calls
        BY <1>4, <3>1
      <3> QED
        BY <1>3, <1>5, <3>1, <3>2
    <2>2. CASE n = m
      <3>1. /\ Len(q) >= 1 /\ holder'[m] = q[1] /\ Len(queue'[m]) = Len(q) - 1
            /\ \A j \in 1..Len(queue'[m]) : queue'[m][j] = q[j + 1]
        BY <1>2, <2>2 DEF q
      <3>2. i + 1 \in 1..Len(q) /\ 1 \in 1..Len(q) /\ q[i + 1] \in Calls /\ i \in Int
        BY <1>4, <2>2, <3>1
      <3>3. /\ queue'[n][i] = q[i + 1] /\ call[q[i + 1]].pc = "wait" /\ call[q[i + 1]].mgr = m
            /\ q[i + 1] # c /\ q[i + 1] # q[1]
        BY <1>1, <1>5, <2>2, <3>1, <3>2 DEF m, q
      <3>4. ASSUME NEW j \in 1..Len(queue'[n]), queue'[n][i] = queue'[n][j]
            PROVE  i = j
        <4>1. j \in 1..(Len(q) - 1) /\ queue'[m][j] = q[j + 1]
          BY <2>2, <3>1
        <4>2. Len(q) \in Nat
          BY <1>4
        <4>3. j + 1 \in 1..Len(q) /\ j \in Int
          BY <4>1, <4>2
        <4>4. j + 1 \in 1..Len(q) /\ q[i + 1] = q[j + 1] /\ j \in Int
          BY <2>2, <3>3, <3>4, <4>1, <4>3
        <4>5. i + 1 = j + 1 /\ i \in Int /\ j \in Int
          BY <1>1, <1>5, <3>2, <4>4 DEF m, q
        <4> QED
          BY <4>5
      <3> QED
        BY <1>3, <2>2, <3>1, <3>2, <3>3, <3>4
    <2> QED
      BY <2>1, <2>2
  <1>11. \A n \in Managers : queue[n] = <<>> => queue'[n] = <<>>
    <2>1. queue[m] = <<>> => Len(queue[m]) = 0
      OBVIOUS
    <2> QED
      BY <1>2, <2>1
  <1>12. \A n \in Managers : holder'[n] = None => queue'[n] = <<>>
    <2>1. None \notin Calls
      BY LogAssumption
    <2> QED
      BY <1>2, <1>4, <2>1
  <1>13. \A n \in Managers : holder[n] = None => holder'[n] = None
    BY <1>2, <1>4
  <1> QED
    BY <1>2, <1>7, <1>8, <1>9, <1>10, <1>11, <1>12, <1>13 DEF LocksSound

\* The records that wait stay in order.
LEMMA ReleaseKeepsOrder ==
  ASSUME TypeOK, CallsSound, LocksSound, Ordered,
         NEW c \in Calls, call[c].pc \in {"wait", "have", "save"},
         holder[call[c].mgr] = c, Unlock(call[c].mgr), call' = [call EXCEPT ![c] = Idle]
  PROVE  Ordered'
  <1> DEFINE m == call[c].mgr
             q == queue[m]
  <1>1. m \in Managers
    BY CallFacts
  <1>2. /\ queue' \in [Managers -> Seq(Calls)]
        /\ \A n \in Managers \ {m} : holder'[n] = holder[n] /\ queue'[n] = queue[n]
        /\ \/ queue[m] = <<>> /\ holder'[m] = None /\ queue'[m] = <<>>
           \/ /\ Len(queue[m]) >= 1 /\ holder'[m] = queue[m][1] /\ holder'[m] \in Calls
              /\ Len(queue'[m]) = Len(queue[m]) - 1
              /\ \A i \in 1..Len(queue'[m]) : queue'[m][i] = queue[m][i + 1]
    BY <1>1, UnlockGives
  <1>3. /\ call'[c] = Idle /\ \A d \in Calls \ {c} : call'[d] = call[d]
        /\ Idle.op = "none"
    BY DEF CallsSound, Idle
  <1>4. /\ q \in Seq(Calls) /\ Len(q) \in Nat /\ holder[m] = c
        /\ \A n \in Managers : queue[n] \in Seq(Calls)
        /\ None \notin Calls
    BY <1>1, LogAssumption DEF TypeOK
  <1>5. \A d \in Calls : Records(d)' => d # c /\ Records(d) /\ call'[d] = call[d]
    BY <1>3 DEF Records
  <1>6. \A d \in Calls : Records(d) =>
          /\ call[d].mgr \in Managers /\ call[d].pc = "wait"
          /\ holder[call[d].mgr] = d \/ d \in ToSet(queue[call[d].mgr])
    BY CallFacts DEF Records, CallsSound, CallSound, LocksSound
  <1> HIDE DEF m, q
  <1>7. ASSUME NEW a \in Calls, NEW b \in Calls, a # b, Records(a)', Records(b)',
               call'[a].mgr = call'[b].mgr, holder'[call'[a].mgr] = a
        PROVE  call'[a].arg[1] < call'[b].arg[1]
    <2>1. /\ call'[a] = call[a] /\ call'[b] = call[b] /\ Records(a) /\ Records(b)
          /\ a # c /\ b # c /\ call[a].mgr \in Managers
      BY <1>5, <1>6, <1>7
    <2>2. CASE call[a].mgr # m
      BY <1>2, <1>7, <2>1, <2>2 DEF Ordered
    <2>3. CASE call[a].mgr = m
      <3>1. Len(q) >= 1 /\ a = q[1]
        BY <1>2, <1>4, <1>7, <2>1, <2>3 DEF q
      <3>2. PICK k \in 1..Len(q) : q[k] = b
        BY <1>4, <1>6, <1>7, <2>1, <2>3, InQueue DEF q
      <3>3. k # 1 /\ 1 < k /\ 1 \in 1..Len(q)
        BY <1>4, <1>7, <3>1, <3>2
      <3> QED
        BY <1>1, <2>1, <3>1, <3>2, <3>3 DEF Ordered, m, q
    <2> QED
      BY <2>2, <2>3
  <1>8. ASSUME NEW n \in Managers, NEW i \in 1..Len(queue'[n]), NEW j \in 1..Len(queue'[n]),
               i < j, call'[queue'[n][i]].op = "record", call'[queue'[n][j]].op = "record"
        PROVE  call'[queue'[n][i]].arg[1] < call'[queue'[n][j]].arg[1]
    <2>0. queue'[n][i] \in Calls /\ queue'[n][j] \in Calls
      BY <1>2
    <2>1. /\ call'[queue'[n][i]] = call[queue'[n][i]] /\ call'[queue'[n][j]] = call[queue'[n][j]]
          /\ Records(queue'[n][i]) /\ Records(queue'[n][j])
      BY <1>3, <1>8, <2>0 DEF Records
    <2>2. CASE n # m
      BY <1>2, <1>8, <2>1, <2>2 DEF Ordered
    <2>3. CASE n = m
      <3>1. Len(queue'[m]) = Len(q) - 1 /\ queue'[n][i] = q[i + 1] /\ queue'[n][j] = q[j + 1]
        BY <1>2, <1>8, <2>3 DEF q
      <3>2. i + 1 \in 1..Len(q) /\ j + 1 \in 1..Len(q) /\ i + 1 < j + 1
        BY <1>4, <1>8, <2>3, <3>1
      <3> QED
        BY <1>1, <2>1, <3>1, <3>2 DEF Ordered, m, q
    <2> QED
      BY <2>2, <2>3
  <1> QED
    BY <1>7, <1>8 DEF Ordered, Records

\* The calls and locks when a call takes a lock or stands in its queue.
LEMMA LockTaken ==
  ASSUME TypeOK, CallsSound, LocksSound,
         NEW c \in Calls, NEW m \in Managers, NEW op, NEW arg,
         call[c] = Idle, m # 0, Lock(c, m, op, arg)
  PROVE  /\ LocksSound'
         /\ call' = [call EXCEPT ![c] = call'[c]]
         /\ call'[c] = [pc |-> IF holder[m] = None THEN "have" ELSE "wait",
                        mgr |-> m, op |-> op, arg |-> arg, data |-> <<>>]
         /\ \A d \in Calls \ {c} : call'[d] = call[d]
         /\ holder' \in [Managers -> Calls \cup {None}] /\ queue' \in [Managers -> Seq(Calls)]
         /\ \A n \in Managers : holder'[n] = None => queue'[n] = <<>>
         /\ \A n \in Managers \ {m} : holder'[n] = holder[n] /\ queue'[n] = queue[n]
         /\ \/ holder[m] = None /\ holder'[m] = c /\ queue' = queue
            \/ /\ holder[m] # None /\ holder'[m] = holder[m]
               /\ queue'[m] = Append(queue[m], c)
  <1>1. /\ holder \in [Managers -> Calls \cup {None}] /\ queue \in [Managers -> Seq(Calls)]
        /\ queue[m] \in Seq(Calls) /\ Len(queue[m]) \in Nat
        /\ \A n \in Managers : holder[n] = None => queue[n] = <<>>
    BY DEF TypeOK
  <1>2. /\ call' = [call EXCEPT ![c] = call'[c]]
        /\ call'[c] = [pc |-> IF holder[m] = None THEN "have" ELSE "wait",
                       mgr |-> m, op |-> op, arg |-> arg, data |-> <<>>]
        /\ \A d \in Calls \ {c} : call'[d] = call[d]
    BY DEF Lock, CallsSound, Idle
  <1>3. /\ \/ /\ holder[m] = None /\ holder'[m] = c /\ queue' = queue
              /\ call'[c].pc = "have"
           \/ /\ holder[m] # None /\ holder'[m] = holder[m]
              /\ queue'[m] = Append(queue[m], c) /\ call'[c].pc = "wait"
        /\ \A n \in Managers \ {m} : holder'[n] = holder[n] /\ queue'[n] = queue[n]
        /\ holder' \in [Managers -> Calls \cup {None}] /\ queue' \in [Managers -> Seq(Calls)]
    <2>1. Append(queue[m], c) \in Seq(Calls)
      BY <1>1
    <2>2. CASE holder[m] = None
      <3>1. holder' = [holder EXCEPT ![m] = c] /\ queue' = queue
        BY <2>2 DEF Lock
      <3> QED
        BY <1>1, <1>2, <2>2, <3>1
    <2>3. CASE holder[m] # None
      <3>1. holder' = holder /\ queue' = [queue EXCEPT ![m] = Append(queue[m], c)]
        BY <2>3 DEF Lock
      <3> QED
        BY <1>1, <1>2, <2>1, <2>3, <3>1
    <2> QED
      BY <2>2, <2>3
  <1>4. call'[c].mgr = m /\ c # None /\ call[c].pc = "idle" /\ call[c].mgr = 0
    BY <1>2, LogAssumption DEF Idle
  <1>5. \A n \in Managers : \A i \in 1..Len(queue[n]) :
          /\ queue[n][i] \in Calls
          /\ call[queue[n][i]].pc = "wait" /\ call[queue[n][i]].mgr = n
          /\ queue[n][i] # holder[n] /\ queue[n][i] # c
          /\ \A j \in 1..Len(queue[n]) : queue[n][i] = queue[n][j] => i = j
    BY <1>1, <1>4 DEF LocksSound
  <1>6. \A n \in Managers : n # 0 /\ holder[n] # c
    BY <1>1, <1>4, LogAssumption DEF LocksSound, Managers
  <1>7. \A d \in Calls : call[d].pc # "idle" => call[d].mgr \in Managers
    BY CallFacts
  <1>8. \A n \in Managers : ToSet(queue[n]) \subseteq ToSet(queue'[n])
    <2> TAKE n \in Managers
    <2>1. CASE queue'[n] = queue[n]
      BY <2>1
    <2>2. CASE n = m /\ queue'[m] = Append(queue[m], c)
      <3>1. \A i \in 1..Len(queue[m]) : i \in 1..Len(queue'[m]) /\ queue'[m][i] = queue[m][i]
        BY <1>1, <2>2
      <3> QED
        <4>1. queue[n] \in Seq(Calls) /\ queue'[n] \in Seq(Calls)
          BY <1>1, <1>3
        <4> SUFFICES ASSUME NEW x \in ToSet(queue[n]) PROVE x \in ToSet(queue'[n])
          OBVIOUS
        <4>2. PICK i \in 1..Len(queue[n]) : queue[n][i] = x
          BY <4>1, InQueue
        <4>3. i \in 1..Len(queue'[n]) /\ queue'[n][i] = x
          BY <2>2, <3>1, <4>2
        <4> QED
          BY <4>1, <4>3, InQueue
    <2> QED
      BY <1>3, <2>1, <2>2
  <1>9. \A d \in Calls : call'[d].pc \in {"load", "save"} => holder'[call'[d].mgr] = d
    <2> SUFFICES ASSUME NEW d \in Calls, call'[d].pc \in {"load", "save"}
                 PROVE  holder'[call'[d].mgr] = d
      OBVIOUS
    <2>1. d # c
      BY <1>3
    <2>2. call'[d] = call[d] /\ holder[call[d].mgr] = d /\ call[d].mgr \in Managers
      BY <1>2, <1>7, <2>1 DEF LocksSound
    <2> QED
      BY <1>3, <2>2, LogAssumption
  <1>10. \A d \in Calls : call'[d].pc \in {"wait", "have"} =>
           holder'[call'[d].mgr] = d \/ d \in ToSet(queue'[call'[d].mgr])
    <2> SUFFICES ASSUME NEW d \in Calls, call'[d].pc \in {"wait", "have"}
                 PROVE  holder'[call'[d].mgr] = d \/ d \in ToSet(queue'[call'[d].mgr])
      OBVIOUS
    <2>1. CASE d = c
      <3>1. CASE holder'[m] = c
        BY <1>4, <2>1, <3>1
      <3>2. CASE queue'[m] = Append(queue[m], c)
        <4>1. queue'[m] \in Seq(Calls) /\ queue'[m][Len(queue'[m])] = c /\ Len(queue'[m]) \in 1..Len(queue'[m])
          BY <1>1, <3>2
        <4> QED
          BY <1>4, <2>1, <4>1, InQueue
      <3> QED
        BY <1>3, <3>1, <3>2
    <2>2. CASE d # c
      <3>1. /\ call'[d] = call[d] /\ call[d].mgr \in Managers
            /\ holder[call[d].mgr] = d \/ d \in ToSet(queue[call[d].mgr])
        BY <1>2, <1>7, <2>2 DEF LocksSound
      <3>2. holder[call[d].mgr] = d => holder'[call[d].mgr] = d
        BY <1>3, <3>1, LogAssumption
      <3> QED
        BY <1>8, <3>1, <3>2
    <2> QED
      BY <2>1, <2>2
  <1>11. \A n \in Managers : holder'[n] # None => call'[holder'[n]].mgr = n
    <2> SUFFICES ASSUME NEW n \in Managers, holder'[n] # None
                 PROVE  call'[holder'[n]].mgr = n
      OBVIOUS
    <2>1. CASE n = m /\ holder'[n] = c
      BY <1>4, <2>1
    <2>2. CASE holder'[n] = holder[n]
      <3>1. holder[n] \in Calls /\ holder[n] # c /\ call[holder[n]].mgr = n
        BY <1>1, <1>6, <2>2 DEF LocksSound
      <3> QED
        BY <1>2, <2>2, <3>1
    <2> QED
      BY <1>3, <2>1, <2>2
  <1>12. \A n \in Managers : \A i \in 1..Len(queue'[n]) :
           /\ call'[queue'[n][i]].pc = "wait" /\ call'[queue'[n][i]].mgr = n
           /\ queue'[n][i] # holder'[n]
           /\ \A j \in 1..Len(queue'[n]) : queue'[n][i] = queue'[n][j] => i = j
    <2> SUFFICES ASSUME NEW n \in Managers
                 PROVE  \A i \in 1..Len(queue'[n]) :
                          /\ call'[queue'[n][i]].pc = "wait" /\ call'[queue'[n][i]].mgr = n
                          /\ queue'[n][i] # holder'[n]
                          /\ \A j \in 1..Len(queue'[n]) : queue'[n][i] = queue'[n][j] => i = j
      OBVIOUS
    <2>1. CASE n # m
      <3>1. queue'[n] = queue[n] /\ holder'[n] = holder[n]
        BY <1>3, <2>1
      <3> QED
        BY <1>2, <1>5, <3>1
    <2>2. CASE n = m /\ holder[m] = None
      <3>1. queue'[n] = <<>>
        BY <1>1, <1>3, <2>2, <1>4
      <3> QED
        BY <3>1
    <2>3. CASE n = m /\ holder[m] # None
      <3> DEFINE q == queue[m]
                 L == Len(queue[m])
      <3>1. /\ queue'[n] = Append(q, c) /\ holder'[n] = holder[m] /\ call'[c].pc = "wait"
            /\ L \in Nat /\ q \in Seq(Calls)
        BY <1>1, <1>3, <2>3
      <3>2. /\ Len(queue'[n]) = L + 1 /\ queue'[n][L + 1] = c
            /\ \A i \in 1..L : queue'[n][i] = q[i] /\ q[i] # c /\ q[i] \in Calls
        BY <1>5, <3>1
      <3>3. /\ \A i \in 1..L : call[q[i]].pc = "wait" /\ call[q[i]].mgr = m /\ q[i] # holder[m]
            /\ \A i, j \in 1..L : q[i] = q[j] => i = j
        BY <1>5
      <3> HIDE DEF q, L
      <3>4. \A i \in 1..(L + 1) : i \in 1..L \/ i = L + 1
        BY <3>1
      <3>5. ASSUME NEW i \in 1..(L + 1)
            PROVE  /\ call'[queue'[n][i]].pc = "wait" /\ call'[queue'[n][i]].mgr = n
                   /\ queue'[n][i] # holder'[n]
        <4>1. CASE i \in 1..L
          BY <1>2, <2>3, <3>1, <3>2, <3>3, <4>1
        <4>2. CASE i = L + 1
          BY <1>4, <1>6, <2>3, <3>1, <3>2, <4>2
        <4> QED
          BY <3>4, <4>1, <4>2
      <3>6. ASSUME NEW i \in 1..(L + 1), NEW j \in 1..(L + 1), queue'[n][i] = queue'[n][j]
            PROVE  i = j
        BY <3>2, <3>3, <3>4, <3>6
      <3> QED
        BY <3>2, <3>5, <3>6
    <2> QED
      BY <2>1, <2>2, <2>3
  <1>13. \A n \in Managers : holder'[n] = None => queue'[n] = <<>>
    BY <1>1, <1>3, <1>4
  <1> QED
    BY <1>2, <1>3, <1>9, <1>10, <1>11, <1>12, <1>13 DEF LocksSound

LEMMA LockKeepsOrder ==
  ASSUME TypeOK, CallsSound, LocksSound, Ordered,
         NEW c \in Calls, NEW m \in Managers, NEW op, NEW arg,
         call[c] = Idle, m # 0, Lock(c, m, op, arg),
         op = "record" =>
           holder[m] # None /\ \A d \in Calls : Records(d) => call[d].arg[1] < arg[1]
  PROVE  Ordered'
  <1>1. /\ \A d \in Calls \ {c} : call'[d] = call[d]
        /\ call'[c].op = op /\ call'[c].mgr = m /\ call'[c].arg = arg
        /\ \A n \in Managers \ {m} : holder'[n] = holder[n] /\ queue'[n] = queue[n]
        /\ \/ holder[m] = None /\ holder'[m] = c /\ queue' = queue
           \/ /\ holder[m] # None /\ holder'[m] = holder[m]
              /\ queue'[m] = Append(queue[m], c)
    <2>1. /\ call'[c] = [pc |-> IF holder[m] = None THEN "have" ELSE "wait",
                         mgr |-> m, op |-> op, arg |-> arg, data |-> <<>>]
          /\ \A d \in Calls \ {c} : call'[d] = call[d]
          /\ \A n \in Managers \ {m} : holder'[n] = holder[n] /\ queue'[n] = queue[n]
          /\ \/ holder[m] = None /\ holder'[m] = c /\ queue' = queue
             \/ /\ holder[m] # None /\ holder'[m] = holder[m]
                /\ queue'[m] = Append(queue[m], c)
      BY LockTaken
    <2> QED
      BY <2>1
  <1>2. /\ \A n \in Managers : queue[n] \in Seq(Calls) /\ Len(queue[n]) \in Nat
        /\ \A n \in Managers : holder[n] = None => queue[n] = <<>>
        /\ c # None /\ call[c].mgr = 0 /\ call[c].pc = "idle"
        /\ \A n \in Managers : n # 0
    <2>1. c # None
      BY LogAssumption
    <2>2. \A n \in Managers : n # 0
      BY LogAssumption DEF Managers
    <2>3. call[c].mgr = 0 /\ call[c].pc = "idle"
      BY DEF Idle
    <2> QED
      BY <2>1, <2>2, <2>3 DEF TypeOK
  <1>3. \A n \in Managers : holder[n] # c
    <2>1. \A n \in Managers : holder[n] # None => call[holder[n]].mgr = n
      BY DEF LocksSound
    <2> QED
      BY <1>2, <2>1
  <1>4. \A n \in Managers : \A i \in 1..Len(queue[n]) : queue[n][i] \in Calls \ {c}
    BY <1>2 DEF LocksSound
  <1>5. \A d \in Calls : Records(d) =>
          /\ d # c /\ call[d].mgr \in Managers
          /\ holder[call[d].mgr] = d \/ d \in ToSet(queue[call[d].mgr])
    BY <1>2, CallFacts DEF Records, CallsSound, CallSound, LocksSound
  <1>6. ASSUME NEW a \in Calls, NEW b \in Calls, a # b, Records(a)', Records(b)',
               call'[a].mgr = call'[b].mgr, holder'[call'[a].mgr] = a
        PROVE  call'[a].arg[1] < call'[b].arg[1]
    <2>1. CASE b = c
      <3>1. call'[a] = call[a] /\ Records(a) /\ op = "record" /\ call'[b].arg = arg
        BY <1>1, <1>6, <2>1 DEF Records
      <3> QED
        BY <3>1
    <2>2. CASE a = c
      <3>1. op = "record" /\ holder'[m] = c
        BY <1>1, <1>6, <2>2 DEF Records
      <3> QED
        BY <1>1, <1>3, <3>1
    <2>3. CASE a # c /\ b # c
      <3>1. /\ call'[a] = call[a] /\ call'[b] = call[b] /\ Records(a) /\ Records(b)
            /\ call[a].mgr \in Managers
        BY <1>1, <1>5, <1>6, <2>3 DEF Records
      <3>2. holder[call[a].mgr] = a
        BY <1>1, <1>6, <2>3, <3>1
      <3> QED
        BY <1>6, <3>1, <3>2 DEF Ordered
    <2> QED
      BY <2>1, <2>2, <2>3
  <1>7. ASSUME NEW n \in Managers, NEW i \in 1..Len(queue'[n]), NEW j \in 1..Len(queue'[n]),
               i < j, call'[queue'[n][i]].op = "record", call'[queue'[n][j]].op = "record"
        PROVE  call'[queue'[n][i]].arg[1] < call'[queue'[n][j]].arg[1]
    <2>1. CASE queue'[n] = queue[n]
      <3>1. queue[n][i] \in Calls \ {c} /\ queue[n][j] \in Calls \ {c}
        BY <1>4, <2>1
      <3> QED
        BY <1>1, <1>7, <2>1, <3>1 DEF Ordered, Records
    <2>2. CASE n = m /\ queue'[n] = Append(queue[m], c)
      <3> DEFINE q == queue[m]
                 L == Len(queue[m])
      <3>1. /\ L \in Nat /\ q \in Seq(Calls) /\ Len(queue'[n]) = L + 1 /\ queue'[n][L + 1] = c
            /\ \A k \in 1..L : queue'[n][k] = q[k] /\ q[k] \in Calls \ {c}
        BY <1>2, <1>4, <2>2
      <3> HIDE DEF q, L
      <3>2. i \in 1..L
        BY <1>7, <3>1
      <3>3. Records(q[i]) /\ call'[q[i]] = call[q[i]] /\ queue'[n][i] = q[i]
        BY <1>1, <1>7, <3>1, <3>2 DEF Records
      <3>4. CASE j = L + 1
        <4>1. op = "record" /\ call'[queue'[n][j]].arg = arg
          BY <1>1, <1>7, <3>1, <3>4
        <4> QED
          BY <3>1, <3>2, <3>3, <4>1
      <3>5. CASE j # L + 1
        <4>1. j \in 1..L
          BY <1>7, <3>1, <3>5
        <4>2. Records(q[j]) /\ call'[q[j]] = call[q[j]] /\ queue'[n][j] = q[j]
          BY <1>1, <1>7, <3>1, <4>1 DEF Records
        <4> QED
          BY <1>7, <3>2, <3>3, <4>1, <4>2 DEF Ordered, q, L
      <3> QED
        BY <3>4, <3>5
    <2> QED
      BY <1>1, <2>1, <2>2
  <1> QED
    BY <1>6, <1>7 DEF Ordered, Records

-----------------------------------------------------------------------------
(* The inductive invariant *)

LEMMA Basics ==
  ASSUME IInv
  PROVE  /\ made \in Nat /\ made <= MaxManagers /\ recorded \in Nat /\ current \in Nat
         /\ current <= made /\ MaxManagers \in Nat /\ MaxLogs \in Nat
         /\ \A m \in Managers : m \in Nat /\ m # 0
         /\ current # 0 => current \in Managers
         /\ \A x \in Logs : x[1] \in Nat
         /\ disk \in Seq(Logs) /\ ToSet(disk) \subseteq Logs /\ cleared \subseteq Logs
         /\ \A m \in Managers : entries[m] \in Seq(Logs) /\ ToSet(entries[m]) \subseteq Logs
         /\ \A m \in Managers : writing[m] # Quiet =>
              writing[m] \in Seq(Logs) /\ ToSet(writing[m]) \subseteq Logs
         /\ \A c \in Calls : call[c].data \in Seq(Logs)
         /\ \A q \in Seq(Logs) : ToSet(q) \subseteq Logs
  <1>1. \A q \in Seq(Logs) : ToSet(q) \subseteq Logs
    BY DEF ToSet
  <1>2. \A x \in Logs : x[1] \in Nat
    BY LogAssumption DEF Logs
  <1>3. /\ made \in Nat /\ made <= MaxManagers /\ recorded \in Nat /\ current \in Nat
        /\ current <= made /\ MaxManagers \in Nat /\ MaxLogs \in Nat
        /\ \A m \in Managers : m \in Nat /\ m # 0
        /\ current # 0 => current \in Managers
    BY LogAssumption DEF IInv, TypeOK, ManagersSound, Managers
  <1>4. /\ disk \in Seq(Logs) /\ cleared \subseteq Logs
        /\ \A m \in Managers : entries[m] \in Seq(Logs)
        /\ \A m \in Managers : writing[m] # Quiet => writing[m] \in Seq(Logs)
    BY DEF IInv, TypeOK
  <1>5. \A c \in Calls : call[c].data \in Seq(Logs)
    BY DEF IInv, CallsSound, CallSound
  <1> QED
    BY <1>1, <1>2, <1>3, <1>4, <1>5

LEMMA HadAreLogs ==
  ASSUME IInv
  PROVE  Had \subseteq Logs /\ Coming \subseteq Logs
  <1>1. Had \subseteq Logs
    BY Basics DEF Had
  <1>2. \A c \in Calls : Records(c) => call[c].arg \in Logs
    BY DEF IInv, CallsSound, CallSound, Records
  <1> QED
    BY <1>1, <1>2 DEF Coming

\* Who has the lock of a manager is alone in loading it and in saving it.
LEMMA Alone ==
  ASSUME IInv, NEW c \in Calls, call[c].pc # "idle", holder[call[c].mgr] = c
  PROVE  /\ call[c].mgr \in Managers /\ call[c].mgr <= made
         /\ \A d \in Calls \ {c} :
              call[d].pc \in {"load", "save"} => call[d].mgr # call[c].mgr
  <1>1. call[c].mgr \in Managers /\ call[c].mgr <= made
    BY CallFacts, Basics DEF IInv, CallsSound, CallSound
  <1>2. \A d \in Calls : call[d].pc \in {"load", "save"} => holder[call[d].mgr] = d
    BY DEF IInv, LocksSound
  <1> QED
    BY <1>1, <1>2

\* A call gives its lock back and ends: all but the lists of logs.
LEMMA Releases ==
  ASSUME IInv, NEW c \in Calls, call[c].pc \in {"wait", "have", "save"},
         holder[call[c].mgr] = c, Unlock(call[c].mgr), call' = [call EXCEPT ![c] = Idle],
         made' = made, recorded' = recorded, current' \in {0, current},
         \A n \in Managers \ {call[c].mgr} : pending'[n] = pending[n] /\ writing'[n] = writing[n]
  PROVE  /\ CallsSound' /\ ManagersSound' /\ LocksSound' /\ Ordered'
         /\ holder' \in [Managers -> Calls \cup {None}] /\ queue' \in [Managers -> Seq(Calls)]
         /\ \A n \in Managers : holder'[n] = None => queue'[n] = <<>>
         /\ call'[c] = Idle /\ \A d \in Calls \ {c} : call'[d] = call[d]
         /\ Idle.pc = "idle" /\ Idle.op = "none" /\ Idle.mgr = 0
         /\ \A d \in Calls : call'[d].pc \in {"idle", "load", "wait", "have", "save"}
  <1>0. TypeOK /\ CallsSound /\ ManagersSound /\ LocksSound /\ Ordered
    BY DEF IInv
  <1>1. /\ LocksSound' /\ Ordered'
        /\ holder' \in [Managers -> Calls \cup {None}] /\ queue' \in [Managers -> Seq(Calls)]
        /\ \A n \in Managers : holder'[n] = None => queue'[n] = <<>>
        /\ \A n \in Managers : holder[n] = None => holder'[n] = None
        /\ \A n \in Managers : queue[n] = <<>> => queue'[n] = <<>>
    BY <1>0, ReleaseKeeps, ReleaseKeepsOrder
  <1>2. /\ call'[c] = Idle /\ \A d \in Calls \ {c} : call'[d] = call[d]
        /\ Idle.pc = "idle" /\ Idle.op = "none" /\ Idle.mgr = 0 /\ Idle.data = <<>>
        /\ call' = [d \in Calls |-> call'[d]]
    BY <1>0 DEF CallsSound, Idle
  <1>3. /\ call[c].mgr \in Managers /\ call[c].mgr <= made
        /\ \A d \in Calls \ {c} :
             call[d].pc \in {"load", "save"} => call[d].mgr # call[c].mgr
    BY Alone
  <1>4. CallsSound'
    <2>1. \A d \in Calls \ {c} : CallSound(d)'
      BY <1>0, <1>2 DEF CallsSound, CallSound
    <2>2. CallSound(c)'
      <3>1. call'[c] = [pc |-> call'[c].pc, mgr |-> call'[c].mgr, op |-> call'[c].op,
                        arg |-> call'[c].arg, data |-> call'[c].data]
        BY <1>2 DEF Idle
      <3>2. <<>> \in Seq(Logs)
        OBVIOUS
      <3> QED
        BY <1>2, <3>1, <3>2 DEF CallSound
    <2>3. \A a, b \in Calls : call'[a].op = "stop" /\ call'[b].op = "stop" => a = b
      BY <1>0, <1>2 DEF CallsSound
    <2> QED
      BY <1>2, <2>1, <2>2, <2>3 DEF CallsSound
  <1>5. ManagersSound'
    <2>1. current' <= made'
      BY <1>0, Basics DEF ManagersSound
    <2>2. \A n \in Managers : n > made' => holder'[n] = None /\ Untouched(n)'
      <3> SUFFICES ASSUME NEW n \in Managers, n > made
                   PROVE  holder'[n] = None /\ Untouched(n)'
        OBVIOUS
      <3>1. n # call[c].mgr
        BY <1>3, Basics
      <3> QED
        BY <1>0, <1>1, <3>1 DEF ManagersSound, Untouched
    <2>3. ASSUME NEW d \in Calls, call'[d].pc = "load"
          PROVE  /\ call'[d].mgr # current' /\ queue'[call'[d].mgr] = <<>>
                 /\ ~pending'[call'[d].mgr] /\ writing'[call'[d].mgr] = Quiet
                 /\ \A e \in Calls \ {d} : call'[e].mgr # call'[d].mgr
      <3>1. /\ d # c /\ call'[d] = call[d] /\ call[d].mgr # call[c].mgr
            /\ call[d].mgr \in Managers /\ call[d].mgr # 0
        BY <1>0, <1>2, <1>3, <2>3, CallFacts
      <3>2. /\ call[d].mgr # current /\ Untouched(call[d].mgr)
            /\ \A e \in Calls \ {d} : call[e].mgr # call[d].mgr
        BY <1>0, <2>3, <3>1 DEF ManagersSound
      <3>3. /\ queue'[call[d].mgr] = <<>> /\ ~pending'[call[d].mgr]
            /\ writing'[call[d].mgr] = Quiet
        BY <1>1, <3>1, <3>2 DEF Untouched
      <3>4. \A e \in Calls \ {d} : call'[e].mgr # call'[d].mgr
        BY <1>2, <3>1, <3>2
      <3> QED
        BY <3>1, <3>2, <3>3, <3>4
    <2> QED
      BY <2>1, <2>2, <2>3 DEF ManagersSound, Untouched
  <1>6. \A d \in Calls : call'[d].pc \in {"idle", "load", "wait", "have", "save"}
    BY <1>0, <1>2 DEF TypeOK
  <1> QED
    BY <1>1, <1>2, <1>4, <1>5, <1>6

LEMMA ListKeeps ==
  ASSUME IInv, NEW c \in Calls,
         Holds(c, "list") \/ Holds(c, "clear"), Unlock(call[c].mgr),
         call' = [call EXCEPT ![c] = Idle],
         UNCHANGED <<disk, current, made, entries, pending, writing, recorded, cleared, astray>>
  PROVE  IInv'
  <1>1. /\ call[c].pc \in {"wait", "have"} /\ holder[call[c].mgr] = c
        /\ call[c].op \in {"list", "clear"}
    BY DEF Holds
  <1>2. /\ CallsSound' /\ ManagersSound' /\ LocksSound' /\ Ordered'
        /\ holder' \in [Managers -> Calls \cup {None}] /\ queue' \in [Managers -> Seq(Calls)]
        /\ \A n \in Managers : holder'[n] = None => queue'[n] = <<>>
        /\ call'[c] = Idle /\ \A d \in Calls \ {c} : call'[d] = call[d]
        /\ Idle.pc = "idle" /\ Idle.op = "none" /\ Idle.mgr = 0
        /\ \A d \in Calls : call'[d].pc \in {"idle", "load", "wait", "have", "save"}
    <2>1. /\ made' = made /\ recorded' = recorded /\ current' \in {0, current}
          /\ \A n \in Managers \ {call[c].mgr} : pending'[n] = pending[n] /\ writing'[n] = writing[n]
      OBVIOUS
    <2> QED
      BY <1>1, <2>1, Releases
  <1>3. TypeOK'
    BY <1>2 DEF IInv, TypeOK
  <1>4. \A d \in Calls : Records(d)' => d # c /\ Records(d) /\ call'[d] = call[d]
    BY <1>2 DEF Records
  <1>5. \A d \in Calls : call'[d].pc = "save" <=> call[d].pc = "save"
    BY <1>1, <1>2
  <1>6. \A d \in Calls : call[d].pc = "save" => d # c /\ call'[d] = call[d]
    BY <1>1, <1>2
  <1>7. Numbered'
    <2>1. \A log : Known(log)' => Known(log)
      BY <1>5, <1>6 DEF Known
    <2> QED
      BY <1>4, <2>1 DEF IInv, Numbered
  <1>8. ListsSound'
    BY <1>5, <1>6 DEF IInv, ListsSound, Fits, Ascending
  <1>9. ~astray' => Follows'
    <2> SUFFICES ASSUME ~astray
                 PROVE  Follows'
      OBVIOUS
    <2>1. FileFollows /\ ClearedNowhere /\ NoneMissing
      BY DEF IInv, Follows
    <2>2. FileFollows'
      BY <1>2, <1>5, <1>6, <2>1 DEF FileFollows, Saving
    <2>3. ClearedNowhere'
      BY <1>5, <1>6, <2>1 DEF ClearedNowhere
    <2>4. NoneMissing'
      <3>1. Had' = Had /\ Coming' \subseteq Coming
        BY <1>4 DEF Had, Coming, Records
      <3>2. \A n : Held(n) => Held(n)'
        BY <1>1, <1>2 DEF Held, Records
      <3>3. \A n : Number(n, Had)' <=> Number(n, Had)
        BY <3>1 DEF Number
      <3>4. \A n : Number(n, cleared)' <=> Number(n, cleared)
        BY DEF Number
      <3> QED
        BY <2>1, <3>1, <3>2, <3>3, <3>4 DEF NoneMissing
    <2> QED
      BY <2>2, <2>3, <2>4 DEF Follows
  <1> QED
    BY <1>2, <1>3, <1>7, <1>8, <1>9 DEF IInv

\* A record gets its lock, adds its log and ends.
LEMMA RecordKeeps ==
  ASSUME IInv, NEW c \in Calls, RecordGetsLock(c)
  PROVE  IInv'
  <1> DEFINE m == call[c].mgr
             log == call[c].arg
             new == Newest(Append(entries[m], log))
  <1>1. /\ call[c].pc \in {"wait", "have"} /\ holder[m] = c /\ call[c].op = "record"
        /\ entries' = [entries EXCEPT ![m] = new]
        /\ pending' = [pending EXCEPT ![m] = TRUE]
        /\ astray' = (astray \/ m # current)
        /\ call' = [call EXCEPT ![c] = Idle] /\ Unlock(m)
        /\ UNCHANGED <<disk, current, made, writing, recorded, cleared>>
    BY DEF RecordGetsLock, Holds, DelaySave, Strays
  <1>2. m \in Managers /\ Records(c) /\ call[c].pc = "wait" /\ log \in Logs /\ log[1] <= recorded
    BY <1>1, Alone DEF IInv, CallsSound, CallSound, Records
  <1>3. /\ entries[m] \in Seq(Logs) /\ Fits(entries[m])
        /\ \A x \in ToSet(entries[m]) : x[1] < log[1]
    BY <1>2, Basics DEF IInv, ListsSound, Numbered
  <1>4. /\ new \in Seq(Logs) /\ Fits(new) /\ log \in ToSet(new)
        /\ ToSet(new) \subseteq ToSet(entries[m]) \cup {log}
        /\ \A x \in ToSet(entries[m]), y \in ToSet(new) : y[1] < x[1] => x \in ToSet(new)
    BY <1>2, <1>3, NewestKeeps
  <1> HIDE DEF new
  <1>5. /\ entries'[m] = new /\ pending'[m] = TRUE
        /\ \A n \in Managers \ {m} : entries'[n] = entries[n] /\ pending'[n] = pending[n]
        /\ entries' \in [Managers -> Seq(Logs)] /\ pending' \in [Managers -> BOOLEAN]
    BY <1>1, <1>2, <1>4 DEF IInv, TypeOK
  <1>6. /\ CallsSound' /\ ManagersSound' /\ LocksSound' /\ Ordered'
        /\ holder' \in [Managers -> Calls \cup {None}] /\ queue' \in [Managers -> Seq(Calls)]
        /\ \A n \in Managers : holder'[n] = None => queue'[n] = <<>>
        /\ call'[c] = Idle /\ \A d \in Calls \ {c} : call'[d] = call[d]
        /\ Idle.pc = "idle" /\ Idle.op = "none" /\ Idle.mgr = 0
        /\ \A d \in Calls : call'[d].pc \in {"idle", "load", "wait", "have", "save"}
    <2>1. /\ made' = made /\ recorded' = recorded /\ current' \in {0, current}
          /\ \A n \in Managers \ {m} : pending'[n] = pending[n] /\ writing'[n] = writing[n]
      BY <1>1, <1>5
    <2>2. call[c].pc \in {"wait", "have", "save"}
      BY <1>1
    <2> QED
      BY <1>1, <2>1, <2>2, Releases
  <1>7. TypeOK'
    <2>1. \A n \in Managers : Len(entries'[n]) <= Kept
      BY <1>4, <1>5 DEF IInv, TypeOK, Fits
    <2>2. astray' \in BOOLEAN
      BY <1>1
    <2> QED
      BY <1>1, <1>5, <1>6, <2>1, <2>2 DEF IInv, TypeOK
  <1>8. \A d \in Calls : Records(d)' => d # c /\ Records(d) /\ call'[d] = call[d]
    BY <1>6 DEF Records
  <1>9. \A d \in Calls : call'[d].pc = "save" <=> call[d].pc = "save"
    BY <1>2, <1>6
  <1>10. \A d \in Calls : call[d].pc = "save" => d # c /\ call'[d] = call[d] /\ call[d].mgr # m
    BY <1>1, <1>2, <1>6, Alone
  <1>11. ~Known(log)
    BY <1>2 DEF IInv, Numbered
  <1>12. Numbered'
    <2>1. ASSUME NEW x \in Logs, Known(x)'
          PROVE  Known(x) \/ x = log
      <3>1. \A n \in Managers : x \in ToSet(entries'[n]) =>
              x = log \/ \E k \in Managers : x \in ToSet(entries[k])
        BY <1>2, <1>4, <1>5
      <3> QED
        BY <1>1, <1>9, <1>10, <2>1, <3>1 DEF Known
    <2>2. \A x \in Logs : Known(x)' =>
            x[1] <= recorded' /\ \A d \in Calls : Records(d)' => call'[d].arg # x
      <3> SUFFICES ASSUME NEW x \in Logs, Known(x)'
                   PROVE  x[1] <= recorded' /\ \A d \in Calls : Records(d)' => call'[d].arg # x
        OBVIOUS
      <3>1. CASE Known(x)
        BY <1>1, <1>8, <3>1 DEF IInv, Numbered
      <3>2. CASE x = log
        <4>1. ASSUME NEW d \in Calls, Records(d)'
              PROVE  call'[d].arg # log
          <5>1. d # c /\ Records(d) /\ call'[d] = call[d]
            BY <1>8, <4>1
          <5>2. call[d].arg[2] = d /\ log[2] = c
            BY <1>2, <5>1 DEF IInv, CallsSound, CallSound, Records
          <5> QED
            BY <5>1, <5>2
        <4> QED
          BY <1>1, <1>2, <3>2, <4>1
      <3> QED
        BY <2>1, <3>1, <3>2
    <2>3. ASSUME NEW d \in Calls, Records(d)', NEW x \in ToSet(entries'[call'[d].mgr])
          PROVE  x[1] < call'[d].arg[1]
      <3>1. d # c /\ Records(d) /\ call'[d] = call[d] /\ call[d].mgr \in Managers
        BY <1>8, <2>3, CallFacts DEF IInv, Records, CallsSound, CallSound
      <3>2. CASE x \in ToSet(entries[call[d].mgr])
        BY <3>1, <3>2 DEF IInv, Numbered
      <3>3. CASE call[d].mgr = m /\ x = log
        BY <1>1, <1>2, <3>1, <3>3 DEF IInv, Ordered
      <3> QED
        BY <1>4, <1>5, <2>3, <3>1, <3>2, <3>3
    <2> QED
      BY <2>2, <2>3 DEF Numbered
  <1>13. ListsSound'
    <2>1. Fits(disk)' /\ \A n \in Managers : Fits(entries'[n])
      BY <1>1, <1>4, <1>5 DEF IInv, ListsSound, Fits, Ascending
    <2>2. \A n \in Managers : writing'[n] # Quiet => Fits(writing'[n])
      BY <1>1 DEF IInv, ListsSound
    <2>3. ASSUME NEW d \in Calls, call'[d].pc = "save"
          PROVE  call'[d].data = entries'[call'[d].mgr] /\ ~pending'[call'[d].mgr]
      <3>1. call[d].pc = "save" /\ call'[d] = call[d] /\ call[d].mgr \in Managers \ {m}
        BY <1>9, <1>10, <2>3, CallFacts DEF IInv
      <3> QED
        BY <1>5, <3>1 DEF IInv, ListsSound
    <2> QED
      BY <2>1, <2>2, <2>3 DEF ListsSound, Fits, Ascending
  <1>14. ~astray' => Follows'
    <2> SUFFICES ASSUME ~astray'
                 PROVE  Follows'
      OBVIOUS
    <2>1. /\ FileFollows /\ ClearedNowhere /\ NoneMissing
          /\ m = current /\ current # 0 /\ current' = current
      BY <1>1, <1>2, Basics DEF IInv, Follows
    <2>2. FileFollows'
      <3>1. \A n \in Managers \ {current} : ~pending'[n] /\ writing'[n] = Quiet /\ ~Saving(n)'
        BY <1>1, <1>5, <1>9, <1>10, <2>1 DEF FileFollows, Saving
      <3>2. \A d \in Calls : call'[d].op = "stop" => call'[d].mgr = current
        BY <1>6, <2>1 DEF FileFollows
      <3> QED
        BY <1>5, <2>1, <3>1, <3>2 DEF FileFollows
    <2>3. ClearedNowhere'
      <3>1. log \notin cleared
        BY <1>11 DEF Known
      <3>2. \A d \in Calls : call'[d].pc = "save" /\ call'[d].op = "clear" =>
              ToSet(entries'[call'[d].mgr]) \cap call'[d].arg = {}
        <4> SUFFICES ASSUME NEW d \in Calls, call'[d].pc = "save", call'[d].op = "clear"
                     PROVE  ToSet(entries'[call'[d].mgr]) \cap call'[d].arg = {}
          OBVIOUS
        <4>1. call[d].pc = "save" /\ call'[d] = call[d] /\ call[d].mgr \in Managers \ {m}
          BY <1>9, <1>10, CallFacts DEF IInv
        <4> QED
          BY <1>5, <2>1, <4>1 DEF ClearedNowhere
      <3>3. ToSet(entries'[current]) \cap cleared = {}
        BY <1>4, <1>5, <2>1, <3>1 DEF ClearedNowhere
      <3> QED
        BY <1>1, <2>1, <3>2, <3>3 DEF ClearedNowhere
    <2>4. NoneMissing'
      <3>1. Had = ToSet(entries[m]) /\ Had' = ToSet(new)
        BY <1>5, <2>1 DEF Had
      <3>2. log \in Coming /\ Coming' \subseteq Coming
        BY <1>2, <1>8, <2>1 DEF Coming, Records
      <3>3. \A y \in Coming' : y = log \/ log[1] < y[1]
        <4> SUFFICES ASSUME NEW d \in Calls, Records(d)', call'[d].mgr = current
                     PROVE  log[1] < call'[d].arg[1]
          BY <2>1 DEF Coming
        <4>1. d # c /\ Records(d) /\ call'[d] = call[d] /\ call[d].mgr = m
          BY <1>8, <2>1
        <4> QED
          BY <1>1, <1>2, <4>1 DEF IInv, Ordered
      <3>4. ASSUME NEW x \in Had' \cup Coming', NEW n \in (x[1] + 1)..recorded
            PROVE  Number(n, Had') \/ Number(n, cleared) \/ Held(n)'
        <4>1. x \in Had \cup Coming
          BY <1>4, <3>1, <3>2
        <4>0. x[1] \in Nat /\ n \in Int /\ x[1] < n /\ log[1] \in Nat /\ x \in Logs
          <5>1. x \in Logs
            BY <4>1, HadAreLogs
          <5>2. x[1] \in Nat /\ log[1] \in Nat
            BY <1>2, <5>1, Basics
          <5> QED
            BY <3>4, <5>1, <5>2, Basics
        <4>2. Number(n, Had) \/ Number(n, cleared) \/ Held(n)
          BY <2>1, <4>1 DEF NoneMissing
        <4>3. CASE Number(n, Had)
          <5>1. PICK y \in Had : y[1] = n
            BY <4>3 DEF Number
          <5>2. CASE x \in Had'
            <6>1. y \in Had'
              BY <1>4, <3>1, <4>0, <5>1, <5>2
            <6> QED
              BY <5>1, <6>1 DEF Number
          <5>3. CASE x \in Coming'
            BY <1>3, <3>1, <3>3, <4>0, <5>1, <5>3
          <5> QED
            BY <3>4, <5>2, <5>3
        <4>4. CASE Held(n)
          <5>1. PICK d \in Calls :
                  \/ Records(d) /\ call[d].arg[1] = n
                  \/ call[d].op = "clear" /\ call[d].pc = "save" /\ Number(n, call[d].arg)
            BY <4>4 DEF Held
          <5>2. CASE d = c
            BY <1>1, <1>4, <3>1, <5>1, <5>2 DEF Number
          <5>3. CASE d # c
            BY <1>6, <5>1, <5>3 DEF Held, Records
          <5> QED
            BY <5>2, <5>3
        <4> QED
          BY <4>2, <4>3, <4>4
      <3> QED
        BY <1>1, <3>4 DEF NoneMissing, Number
    <2> QED
      BY <2>2, <2>3, <2>4 DEF Follows
  <1> QED
    BY <1>6, <1>7, <1>12, <1>13, <1>14 DEF IInv

\* A clear or a release has written its logs.
LEMMA SavedKeeps ==
  ASSUME IInv, NEW c \in Calls, Saved(c)
  PROVE  IInv'
  <1> DEFINE m == call[c].mgr
  <1>1. /\ call[c].pc = "save" /\ writing[m] = Quiet
        /\ disk' = call[c].data
        /\ cleared' = (IF call[c].op = "clear" THEN cleared \cup call[c].arg ELSE cleared)
        /\ current' = (IF call[c].op = "stop" THEN 0 ELSE current)
        /\ Unlock(m) /\ call' = [call EXCEPT ![c] = Idle]
        /\ UNCHANGED <<made, entries, pending, writing, recorded, astray>>
    BY DEF Saved
  <1>2. /\ holder[m] = c /\ m \in Managers /\ call[c].op \in {"clear", "stop"}
        /\ call[c].op = "clear" => call[c].arg \subseteq Logs
        /\ call[c].data = entries[m] /\ ~pending[m]
    <2>1. holder[m] = c
      BY <1>1 DEF IInv, LocksSound
    <2> QED
      BY <1>1, <2>1, Alone DEF IInv, CallsSound, CallSound, ListsSound
  <1>3. /\ CallsSound' /\ ManagersSound' /\ LocksSound' /\ Ordered'
        /\ holder' \in [Managers -> Calls \cup {None}] /\ queue' \in [Managers -> Seq(Calls)]
        /\ \A n \in Managers : holder'[n] = None => queue'[n] = <<>>
        /\ call'[c] = Idle /\ \A d \in Calls \ {c} : call'[d] = call[d]
        /\ Idle.pc = "idle" /\ Idle.op = "none" /\ Idle.mgr = 0
        /\ \A d \in Calls : call'[d].pc \in {"idle", "load", "wait", "have", "save"}
    <2>1. /\ made' = made /\ recorded' = recorded /\ current' \in {0, current}
          /\ \A n \in Managers \ {m} : pending'[n] = pending[n] /\ writing'[n] = writing[n]
          /\ call[c].pc \in {"wait", "have", "save"}
      BY <1>1
    <2> QED
      BY <1>1, <1>2, <2>1, Releases
  <1>4. entries[m] \in Seq(Logs) /\ disk' = entries[m] /\ cleared \subseteq Logs
    BY <1>1, <1>2, Basics
  <1>5. TypeOK'
    <2>1. current' \in Managers \cup {0}
      BY <1>1 DEF IInv, TypeOK
    <2>2. cleared' \subseteq Logs
      BY <1>1, <1>2, <1>4
    <2> QED
      BY <1>1, <1>3, <1>4, <2>1, <2>2 DEF IInv, TypeOK
  <1>6. \A d \in Calls : Records(d)' => d # c /\ Records(d) /\ call'[d] = call[d]
    BY <1>3 DEF Records
  <1>7. \A d \in Calls : call'[d].pc = "save" =>
          /\ d # c /\ call'[d] = call[d] /\ call[d].pc = "save"
          /\ call[d].mgr # m /\ call[d].mgr \in Managers
    BY <1>1, <1>2, <1>3, Alone, CallFacts DEF IInv
  <1>8. Numbered'
    <2>1. \A x : Known(x)' => Known(x)
      <3> SUFFICES ASSUME NEW x, Known(x)'
                   PROVE  Known(x)
        OBVIOUS
      <3>1. CASE x \in ToSet(disk') \cup cleared'
        BY <1>1, <1>2, <1>4, <3>1 DEF Known
      <3>2. CASE \E n \in Managers : \/ x \in ToSet(entries'[n])
                                     \/ writing'[n] # Quiet /\ x \in ToSet(writing'[n])
        BY <1>1, <3>2 DEF Known
      <3>3. CASE \E d \in Calls : call'[d].pc = "save" /\ call'[d].op = "clear" /\ x \in call'[d].arg
        BY <1>7, <3>3 DEF Known
      <3> QED
        BY <3>1, <3>2, <3>3 DEF Known
    <2> QED
      BY <1>1, <1>6, <2>1 DEF IInv, Numbered
  <1>9. ListsSound'
    BY <1>1, <1>4, <1>2, <1>7 DEF IInv, ListsSound, Fits, Ascending
  <1>10. ~astray' => Follows'
    <2> SUFFICES ASSUME ~astray
                 PROVE  Follows'
      BY <1>1
    <2>1. /\ FileFollows /\ ClearedNowhere /\ NoneMissing
          /\ current \in Nat /\ \A n \in Managers : n # 0
      BY Basics DEF IInv, Follows
    <2>2. m = current /\ current # 0 /\ entries[m] = disk'
      BY <1>1, <1>2, <1>4, <2>1 DEF FileFollows, Saving
    <2>3. FileFollows'
      <3>1. \A n \in Managers : ~Saving(n)'
        BY <1>7, <2>1, <2>2 DEF FileFollows, Saving
      <3>2. \A n \in Managers : ~pending'[n] /\ writing'[n] = Quiet
        BY <1>1, <1>2, <2>1, <2>2 DEF FileFollows
      <3>3. \A d \in Calls : call'[d].op = "stop" => call'[d].mgr = current'
        <4> SUFFICES ASSUME NEW d \in Calls, call'[d].op = "stop"
                     PROVE  call'[d].mgr = current'
          OBVIOUS
        <4>1. d # c /\ call'[d] = call[d] /\ call[d].mgr = current
          BY <1>3, <2>1 DEF FileFollows
        <4>2. call[c].op # "stop"
          BY <4>1 DEF IInv, CallsSound
        <4> QED
          BY <1>1, <4>1, <4>2
      <3>4. current' # 0 => current' = current
        BY <1>1
      <3> QED
        BY <1>1, <2>1, <2>2, <3>1, <3>2, <3>3, <3>4 DEF FileFollows
    <2>4. ClearedNowhere'
      <3>1. ToSet(entries[m]) \cap cleared' = {}
        BY <1>1, <1>2, <2>1, <2>2 DEF ClearedNowhere
      <3>2. \A n \in Managers : writing'[n] = Quiet
        BY <1>1, <2>1, <2>2 DEF FileFollows
      <3>3. \A d \in Calls : ~(call'[d].pc = "save" /\ call'[d].op = "clear")
        BY <1>7, <2>1, <2>2 DEF FileFollows, Saving
      <3>4. current' # 0 => entries'[current'] = entries[m]
        BY <1>1, <2>2
      <3> QED
        BY <2>2, <3>1, <3>2, <3>3, <3>4 DEF ClearedNowhere
    <2>5. NoneMissing'
      <3>1. Had = ToSet(entries[m]) /\ Had' = ToSet(entries[m])
        BY <1>1, <2>2 DEF Had
      <3>2. Coming' \subseteq Coming
        <4> SUFFICES ASSUME NEW d \in Calls, Records(d)', call'[d].mgr = current'
                     PROVE  call'[d].arg \in Coming
          BY DEF Coming
        <4>1. d # c /\ Records(d) /\ call'[d] = call[d] /\ call[d].mgr # 0
          BY <1>6, CallFacts DEF IInv, Records, CallsSound, CallSound
        <4>2. current' = current
          BY <1>1, <4>1
        <4> QED
          BY <4>1, <4>2 DEF Coming
      <3>3. ASSUME NEW n, Held(n)
            PROVE  Held(n)' \/ Number(n, cleared')
        <4>1. PICK d \in Calls :
                \/ Records(d) /\ call[d].arg[1] = n
                \/ call[d].op = "clear" /\ call[d].pc = "save" /\ Number(n, call[d].arg)
          BY <3>3 DEF Held
        <4>2. CASE d = c
          BY <1>1, <1>2, <4>1, <4>2 DEF Number, Records
        <4>3. CASE d # c
          BY <1>3, <4>1, <4>3 DEF Held, Records
        <4> QED
          BY <4>2, <4>3
      <3>4. \A n : Number(n, cleared) => Number(n, cleared')
        BY <1>1 DEF Number
      <3> QED
        BY <1>1, <2>1, <3>1, <3>2, <3>3, <3>4 DEF NoneMissing, Number
    <2> QED
      BY <2>3, <2>4, <2>5 DEF Follows
  <1> QED
    BY <1>3, <1>5, <1>8, <1>9, <1>10 DEF IInv

\* A call that has the lock begins to write: all but the lists of logs.
LEMMA BeginsToSave ==
  ASSUME IInv, NEW c \in Calls, call[c].pc \in {"wait", "have"}, holder[call[c].mgr] = c,
         call[c].op \in {"clear", "stop"}, NEW data \in Seq(Logs), NEW arg,
         call[c].op = "clear" => arg \subseteq Logs,
         call'[c] = Saves(c, arg, data), \A d \in Calls \ {c} : call'[d] = call[d],
         call' = [d \in Calls |-> call'[d]],
         \A n \in Managers \ {call[c].mgr} : pending'[n] = pending[n],
         current' = current, made' = made, holder' = holder, queue' = queue,
         writing' = writing, recorded' = recorded
  PROVE  /\ CallsSound' /\ ManagersSound' /\ LocksSound' /\ Ordered'
         /\ \A d \in Calls : call'[d].pc \in {"idle", "load", "wait", "have", "save"}
  <1> DEFINE m == call[c].mgr
  <1>0. TypeOK /\ CallsSound /\ ManagersSound /\ LocksSound /\ Ordered
    BY DEF IInv
  <1>1. m \in Managers /\ m <= made
    BY Alone
  <1>2. /\ \A d \in Calls \ {c} : call'[d] = call[d]
        /\ call'[c] = [pc |-> "save", mgr |-> m, op |-> call[c].op, arg |-> arg, data |-> data]
    BY DEF Saves
  <1>3. \A n \in Managers \ {m} : pending'[n] = pending[n]
    OBVIOUS
  <1>4. /\ call'[c].pc = "save" /\ call'[c].mgr = m /\ call'[c].op = call[c].op
        /\ call'[c].arg = arg /\ call'[c].data = data
    BY <1>2
  <1>5. \A d \in Calls : call'[d].mgr = call[d].mgr /\ call'[d].op = call[d].op
    BY <1>2, <1>4
  <1>6. \A d \in Calls : Records(d) => d # c
    BY DEF Records
  <1>7. CallsSound'
    <2>1. \A d \in Calls \ {c} : CallSound(d)'
      BY <1>0, <1>2 DEF CallsSound, CallSound
    <2>2. CallSound(c)'
      BY <1>0, <1>2, <1>4 DEF CallsSound, CallSound
    <2>3. \A a, b \in Calls : call'[a].op = "stop" /\ call'[b].op = "stop" => a = b
      BY <1>0, <1>5 DEF CallsSound
    <2> QED
      BY <1>2, <2>1, <2>2, <2>3 DEF CallsSound
  <1>8. ManagersSound'
    <2>1. \A d \in Calls : call'[d].pc = "load" => call[d].pc = "load" /\ call[d].mgr \in Managers \ {m}
      BY <1>0, <1>2, <1>4, Alone, CallFacts
    <2>2. \A n \in Managers : n > made => n # m
      BY <1>1, Basics
    <2> QED
      BY <1>0, <1>3, <1>5, <2>1, <2>2 DEF ManagersSound, Untouched
  <1>9. LocksSound'
    <2>1. \A n \in Managers : \A i \in 1..Len(queue[n]) : queue[n][i] \in Calls \ {c}
      BY <1>0, <1>1 DEF TypeOK, LocksSound
    <2>2. \A n \in Managers : holder[n] \in Calls \cup {None}
      BY <1>0 DEF TypeOK
    <2>3. \A d \in Calls : call'[d].pc \in {"load", "save"} => holder'[call'[d].mgr] = d
      BY <1>0, <1>2, <1>4 DEF LocksSound
    <2>4. \A d \in Calls : call'[d].pc \in {"wait", "have"} =>
            holder'[call'[d].mgr] = d \/ d \in ToSet(queue'[call'[d].mgr])
      BY <1>0, <1>2, <1>4 DEF LocksSound
    <2>5. \A n \in Managers : holder'[n] # None => call'[holder'[n]].mgr = n
      BY <1>0, <1>5, <2>2 DEF LocksSound
    <2>6. \A n \in Managers : \A i \in 1..Len(queue'[n]) :
            /\ call'[queue'[n][i]].pc = "wait" /\ call'[queue'[n][i]].mgr = n
            /\ queue'[n][i] # holder'[n]
            /\ \A j \in 1..Len(queue'[n]) : queue'[n][i] = queue'[n][j] => i = j
      BY <1>0, <1>2, <2>1 DEF LocksSound
    <2> QED
      BY <2>3, <2>4, <2>5, <2>6 DEF LocksSound
  <1>10. Ordered'
    <2>1. \A d \in Calls : Records(d)' => Records(d) /\ d # c /\ call'[d] = call[d]
      BY <1>2, <1>4 DEF Records
    <2>2. \A n \in Managers : \A i \in 1..Len(queue[n]) : queue[n][i] \in Calls
      BY <1>0 DEF TypeOK
    <2> QED
      <3>1. \A n \in Managers : \A i, j \in 1..Len(queue[n]) :
              /\ i < j /\ call'[queue[n][i]].op = "record" /\ call'[queue[n][j]].op = "record"
              => call'[queue[n][i]].arg[1] < call'[queue[n][j]].arg[1]
        BY <1>0, <2>1, <2>2 DEF Ordered, Records
      <3>2. ASSUME NEW a \in Calls, NEW b \in Calls, a # b, Records(a)', Records(b)',
                   call'[a].mgr = call'[b].mgr, holder'[call'[a].mgr] = a
            PROVE  call'[a].arg[1] < call'[b].arg[1]
        BY <1>0, <2>1, <3>2 DEF Ordered
      <3> QED
        BY <3>1, <3>2 DEF Ordered, Records
  <1>11. \A d \in Calls : call'[d].pc \in {"idle", "load", "wait", "have", "save"}
    BY <1>0, <1>2, <1>4 DEF TypeOK
  <1> QED
    BY <1>7, <1>8, <1>9, <1>10, <1>11

\* A clear takes the logs out of memory and begins to write.
LEMMA ClearKeeps ==
  ASSUME IInv, NEW c \in Calls, ClearSome(c)
  PROVE  IInv'
  <1> DEFINE m == call[c].mgr
             gone == Matching(call[c].arg)
             left == Without(entries[m], gone)
             out == ToSet(entries[m]) \cap gone
  <1>1. /\ call[c].pc \in {"wait", "have"} /\ holder[m] = c /\ call[c].op = "clear"
        /\ entries' = [entries EXCEPT ![m] = left]
        /\ pending' = [pending EXCEPT ![m] = FALSE]
        /\ call' = [call EXCEPT ![c] = Saves(c, out, left)]
        /\ astray' = (astray \/ m # current)
        /\ UNCHANGED <<disk, current, made, holder, queue, writing, recorded, cleared>>
    BY DEF ClearSome, Holds, Strays
  <1>2. /\ m \in Managers /\ entries[m] \in Seq(Logs) /\ ToSet(entries[m]) \subseteq Logs
        /\ Fits(entries[m])
    BY <1>1, Alone, Basics DEF IInv, ListsSound
  <1>3. /\ left \in Seq(Logs) /\ Fits(left) /\ ToSet(left) = ToSet(entries[m]) \ out
        /\ out \subseteq Logs
    BY <1>2, WithoutFits
  <1> HIDE DEF left, out
  <1>4. /\ CallsSound' /\ ManagersSound' /\ LocksSound' /\ Ordered'
        /\ \A d \in Calls \ {c} : call'[d] = call[d]
        /\ call'[c] = [pc |-> "save", mgr |-> m, op |-> "clear", arg |-> out, data |-> left]
        /\ \A d \in Calls : call'[d].pc \in {"idle", "load", "wait", "have", "save"}
        /\ pending' \in [Managers -> BOOLEAN] /\ ~pending'[m]
        /\ \A n \in Managers \ {m} : pending'[n] = pending[n]
    <2>0. call = [d \in Calls |-> call[d]] /\ pending \in [Managers -> BOOLEAN]
      BY DEF IInv, CallsSound, TypeOK
    <2>1. /\ call'[c] = Saves(c, out, left) /\ \A d \in Calls \ {c} : call'[d] = call[d]
          /\ call' = [d \in Calls |-> call'[d]]
      BY <1>1, <2>0
    <2>2. /\ pending' \in [Managers -> BOOLEAN] /\ ~pending'[m]
          /\ \A n \in Managers \ {m} : pending'[n] = pending[n]
      BY <1>1, <1>2, <2>0
    <2>3. /\ call[c].op \in {"clear", "stop"}
          /\ call[c].op = "clear" => out \subseteq Logs
          /\ current' = current /\ made' = made /\ holder' = holder /\ queue' = queue
          /\ writing' = writing /\ recorded' = recorded
      BY <1>1, <1>3
    <2>4. /\ CallsSound' /\ ManagersSound' /\ LocksSound' /\ Ordered'
          /\ \A d \in Calls : call'[d].pc \in {"idle", "load", "wait", "have", "save"}
      BY <1>1, <1>3, <2>1, <2>2, <2>3, BeginsToSave
    <2> QED
      BY <1>1, <2>1, <2>2, <2>4 DEF Saves
  <1>5. /\ entries'[m] = left /\ \A n \in Managers \ {m} : entries'[n] = entries[n]
        /\ entries' \in [Managers -> Seq(Logs)]
    BY <1>1, <1>2, <1>3 DEF IInv, TypeOK
  <1>6. TypeOK'
    <2>1. \A n \in Managers : Len(entries'[n]) <= Kept
      BY <1>3, <1>5 DEF IInv, TypeOK, Fits
    <2>2. astray' \in BOOLEAN
      BY <1>1
    <2> QED
      BY <1>1, <1>4, <1>5, <2>1, <2>2 DEF IInv, TypeOK
  <1>7. /\ call'[c].pc = "save" /\ call'[c].op = "clear" /\ call'[c].arg = out
        /\ call'[c].data = left /\ call'[c].mgr = m
    BY <1>4
  <1>8. \A d \in Calls : Records(d)' => d # c /\ Records(d) /\ call'[d] = call[d]
    BY <1>4, <1>7 DEF Records
  <1>9. \A d \in Calls \ {c} : call'[d].pc = "save" =>
          call'[d] = call[d] /\ call[d].pc = "save" /\ call[d].mgr \in Managers \ {m}
    BY <1>1, <1>4, Alone, CallFacts DEF IInv
  <1>10. \A n \in Managers : ToSet(entries'[n]) \subseteq ToSet(entries[n])
    BY <1>3, <1>5
  <1>11. out \subseteq ToSet(entries[m])
    BY DEF out
  <1>12. Numbered'
    <2>1. \A x : Known(x)' => Known(x)
      <3> SUFFICES ASSUME NEW x, Known(x)'
                   PROVE  Known(x)
        OBVIOUS
      <3>1. CASE x \in ToSet(disk') \cup cleared'
        BY <1>1, <3>1 DEF Known
      <3>2. CASE \E n \in Managers : \/ x \in ToSet(entries'[n])
                                     \/ writing'[n] # Quiet /\ x \in ToSet(writing'[n])
        BY <1>1, <1>10, <3>2 DEF Known
      <3>3. CASE \E d \in Calls : call'[d].pc = "save" /\ call'[d].op = "clear" /\ x \in call'[d].arg
        BY <1>2, <1>7, <1>9, <1>11, <3>3 DEF Known
      <3> QED
        BY <3>1, <3>2, <3>3 DEF Known
    <2>2. \A d \in Calls : Records(d) => call[d].mgr \in Managers
      BY CallFacts DEF IInv, Records, CallsSound, CallSound
    <2> QED
      BY <1>1, <1>8, <1>10, <2>1, <2>2 DEF IInv, Numbered
  <1>13. ListsSound'
    <2>1. \A d \in Calls : call'[d].pc = "save" =>
            call'[d].data = entries'[call'[d].mgr] /\ ~pending'[call'[d].mgr]
      BY <1>4, <1>5, <1>7, <1>9 DEF IInv, ListsSound
    <2>2. \A n \in Managers : Fits(entries'[n])
      BY <1>3, <1>5 DEF IInv, ListsSound
    <2> QED
      BY <1>1, <2>1, <2>2 DEF IInv, ListsSound, Fits, Ascending
  <1>14. ~astray' => Follows'
    <2> SUFFICES ASSUME ~astray'
                 PROVE  Follows'
      OBVIOUS
    <2>1. /\ FileFollows /\ ClearedNowhere /\ NoneMissing
          /\ m = current /\ current # 0 /\ current' = current
      BY <1>1, <1>2, Basics DEF IInv, Follows
    <2>2. FileFollows'
      <3>1. \A n \in Managers \ {current} : ~pending'[n] /\ writing'[n] = Quiet /\ ~Saving(n)'
        BY <1>1, <1>4, <1>7, <1>9, <2>1 DEF FileFollows, Saving
      <3>2. \A d \in Calls : call'[d].op = "stop" => call'[d].mgr = current
        BY <1>4, <1>7, <2>1 DEF FileFollows
      <3>3. Saving(current)'
        BY <1>7, <2>1 DEF Saving
      <3> QED
        BY <2>1, <3>1, <3>2, <3>3 DEF FileFollows
    <2>3. ClearedNowhere'
      <3>1. \A d \in Calls : call'[d].pc = "save" /\ call'[d].op = "clear" =>
              ToSet(entries'[call'[d].mgr]) \cap call'[d].arg = {}
        <4>1. ToSet(entries'[m]) \cap out = {}
          BY <1>3, <1>5
        <4> QED
          BY <1>5, <1>7, <1>9, <2>1, <4>1 DEF ClearedNowhere
      <3>2. ToSet(entries'[current]) \cap cleared = {}
        BY <1>2, <1>10, <2>1 DEF ClearedNowhere
      <3> QED
        BY <1>1, <2>1, <3>1, <3>2 DEF ClearedNowhere
    <2>4. NoneMissing'
      <3>1. Had = ToSet(entries[m]) /\ Had' = ToSet(left) /\ Coming' \subseteq Coming
        BY <1>5, <1>8, <2>1 DEF Had, Coming, Records
      <3>2. \A n : Number(n, Had) => Number(n, Had') \/ Held(n)'
        <4> SUFFICES ASSUME NEW n, NEW y \in ToSet(entries[m]), y[1] = n
                     PROVE  Number(n, Had') \/ Held(n)'
          BY <3>1 DEF Number
        <4>1. CASE y \in out
          BY <1>7, <4>1 DEF Held, Number
        <4>2. CASE y \notin out
          BY <1>3, <3>1, <4>2 DEF Number
        <4> QED
          BY <4>1, <4>2
      <3>3. \A n : Held(n) => Held(n)'
        <4>1. \A d \in Calls : Records(d) \/ call[d].pc = "save" => d # c /\ call'[d] = call[d]
          BY <1>1, <1>4 DEF Records
        <4> QED
          BY <4>1 DEF Held, Records
      <3>4. Had' \subseteq Had
        BY <1>3, <3>1
      <3> QED
        BY <1>1, <2>1, <3>1, <3>2, <3>3, <3>4 DEF NoneMissing, Number
    <2> QED
      BY <2>2, <2>3, <2>4 DEF Follows
  <1> QED
    BY <1>4, <1>6, <1>12, <1>13, <1>14 DEF IInv

\* A release begins to write.
LEMMA StopKeeps ==
  ASSUME IInv, NEW c \in Calls, SaveForStop(c)
  PROVE  IInv'
  <1> DEFINE m == call[c].mgr
  <1>1. /\ call[c].pc \in {"wait", "have"} /\ holder[m] = c /\ call[c].op = "stop"
        /\ pending' = [pending EXCEPT ![m] = FALSE]
        /\ call' = [call EXCEPT ![c] = Saves(c, None, entries[m])]
        /\ UNCHANGED <<disk, current, made, entries, holder, queue, writing, recorded, cleared, astray>>
    BY DEF SaveForStop, Holds
  <1>2. m \in Managers /\ entries[m] \in Seq(Logs)
    BY <1>1, Alone, Basics
  <1>4. /\ CallsSound' /\ ManagersSound' /\ LocksSound' /\ Ordered'
        /\ \A d \in Calls \ {c} : call'[d] = call[d]
        /\ call'[c] = [pc |-> "save", mgr |-> m, op |-> "stop", arg |-> None,
                       data |-> entries[m]]
        /\ \A d \in Calls : call'[d].pc \in {"idle", "load", "wait", "have", "save"}
        /\ pending' \in [Managers -> BOOLEAN] /\ ~pending'[m]
        /\ \A n \in Managers \ {m} : pending'[n] = pending[n]
    <2>0. call = [d \in Calls |-> call[d]] /\ pending \in [Managers -> BOOLEAN]
      BY DEF IInv, CallsSound, TypeOK
    <2>1. /\ call'[c] = Saves(c, None, entries[m]) /\ \A d \in Calls \ {c} : call'[d] = call[d]
          /\ call' = [d \in Calls |-> call'[d]]
      BY <1>1, <2>0
    <2>2. /\ pending' \in [Managers -> BOOLEAN] /\ ~pending'[m]
          /\ \A n \in Managers \ {m} : pending'[n] = pending[n]
      BY <1>1, <1>2, <2>0
    <2>3. /\ call[c].op \in {"clear", "stop"}
          /\ call[c].op = "clear" => None \subseteq Logs
          /\ current' = current /\ made' = made /\ holder' = holder /\ queue' = queue
          /\ writing' = writing /\ recorded' = recorded
      BY <1>1, <1>2
    <2>4. /\ CallsSound' /\ ManagersSound' /\ LocksSound' /\ Ordered'
          /\ \A d \in Calls : call'[d].pc \in {"idle", "load", "wait", "have", "save"}
      BY <1>1, <1>2, <2>1, <2>2, <2>3, BeginsToSave
    <2> QED
      BY <1>1, <2>1, <2>2, <2>4 DEF Saves
  <1>5. TypeOK'
    BY <1>1, <1>4 DEF IInv, TypeOK
  <1>6. /\ call'[c].pc = "save" /\ call'[c].op = "stop" /\ call'[c].data = entries[m]
        /\ call'[c].mgr = m
    BY <1>4
  <1>7. \A d \in Calls : Records(d)' => d # c /\ Records(d) /\ call'[d] = call[d]
    BY <1>4, <1>6 DEF Records
  <1>8. \A d \in Calls \ {c} : call'[d].pc = "save" =>
          call'[d] = call[d] /\ call[d].pc = "save" /\ call[d].mgr \in Managers \ {m}
    BY <1>1, <1>4, Alone, CallFacts DEF IInv
  <1>9. \A d \in Calls : call'[d].pc = "save" /\ call'[d].op = "clear" => d # c
    BY <1>6
  <1>10. Numbered'
    <2>1. \A x : Known(x)' => Known(x)
      BY <1>1, <1>8, <1>9 DEF Known
    <2> QED
      BY <1>1, <1>7, <2>1 DEF IInv, Numbered
  <1>11. ListsSound'
    <2>1. \A d \in Calls : call'[d].pc = "save" =>
            call'[d].data = entries'[call'[d].mgr] /\ ~pending'[call'[d].mgr]
      BY <1>1, <1>4, <1>6, <1>8 DEF IInv, ListsSound
    <2> QED
      BY <1>1, <2>1 DEF IInv, ListsSound, Fits, Ascending
  <1>12. ~astray' => Follows'
    <2> SUFFICES ASSUME ~astray
                 PROVE  Follows'
      BY <1>1
    <2>1. /\ FileFollows /\ ClearedNowhere /\ NoneMissing
          /\ m = current /\ current # 0 /\ current' = current
      BY <1>1, <1>2, Basics DEF IInv, Follows, FileFollows
    <2>2. FileFollows'
      <3>1. \A n \in Managers \ {current} : ~pending'[n] /\ writing'[n] = Quiet /\ ~Saving(n)'
        BY <1>1, <1>4, <1>6, <1>8, <2>1 DEF FileFollows, Saving
      <3>2. \A d \in Calls : call'[d].op = "stop" => call'[d].mgr = current
        BY <1>4, <1>6, <2>1 DEF FileFollows
      <3>3. Saving(current)'
        BY <1>6, <2>1 DEF Saving
      <3> QED
        BY <2>1, <3>1, <3>2, <3>3 DEF FileFollows
    <2>3. ClearedNowhere'
      BY <1>1, <1>8, <1>9, <2>1 DEF ClearedNowhere
    <2>4. NoneMissing'
      <3>1. Had' = Had /\ Coming' \subseteq Coming
        BY <1>1, <1>7, <2>1 DEF Had, Coming, Records
      <3>2. \A n : Held(n) => Held(n)'
        <4>1. \A d \in Calls : Records(d) \/ call[d].pc = "save" => d # c /\ call'[d] = call[d]
          BY <1>1, <1>4 DEF Records
        <4> QED
          BY <4>1 DEF Held, Records
      <3> QED
        BY <1>1, <2>1, <3>1, <3>2 DEF NoneMissing, Number
    <2> QED
      BY <2>2, <2>3, <2>4 DEF Follows
  <1> QED
    BY <1>4, <1>5, <1>10, <1>11, <1>12 DEF IInv

\* A call takes the lock of the current manager or waits for it.
LEMMA TakesKeeps ==
  ASSUME IInv, NEW c \in Calls, NEW op, NEW arg, call[c] = Idle, current # 0,
         Lock(c, current, op, arg),
         op \in {"list", "clear", "stop", "record"},
         recorded' = (IF op = "record" THEN recorded + 1 ELSE recorded),
         op = "record" => /\ recorded < MaxLogs /\ holder[current] # None
                          /\ arg = NextLog(c),
         op = "stop" => \A other \in Calls : call[other].op # "stop",
         UNCHANGED <<disk, current, made, entries, pending, writing, cleared, astray>>
  PROVE  IInv'
  <1> DEFINE m == current
  <1>0. /\ TypeOK /\ CallsSound /\ ManagersSound /\ LocksSound /\ Ordered
        /\ m \in Managers /\ m <= made /\ recorded \in Nat /\ MaxLogs \in Nat
        /\ made \in Nat /\ \A x \in Logs : x[1] \in Nat
    BY Basics DEF IInv
  <1>1. /\ disk' = disk /\ current' = current /\ made' = made /\ entries' = entries
        /\ pending' = pending /\ writing' = writing /\ cleared' = cleared /\ astray' = astray
    OBVIOUS
  <1>2. /\ LocksSound'
        /\ call' = [call EXCEPT ![c] = call'[c]]
        /\ call'[c] = [pc |-> IF holder[m] = None THEN "have" ELSE "wait",
                       mgr |-> m, op |-> op, arg |-> arg, data |-> <<>>]
        /\ \A d \in Calls \ {c} : call'[d] = call[d]
        /\ holder' \in [Managers -> Calls \cup {None}] /\ queue' \in [Managers -> Seq(Calls)]
        /\ \A n \in Managers : holder'[n] = None => queue'[n] = <<>>
        /\ \A n \in Managers \ {m} : holder'[n] = holder[n] /\ queue'[n] = queue[n]
        /\ \/ holder[m] = None /\ holder'[m] = c /\ queue' = queue
           \/ /\ holder[m] # None /\ holder'[m] = holder[m]
              /\ queue'[m] = Append(queue[m], c)
    BY <1>0, LockTaken
  <1>3. /\ call'[c].pc = (IF holder[m] = None THEN "have" ELSE "wait")
        /\ call'[c].mgr = m /\ call'[c].op = op /\ call'[c].arg = arg /\ call'[c].data = <<>>
    BY <1>2
  <1>4. call[c].pc = "idle" /\ call[c].op = "none" /\ call[c].mgr = 0
    BY DEF Idle
  <1>5. op = "record" =>
          /\ arg \in Logs /\ arg[1] = recorded + 1 /\ arg[2] = c
          /\ \A d \in Calls : Records(d) => call[d].arg[1] < arg[1]
    <2> SUFFICES ASSUME op = "record"
                 PROVE  /\ arg \in Logs /\ arg[1] = recorded + 1 /\ arg[2] = c
                        /\ \A d \in Calls : Records(d) => call[d].arg[1] < arg[1]
      OBVIOUS
    <2>1. /\ arg = <<recorded + 1, c>> /\ recorded + 1 \in 1..MaxLogs
      BY <1>0 DEF NextLog
    <2>2. arg \in Logs /\ arg[1] = recorded + 1 /\ arg[2] = c
      BY <2>1 DEF Logs
    <2>3. \A d \in Calls : Records(d) => call[d].arg \in Logs /\ call[d].arg[1] <= recorded
      BY <1>0 DEF Records, CallsSound, CallSound
    <2> QED
      BY <1>0, <2>2, <2>3
  <1>6. Ordered'
    <2>1. op = "record" => holder[m] # None /\ \A d \in Calls : Records(d) => call[d].arg[1] < arg[1]
      BY <1>5
    <2>2. m # 0
      OBVIOUS
    <2> QED
      BY <1>0, <2>1, <2>2, LockKeepsOrder
  <1>7. CallsSound'
    <2>1. recorded' \in Nat /\ recorded' >= recorded
      BY <1>0
    <2>2. \A d \in Calls \ {c} : CallSound(d)'
      <3> TAKE d \in Calls \ {c}
      <3>1. CallSound(d) /\ call'[d] = call[d]
        BY <1>0, <1>2 DEF CallsSound
      <3>2. Records(d) => call[d].arg[1] \in Nat
        BY <1>0, <3>1 DEF CallSound, Records
      <3> QED
        BY <1>0, <1>1, <2>1, <3>1, <3>2 DEF CallSound, Records
    <2>3. CallSound(c)'
      <3>1. call'[c] = [pc |-> call'[c].pc, mgr |-> call'[c].mgr, op |-> call'[c].op,
                        arg |-> call'[c].arg, data |-> call'[c].data]
        BY <1>2
      <3>2. call'[c].pc \in {"wait", "have"} /\ <<>> \in Seq(Logs)
        BY <1>3
      <3>3. m \in 1..made'
        BY <1>0, <1>1 DEF Managers
      <3>4. op = "record" => call'[c].pc = "wait" /\ arg[1] <= recorded'
        BY <1>0, <1>3, <1>5
      <3> QED
        <4>1. /\ call'[c].data \in Seq(Logs)
              /\ call'[c].pc \notin {"idle", "load", "save"}
              /\ call'[c].mgr \in 1..made'
          BY <1>3, <3>2, <3>3
        <4>2. call'[c].op = "record" =>
                /\ call'[c].pc = "wait"
                /\ call'[c].arg \in Logs /\ call'[c].arg[2] = c /\ call'[c].arg[1] <= recorded'
          BY <1>3, <1>5, <3>4
        <4> QED
          BY <3>1, <4>1, <4>2 DEF CallSound
    <2>4. \A a, b \in Calls : call'[a].op = "stop" /\ call'[b].op = "stop" => a = b
      <3>1. \A a, b \in Calls : call[a].op = "stop" /\ call[b].op = "stop" => a = b
        BY <1>0 DEF CallsSound
      <3>2. CASE op = "stop"
        <4>1. \A d \in Calls : call'[d].op = "stop" => d = c
          BY <1>2, <3>2
        <4> QED
          BY <4>1
      <3>3. CASE op # "stop"
        <4>1. \A d \in Calls : call'[d].op = "stop" => d # c /\ call[d].op = "stop"
          BY <1>2, <1>3, <3>3
        <4> QED
          BY <3>1, <4>1
      <3> QED
        BY <3>2, <3>3
    <2>5. call' = [d \in Calls |-> call'[d]]
      BY <1>0, <1>2 DEF CallsSound
    <2> QED
      BY <2>2, <2>3, <2>4, <2>5 DEF CallsSound
  <1>8. ManagersSound'
    <2>1. \A n \in Managers : n > made => n # m
      BY <1>0, Basics
    <2>2. \A d \in Calls : call'[d].pc = "load" =>
            d # c /\ call'[d] = call[d] /\ call[d].mgr # m /\ call[d].mgr \in Managers
      BY <1>0, <1>2, <1>3, CallFacts DEF ManagersSound
    <2>3. \A n \in Managers : n > made => holder'[n] = None /\ Untouched(n)'
      BY <1>0, <1>1, <1>2, <2>1 DEF ManagersSound, Untouched
    <2>4. ASSUME NEW d \in Calls, call'[d].pc = "load"
          PROVE  /\ call'[d].mgr # current' /\ queue'[call'[d].mgr] = <<>>
                 /\ ~pending'[call'[d].mgr] /\ writing'[call'[d].mgr] = Quiet
                 /\ \A e \in Calls \ {d} : call'[e].mgr # call'[d].mgr
      <3>1. d # c /\ call'[d] = call[d] /\ call[d].mgr # m /\ call[d].mgr \in Managers
        BY <2>2, <2>4
      <3>2. /\ Untouched(call[d].mgr) /\ \A e \in Calls \ {d} : call[e].mgr # call[d].mgr
        BY <1>0, <2>4, <3>1 DEF ManagersSound
      <3> QED
        <4>1. queue'[call[d].mgr] = queue[call[d].mgr]
          BY <1>2, <3>1
        <4>2. queue[call[d].mgr] = <<>> /\ ~pending[call[d].mgr] /\ writing[call[d].mgr] = Quiet
          BY <3>2 DEF Untouched
        <4>3. \A e \in Calls \ {d} : call'[e].mgr # call[d].mgr
          BY <1>2, <1>3, <3>1, <3>2
        <4> QED
          BY <1>1, <3>1, <4>1, <4>2, <4>3
    <2>5. current' <= made' /\ made' = made
      BY <1>0, <1>1
    <2> QED
      BY <2>3, <2>4, <2>5 DEF ManagersSound, Untouched
  <1>9. TypeOK'
    <2>1. \A d \in Calls : call'[d].pc \in {"idle", "load", "wait", "have", "save"}
      BY <1>0, <1>2, <1>3 DEF TypeOK
    <2>2. recorded' \in 0..MaxLogs
      BY <1>0 DEF TypeOK
    <2> QED
      BY <1>0, <1>1, <1>2, <2>1, <2>2 DEF TypeOK
  <1>10. \A d \in Calls : Records(d)' => (d = c /\ op = "record") \/ (d # c /\ Records(d) /\ call'[d] = call[d])
    BY <1>2, <1>3 DEF Records
  <1>11. \A d \in Calls : call'[d].pc = "save" \/ call[d].pc = "save" => d # c /\ call'[d] = call[d]
    BY <1>2, <1>3, <1>4
  <1>12. \A x : Known(x)' => Known(x)
    BY <1>1, <1>11 DEF Known
  <1>13. Numbered'
    <2>1. ASSUME NEW x \in Logs, Known(x)'
          PROVE  x[1] <= recorded' /\ \A d \in Calls : Records(d)' => call'[d].arg # x
      <3>1. x[1] <= recorded /\ \A d \in Calls : Records(d) => call[d].arg # x
        BY <1>12, <2>1 DEF IInv, Numbered
      <3>2. x[1] <= recorded'
        BY <1>0, <3>1
      <3>3. op = "record" => arg # x
        BY <1>0, <1>5, <3>1
      <3> QED
        BY <1>3, <1>10, <3>1, <3>2, <3>3
    <2>2. ASSUME NEW d \in Calls, Records(d)', NEW x \in ToSet(entries'[call'[d].mgr])
          PROVE  x[1] < call'[d].arg[1]
      <3>1. CASE d # c /\ Records(d) /\ call'[d] = call[d]
        BY <1>1, <2>2, <3>1 DEF IInv, Numbered
      <3>2. CASE d = c /\ op = "record"
        <4>1. x \in ToSet(entries[m]) /\ x \in Logs
          BY <1>1, <1>3, <1>0, <2>2, <3>2, Basics
        <4>2. Known(x)
          BY <1>0, <4>1 DEF Known
        <4>3. x[1] <= recorded
          BY <4>1, <4>2 DEF IInv, Numbered
        <4> QED
          BY <1>0, <1>3, <1>5, <3>2, <4>1, <4>3
      <3> QED
        BY <1>10, <2>2, <3>1, <3>2
    <2> QED
      BY <2>1, <2>2 DEF Numbered
  <1>14. ListsSound'
    BY <1>1, <1>11 DEF IInv, ListsSound, Fits, Ascending
  <1>15. ~astray' => Follows'
    <2> SUFFICES ASSUME ~astray
                 PROVE  Follows'
      BY <1>1
    <2>1. FileFollows /\ ClearedNowhere /\ NoneMissing
      BY DEF IInv, Follows
    <2>2. \A n \in Managers : Saving(n)' <=> Saving(n)
      BY <1>11 DEF Saving
    <2>3. FileFollows'
      <3>1. \A d \in Calls : call'[d].op = "stop" => call'[d].mgr = current'
        BY <1>1, <1>2, <1>3, <2>1 DEF FileFollows
      <3>2. \A n \in Managers \ {current'} : ~pending'[n] /\ writing'[n] = Quiet /\ ~Saving(n)'
        BY <1>1, <2>1, <2>2 DEF FileFollows
      <3>3. Saving(current)' <=> Saving(current)
        BY <1>0, <1>1, <2>2
      <3>4. current' # 0 /\ ~pending'[current'] /\ ~Saving(current)' =>
              entries'[current'] = IF writing'[current'] = Quiet THEN disk' ELSE writing'[current']
        BY <1>1, <2>1, <3>3 DEF FileFollows
      <3> QED
        BY <1>1, <3>1, <3>2, <3>4 DEF FileFollows
    <2>4. ClearedNowhere'
      BY <1>1, <1>11, <2>1 DEF ClearedNowhere
    <2>5. NoneMissing'
      <3>1. Had' = Had
        BY <1>1 DEF Had
      <3>2. Coming' \subseteq Coming \cup (IF op = "record" THEN {arg} ELSE {})
        BY <1>1, <1>3, <1>10 DEF Coming, Records
      <3>3. \A n : Held(n) => Held(n)'
        <4>1. \A d \in Calls : Records(d) \/ call[d].pc = "save" => d # c /\ call'[d] = call[d]
          BY <1>2, <1>4 DEF Records
        <4> QED
          BY <4>1 DEF Held, Records
      <3>4. ASSUME NEW x \in Had' \cup Coming', NEW n \in (x[1] + 1)..recorded'
            PROVE  Number(n, Had') \/ Number(n, cleared') \/ Held(n)'
        <4>1. CASE x \in Had \cup Coming
          <5>0. x[1] \in Nat
            BY <1>0, <4>1, HadAreLogs
          <5>1. CASE n \in (x[1] + 1)..recorded
            BY <1>1, <2>1, <3>1, <3>3, <4>1, <5>1 DEF NoneMissing, Number
          <5>2. CASE n \notin (x[1] + 1)..recorded
            <6>1. op = "record" /\ n = recorded + 1
              BY <1>0, <3>4, <5>0, <5>2
            <6> QED
              BY <1>3, <1>5, <6>1 DEF Held, Records
          <5> QED
            BY <5>1, <5>2
        <4>2. CASE op = "record" /\ x = arg
          BY <1>0, <1>5, <3>4, <4>2
        <4> QED
          BY <3>1, <3>2, <3>4, <4>1, <4>2
      <3> QED
        BY <3>4 DEF NoneMissing, Number
    <2> QED
      BY <2>3, <2>4, <2>5 DEF Follows
  <1> QED
    BY <1>2, <1>6, <1>7, <1>8, <1>9, <1>13, <1>14, <1>15 DEF IInv

\* A new manager, which nobody knows but the call that makes it.
LEMMA MakeKeeps ==
  ASSUME IInv, NEW c \in Calls, NEW op \in {"setup", "list", "clear"}, NEW arg,
         MakeManager(c, op, arg)
  PROVE  IInv'
  <1> DEFINE m == made + 1
  <1>0. /\ TypeOK /\ CallsSound /\ ManagersSound /\ LocksSound /\ Ordered
        /\ recorded \in Nat /\ made \in Nat /\ MaxManagers \in Nat
        /\ current \in Nat /\ current <= made
    BY Basics DEF IInv
  <1>1. /\ call[c] = Idle /\ current = 0 /\ made' = m /\ made < MaxManagers
        /\ holder' = [holder EXCEPT ![m] = c]
        /\ call' = [call EXCEPT ![c] = [Idle EXCEPT !.pc = "load", !.mgr = m, !.op = op, !.arg = arg]]
        /\ disk' = disk /\ current' = current /\ entries' = entries /\ queue' = queue
        /\ pending' = pending /\ writing' = writing /\ recorded' = recorded
        /\ cleared' = cleared /\ astray' = astray
    BY DEF MakeManager
  <1>2. /\ m \in Managers /\ m # 0 /\ m \in Nat /\ m > made /\ m <= MaxManagers
    BY <1>0, <1>1 DEF Managers
  <1>3. holder[m] = None /\ Untouched(m)
    BY <1>0, <1>2 DEF ManagersSound
  <1>4. /\ holder'[m] = c /\ \A n \in Managers \ {m} : holder'[n] = holder[n]
        /\ holder' \in [Managers -> Calls \cup {None}]
    BY <1>0, <1>1, <1>2 DEF TypeOK
  <1>5. /\ call'[c] = [pc |-> "load", mgr |-> m, op |-> op, arg |-> arg, data |-> <<>>]
        /\ \A d \in Calls \ {c} : call'[d] = call[d]
        /\ call' = [d \in Calls |-> call'[d]]
    BY <1>0, <1>1 DEF CallsSound, Idle
  <1>6. /\ call'[c].pc = "load" /\ call'[c].mgr = m /\ call'[c].op = op /\ call'[c].data = <<>>
        /\ call[c].pc = "idle" /\ call[c].op = "none" /\ call[c].mgr = 0 /\ c # None
    BY <1>1, <1>5, LogAssumption DEF Idle
  <1>7. \A d \in Calls : call[d].mgr # m /\ (call[d].pc # "idle" => call[d].mgr \in Managers \ {m})
    <2> TAKE d \in Calls
    <2>1. CASE call[d].pc = "idle"
      BY <1>0, <1>2, <2>1, CallFacts
    <2>2. CASE call[d].pc # "idle"
      <3>1. call[d].mgr \in 1..made /\ call[d].mgr \in Managers
        BY <1>0, <2>2, CallFacts DEF CallsSound, CallSound
      <3> QED
        BY <1>0, <1>2, <3>1
    <2> QED
      BY <2>1, <2>2
  <1>8. \A n \in Managers : holder[n] # c
    BY <1>0, <1>6, Basics DEF LocksSound
  <1>9. TypeOK'
    <2>1. \A d \in Calls : call'[d].pc \in {"idle", "load", "wait", "have", "save"}
      BY <1>0, <1>5, <1>6 DEF TypeOK
    <2>2. \A n \in Managers : holder'[n] = None => queue'[n] = <<>>
      BY <1>0, <1>1, <1>4, <1>6 DEF TypeOK
    <2>3. made' \in 0..MaxManagers
      BY <1>0, <1>1
    <2> QED
      BY <1>0, <1>1, <1>4, <2>1, <2>2, <2>3 DEF TypeOK
  <1>10. CallsSound'
    <2>1. \A d \in Calls \ {c} : CallSound(d)'
      <3> TAKE d \in Calls \ {c}
      <3>1. CallSound(d) /\ call'[d] = call[d] /\ recorded' = recorded
        BY <1>0, <1>1, <1>5 DEF CallsSound
      <3>2. call[d].pc # "idle" => call[d].mgr \in 1..made'
        BY <1>0, <1>1, <3>1 DEF CallSound
      <3> QED
        BY <3>1, <3>2 DEF CallSound
    <2>2. CallSound(c)'
      <3>1. call'[c] = [pc |-> call'[c].pc, mgr |-> call'[c].mgr, op |-> call'[c].op,
                        arg |-> call'[c].arg, data |-> call'[c].data]
        BY <1>5
      <3>2. call'[c].data \in Seq(Logs)
        BY <1>6
      <3>3. call'[c].mgr \in 1..made'
        <4>1. m \in 1..m
          BY <1>0
        <4> QED
          BY <1>1, <1>6, <4>1
      <3> QED
        BY <1>6, <3>1, <3>2, <3>3 DEF CallSound
    <2>3. \A a, b \in Calls : call'[a].op = "stop" /\ call'[b].op = "stop" => a = b
      BY <1>0, <1>5, <1>6 DEF CallsSound
    <2> QED
      BY <1>5, <2>1, <2>2, <2>3 DEF CallsSound
  <1>11. ManagersSound'
    <2>1. current' <= made'
      BY <1>0, <1>1
    <2>2. \A n \in Managers : n > made' => holder'[n] = None /\ Untouched(n)'
      <3> SUFFICES ASSUME NEW n \in Managers, n > made'
                   PROVE  holder'[n] = None /\ Untouched(n)'
        OBVIOUS
      <3>1. n > made /\ n # m
        BY <1>0, <1>1, Basics
      <3> QED
        BY <1>0, <1>1, <1>4, <3>1 DEF ManagersSound, Untouched
    <2>3. ASSUME NEW d \in Calls, call'[d].pc = "load"
          PROVE  /\ call'[d].mgr # current' /\ queue'[call'[d].mgr] = <<>>
                 /\ ~pending'[call'[d].mgr] /\ writing'[call'[d].mgr] = Quiet
                 /\ \A e \in Calls \ {d} : call'[e].mgr # call'[d].mgr
      <3>1. CASE d = c
        BY <1>1, <1>2, <1>3, <1>5, <1>6, <1>7, <3>1 DEF Untouched
      <3>2. CASE d # c
        <4>1. call'[d] = call[d] /\ call[d].pc = "load"
          BY <1>5, <2>3, <3>2
        <4>2. /\ call[d].mgr # current /\ Untouched(call[d].mgr)
              /\ \A e \in Calls \ {d} : call[e].mgr # call[d].mgr
          BY <1>0, <4>1 DEF ManagersSound
        <4>3. \A e \in Calls \ {d} : call'[e].mgr # call[d].mgr
          BY <1>5, <1>6, <1>7, <4>2
        <4> QED
          BY <1>1, <4>1, <4>2, <4>3 DEF Untouched
      <3> QED
        BY <3>1, <3>2
    <2> QED
      BY <2>1, <2>2, <2>3 DEF ManagersSound, Untouched
  <1>12. LocksSound'
    <2>1. \A d \in Calls : call'[d].pc \in {"load", "save"} => holder'[call'[d].mgr] = d
      BY <1>0, <1>4, <1>5, <1>6, <1>7 DEF LocksSound
    <2>2. \A d \in Calls : call'[d].pc \in {"wait", "have"} =>
            holder'[call'[d].mgr] = d \/ d \in ToSet(queue'[call'[d].mgr])
      BY <1>0, <1>1, <1>4, <1>5, <1>6, <1>7 DEF LocksSound
    <2>3. \A n \in Managers : holder'[n] # None => call'[holder'[n]].mgr = n
      <3> SUFFICES ASSUME NEW n \in Managers, holder'[n] # None
                   PROVE  call'[holder'[n]].mgr = n
        OBVIOUS
      <3>1. CASE n = m
        BY <1>4, <1>6, <3>1
      <3>2. CASE n # m
        <4>0. holder \in [Managers -> Calls \cup {None}]
          BY <1>0 DEF TypeOK
        <4>1. holder'[n] = holder[n] /\ holder[n] \in Calls \ {c} /\ call[holder[n]].mgr = n
          BY <1>0, <1>4, <1>8, <3>2, <4>0 DEF LocksSound
        <4> QED
          BY <1>5, <4>1
      <3> QED
        BY <3>1, <3>2
    <2>4. ASSUME NEW n \in Managers, NEW i \in 1..Len(queue'[n])
          PROVE  /\ call'[queue'[n][i]].pc = "wait" /\ call'[queue'[n][i]].mgr = n
                 /\ queue'[n][i] # holder'[n]
                 /\ \A j \in 1..Len(queue'[n]) : queue'[n][i] = queue'[n][j] => i = j
      <3>1. n # m
        BY <1>1, <1>3, <2>4 DEF Untouched
      <3>2. /\ queue'[n] = queue[n] /\ holder'[n] = holder[n] /\ queue[n][i] \in Calls
            /\ call[queue[n][i]].pc = "wait" /\ call[queue[n][i]].mgr = n
            /\ queue[n][i] # holder[n]
            /\ \A j \in 1..Len(queue[n]) : queue[n][i] = queue[n][j] => i = j
        BY <1>0, <1>1, <1>4, <2>4, <3>1 DEF LocksSound, TypeOK
      <3>3. queue[n][i] # c
        BY <1>6, <3>2
      <3> QED
        BY <1>5, <3>2, <3>3
    <2> QED
      BY <2>1, <2>2, <2>3, <2>4 DEF LocksSound
  <1>13. \A d \in Calls : Records(d)' => d # c /\ Records(d) /\ call'[d] = call[d]
    BY <1>5, <1>6 DEF Records
  <1>14. Ordered'
    <2>1. ASSUME NEW a \in Calls, NEW b \in Calls, a # b, Records(a)', Records(b)',
                 call'[a].mgr = call'[b].mgr, holder'[call'[a].mgr] = a
          PROVE  call'[a].arg[1] < call'[b].arg[1]
      <3>1. a # c /\ Records(a) /\ Records(b) /\ call'[a] = call[a] /\ call'[b] = call[b]
        BY <1>13, <2>1
      <3>2. call[a].pc # "idle"
        BY <1>0, <3>1 DEF Records, CallsSound, CallSound
      <3>3. holder[call[a].mgr] = a
        BY <1>4, <1>7, <2>1, <3>1, <3>2
      <3> QED
        BY <1>0, <2>1, <3>1, <3>3 DEF Ordered
    <2>2. ASSUME NEW n \in Managers, NEW i \in 1..Len(queue'[n]), NEW j \in 1..Len(queue'[n]),
                 i < j, call'[queue'[n][i]].op = "record", call'[queue'[n][j]].op = "record"
          PROVE  call'[queue'[n][i]].arg[1] < call'[queue'[n][j]].arg[1]
      <3>1. queue'[n] = queue[n] /\ queue[n][i] \in Calls /\ queue[n][j] \in Calls
        BY <1>0, <1>1, <2>2 DEF TypeOK
      <3> QED
        BY <1>0, <1>13, <2>2, <3>1 DEF Ordered, Records
    <2> QED
      BY <2>1, <2>2 DEF Ordered, Records
  <1>15. \A d \in Calls : call'[d].pc = "save" \/ call[d].pc = "save" => d # c /\ call'[d] = call[d]
    BY <1>5, <1>6
  <1>16. Numbered'
    <2>1. \A x : Known(x)' => Known(x)
      BY <1>1, <1>15 DEF Known
    <2> QED
      BY <1>1, <1>13, <2>1 DEF IInv, Numbered
  <1>17. ListsSound'
    BY <1>1, <1>15 DEF IInv, ListsSound, Fits, Ascending
  <1>18. ~astray' => Follows'
    <2> SUFFICES ASSUME ~astray
                 PROVE  Follows'
      BY <1>1
    <2>1. FileFollows /\ ClearedNowhere /\ NoneMissing
      BY DEF IInv, Follows
    <2>2. FileFollows'
      <3>1. \A n \in Managers : Saving(n)' <=> Saving(n)
        BY <1>15 DEF Saving
      <3>2. \A d \in Calls : call'[d].op = "stop" => call'[d].mgr = current'
        BY <1>1, <1>5, <1>6, <2>1 DEF FileFollows
      <3> QED
        BY <1>1, <2>1, <3>1, <3>2 DEF FileFollows
    <2>3. ClearedNowhere'
      BY <1>1, <1>15, <2>1 DEF ClearedNowhere
    <2>4. NoneMissing'
      <3>1. Had' = Had /\ Coming' \subseteq Coming
        BY <1>1, <1>13 DEF Had, Coming, Records
      <3>2. \A n : Held(n) => Held(n)'
        <4>1. \A d \in Calls : Records(d) \/ call[d].pc = "save" => d # c /\ call'[d] = call[d]
          BY <1>5, <1>6 DEF Records
        <4> QED
          BY <4>1 DEF Held, Records
      <3> QED
        BY <1>1, <2>1, <3>1, <3>2 DEF NoneMissing, Number
    <2> QED
      BY <2>2, <2>3, <2>4 DEF Follows
  <1> QED
    BY <1>9, <1>10, <1>11, <1>12, <1>14, <1>16, <1>17, <1>18 DEF IInv

\* The new manager has read the file and becomes the current one.
LEMMA LoadedKeeps ==
  ASSUME IInv, NEW c \in Calls, Loaded(c)
  PROVE  IInv'
  <1> DEFINE m == call[c].mgr
             next == IF call[c].op = "setup" THEN Idle ELSE [call[c] EXCEPT !.pc = "have"]
  <1>0. /\ TypeOK /\ CallsSound /\ ManagersSound /\ LocksSound /\ Ordered /\ made \in Nat
    BY Basics DEF IInv
  <1>1. /\ call[c].pc = "load" /\ current' = m
        /\ entries' = [entries EXCEPT ![m] = disk]
        /\ astray' = (astray \/ current # 0)
        /\ call' = [call EXCEPT ![c] = next]
        /\ IF call[c].op = "setup" THEN holder' = [holder EXCEPT ![m] = None]
                                   ELSE holder' = holder
        /\ disk' = disk /\ made' = made /\ queue' = queue /\ pending' = pending
        /\ writing' = writing /\ recorded' = recorded /\ cleared' = cleared
    BY DEF Loaded
  <1>2. /\ m \in Managers /\ m # 0 /\ m \in 1..made /\ m <= made
        /\ holder[m] = c /\ m # current /\ Untouched(m)
        /\ \A d \in Calls \ {c} : call[d].mgr # m
        /\ call[c].op \in {"setup", "list", "clear"}
    BY <1>0, <1>1, CallFacts DEF ManagersSound, LocksSound, CallsSound, CallSound
  <1>3. /\ \A d \in Calls \ {c} : call'[d] = call[d]
        /\ call'[c] = next /\ call' = [d \in Calls |-> call'[d]]
    <2>1. call = [d \in Calls |-> call[d]]
      BY <1>0 DEF CallsSound
    <2> HIDE DEF next
    <2> QED
      BY <1>1, <2>1
  <1>4. \/ /\ call[c].op = "setup" /\ call'[c] = Idle
           /\ call'[c].pc = "idle" /\ call'[c].op = "none" /\ call'[c].mgr = 0
           /\ holder'[m] = None
        \/ /\ call[c].op # "setup" /\ holder'[m] = c
           /\ call'[c].pc = "have" /\ call'[c].mgr = m /\ call'[c].op = call[c].op
           /\ call'[c].data = call[c].data
           /\ call'[c] = [pc |-> "have", mgr |-> m, op |-> call[c].op,
                          arg |-> call[c].arg, data |-> call[c].data]
    <2>1. holder \in [Managers -> Calls \cup {None}]
      BY <1>0 DEF TypeOK
    <2>2. CASE call[c].op = "setup"
      BY <1>1, <1>2, <1>3, <2>1, <2>2 DEF Idle
    <2>3. CASE call[c].op # "setup"
      <3>1. call[c] = [pc |-> call[c].pc, mgr |-> m, op |-> call[c].op,
                       arg |-> call[c].arg, data |-> call[c].data]
        BY <1>0 DEF CallsSound, CallSound
      <3>2. [call[c] EXCEPT !.pc = "have"] =
            [pc |-> "have", mgr |-> m, op |-> call[c].op,
             arg |-> call[c].arg, data |-> call[c].data]
        BY <3>1
      <3> QED
        BY <1>1, <1>2, <1>3, <2>3, <3>2
    <2> QED
      BY <2>2, <2>3
  <1> HIDE DEF next
  <1>5. /\ holder' \in [Managers -> Calls \cup {None}]
        /\ \A n \in Managers \ {m} : holder'[n] = holder[n]
        /\ entries' \in [Managers -> Seq(Logs)] /\ entries'[m] = disk
        /\ \A n \in Managers \ {m} : entries'[n] = entries[n]
    BY <1>0, <1>1, <1>2 DEF TypeOK
  <1>6. /\ queue[m] = <<>> /\ ~pending[m] /\ writing[m] = Quiet
    BY <1>2 DEF Untouched
  <1>7. TypeOK'
    <2>1. \A d \in Calls : call'[d].pc \in {"idle", "load", "wait", "have", "save"}
      BY <1>0, <1>3, <1>4 DEF TypeOK
    <2>2. \A n \in Managers : holder'[n] = None => queue'[n] = <<>>
      BY <1>0, <1>1, <1>5, <1>6 DEF TypeOK
    <2>3. \A n \in Managers : Len(entries'[n]) <= Kept
      BY <1>0, <1>5 DEF TypeOK, IInv, ListsSound, Fits
    <2>4. astray' \in BOOLEAN
      BY <1>1
    <2> QED
      BY <1>0, <1>1, <1>2, <1>5, <2>1, <2>2, <2>3, <2>4 DEF TypeOK
  <1>8. CallsSound'
    <2>1. \A d \in Calls \ {c} : CallSound(d)'
      BY <1>0, <1>1, <1>3 DEF CallsSound, CallSound
    <2>2. CallSound(c)'
      <3>1. CASE call'[c] = Idle
        <4>1. Idle = [pc |-> Idle.pc, mgr |-> Idle.mgr, op |-> Idle.op, arg |-> Idle.arg, data |-> Idle.data]
          BY DEF Idle
        <4>2. Idle.pc = "idle" /\ Idle.op = "none" /\ Idle.data \in Seq(Logs)
          BY DEF Idle
        <4> QED
          BY <3>1, <4>1, <4>2 DEF CallSound
      <3>2. CASE call[c].op # "setup"
        <4>1. call'[c] = [pc |-> call'[c].pc, mgr |-> call'[c].mgr, op |-> call'[c].op,
                          arg |-> call'[c].arg, data |-> call'[c].data]
          BY <1>4, <3>2
        <4>2. /\ call'[c].data \in Seq(Logs) /\ call'[c].pc = "have" /\ call'[c].mgr \in 1..made'
              /\ call'[c].op # "record"
          BY <1>0, <1>1, <1>2, <1>4, <3>2 DEF CallsSound, CallSound
        <4> QED
          BY <4>1, <4>2 DEF CallSound
      <3> QED
        BY <1>4, <3>1, <3>2
    <2>3. \A a, b \in Calls : call'[a].op = "stop" /\ call'[b].op = "stop" => a = b
      BY <1>0, <1>3, <1>4 DEF CallsSound
    <2> QED
      BY <1>3, <2>1, <2>2, <2>3 DEF CallsSound
  <1>9. ManagersSound'
    <2>1. current' <= made'
      BY <1>1, <1>2
    <2>2. \A n \in Managers : n > made' => holder'[n] = None /\ Untouched(n)'
      <3> SUFFICES ASSUME NEW n \in Managers, n > made
                   PROVE  holder'[n] = None /\ Untouched(n)'
        BY <1>1
      <3>1. n # m
        BY <1>0, <1>2, Basics
      <3> QED
        BY <1>0, <1>1, <1>5, <3>1 DEF ManagersSound, Untouched
    <2>3. ASSUME NEW d \in Calls, call'[d].pc = "load"
          PROVE  /\ call'[d].mgr # current' /\ queue'[call'[d].mgr] = <<>>
                 /\ ~pending'[call'[d].mgr] /\ writing'[call'[d].mgr] = Quiet
                 /\ \A e \in Calls \ {d} : call'[e].mgr # call'[d].mgr
      <3>1. d # c /\ call'[d] = call[d] /\ call[d].pc = "load" /\ call[d].mgr # 0
        BY <1>0, <1>3, <1>4, <2>3, CallFacts
      <3>2. /\ Untouched(call[d].mgr) /\ call[d].mgr # m
            /\ \A e \in Calls \ {d} : call[e].mgr # call[d].mgr
        BY <1>0, <1>2, <3>1 DEF ManagersSound
      <3>3. \A e \in Calls \ {d} : call'[e].mgr # call[d].mgr
        BY <1>3, <1>4, <3>1, <3>2
      <3> QED
        BY <1>1, <3>1, <3>2, <3>3 DEF Untouched
    <2> QED
      BY <2>1, <2>2, <2>3 DEF ManagersSound, Untouched
  <1>10. LocksSound'
    <2>1. \A d \in Calls : call'[d].pc \in {"load", "save"} => holder'[call'[d].mgr] = d
      <3> SUFFICES ASSUME NEW d \in Calls, call'[d].pc \in {"load", "save"}
                   PROVE  holder'[call'[d].mgr] = d
        OBVIOUS
      <3>1. d # c /\ call'[d] = call[d] /\ call[d].mgr \in Managers \ {m}
        BY <1>0, <1>2, <1>3, <1>4, CallFacts
      <3> QED
        BY <1>0, <1>5, <3>1 DEF LocksSound
    <2>2. \A d \in Calls : call'[d].pc \in {"wait", "have"} =>
            holder'[call'[d].mgr] = d \/ d \in ToSet(queue'[call'[d].mgr])
      <3> SUFFICES ASSUME NEW d \in Calls, call'[d].pc \in {"wait", "have"}
                   PROVE  holder'[call'[d].mgr] = d \/ d \in ToSet(queue'[call'[d].mgr])
        OBVIOUS
      <3>1. CASE d = c
        BY <1>4, <3>1
      <3>2. CASE d # c
        <4>1. call'[d] = call[d] /\ call[d].mgr \in Managers \ {m}
          BY <1>0, <1>2, <1>3, <3>2, CallFacts
        <4> QED
          BY <1>0, <1>1, <1>5, <4>1 DEF LocksSound
      <3> QED
        BY <3>1, <3>2
    <2>3. \A n \in Managers : holder'[n] # None => call'[holder'[n]].mgr = n
      <3> SUFFICES ASSUME NEW n \in Managers, holder'[n] # None
                   PROVE  call'[holder'[n]].mgr = n
        OBVIOUS
      <3>1. CASE n = m
        BY <1>4, <3>1
      <3>2. CASE n # m
        <4>0. holder \in [Managers -> Calls \cup {None}]
          BY <1>0 DEF TypeOK
        <4>1. holder'[n] = holder[n] /\ holder[n] \in Calls /\ call[holder[n]].mgr = n
          BY <1>0, <1>5, <3>2, <4>0 DEF LocksSound
        <4>2. holder[n] # c
          BY <3>2, <4>1
        <4> QED
          BY <1>3, <4>1, <4>2
      <3> QED
        BY <3>1, <3>2
    <2>4. ASSUME NEW n \in Managers, NEW i \in 1..Len(queue'[n])
          PROVE  /\ call'[queue'[n][i]].pc = "wait" /\ call'[queue'[n][i]].mgr = n
                 /\ queue'[n][i] # holder'[n]
                 /\ \A j \in 1..Len(queue'[n]) : queue'[n][i] = queue'[n][j] => i = j
      <3>1. n # m
        BY <1>1, <1>6, <2>4
      <3>2. /\ queue'[n] = queue[n] /\ holder'[n] = holder[n] /\ queue[n][i] \in Calls
            /\ call[queue[n][i]].pc = "wait" /\ call[queue[n][i]].mgr = n
            /\ queue[n][i] # holder[n]
            /\ \A j \in 1..Len(queue[n]) : queue[n][i] = queue[n][j] => i = j
        BY <1>0, <1>1, <1>5, <2>4, <3>1 DEF LocksSound, TypeOK
      <3>3. queue[n][i] # c
        BY <1>1, <3>2
      <3> QED
        BY <1>3, <3>2, <3>3
    <2> QED
      BY <2>1, <2>2, <2>3, <2>4 DEF LocksSound
  <1>11. \A d \in Calls : Records(d)' => d # c /\ Records(d) /\ call'[d] = call[d]
    BY <1>2, <1>3, <1>4 DEF Records
  <1>12. Ordered'
    <2>1. ASSUME NEW a \in Calls, NEW b \in Calls, a # b, Records(a)', Records(b)',
                 call'[a].mgr = call'[b].mgr, holder'[call'[a].mgr] = a
          PROVE  call'[a].arg[1] < call'[b].arg[1]
      <3>1. a # c /\ Records(a) /\ Records(b) /\ call'[a] = call[a] /\ call'[b] = call[b]
        BY <1>11, <2>1
      <3>2. call[a].mgr \in Managers \ {m}
        BY <1>0, <1>2, <3>1, CallFacts DEF Records, CallsSound, CallSound
      <3>3. holder[call[a].mgr] = a
        BY <1>5, <2>1, <3>1, <3>2
      <3> QED
        BY <1>0, <2>1, <3>1, <3>3 DEF Ordered
    <2>2. ASSUME NEW n \in Managers, NEW i \in 1..Len(queue'[n]), NEW j \in 1..Len(queue'[n]),
                 i < j, call'[queue'[n][i]].op = "record", call'[queue'[n][j]].op = "record"
          PROVE  call'[queue'[n][i]].arg[1] < call'[queue'[n][j]].arg[1]
      <3>1. queue'[n] = queue[n] /\ queue[n][i] \in Calls /\ queue[n][j] \in Calls
        BY <1>0, <1>1, <2>2 DEF TypeOK
      <3> QED
        BY <1>0, <1>11, <2>2, <3>1 DEF Ordered, Records
    <2> QED
      BY <2>1, <2>2 DEF Ordered, Records
  <1>13. \A d \in Calls : call'[d].pc = "save" \/ call[d].pc = "save" =>
           d # c /\ call'[d] = call[d] /\ (call[d].pc = "save" => call[d].mgr \in Managers \ {m})
    BY <1>0, <1>1, <1>2, <1>3, <1>4, CallFacts
  <1>14. Numbered'
    <2>1. ASSUME NEW x, Known(x)'
          PROVE  Known(x)
      <3>1. \A n \in Managers : x \in ToSet(entries'[n]) =>
              x \in ToSet(disk) \/ \E k \in Managers : x \in ToSet(entries[k])
        BY <1>5
      <3> QED
        BY <1>1, <1>13, <2>1, <3>1 DEF Known
    <2>2. \A d \in Calls : Records(d)' => call[d].mgr \in Managers \ {m}
      BY <1>0, <1>2, <1>11, CallFacts DEF Records, CallsSound, CallSound
    <2>3. \A x \in Logs : Known(x)' =>
            x[1] <= recorded' /\ \A d \in Calls : Records(d)' => call'[d].arg # x
      BY <1>1, <1>11, <2>1 DEF IInv, Numbered
    <2>4. ASSUME NEW d \in Calls, Records(d)', NEW x \in ToSet(entries'[call'[d].mgr])
          PROVE  x[1] < call'[d].arg[1]
      BY <1>5, <1>11, <2>2, <2>4 DEF IInv, Numbered
    <2> QED
      BY <2>3, <2>4 DEF Numbered
  <1>15. ListsSound'
    <2>1. Fits(disk)' /\ \A n \in Managers : Fits(entries'[n])
      BY <1>1, <1>5 DEF IInv, ListsSound, Fits, Ascending
    <2>2. \A n \in Managers : writing'[n] # Quiet => Fits(writing'[n])
      BY <1>1 DEF IInv, ListsSound
    <2>3. \A d \in Calls : call'[d].pc = "save" =>
            call'[d].data = entries'[call'[d].mgr] /\ ~pending'[call'[d].mgr]
      BY <1>1, <1>5, <1>13 DEF IInv, ListsSound
    <2> QED
      BY <2>1, <2>2, <2>3 DEF ListsSound, Fits, Ascending
  <1>16. ~astray' => Follows'
    <2> SUFFICES ASSUME ~astray'
                 PROVE  Follows'
      OBVIOUS
    <2>1. FileFollows /\ ClearedNowhere /\ NoneMissing /\ current = 0
      BY <1>1 DEF IInv, Follows
    <2>2. \A n \in Managers : n # 0 /\ ~pending[n] /\ writing[n] = Quiet /\ ~Saving(n)
      BY <2>1, Basics DEF FileFollows
    <2>3. \A n \in Managers : Saving(n)' <=> Saving(n)
      BY <1>13 DEF Saving
    <2>4. FileFollows'
      <3>1. \A d \in Calls : call'[d].op # "stop"
        <4>1. \A d \in Calls : call[d].op = "stop" => call[d].pc # "idle" /\ call[d].mgr = 0
          BY <1>0, <2>1, CallFacts DEF FileFollows
        <4>2. \A d \in Calls : call[d].op # "stop"
          BY <1>0, <4>1, CallFacts
        <4> QED
          BY <1>3, <1>4, <4>2
      <3>2. entries'[m] = disk' /\ writing'[m] = Quiet
        BY <1>1, <1>5, <1>6
      <3> QED
        BY <1>1, <2>2, <2>3, <3>1, <3>2 DEF FileFollows
    <2>5. ClearedNowhere'
      <3>1. \A d \in Calls : call'[d].pc = "save" /\ call'[d].op = "clear" =>
              ToSet(entries'[call'[d].mgr]) \cap call'[d].arg = {}
        BY <1>5, <1>13, <2>1 DEF ClearedNowhere
      <3>2. ToSet(entries'[m]) \cap cleared = {} /\ ToSet(disk) \cap cleared = {}
        BY <1>5, <2>1 DEF ClearedNowhere
      <3>3. \A n \in Managers : writing'[n] # Quiet => ToSet(writing'[n]) \cap cleared = {}
        BY <1>1, <2>1 DEF ClearedNowhere
      <3> QED
        BY <1>1, <3>1, <3>2, <3>3 DEF ClearedNowhere
    <2>6. NoneMissing'
      <3>1. Had' = Had
        BY <1>1, <1>2, <1>5, <2>1 DEF Had
      <3>2. Coming' = {}
        BY <1>1, <1>2, <1>11 DEF Coming
      <3>3. \A n : Held(n) => Held(n)'
        <4>1. \A d \in Calls : Records(d) \/ call[d].pc = "save" => d # c /\ call'[d] = call[d]
          BY <1>1, <1>2, <1>3 DEF Records
        <4> QED
          BY <4>1 DEF Held, Records
      <3> QED
        BY <1>1, <2>1, <3>1, <3>2, <3>3 DEF NoneMissing, Number
    <2> QED
      BY <2>4, <2>5, <2>6 DEF Follows
  <1> QED
    BY <1>7, <1>8, <1>9, <1>10, <1>12, <1>14, <1>15, <1>16 DEF IInv

\* A step that leaves the calls and the locks alone.
LEMMA CallsStay ==
  ASSUME IInv, call' = call, holder' = holder, queue' = queue, made' = made,
         current' = current, recorded' \in {recorded, recorded + 1},
         \A m \in Managers : m > made \/ (\E c \in Calls : call[c].pc = "load" /\ call[c].mgr = m)
           => pending'[m] = pending[m] /\ writing'[m] = writing[m]
  PROVE  CallsSound' /\ ManagersSound' /\ LocksSound' /\ Ordered'
  <1>0. /\ TypeOK /\ CallsSound /\ ManagersSound /\ LocksSound /\ Ordered
        /\ recorded \in Nat /\ \A x \in Logs : x[1] \in Nat
    BY Basics DEF IInv
  <1>1. CallsSound'
    <2>1. \A c \in Calls : CallSound(c)'
      <3> TAKE c \in Calls
      <3>1. CallSound(c)
        BY <1>0 DEF CallsSound
      <3>2. call[c].op = "record" => call[c].arg[1] \in Nat
        BY <1>0, <3>1 DEF CallSound
      <3>3. call[c].op = "record" => call[c].arg[1] <= recorded'
        BY <1>0, <3>1, <3>2 DEF CallSound
      <3> QED
        BY <3>1, <3>3 DEF CallSound
    <2> QED
      BY <1>0, <2>1 DEF CallsSound
  <1>2. ManagersSound'
    <2>1. \A c \in Calls : call[c].pc = "load" => call[c].mgr \in Managers
      BY <1>0, CallFacts
    <2> QED
      BY <1>0, <2>1 DEF ManagersSound, Untouched
  <1>3. LocksSound'
    BY <1>0 DEF LocksSound
  <1>4. Ordered'
    BY <1>0 DEF Ordered, Records
  <1> QED
    BY <1>1, <1>2, <1>3, <1>4

\* A record that finds the lock free.
LEMMA RecordAtOnceKeeps ==
  ASSUME IInv, NEW c \in Calls, RecordAtOnce(c)
  PROVE  IInv'
  <1> DEFINE m == current
             log == NextLog(c)
             new == Newest(Append(entries[m], log))
  <1>0. /\ TypeOK /\ CallsSound /\ ManagersSound /\ LocksSound /\ Ordered
        /\ recorded \in Nat /\ MaxLogs \in Nat /\ made \in Nat
        /\ \A x \in Logs : x[1] \in Nat
    BY Basics DEF IInv
  <1>1. /\ recorded < MaxLogs /\ current # 0 /\ holder[m] = None
        /\ recorded' = recorded + 1
        /\ entries' = [entries EXCEPT ![m] = new]
        /\ pending' = [pending EXCEPT ![m] = TRUE]
        /\ disk' = disk /\ current' = current /\ made' = made /\ holder' = holder
        /\ queue' = queue /\ writing' = writing /\ call' = call /\ cleared' = cleared
        /\ astray' = astray
    BY DEF RecordAtOnce, DelaySave
  <1>2. m \in Managers /\ m <= made /\ entries[m] \in Seq(Logs) /\ ToSet(entries[m]) \subseteq Logs
    BY <1>1, Basics
  <1>3. log \in Logs /\ log[1] = recorded + 1
    <2>1. log = <<recorded + 1, c>> /\ recorded + 1 \in 1..MaxLogs
      BY <1>0, <1>1 DEF NextLog
    <2> QED
      BY <2>1 DEF Logs
  <1> HIDE DEF log
  <1>4. /\ \A x \in Logs : Known(x) => x[1] <= recorded
        /\ \A x \in Logs : Known(x) => x # log /\ x[1] < log[1]
    BY <1>0, <1>3 DEF IInv, Numbered
  <1>5. Fits(entries[m]) /\ \A x \in ToSet(entries[m]) : Known(x) /\ x[1] < log[1]
    BY <1>2, <1>4 DEF IInv, ListsSound, Known
  <1>6. /\ new \in Seq(Logs) /\ Fits(new) /\ log \in ToSet(new)
        /\ ToSet(new) \subseteq ToSet(entries[m]) \cup {log}
        /\ \A x \in ToSet(entries[m]), y \in ToSet(new) : y[1] < x[1] => x \in ToSet(new)
    BY <1>2, <1>3, <1>5, NewestKeeps
  <1> HIDE DEF new
  <1>7. /\ entries'[m] = new /\ pending'[m] = TRUE
        /\ \A n \in Managers \ {m} : entries'[n] = entries[n] /\ pending'[n] = pending[n]
        /\ entries' \in [Managers -> Seq(Logs)] /\ pending' \in [Managers -> BOOLEAN]
    BY <1>0, <1>1, <1>2, <1>6 DEF TypeOK
  <1>8. \A d \in Calls : call[d].mgr = m => call[d].pc \notin {"load", "save", "wait", "have"}
    <2>1. queue[m] = <<>>
      BY <1>0, <1>1, <1>2 DEF TypeOK
    <2>2. \A d \in Calls : d \notin ToSet(queue[m])
      <3>1. queue[m] \in Seq(Calls) /\ Len(queue[m]) = 0
        BY <2>1
      <3>2. 1..0 = {}
        OBVIOUS
      <3> QED
        BY <3>1, <3>2, InQueue
    <2>3. None \notin Calls
      BY LogAssumption
    <2>4. \A d \in Calls : call[d].pc \in {"load", "save", "wait", "have"} =>
            holder[call[d].mgr] = d \/ d \in ToSet(queue[call[d].mgr])
      BY <1>0 DEF LocksSound
    <2> QED
      BY <1>1, <2>2, <2>3, <2>4
  <1>9. \A d \in Calls : Records(d) => call[d].pc = "wait" /\ call[d].mgr # m /\ call[d].mgr \in Managers
    BY <1>0, <1>8, CallFacts DEF Records, CallsSound, CallSound
  <1>10. \A d \in Calls : call[d].pc = "save" => call[d].mgr \in Managers \ {m}
    BY <1>0, <1>8, CallFacts
  <1>11. CallsSound' /\ ManagersSound' /\ LocksSound' /\ Ordered'
    <2>1. \A n \in Managers : n > made \/ (\E d \in Calls : call[d].pc = "load" /\ call[d].mgr = n)
            => n # m
      BY <1>2, <1>8, <1>0, Basics
    <2>2. \A n \in Managers : n > made \/ (\E d \in Calls : call[d].pc = "load" /\ call[d].mgr = n)
            => pending'[n] = pending[n] /\ writing'[n] = writing[n]
      BY <1>1, <1>7, <2>1
    <2> QED
      BY <1>1, <2>2, CallsStay
  <1>12. TypeOK'
    <2>1. \A n \in Managers : Len(entries'[n]) <= Kept
      BY <1>0, <1>6, <1>7 DEF TypeOK, Fits
    <2>2. recorded' \in 0..MaxLogs
      BY <1>0, <1>1
    <2> QED
      BY <1>0, <1>1, <1>7, <2>1, <2>2 DEF TypeOK
  <1>13. Numbered'
    <2>1. ASSUME NEW x \in Logs, Known(x)'
          PROVE  Known(x) \/ x = log
      <3>1. \A n \in Managers : x \in ToSet(entries'[n]) =>
              x = log \/ \E k \in Managers : x \in ToSet(entries[k])
        BY <1>2, <1>6, <1>7
      <3> QED
        BY <1>1, <2>1, <3>1 DEF Known
    <2>2. ASSUME NEW x \in Logs, Known(x)'
          PROVE  x[1] <= recorded' /\ \A d \in Calls : Records(d)' => call'[d].arg # x
      <3>1. CASE Known(x)
        <4>1. x[1] <= recorded /\ \A d \in Calls : Records(d) => call[d].arg # x
          BY <3>1 DEF IInv, Numbered
        <4> QED
          BY <1>0, <1>1, <4>1 DEF Records
      <3>2. CASE x = log
        <4>1. \A d \in Calls : Records(d) => call[d].arg \in Logs /\ call[d].arg[1] <= recorded
          BY <1>0 DEF Records, CallsSound, CallSound
        <4>2. \A d \in Calls : Records(d) => call[d].arg # log
          BY <1>0, <1>3, <4>1
        <4> QED
          BY <1>0, <1>1, <1>3, <3>2, <4>2 DEF Records
      <3> QED
        BY <2>1, <2>2, <3>1, <3>2
    <2>3. \A d \in Calls : Records(d)' =>
            \A x \in ToSet(entries'[call'[d].mgr]) : x[1] < call'[d].arg[1]
      BY <1>1, <1>7, <1>9 DEF IInv, Numbered, Records
    <2> QED
      BY <2>2, <2>3 DEF Numbered
  <1>14. ListsSound'
    <2>1. \A n \in Managers : Fits(entries'[n])
      BY <1>6, <1>7 DEF IInv, ListsSound
    <2>2. \A d \in Calls : call'[d].pc = "save" =>
            call'[d].data = entries'[call'[d].mgr] /\ ~pending'[call'[d].mgr]
      BY <1>1, <1>7, <1>10 DEF IInv, ListsSound
    <2> QED
      BY <1>1, <2>1, <2>2 DEF IInv, ListsSound, Fits, Ascending
  <1>15. ~astray' => Follows'
    <2> SUFFICES ASSUME ~astray
                 PROVE  Follows'
      BY <1>1
    <2>1. FileFollows /\ ClearedNowhere /\ NoneMissing
      BY DEF IInv, Follows
    <2>2. FileFollows'
      <3>1. \A n \in Managers : Saving(n)' <=> Saving(n)
        BY <1>1 DEF Saving
      <3> QED
        BY <1>1, <1>7, <2>1, <3>1 DEF FileFollows
    <2>3. ClearedNowhere'
      <3>1. log \notin cleared
        BY <1>3, <1>4 DEF Known
      <3>2. ToSet(entries'[m]) \cap cleared = {}
        BY <1>1, <1>6, <1>7, <2>1, <3>1 DEF ClearedNowhere
      <3>3. \A d \in Calls : call'[d].pc = "save" /\ call'[d].op = "clear" =>
              ToSet(entries'[call'[d].mgr]) \cap call'[d].arg = {}
        BY <1>1, <1>7, <1>10, <2>1 DEF ClearedNowhere
      <3> QED
        BY <1>1, <2>1, <3>2, <3>3 DEF ClearedNowhere
    <2>4. NoneMissing'
      <3>1. Had = ToSet(entries[m]) /\ Had' = ToSet(new)
        BY <1>1, <1>7 DEF Had
      <3>2. Coming' = {}
        BY <1>1, <1>9 DEF Coming, Records
      <3>3. \A n : Held(n) => Held(n)'
        BY <1>1 DEF Held, Records, Number
      <3>4. ASSUME NEW x \in Had', NEW n \in (x[1] + 1)..(recorded + 1)
            PROVE  Number(n, Had') \/ Number(n, cleared) \/ Held(n)'
        <4>0. x \in Logs /\ x[1] \in Nat /\ n \in Int /\ x[1] < n
          BY <1>0, <1>2, <1>3, <1>6, <3>1, <3>4
        <4>1. CASE n = recorded + 1
          BY <1>3, <1>6, <3>1, <4>1 DEF Number
        <4>2. CASE n # recorded + 1
          <5>1. n \in (x[1] + 1)..recorded
            BY <1>0, <3>4, <4>0, <4>2
          <5>2. x \in Had
            BY <1>0, <1>3, <1>6, <3>1, <3>4, <4>0, <5>1
          <5>3. Number(n, Had) \/ Number(n, cleared) \/ Held(n)
            BY <2>1, <5>1, <5>2 DEF NoneMissing
          <5>4. CASE Number(n, Had)
            <6>1. PICK y \in Had : y[1] = n
              BY <5>4 DEF Number
            <6>2. y \in Had'
              BY <1>6, <3>1, <4>0, <6>1
            <6> QED
              BY <6>1, <6>2 DEF Number
          <5> QED
            BY <3>3, <5>3, <5>4
        <4> QED
          BY <4>1, <4>2
      <3> QED
        BY <1>1, <3>2, <3>4 DEF NoneMissing, Number
    <2> QED
      BY <2>2, <2>3, <2>4 DEF Follows
  <1> QED
    BY <1>11, <1>12, <1>13, <1>14, <1>15 DEF IInv

\* A delayed save begins to write what its manager has.
LEMMA DelayKeeps ==
  ASSUME IInv, NEW m \in Managers, DelayOver(m)
  PROVE  IInv'
  <1>0. TypeOK /\ CallsSound /\ ManagersSound
    BY DEF IInv
  <1>1. /\ pending[m] /\ writing[m] = Quiet
        /\ pending' = [pending EXCEPT ![m] = FALSE]
        /\ writing' = [writing EXCEPT ![m] = entries[m]]
        /\ disk' = disk /\ current' = current /\ made' = made /\ entries' = entries
        /\ holder' = holder /\ queue' = queue /\ call' = call /\ recorded' = recorded
        /\ cleared' = cleared /\ astray' = astray
    BY DEF DelayOver
  <1>2. entries[m] \in Seq(Logs) /\ entries[m] # Quiet /\ Fits(entries[m])
    BY Basics, QuietIsNoList DEF IInv, ListsSound
  <1>3. /\ pending' \in [Managers -> BOOLEAN] /\ writing' \in [Managers -> Seq(Logs) \cup {Quiet}]
        /\ ~pending'[m] /\ writing'[m] = entries[m]
        /\ \A n \in Managers \ {m} : pending'[n] = pending[n] /\ writing'[n] = writing[n]
    BY <1>0, <1>1, <1>2 DEF TypeOK
  <1>4. \A n \in Managers : n > made \/ (\E c \in Calls : call[c].pc = "load" /\ call[c].mgr = n) => n # m
    BY <1>0, <1>1 DEF ManagersSound, Untouched
  <1>5. CallsSound' /\ ManagersSound' /\ LocksSound' /\ Ordered'
    <2>1. \A n \in Managers : n > made \/ (\E c \in Calls : call[c].pc = "load" /\ call[c].mgr = n)
            => pending'[n] = pending[n] /\ writing'[n] = writing[n]
      BY <1>3, <1>4
    <2> QED
      BY <1>1, <2>1, CallsStay
  <1>6. TypeOK'
    BY <1>0, <1>1, <1>3 DEF TypeOK
  <1>7. Numbered'
    <2>1. ASSUME NEW x, Known(x)'
          PROVE  Known(x)
      <3>1. \A n \in Managers : writing'[n] # Quiet /\ x \in ToSet(writing'[n]) =>
              \/ x \in ToSet(entries[m])
              \/ writing[n] # Quiet /\ x \in ToSet(writing[n])
        BY <1>3
      <3> QED
        BY <1>1, <2>1, <3>1 DEF Known
    <2> QED
      BY <1>1, <2>1 DEF IInv, Numbered, Records
  <1>8. ListsSound'
    <2>1. \A n \in Managers : writing'[n] # Quiet => Fits(writing'[n])
      BY <1>2, <1>3 DEF IInv, ListsSound
    <2>2. \A c \in Calls : call[c].pc = "save" => call[c].mgr \in Managers
      BY <1>0, CallFacts
    <2>3. \A c \in Calls : call'[c].pc = "save" =>
            call'[c].data = entries'[call'[c].mgr] /\ ~pending'[call'[c].mgr]
      BY <1>1, <1>3, <2>2 DEF IInv, ListsSound
    <2> QED
      BY <1>1, <2>1, <2>3 DEF IInv, ListsSound, Fits, Ascending
  <1>9. ~astray' => Follows'
    <2> SUFFICES ASSUME ~astray
                 PROVE  Follows'
      BY <1>1
    <2>1. FileFollows /\ ClearedNowhere /\ NoneMissing /\ m = current /\ m # 0
      BY <1>1, Basics DEF IInv, Follows, FileFollows
    <2>2. FileFollows'
      <3>1. \A n \in Managers : Saving(n)' <=> Saving(n)
        BY <1>1 DEF Saving
      <3> QED
        BY <1>1, <1>2, <1>3, <2>1, <3>1 DEF FileFollows
    <2>3. ClearedNowhere'
      BY <1>1, <1>3, <2>1 DEF ClearedNowhere
    <2>4. NoneMissing'
      BY <1>1, <2>1 DEF NoneMissing, Had, Coming, Held, Number, Records
    <2> QED
      BY <2>2, <2>3, <2>4 DEF Follows
  <1> QED
    BY <1>5, <1>6, <1>7, <1>8, <1>9 DEF IInv

\* A delayed save has written.
LEMMA WrittenKeeps ==
  ASSUME IInv, NEW m \in Managers, Written(m)
  PROVE  IInv'
  <1>0. TypeOK /\ CallsSound /\ ManagersSound
    BY DEF IInv
  <1>1. /\ writing[m] # Quiet /\ disk' = writing[m]
        /\ writing' = [writing EXCEPT ![m] = Quiet]
        /\ current' = current /\ made' = made /\ entries' = entries
        /\ holder' = holder /\ queue' = queue /\ pending' = pending /\ call' = call
        /\ recorded' = recorded /\ cleared' = cleared /\ astray' = astray
    BY DEF Written
  <1>2. writing[m] \in Seq(Logs) /\ Fits(writing[m])
    BY <1>1, Basics DEF IInv, ListsSound
  <1>3. /\ writing' \in [Managers -> Seq(Logs) \cup {Quiet}] /\ writing'[m] = Quiet
        /\ \A n \in Managers \ {m} : writing'[n] = writing[n]
    BY <1>0, <1>1 DEF TypeOK
  <1>4. \A n \in Managers : n > made \/ (\E c \in Calls : call[c].pc = "load" /\ call[c].mgr = n) => n # m
    BY <1>0, <1>1 DEF ManagersSound, Untouched
  <1>5. CallsSound' /\ ManagersSound' /\ LocksSound' /\ Ordered'
    <2>1. \A n \in Managers : n > made \/ (\E c \in Calls : call[c].pc = "load" /\ call[c].mgr = n)
            => pending'[n] = pending[n] /\ writing'[n] = writing[n]
      BY <1>1, <1>3, <1>4
    <2> QED
      BY <1>1, <2>1, CallsStay
  <1>6. TypeOK'
    BY <1>0, <1>1, <1>2, <1>3 DEF TypeOK
  <1>7. Numbered'
    <2>1. ASSUME NEW x, Known(x)'
          PROVE  Known(x)
      BY <1>1, <1>3, <2>1 DEF Known
    <2> QED
      BY <1>1, <2>1 DEF IInv, Numbered, Records
  <1>8. ListsSound'
    <2>1. \A n \in Managers : writing'[n] # Quiet => Fits(writing'[n])
      BY <1>3 DEF IInv, ListsSound
    <2> QED
      BY <1>1, <1>2, <2>1 DEF IInv, ListsSound, Fits, Ascending
  <1>9. ~astray' => Follows'
    <2> SUFFICES ASSUME ~astray
                 PROVE  Follows'
      BY <1>1
    <2>1. FileFollows /\ ClearedNowhere /\ NoneMissing /\ m = current /\ m # 0
      BY <1>1, Basics DEF IInv, Follows, FileFollows
    <2>2. FileFollows'
      <3>1. \A n \in Managers : Saving(n)' <=> Saving(n)
        BY <1>1 DEF Saving
      <3> QED
        BY <1>1, <1>3, <2>1, <3>1 DEF FileFollows
    <2>3. ClearedNowhere'
      BY <1>1, <1>3, <2>1 DEF ClearedNowhere
    <2>4. NoneMissing'
      BY <1>1, <2>1 DEF NoneMissing, Had, Coming, Held, Number, Records
    <2> QED
      BY <2>2, <2>3, <2>4 DEF Follows
  <1> QED
    BY <1>5, <1>6, <1>7, <1>8, <1>9 DEF IInv

LEMMA StutterKeeps ==
  ASSUME IInv, UNCHANGED vars
  PROVE  IInv'
  <1>1. /\ disk' = disk /\ current' = current /\ made' = made /\ entries' = entries
        /\ holder' = holder /\ queue' = queue /\ pending' = pending /\ writing' = writing
        /\ call' = call /\ recorded' = recorded /\ cleared' = cleared /\ astray' = astray
    BY DEF vars
  <1>2. CallsSound' /\ ManagersSound' /\ LocksSound' /\ Ordered'
    BY <1>1, CallsStay
  <1>3. TypeOK'
    BY <1>1 DEF IInv, TypeOK
  <1>4. Numbered'
    BY <1>1 DEF IInv, Numbered, Known, Records
  <1>5. ListsSound'
    BY <1>1 DEF IInv, ListsSound, Fits, Ascending
  <1>6. ~astray' => Follows'
    <2> SUFFICES ASSUME ~astray
                 PROVE  Follows'
      BY <1>1
    <2>1. FileFollows /\ ClearedNowhere /\ NoneMissing
      BY DEF IInv, Follows
    <2>2. FileFollows'
      BY <1>1, <2>1 DEF FileFollows, Saving
    <2>3. ClearedNowhere'
      BY <1>1, <2>1 DEF ClearedNowhere
    <2>4. NoneMissing'
      BY <1>1, <2>1 DEF NoneMissing, Had, Coming, Held, Number, Records
    <2> QED
      BY <2>2, <2>3, <2>4 DEF Follows
  <1> QED
    BY <1>2, <1>3, <1>4, <1>5, <1>6 DEF IInv

LEMMA InitIInv ==
  ASSUME Init
  PROVE  IInv
  <1>1. /\ disk = <<>> /\ current = 0 /\ made = 0 /\ recorded = 0 /\ cleared = {} /\ ~astray
        /\ entries = [m \in Managers |-> <<>>] /\ holder = [m \in Managers |-> None]
        /\ queue = [m \in Managers |-> <<>>] /\ pending = [m \in Managers |-> FALSE]
        /\ writing = [m \in Managers |-> Quiet] /\ call = [c \in Calls |-> Idle]
        /\ astray \in BOOLEAN
    BY DEF Init
  <1>2. /\ \A c \in Calls : call[c] = Idle
        /\ Idle = [pc |-> "idle", mgr |-> 0, op |-> "none", arg |-> None, data |-> <<>>]
    BY <1>1 DEF Idle
  <1>3. /\ Idle.pc = "idle" /\ Idle.mgr = 0 /\ Idle.op = "none" /\ Idle.data = <<>>
        /\ <<>> \in Seq(Logs) /\ <<>> \in Seq(Calls) /\ Len(<<>>) = 0
    BY <1>2
  <1>4. MaxManagers \in Nat /\ MaxLogs \in Nat /\ Kept \in Nat
    BY LogAssumption
  <1>5. ToSet(disk) = {}
    BY <1>1 DEF ToSet
  <1>6. \A m \in Managers : ToSet(entries[m]) = {}
    BY <1>1 DEF ToSet
  <1>7. TypeOK
    BY <1>1, <1>2, <1>3, <1>4 DEF TypeOK
  <1>8. CallsSound
    <2>1. \A c \in Calls : CallSound(c)
      <3>1. Idle = [pc |-> Idle.pc, mgr |-> Idle.mgr, op |-> Idle.op, arg |-> Idle.arg, data |-> Idle.data]
        BY <1>2
      <3> QED
        BY <1>2, <1>3, <3>1 DEF CallSound
    <2> QED
      BY <1>1, <1>2, <1>3, <2>1 DEF CallsSound
  <1>9. ManagersSound
    BY <1>1, <1>2, <1>3 DEF ManagersSound, Untouched
  <1>10. LocksSound
    BY <1>1, <1>2, <1>3 DEF LocksSound
  <1>11. Ordered
    BY <1>1, <1>2, <1>3 DEF Ordered, Records
  <1>12. Numbered
    BY <1>1, <1>2, <1>3, <1>5, <1>6 DEF Numbered, Known, Records
  <1>13. ListsSound
    <2>1. Fits(<<>>)
      BY <1>3, <1>4 DEF Fits, Ascending
    <2> QED
      BY <1>1, <1>2, <1>3, <2>1 DEF ListsSound
  <1>14. Follows
    <2>1. FileFollows
      <3>1. \A m \in Managers : ~Saving(m)
        BY <1>2, <1>3 DEF Saving
      <3>2. \A m \in Managers : ~pending[m] /\ writing[m] = Quiet
        BY <1>1
      <3>3. \A c \in Calls : call[c].op # "stop"
        BY <1>2, <1>3
      <3> QED
        BY <1>1, <3>1, <3>2, <3>3 DEF FileFollows
    <2>2. ClearedNowhere
      BY <1>1, <1>2, <1>3 DEF ClearedNowhere
    <2>3. NoneMissing
      <3>1. Had = {}
        BY <1>1, <1>5 DEF Had
      <3>2. Coming = {}
        BY <1>2, <1>3 DEF Coming, Records
      <3> QED
        BY <3>1, <3>2 DEF NoneMissing
    <2> QED
      BY <2>1, <2>2, <2>3 DEF Follows
  <1> QED
    BY <1>7, <1>8, <1>9, <1>10, <1>11, <1>12, <1>13, <1>14 DEF IInv

-----------------------------------------------------------------------------
(* Theorems *)

\* Every step of the calls, of the delayed saves and of the file keeps the
\* inductive invariant, whatever the number of calls and the sizes.
THEOREM InvariantHolds == Spec => []IInv
  <1>1. Init => IInv
    BY InitIInv
  <1>2. ASSUME IInv, [Next]_vars
        PROVE  IInv'
    <2>1. ASSUME NEW c \in Calls, GoesOn(c)
          PROVE  IInv'
      <3>1. CASE Loaded(c)
        BY <1>2, <3>1, LoadedKeeps
      <3>2. CASE RecordGetsLock(c)
        BY <1>2, <3>2, RecordKeeps
      <3>3. CASE List(c)
        BY <1>2, <3>3, ListKeeps DEF List
      <3>4. CASE ClearNothing(c)
        BY <1>2, <3>4, ListKeeps DEF ClearNothing
      <3>5. CASE ClearSome(c)
        BY <1>2, <3>5, ClearKeeps
      <3>6. CASE SaveForStop(c)
        BY <1>2, <3>6, StopKeeps
      <3>7. CASE Saved(c)
        BY <1>2, <3>7, SavedKeeps
      <3> QED
        BY <2>1, <3>1, <3>2, <3>3, <3>4, <3>5, <3>6, <3>7 DEF GoesOn
    <2>2. ASSUME NEW c \in Calls, NEW op \in {"setup", "list", "clear"}, NEW arg,
                 FindManager(c, op, arg)
          PROVE  IInv'
      <3>1. CASE op = "setup"
        <4>1. UNCHANGED vars
          BY <2>2, <3>1 DEF FindManager, vars
        <4> QED
          BY <1>2, <4>1, StutterKeeps
      <3>2. CASE op # "setup"
        <4>1. /\ call[c] = Idle /\ current # 0 /\ Lock(c, current, op, arg)
              /\ op \in {"list", "clear", "stop", "record"}
              /\ recorded' = (IF op = "record" THEN recorded + 1 ELSE recorded)
              /\ op # "record" /\ op # "stop"
              /\ UNCHANGED <<disk, current, made, entries, pending, writing, cleared, astray>>
          BY <2>2, <3>2 DEF FindManager
        <4> QED
          BY <1>2, <4>1, TakesKeeps
      <3> QED
        BY <3>1, <3>2
    <2>3. ASSUME NEW c \in Calls, RecordWaits(c)
          PROVE  IInv'
      <3>1. /\ call[c] = Idle /\ current # 0 /\ Lock(c, current, "record", NextLog(c))
            /\ recorded' = recorded + 1 /\ recorded < MaxLogs /\ holder[current] # None
            /\ UNCHANGED <<disk, current, made, entries, pending, writing, cleared, astray>>
        BY <2>3 DEF RecordWaits
      <3> QED
        BY <1>2, <3>1, TakesKeeps
    <2>4. ASSUME NEW c \in Calls, StopManager(c)
          PROVE  IInv'
      <3>1. /\ call[c] = Idle /\ current # 0 /\ Lock(c, current, "stop", None)
            /\ recorded' = recorded /\ \A other \in Calls : call[other].op # "stop"
            /\ UNCHANGED <<disk, current, made, entries, pending, writing, cleared, astray>>
        BY <2>4 DEF StopManager
      <3> QED
        BY <1>2, <3>1, TakesKeeps
    <2>5. ASSUME NEW c \in Calls, Starts(c)
          PROVE  IInv'
      <3>1. CASE \E op \in {"setup", "list"} : FindManager(c, op, None) \/ MakeManager(c, op, None)
        BY <1>2, <2>2, <3>1, MakeKeeps
      <3>2. CASE \E filter \in Filters :
                   FindManager(c, "clear", filter) \/ MakeManager(c, "clear", filter)
        BY <1>2, <2>2, <3>2, MakeKeeps
      <3>3. CASE RecordAtOnce(c)
        BY <1>2, <3>3, RecordAtOnceKeeps
      <3> QED
        BY <2>3, <2>4, <2>5, <3>1, <3>2, <3>3 DEF Starts
    <2>6. CASE UNCHANGED vars
      BY <1>2, <2>6, StutterKeeps
    <2> QED
      BY <1>2, <2>1, <2>5, <2>6, DelayKeeps, WrittenKeeps DEF Next
  <1> QED
    BY <1>1, <1>2, PTL DEF Spec

\* The managers, their locks, lists and calls are what they should be, and what
\* a clear removed is neither in the file nor in the current manager's memory
\* (chat_log_manager), as long as only the current manager was changed.
THEOREM FileIsSound == Spec => []FileSound
  <1>1. IInv => FileSound
    BY DEF IInv, FileSound, ClearedStaysCleared, ClearDurable, Follows, ClearedNowhere
  <1> QED
    BY <1>1, InvariantHolds, PTL

\* What the current manager has in memory is in the file or on its way there,
\* and no later log is missing but for those cleared or still in a call's hand,
\* as long as only the current manager was changed (async_record, async_clear,
\* async_shutdown and the store's delayed saves).
THEOREM NothingIsLost == Spec => []SavedOrOnTheWay
  <1>1. ASSUME IInv
        PROVE  SavedOrOnTheWay
    <2> SUFFICES ASSUME ~astray, current # 0
                 PROVE  /\ FileSoon(current) = entries[current]
                        /\ \A log \in ToSet(entries[current]) : \A later \in Logs :
                             later[1] \in (log[1] + 1)..recorded =>
                               \/ \E other \in ToSet(entries[current]) : other[1] = later[1]
                               \/ \E other \in cleared : other[1] = later[1]
                               \/ \E c \in Calls :
                                    \/ call[c].op = "record" /\ call[c].arg[1] = later[1]
                                    \/ /\ call[c].op = "clear" /\ call[c].pc = "save"
                                       /\ \E other \in call[c].arg : other[1] = later[1]
      BY DEF SavedOrOnTheWay
    <2>1. FileFollows /\ NoneMissing
      BY <1>1 DEF IInv, Follows
    <2>2. FileSoon(current) = entries[current]
      <3> DEFINE saves == {c \in Calls : call[c].pc = "save" /\ call[c].mgr = current}
      <3>1. CASE pending[current]
        BY <3>1 DEF FileSoon
      <3>2. CASE ~pending[current] /\ saves # {}
        <4>1. (CHOOSE c \in saves : TRUE) \in saves
          BY <3>2
        <4>2. call[CHOOSE c \in saves : TRUE].data = entries[current]
          BY <1>1, <4>1 DEF IInv, ListsSound
        <4> QED
          BY <3>2, <4>2 DEF FileSoon
      <3>3. CASE ~pending[current] /\ saves = {}
        <4>1. ~Saving(current)
          BY <3>3 DEF Saving
        <4>2. entries[current] = IF writing[current] = Quiet THEN disk ELSE writing[current]
          BY <2>1, <3>3, <4>1 DEF FileFollows
        <4> QED
          BY <3>3, <4>2 DEF FileSoon
      <3> QED
        BY <3>1, <3>2, <3>3
    <2>3. ASSUME NEW log \in ToSet(entries[current]), NEW later \in Logs,
                 later[1] \in (log[1] + 1)..recorded
          PROVE  \/ \E other \in ToSet(entries[current]) : other[1] = later[1]
                 \/ \E other \in cleared : other[1] = later[1]
                 \/ \E c \in Calls :
                      \/ call[c].op = "record" /\ call[c].arg[1] = later[1]
                      \/ /\ call[c].op = "clear" /\ call[c].pc = "save"
                         /\ \E other \in call[c].arg : other[1] = later[1]
      <3>1. Had = ToSet(entries[current])
        BY DEF Had
      <3>2. Number(later[1], Had) \/ Number(later[1], cleared) \/ Held(later[1])
        BY <2>1, <2>3, <3>1 DEF NoneMissing
      <3> QED
        BY <3>1, <3>2 DEF Number, Held, Records
    <2> QED
      BY <2>2, <2>3
  <1> QED
    BY <1>1, InvariantHolds, PTL

-----------------------------------------------------------------------------
(* The memory store: settings and scores *)

\* A value that is kept within bounds.
LEMMA CoercedWithin ==
  \A value, default, least, most :
    /\ value = Unset \/ value \in Int
    /\ default \in Int /\ least \in Int /\ most \in Int /\ least <= most
    => Coerced(value, default, least, most) \in least..most
<1> SUFFICES ASSUME NEW value, NEW default \in Int, NEW least \in Int, NEW most \in Int,
                    value = Unset \/ value \in Int, least <= most
             PROVE  Coerced(value, default, least, most) \in least..most
  OBVIOUS
<1> DEFINE given == IF value = Unset THEN default ELSE value
<1>1. given \in Int
  OBVIOUS
<1>2. Coerced(value, default, least, most) =
        LET upper == IF given < most THEN given ELSE most
        IN  IF upper > least THEN upper ELSE least
  BY DEF Coerced
<1> HIDE DEF given
<1> QED BY <1>1, <1>2

\* What the settings say is within the bounds of the code.
LEMMA LimitsWithin ==
  ASSUME NEW s \in Limits
  PROVE  /\ MaxItems(s) \in Nat \ {0} /\ MaxTtl(s) \in Nat \ {0}
         /\ \A ttl \in Int \cup {Unset} : Lifetime(s, ttl) \in 1..MaxTtl(s)
<1>1. s.max_items \in Int \cup {Unset} /\ s.max_ttl \in Int \cup {Unset}
      /\ s.default_ttl \in Int \cup {Unset} /\ LeastItems \in 1..MostItems
  BY MemoryAssumption
<1>2. MostItems \in Int /\ DefaultItems \in Int /\ DefaultMaxDays \in Int /\ DefaultDays \in Int
      /\ MostDays \in Int /\ 1 <= MostDays
  BY DEF MostItems, DefaultItems, DefaultMaxDays, DefaultDays, MostDays
<1>3. MaxItems(s) \in LeastItems..MostItems
  BY <1>1, <1>2, CoercedWithin DEF MaxItems
<1>4. MaxTtl(s) \in 1..MostDays
  BY <1>1, <1>2, CoercedWithin DEF MaxTtl
<1>5. MaxTtl(s) \in Int /\ 1 <= MaxTtl(s) /\ MaxItems(s) \in Int /\ 1 <= MaxItems(s)
  BY <1>1, <1>3, <1>4
<1>6. DefaultTtl(s) \in 1..MaxTtl(s)
  BY <1>1, <1>2, <1>5, CoercedWithin DEF DefaultTtl
<1>7. ASSUME NEW ttl \in Int \cup {Unset} PROVE Lifetime(s, ttl) \in 1..MaxTtl(s)
  <2>1. DefaultTtl(s) \in Int
    BY <1>5, <1>6
  <2> QED BY <1>5, <2>1, CoercedWithin DEF Lifetime
<1> QED BY <1>5, <1>7

LEMMA PageWithin == ASSUME NEW limit \in Pages PROVE PageSize(limit) \in 1..50
  BY MemoryAssumption DEF PageSize, Coerced

\* A score is a number: the words of a query are finitely many.
LEMMA ScoreIsNumber ==
  ASSUME NEW m, NEW q \in Seq(Words)
  PROVE  Relevance(m, q) \in Nat
<1> DEFINE haystack == m.text \o (IF m.category = Unset THEN <<>> ELSE <<" ">> \o m.category)
           terms == {i \in DOMAIN q : q[i] \notin Text!Separators}
           hits == {i \in terms : Text!Within(<<q[i]>>, haystack)}
<1>1. IsFiniteSet(1..Len(q))
  BY FS_Interval
<1>2. hits \in SUBSET (1..Len(q))
  <2>1. DOMAIN q = 1..Len(q)
    OBVIOUS
  <2> HIDE DEF haystack
  <2> QED BY <2>1
<1>3. Cardinality(hits) \in Nat
  <2> HIDE DEF hits
  <2> QED BY <1>1, <1>2, FS_Subset, FS_CardinalityType
<1> DEFINE full == IF Text!Within(q, haystack) THEN 100 ELSE 0
           each == IF terms # {} /\ hits = terms THEN 25 ELSE 0
<1>4. full \in Nat /\ each \in Nat
  OBVIOUS
<1>5. Relevance(m, q) = IF q = <<>> THEN 0 ELSE full + 10 * Cardinality(hits) + each
  BY DEF Relevance
<1> HIDE DEF full, each, terms, hits
<1> QED BY <1>3, <1>4, <1>5

\* Memories that differ in their numbers are in a strict order.
LEMMA AboveIsOrder ==
  ASSUME NEW S, \A x \in S : x.id \in Nat, \A x, y \in S : x.id = y.id => x = y,
         NEW q \in Seq(Words)
  PROVE  /\ \A x, y, z \in S : Above(x, y, q) /\ Above(y, z, q) => Above(x, z, q)
         /\ \A x \in S : ~Above(x, x, q)
         /\ \A x, y \in S : x # y => Above(x, y, q) \/ Above(y, x, q)
<1>1. \A x \in S : Relevance(x, q) \in Nat
  BY ScoreIsNumber
<1> QED BY <1>1 DEF Above

\* How many elements of a set go before one of it.
Before(S, x, q) == Cardinality({y \in S : Above(y, x, q)})

\* The place of an element tells it apart.
LEMMA PlacesDiffer ==
  ASSUME NEW S, IsFiniteSet(S), \A x \in S : x.id \in Nat,
         \A x, y \in S : x.id = y.id => x = y, NEW q \in Seq(Words)
  PROVE  /\ \A x \in S : Before(S, x, q) \in 0..Cardinality(S) - 1
         /\ \A x, y \in S : Above(x, y, q) => Before(S, x, q) < Before(S, y, q)
<1> DEFINE Over(x) == {y \in S : Above(y, x, q)}
<1>1. ASSUME NEW x \in S
      PROVE  /\ IsFiniteSet(Over(x)) /\ Cardinality(Over(x)) \in Nat
             /\ x \notin Over(x) /\ Before(S, x, q) = Cardinality(Over(x))
  <2>1. Over(x) \in SUBSET S /\ x \notin Over(x)
    BY AboveIsOrder
  <2>2. Before(S, x, q) = Cardinality(Over(x))
    BY DEF Before
  <2> HIDE DEF Over
  <2> QED BY <2>1, <2>2, FS_Subset, FS_CardinalityType
<1>2. ASSUME NEW x \in S PROVE Cardinality(Over(x)) <= Cardinality(S) - 1
  <2>1. Over(x) \in SUBSET (S \ {x})
    BY <1>1
  <2>2. IsFiniteSet(S \ {x}) /\ Cardinality(S \ {x}) = Cardinality(S) - 1
    BY FS_RemoveElement
  <2> HIDE DEF Over
  <2> QED BY <2>1, <2>2, FS_Subset
<1>3. ASSUME NEW x \in S, NEW y \in S, Above(x, y, q)
      PROVE  Cardinality(Over(x)) < Cardinality(Over(y))
  <2>1. Over(x) \cup {x} \in SUBSET Over(y)
    BY <1>3, AboveIsOrder
  <2>2. Cardinality(Over(x) \cup {x}) = Cardinality(Over(x)) + 1
    <3> HIDE DEF Over
    <3> QED BY <1>1, FS_AddElement
  <2>3. Cardinality(Over(x) \cup {x}) <= Cardinality(Over(y))
    <3>1. IsFiniteSet(Over(y))
      BY <1>1
    <3> HIDE DEF Over
    <3> QED BY <2>1, <3>1, FS_Subset
  <2>4. Cardinality(Over(x)) \in Nat /\ Cardinality(Over(y)) \in Nat
    BY <1>1
  <2> HIDE DEF Over
  <2> QED BY <2>2, <2>3, <2>4
<1>4. Cardinality(S) \in Nat
  BY FS_CardinalityType
<1> HIDE DEF Over
<1> QED BY <1>1, <1>2, <1>3, <1>4

\* The first n of a finite set are n, or all of it, and go before the others.
LEMMA TopIsBest ==
  ASSUME NEW S, IsFiniteSet(S), \A x \in S : x.id \in Nat,
         \A x, y \in S : x.id = y.id => x = y, NEW q \in Seq(Words), NEW n \in Nat
  PROVE  /\ Top(S, q, n) \subseteq S
         /\ Cardinality(Top(S, q, n)) = IF Cardinality(S) < n THEN Cardinality(S) ELSE n
         /\ \A x \in Top(S, q, n), y \in S \ Top(S, q, n) : Above(x, y, q)
<1> DEFINE N == Cardinality(S)
           T == Top(S, q, n)
           k == IF N < n THEN N ELSE n
           R == [x \in S |-> Before(S, x, q)]
<1>1. N \in Nat
  BY FS_CardinalityType
<1>2. T = {x \in S : R[x] < n}
  BY DEF Top, Before
<1>3. /\ \A x \in S : R[x] \in 0..N - 1
      /\ \A x, y \in S : Above(x, y, q) => R[x] < R[y]
  BY PlacesDiffer
<1>4. \A x, y \in S : x # y => Above(x, y, q) \/ Above(y, x, q)
  BY AboveIsOrder
<1>5. \A x, y \in S : R[x] = R[y] => x = y
  <2> SUFFICES ASSUME NEW x \in S, NEW y \in S, R[x] = R[y], x # y PROVE FALSE
    OBVIOUS
  <2>1. R[x] \in Int
    BY <1>3
  <2>2. R[x] < R[y] \/ R[y] < R[x]
    BY <1>3, <1>4
  <2> HIDE DEF R
  <2> QED BY <2>1, <2>2
<1>6. R \in Surjection(S, 0..N - 1)
  <2>1. R \in Injection(S, 0..N - 1)
    BY <1>3, <1>5 DEF Injection, IsInjective
  <2>2. IsFiniteSet(0..N - 1) /\ Cardinality(0..N - 1) = N
    <3>1. 0 \in Int /\ N - 1 \in Int
      BY <1>1
    <3> HIDE DEF N
    <3> QED BY <1>1, <3>1, FS_Interval
  <2> HIDE DEF R
  <2> QED BY <2>1, <2>2, FS_Injection
<1>7. Cardinality(T) = k
  <2> DEFINE P == [x \in T |-> R[x]]
  <2>1. \A x \in T : x \in S /\ P[x] = R[x] /\ R[x] \in 0..k - 1
    BY <1>1, <1>2, <1>3
  <2>2. \A i \in 0..k - 1 : \E x \in T : P[x] = i
    <3> SUFFICES ASSUME NEW i \in 0..k - 1 PROVE \E x \in T : P[x] = i
      OBVIOUS
    <3>1. i \in 0..N - 1 /\ i < n
      BY <1>1
    <3>2. PICK x \in S : R[x] = i
      BY <1>6, <3>1 DEF Surjection
    <3>3. x \in T
      BY <1>2, <3>1, <3>2
    <3> QED BY <3>2, <3>3
  <2>3. P \in [T -> 0..k - 1]
    BY <2>1
  <2>4. \A x, y \in T : P[x] = P[y] => x = y
    BY <1>5, <2>1
  <2>5. P \in Bijection(T, 0..k - 1)
    <3> HIDE DEF P, T, k
    <3> QED BY <2>2, <2>3, <2>4 DEF Bijection, Injection, Surjection, IsInjective
  <2>6. ExistsBijection(T, 0..k - 1)
    <3> HIDE DEF P, T, k
    <3> QED BY <2>5 DEF ExistsBijection
  <2>7. IsFiniteSet(T)
    BY <1>2, FS_Subset
  <2>8. Cardinality(0..k - 1) = k
    <3>1. k \in Nat
      BY <1>1
    <3> HIDE DEF k
    <3> QED BY <3>1, FS_Interval
  <2> HIDE DEF T, k
  <2> QED BY <2>6, <2>7, <2>8, FS_Bijection
<1>8. ASSUME NEW x \in T, NEW y \in S \ T PROVE Above(x, y, q)
  <2>1. x \in S /\ R[x] < n /\ ~(R[y] < n) /\ R[x] \in Int /\ R[y] \in Int
    BY <1>2, <1>3
  <2>2. x # y /\ ~(R[y] < R[x])
    <3> HIDE DEF R
    <3> QED BY <2>1
  <2> HIDE DEF R
  <2> QED BY <1>3, <1>4, <2>1, <2>2
<1>9. T \subseteq S
  BY <1>2
<1> HIDE DEF R
<1> QED BY <1>7, <1>8, <1>9

-----------------------------------------------------------------------------
(* The memory store: what calls do to it *)

Remembered == {noted[i].item : i \in DOMAIN noted}

LEMMA NotedTyped ==
  ASSUME MemoryTypeOK, NEW i \in DOMAIN noted
  PROVE  /\ noted[i].item \in Items /\ noted[i].item.id = i /\ noted[i].item.until \in Int
         /\ noted[i].day \in Nat /\ noted[i].by \in Limits
         /\ i \in 1..Len(noted)
<1> DEFINE Call == [item : Items, day : Nat, by : Limits]
<1>1. noted \in Seq(Call) /\ noted[i].item.id = i
  BY DEF MemoryTypeOK
<1>2. noted[i] \in Call /\ i \in 1..Len(noted)
  <2> HIDE DEF Call
  <2> QED BY <1>1
<1> QED BY <1>1, <1>2 DEF Items

\* What calls stored is finite, and numbered.
LEMMA KnownAreNumbered ==
  ASSUME MemoryTypeOK, NEW S, S \subseteq Remembered
  PROVE  /\ IsFiniteSet(S)
         /\ \A x \in S : x \in Items /\ x.id \in DOMAIN noted /\ noted[x.id].item = x
         /\ \A x \in S : x.id \in Nat
         /\ \A x, y \in S : x.id = y.id => x = y
<1>1. Len(noted) \in Nat /\ DOMAIN noted = 1..Len(noted)
  BY DEF MemoryTypeOK
<1>2. \A x \in Remembered : x \in Items /\ x.id \in DOMAIN noted /\ noted[x.id].item = x
  <2> SUFFICES ASSUME NEW i \in DOMAIN noted
               PROVE  LET x == noted[i].item IN x \in Items /\ x.id \in DOMAIN noted /\ noted[x.id].item = x
    BY DEF Remembered
  <2> QED BY NotedTyped
<1>3. IsFiniteSet(Remembered)
  <2> DEFINE f == [i \in 1..Len(noted) |-> noted[i].item]
  <2>1. f \in Surjection(1..Len(noted), Remembered)
    BY <1>1 DEF Surjection, Remembered
  <2>2. IsFiniteSet(1..Len(noted))
    BY <1>1, FS_Interval
  <2> HIDE DEF f
  <2> QED BY <2>1, <2>2, FS_Surjection
<1>4. IsFiniteSet(S)
  BY <1>3, FS_Subset
<1>5. \A x \in Remembered : x.id \in Nat
  BY <1>2 DEF Items
<1> HIDE DEF Remembered
<1> QED BY <1>2, <1>4, <1>5

\* Of the newest, as many are newer as there are numbers left.
LEMMA NewerAreFew ==
  ASSUME NEW S, IsFiniteSet(S), NEW M \in Nat, \A x \in S : x.id \in Nat /\ x.id <= M,
         \A x, y \in S : x.id = y.id => x = y, NEW x \in S
  PROVE  Before(S, x, <<>>) <= M - x.id
<1> DEFINE newer == {y \in S : Above(y, x, <<>>)}
           f == [y \in newer |-> y.id]
<1>1. \A y \in newer : y \in S /\ y.id \in (x.id + 1)..M
  BY DEF Above, Relevance
<1>2. f \in Injection(newer, (x.id + 1)..M)
  BY <1>1 DEF Injection, IsInjective
<1>3. IsFiniteSet((x.id + 1)..M) /\ Cardinality((x.id + 1)..M) <= M - x.id
  <2>1. x.id + 1 \in Int /\ M \in Int /\ x.id <= M /\ x.id \in Int
    OBVIOUS
  <2> DEFINE a == x.id + 1
  <2>2. a \in Int /\ M - a + 1 = M - x.id /\ (a > M => x.id = M)
    BY <2>1
  <2> HIDE DEF a
  <2>3. IsFiniteSet(a..M) /\ Cardinality(a..M) = IF a > M THEN 0 ELSE M - a + 1
    BY <2>1, <2>2, FS_Interval
  <2>4. M - x.id \in Nat
    BY <2>1
  <2>5. Cardinality(a..M) <= M - x.id
    BY <2>2, <2>3, <2>4
  <2> QED BY <2>3, <2>5 DEF a
<1>4. Cardinality(newer) <= Cardinality((x.id + 1)..M)
  <2> HIDE DEF f, newer
  <2> QED BY <1>2, <1>3, FS_Injection
<1>5. Cardinality(newer) \in Nat /\ Cardinality((x.id + 1)..M) \in Nat
  <2>1. newer \in SUBSET S
    OBVIOUS
  <2> HIDE DEF newer
  <2> QED BY <1>3, <2>1, FS_Subset, FS_CardinalityType
<1>6. Before(S, x, <<>>) = Cardinality(newer)
  BY DEF Before
<1> HIDE DEF newer
<1> QED BY <1>3, <1>4, <1>5, <1>6

\* A part of what was few enough is so.
LEMMA FewerAreFew ==
  ASSUME MemoryTypeOK, NEW S, S \subseteq Remembered, FewEnough(S), NEW T, T \subseteq S
  PROVE  FewEnough(T)
<1> SUFFICES ASSUME T # {}
             PROVE  \E j \in DOMAIN noted :
                      /\ Cardinality(T) <= MaxItems(noted[j].by)
                      /\ \A m \in T : m.id <= j
  BY DEF FewEnough
<1>1. IsFiniteSet(S)
  BY KnownAreNumbered
<1>2. PICK j \in DOMAIN noted : /\ Cardinality(S) <= MaxItems(noted[j].by)
                                /\ \A m \in S : m.id <= j
  BY DEF FewEnough
<1>3. Cardinality(T) <= Cardinality(S) /\ Cardinality(T) \in Nat /\ Cardinality(S) \in Nat
  BY <1>1, FS_Subset, FS_CardinalityType
<1>4. MaxItems(noted[j].by) \in Nat
  BY <1>2, NotedTyped, LimitsWithin
<1>5. Cardinality(T) <= MaxItems(noted[j].by)
  BY <1>2, <1>3, <1>4
<1> QED BY <1>2, <1>5

\* A call or a restart that stores nothing new, and loses only what has expired,
\* was to be deleted, or was not written.
LEMMA ShrinkKeeps ==
  ASSUME MemoryIInv, noted' = noted, limits' \in Limits, today' \in Nat, today <= today',
         memories' \subseteq memories \/ memories' \subseteq stored,
         stored' = stored \/ stored' = memories',
         forgotten \cup undone \subseteq forgotten' \cup undone',
         forgotten' \cup undone' \subseteq DOMAIN noted, behind' \in BOOLEAN,
         \A m \in memories : m \in memories' \/ m.until <= today' \/ m.id \in forgotten' \cup undone',
         DeletedGone', OnDisk', RecallsTheBest', CountsAreFound'
  PROVE  MemoryIInv'
<1>1. MemoryTypeOK /\ memories \subseteq Remembered /\ stored \subseteq Remembered
  BY DEF MemoryIInv, MemoriesAreKept, MemoryTypeOK, Remembered
<1>2. MemoryTypeOK'
  <2>1. memories' \cup stored' \subseteq Remembered
    BY <1>1
  <2> QED BY <1>1, <2>1 DEF MemoryTypeOK, Remembered
<1>3. StoredStays'
  <2> SUFFICES ASSUME NEW i \in DOMAIN noted
               PROVE  \/ noted[i].item \in memories'
                      \/ noted[i].item.until <= today'
                      \/ i \in forgotten' \cup undone'
                      \/ \E j \in DOMAIN noted : j - i >= MaxItems(noted[j].by)
    BY DEF StoredStays
  <2>1. \/ noted[i].item \in memories
        \/ noted[i].item.until <= today
        \/ i \in forgotten \cup undone
        \/ \E j \in DOMAIN noted : j - i >= MaxItems(noted[j].by)
    BY DEF MemoryIInv, MemoriesAreKept, StoredStays
  <2>2. noted[i].item.id = i /\ noted[i].item.until \in Int /\ today \in Int /\ today' \in Int
    BY <1>1, NotedTyped DEF MemoryTypeOK
  <2>3. CASE noted[i].item \in memories
    BY <2>2, <2>3
  <2>4. CASE noted[i].item.until <= today
    BY <2>2, <2>4
  <2> QED BY <2>1, <2>3, <2>4
<1>4. FewEnough(memories)' /\ FewEnough(stored)'
  <2>1. FewEnough(memories) /\ FewEnough(stored)
    BY DEF MemoryIInv, MemoriesAreKept
  <2>2. FewEnough(memories') /\ FewEnough(stored')
    BY <1>1, <2>1, FewerAreFew
  <2> QED BY <2>2 DEF FewEnough
<1>5. Lifetimes'
  BY DEF MemoryIInv, MemoriesAreKept, Lifetimes
<1> QED BY <1>2, <1>3, <1>4, <1>5 DEF MemoryIInv, MemoriesAreKept

\* A memory that is stored is there, and what it pushes out has as many newer
\* ones as are kept.
LEMMA RememberKeeps ==
  ASSUME MemoryIInv, NEW note \in Notes, NEW fails \in BOOLEAN, Remember(note, fails)
  PROVE  MemoryIInv'
<1> DEFINE N == Len(noted)
           item == [id |-> N + 1, text |-> note.text, category |-> Category(note.category),
                    until |-> today + Lifetime(limits, note.ttl)]
           entry == [item |-> item, day |-> today, by |-> limits]
           most == MaxItems(limits)
           S == Live(memories) \cup {item}
           Call == [item : Items, day : Nat, by : Limits]
<1>1. /\ memories' = Top(S, <<>>, most)
      /\ stored' = IF fails THEN stored ELSE memories'
      /\ behind' = fails
      /\ noted' = Append(noted, entry) /\ reply' = Silence
      /\ today' = today /\ limits' = limits /\ forgotten' = forgotten /\ undone' = undone
  BY DEF Remember, Pruned, Write
<1>2. /\ MemoryTypeOK /\ StoredStays /\ DeletedGone /\ Lifetimes
      /\ FewEnough(memories) /\ FewEnough(stored)
      /\ memories \subseteq Remembered /\ stored \subseteq Remembered
  BY DEF MemoryIInv, MemoriesAreKept, MemoryTypeOK, Remembered
<1>3. N \in Nat /\ DOMAIN noted = 1..N /\ noted \in Seq(Call) /\ today \in Nat /\ limits \in Limits
  BY <1>2 DEF MemoryTypeOK
<1>4. most \in Nat \ {0} /\ Lifetime(limits, note.ttl) \in 1..MaxTtl(limits) /\ MaxTtl(limits) \in Nat
  <2>1. note.ttl \in Int \cup {Unset}
    BY MemoryAssumption
  <2> QED BY <1>3, <2>1, LimitsWithin
<1>5. entry \in Call /\ item \in Items /\ item.id = N + 1
  <2>1. note.text \in Seq(Words) /\ note.category \in Seq(Words) \cup {Unset}
    BY MemoryAssumption
  <2>2. <<"preference">> \in Seq(Words) /\ <<"household">> \in Seq(Words)
    BY MemoryAssumption
  <2>3. Category(note.category) \in Seq(Words) \cup {Unset}
    BY <2>1, <2>2 DEF Category, Meaning
  <2>4. today + Lifetime(limits, note.ttl) \in Int
    BY <1>3, <1>4
  <2> QED BY <1>3, <2>1, <2>3, <2>4 DEF Items
<1> HIDE DEF item, entry, most
<1>6. /\ noted' \in Seq(Call) /\ Len(noted') = N + 1 /\ DOMAIN noted' = 1..N + 1
      /\ noted'[N + 1] = entry /\ \A i \in 1..N : noted'[i] = noted[i]
  <2> HIDE DEF Call
  <2> QED BY <1>1, <1>3, <1>5
<1>7. entry.item = item /\ entry.day = today /\ entry.by = limits
      /\ item.until = today + Lifetime(limits, note.ttl)
  BY DEF entry, item
<1>8. \A i \in DOMAIN noted' : noted'[i].item.id = i
  <2>1. \A i \in 1..N : noted[i].item.id = i
    BY <1>2, <1>3 DEF MemoryTypeOK
  <2>2. \A i \in 1..N : noted'[i].item.id = i
    BY <1>6, <2>1
  <2>3. noted'[N + 1].item.id = N + 1
    BY <1>5, <1>6, <1>7
  <2> HIDE DEF N, Call, S
  <2>4. \A i \in 1..N + 1 : i \in 1..N \/ i = N + 1
    BY <1>3
  <2> QED BY <1>6, <2>2, <2>3, <2>4
<1>9. Remembered \cup {item} \subseteq {noted'[i].item : i \in DOMAIN noted'}
  <2>1. item \in {noted'[i].item : i \in DOMAIN noted'}
    <3>1. N + 1 \in DOMAIN noted' /\ noted'[N + 1].item = item
      BY <1>3, <1>6, <1>7
    <3> HIDE DEF N
    <3> QED BY <3>1
  <2>2. ASSUME NEW i \in DOMAIN noted PROVE i \in DOMAIN noted' /\ noted'[i].item = noted[i].item
    <3> HIDE DEF N, Call, S
    <3>1. i \in 1..N /\ i \in 1..N + 1
      BY <1>3, <2>2
    <3> QED BY <1>6, <3>1
  <2> QED BY <2>1, <2>2 DEF Remembered
<1>10. /\ IsFiniteSet(S) /\ \A x \in S : x.id \in Nat /\ x.id <= N + 1
       /\ \A x, y \in S : x.id = y.id => x = y
  <2>1. Live(memories) \subseteq Remembered
    BY <1>2 DEF Live
  <2>2. /\ IsFiniteSet(Live(memories))
        /\ \A x \in Live(memories) : x.id \in DOMAIN noted /\ noted[x.id].item = x /\ x.id \in Nat
        /\ \A x, y \in Live(memories) : x.id = y.id => x = y
    BY <1>2, <2>1, KnownAreNumbered
  <2>3. IsFiniteSet(S)
    BY <2>2, FS_AddElement
  <2>4. \A x \in Live(memories) : x.id \in Nat /\ x.id <= N
    BY <1>3, <2>2
  <2> QED BY <1>3, <1>5, <2>2, <2>3, <2>4
<1>11. <<>> \in Seq(Words)
  OBVIOUS
<1>12. memories' \subseteq S /\ Cardinality(memories') <= most /\ Cardinality(memories') \in Nat
  <2>1. /\ Top(S, <<>>, most) \subseteq S
        /\ Cardinality(Top(S, <<>>, most)) = IF Cardinality(S) < most THEN Cardinality(S) ELSE most
    BY <1>4, <1>10, <1>11, TopIsBest
  <2>2. Cardinality(S) \in Nat
    BY <1>10, FS_CardinalityType
  <2> HIDE DEF S
  <2> QED BY <1>1, <1>4, <2>1, <2>2
<1>13. \A x \in S : x \in memories' \/ N + 1 - x.id >= most
  <2> SUFFICES ASSUME NEW x \in S, x \notin memories' PROVE N + 1 - x.id >= most
    OBVIOUS
  <2>1. ~(Before(S, x, <<>>) < most)
    BY <1>1 DEF Top, Before
  <2> HIDE DEF S
  <2>2. Before(S, x, <<>>) <= N + 1 - x.id
    <3>1. N + 1 \in Nat
      BY <1>3
    <3> QED BY <1>10, <3>1, NewerAreFew
  <2>3. Before(S, x, <<>>) \in Int
    <3>1. {y \in S : Above(y, x, <<>>)} \subseteq S
      OBVIOUS
    <3>2. IsFiniteSet({y \in S : Above(y, x, <<>>)})
      BY <1>10, <3>1, FS_Subset
    <3>3. Cardinality({y \in S : Above(y, x, <<>>)}) \in Nat
      BY <3>2, FS_CardinalityType
    <3> QED BY <3>3 DEF Before
  <2>4. x.id \in Int
    BY <1>10
  <2> QED BY <1>3, <1>4, <2>1, <2>2, <2>3, <2>4
<1>14. item \in memories'
  <2>1. N + 1 - item.id = 0
    BY <1>3, <1>5
  <2> QED BY <1>4, <1>13, <2>1
<1>15. \A i \in 1..N : i \in Int /\ noted[i].item.id = i /\ noted[i].item.until \in Int
                       /\ noted[i].by \in Limits
  BY <1>2, <1>3, NotedTyped
<1>16. MemoryTypeOK'
  <2>1. memories' \cup stored' \subseteq Remembered \cup {item}
    BY <1>1, <1>2, <1>12 DEF Live
  <2>2. forgotten' \cup undone' \subseteq DOMAIN noted' /\ behind' \in BOOLEAN
    BY <1>1, <1>2, <1>3, <1>6 DEF MemoryTypeOK
  <2> QED BY <1>1, <1>3, <1>6, <1>8, <1>9, <2>1, <2>2 DEF MemoryTypeOK
<1>17. StoredStays'
  <2> SUFFICES ASSUME NEW i \in DOMAIN noted'
               PROVE  \/ noted'[i].item \in memories'
                      \/ noted'[i].item.until <= today'
                      \/ i \in forgotten' \cup undone'
                      \/ \E j \in DOMAIN noted' : j - i >= MaxItems(noted'[j].by)
    BY DEF StoredStays
  <2>1. CASE i = N + 1
    BY <1>6, <1>7, <1>14, <2>1
  <2>2. CASE i \in 1..N
    <3>1. noted'[i] = noted[i] /\ i \in DOMAIN noted
      BY <1>3, <1>6, <2>2
    <3>2. \/ noted[i].item \in memories
          \/ noted[i].item.until <= today
          \/ i \in forgotten \cup undone
          \/ \E j \in DOMAIN noted : j - i >= MaxItems(noted[j].by)
      BY <1>2, <3>1 DEF StoredStays
    <3>3. CASE \E j \in DOMAIN noted : j - i >= MaxItems(noted[j].by)
      <4>1. PICK j \in DOMAIN noted : j - i >= MaxItems(noted[j].by)
        BY <3>3
      <4>2. j \in DOMAIN noted' /\ noted'[j] = noted[j]
        BY <1>3, <1>6
      <4> QED BY <4>1, <4>2
    <3>4. CASE noted[i].item \in memories /\ noted[i].item.until > today
      <4> DEFINE x == noted[i].item
      <4>1. x \in S /\ x.id = i
        BY <1>15, <2>2, <3>4 DEF Live
      <4>2. CASE x \in memories'
        BY <1>1, <3>1, <3>4, <4>2
      <4>3. CASE N + 1 - x.id >= most
        <5>1. N + 1 \in DOMAIN noted' /\ MaxItems(noted'[N + 1].by) = most
          BY <1>3, <1>6, <1>7 DEF most
        <5>2. x.id = i
          BY <4>1
        <5>3. (N + 1) - i >= most
          <6>1. N + (1 - i) >= most
            <7> HIDE DEF x, most
            <7> QED BY <4>3, <5>2
          <6> HIDE DEF x, most, S, N
          <6> QED BY <1>3, <1>4, <2>2, <6>1
        <5>4. (N + 1) - i >= MaxItems(noted'[N + 1].by)
          <6> HIDE DEF x, most, S, N
          <6> QED BY <5>1, <5>3
        <5>5. \E j \in DOMAIN noted' : j - i >= MaxItems(noted'[j].by)
          <6> HIDE DEF x, most, S, N
          <6> USE <5>1, <5>4
          <6> WITNESS N + 1 \in DOMAIN noted'
          <6> QED OBVIOUS
        <5> QED BY <5>5
      <4> QED BY <1>13, <4>1, <4>2, <4>3
    <3>5. noted[i].item.until \in Int /\ today \in Int
      BY <1>3, <1>15, <2>2
    <3>6. noted[i].item.until > today \/ noted[i].item.until <= today
      BY <3>5
    <3> QED BY <1>1, <3>1, <3>2, <3>3, <3>4, <3>6
  <2> QED BY <1>3, <1>6, <2>1, <2>2
<1>18. DeletedGone' /\ OnDisk'
  <2>1. N + 1 \notin forgotten
    BY <1>2, <1>3 DEF MemoryTypeOK
  <2>2. \A m \in memories' : m = item \/ m \in memories
    BY <1>12 DEF Live
  <2>3. DeletedGone'
    BY <1>1, <1>2, <1>5, <2>1, <2>2 DEF DeletedGone
  <2>4. OnDisk'
    BY <1>1 DEF OnDisk, Live
  <2> QED BY <2>3, <2>4
<1>19. FewEnough(memories)'
  <2>1. N + 1 \in DOMAIN noted' /\ Cardinality(memories') <= MaxItems(noted'[N + 1].by)
    BY <1>3, <1>6, <1>7, <1>12 DEF most
  <2>2. \A m \in memories' : m.id <= N + 1
    BY <1>10, <1>12
  <2> QED BY <2>1, <2>2 DEF FewEnough
<1>20. FewEnough(stored)'
  <2>1. CASE ~fails
    BY <1>1, <1>19, <2>1 DEF FewEnough
  <2>2. CASE fails
    <3> SUFFICES ASSUME stored # {}
                 PROVE  \E j \in DOMAIN noted' :
                          /\ Cardinality(stored) <= MaxItems(noted'[j].by)
                          /\ \A m \in stored : m.id <= j
      BY <1>1, <2>2 DEF FewEnough
    <3>1. PICK j \in DOMAIN noted : /\ Cardinality(stored) <= MaxItems(noted[j].by)
                                    /\ \A m \in stored : m.id <= j
      BY <1>2 DEF FewEnough
    <3>2. j \in DOMAIN noted' /\ noted'[j] = noted[j]
      BY <1>3, <1>6
    <3> QED BY <3>1, <3>2
  <2> QED BY <2>1, <2>2
<1>21. Lifetimes'
  <2> SUFFICES ASSUME NEW i \in DOMAIN noted'
               PROVE  noted'[i].item.until - noted'[i].day \in 1..MaxTtl(noted'[i].by)
    BY DEF Lifetimes
  <2>1. CASE i = N + 1
    <3>1. (today + Lifetime(limits, note.ttl)) - today = Lifetime(limits, note.ttl)
      BY <1>3, <1>4
    <3> QED BY <1>4, <1>6, <1>7, <2>1, <3>1
  <2>2. CASE i \in 1..N
    BY <1>2, <1>3, <1>6, <2>2 DEF Lifetimes
  <2> QED BY <1>3, <1>6, <2>1, <2>2
<1>22. RecallsTheBest' /\ CountsAreFound'
  BY <1>1 DEF RecallsTheBest, CountsAreFound, Silence
<1> QED
  BY <1>16, <1>17, <1>18, <1>19, <1>20, <1>21, <1>22 DEF MemoryIInv, MemoriesAreKept

LEMMA LiveOnes ==
  ASSUME NEW S
  PROVE  Live(S) \subseteq S /\ \A m \in S : m \in Live(S) <=> m.until > today
  BY DEF Live

\* What is alive is so once the rest is purged, and what is alive later, now.
LEMMA LiveAgain ==
  ASSUME NEW S
  PROVE  Live(Live(S)) = Live(S)
  BY DEF Live

\* A call that only reads.
LEMMA ReadKeeps ==
  ASSUME MemoryIInv, NEW fails \in BOOLEAN, NEW told, Read(fails, told),
         RecallsTheBest', CountsAreFound'
  PROVE  MemoryIInv'
<1>1. /\ memories' = Live(memories)
      /\ \/ stored' = stored /\ behind' = behind
         \/ stored' = (IF fails THEN stored ELSE memories') /\ behind' = fails
      /\ today' = today /\ limits' = limits /\ noted' = noted
      /\ forgotten' = forgotten /\ undone' = undone
  BY DEF Read, Write, Unwritten
<1>2. MemoryTypeOK /\ DeletedGone /\ OnDisk
  BY DEF MemoryIInv, MemoriesAreKept
<1>3. \A m \in memories \cup stored : m.until \in Int
  BY <1>2, NotedTyped DEF MemoryTypeOK
<1>4. today \in Nat /\ limits \in Limits /\ forgotten \cup undone \subseteq DOMAIN noted /\ behind \in BOOLEAN
  BY <1>2 DEF MemoryTypeOK
<1>5. DeletedGone'
  BY <1>1, <1>2, LiveOnes DEF DeletedGone
<1>6. OnDisk'
  <2>1. Live(memories)' = Live(memories') /\ Live(stored)' = Live(stored')
    BY <1>1 DEF Live
  <2>2. CASE stored' = stored /\ behind' = behind
    BY <1>1, <1>2, <2>1, <2>2, LiveAgain DEF OnDisk
  <2>3. CASE stored' = (IF fails THEN stored ELSE memories') /\ behind' = fails
    BY <2>1, <2>3 DEF OnDisk
  <2> QED BY <1>1, <2>2, <2>3
<1>7. \A m \in memories : m \in memories' \/ m.until <= today'
  BY <1>1, <1>3, <1>4, LiveOnes
<1>8. memories' \subseteq memories /\ (stored' = stored \/ stored' = memories') /\ behind' \in BOOLEAN
  BY <1>1, <1>4, LiveOnes
<1> QED BY <1>1, <1>4, <1>5, <1>6, <1>7, <1>8, ShrinkKeeps

\* A page of what is recalled holds the best of what fits.
LEMMA RecallFinds ==
  ASSUME MemoryIInv, NEW f \in Lookups, NEW limit \in Pages, NEW fails \in BOOLEAN,
         Recall(f, limit, fails)
  PROVE  RecallsTheBest' /\ CountsAreFound'
<1> DEFINE found == Ranked(Live(memories), f, PageSize(limit))
<1>1. /\ memories' = Live(memories) /\ today' = today
      /\ reply' = [op |-> "recall", filter |-> f, limit |-> limit, found |-> found]
  BY DEF Recall, Read
<1>3. CASE reply' = [op |-> "recall", filter |-> f, limit |-> limit, found |-> found]
  <2> DEFINE fitting == {m \in memories' : Suits(m, f)}
             most == PageSize(limit)
  <2>1. MemoryTypeOK /\ memories \subseteq Remembered
    BY DEF MemoryIInv, MemoriesAreKept, MemoryTypeOK, Remembered
  <2>2. fitting \subseteq Remembered
    BY <1>1, <2>1, LiveOnes
  <2>3. /\ IsFiniteSet(fitting) /\ \A x \in fitting : x.id \in Nat
        /\ \A x, y \in fitting : x.id = y.id => x = y
    <3> HIDE DEF fitting
    <3> QED BY <2>1, <2>2, KnownAreNumbered
  <2>4. f.query \in Seq(Words) /\ most \in Nat
    <3>1. most \in 1..50
      BY PageWithin
    <3> HIDE DEF most
    <3> QED BY MemoryAssumption, <3>1
  <2>5. found = Top(fitting, f.query, most)
    BY <1>1 DEF Ranked
  <2>6. /\ found \subseteq fitting
        /\ Cardinality(found) = IF Cardinality(fitting) < most THEN Cardinality(fitting) ELSE most
        /\ \A x \in found, y \in fitting \ found : Above(x, y, f.query)
    <3> HIDE DEF fitting, found, most
    <3> QED BY <2>3, <2>4, <2>5, TopIsBest
  <2>7. \A m \in found : m.until > today'
    BY <1>1, <2>6, LiveOnes
  <2>8. f.category = <<>> => found = {}
    <3>1. Unset # <<>>
      <4>1. <<>> \in Seq(Words)
        OBVIOUS
      <4> QED BY <4>1, MemoryAssumption
    <3> QED BY <2>6, <3>1 DEF Suits, CategoryFits
  <2>9. CountsAreFound'
    BY <1>3 DEF CountsAreFound
  <2>10. /\ reply'.filter = f /\ reply'.limit = limit /\ reply'.found = found
    BY <1>3
  <2> HIDE DEF found
  <2>11. RecallsTheBest'
    BY <2>6, <2>7, <2>8, <2>10 DEF RecallsTheBest
  <2> QED BY <2>9, <2>11
<1> QED BY <1>1, <1>3

\* What is listed for a category is what a search in it goes through.
LEMMA CategoriesCount ==
  ASSUME MemoryIInv, NEW fails \in BOOLEAN, ListCategories(fails)
  PROVE  RecallsTheBest' /\ CountsAreFound'
<1>1. /\ memories' = Live(memories) /\ today' = today
      /\ reply' = CategoryCounts(memories')
  BY DEF ListCategories, Read
<1>3. CASE reply' = CategoryCounts(memories')
  <2> DEFINE of(c) == Cardinality({m \in memories' : Category(m.category) = c})
             used == {Category(m.category) : m \in memories'} \ {Unset}
  <2>1. /\ reply'.op = "categories"
        /\ reply'.preset = [c \in Presets |-> of(c)]
        /\ reply'.custom = [c \in used \ Presets |-> of(c)]
        /\ reply'.total = Cardinality(memories')
    BY <1>3 DEF CategoryCounts
  <2> HIDE DEF of
  <2>2. /\ DOMAIN reply'.preset = Presets /\ DOMAIN reply'.custom = used \ Presets
        /\ \A c \in Presets : reply'.preset[c] = of(c)
        /\ \A c \in used \ Presets : reply'.custom[c] = of(c)
    BY <2>1
  <2>3. ASSUME NEW c, c # Unset PROVE CountOf(c)' = of(c)
    <3>1. CASE c \in Presets
      BY <2>2, <3>1 DEF CountOf
    <3>2. CASE c \in used \ Presets
      BY <2>2, <3>2 DEF CountOf
    <3>3. CASE c \notin used /\ c \notin Presets
      <4>1. {m \in memories' : Category(m.category) = c} = {}
        BY <2>3, <3>3
      <4>2. of(c) = 0
        BY <4>1, FS_EmptySet DEF of
      <4> QED BY <2>2, <3>3, <4>2 DEF CountOf
    <3> QED BY <3>1, <3>2, <3>3
  <2>4. ASSUME NEW f \in Lookups, f.query = <<>>, f.category \notin {<<>>, Unset}
        PROVE  CountOf(Category(f.category))' = Cardinality({m \in memories' : Suits(m, f)})
    <3> DEFINE c == Category(f.category)
    <3>1. c # Unset
      <4>1. f.category \in Seq(Words) /\ <<"preference">> \in Seq(Words) /\ <<"household">> \in Seq(Words)
        BY <2>4, MemoryAssumption
      <4>2. c \in Seq(Words)
        BY <2>4, <4>1 DEF Category, Meaning
      <4> QED BY <4>2, MemoryAssumption
    <3>2. {m \in memories' : Suits(m, f)} = {m \in memories' : Category(m.category) = c}
      BY <2>4 DEF Suits, CategoryFits
    <3> HIDE DEF c
    <3>3. CountOf(c)' = of(c)
      BY <2>3, <3>1
    <3> QED BY <3>2, <3>3 DEF of, c
  <2>5. Live(memories)' = memories'
    BY <1>1 DEF Live
  <2>6. CountsAreFound'
    BY <2>1, <2>2, <2>4, <2>5 DEF CountsAreFound
  <2>7. RecallsTheBest'
    BY <2>1 DEF RecallsTheBest
  <2> QED BY <2>6, <2>7
<1> QED BY <1>1, <1>3

\* What is deleted is gone, from disk as well if it can be written.
LEMMA DeleteKeeps ==
  ASSUME MemoryIInv, NEW wanted, NEW fails \in BOOLEAN, Delete(wanted, fails)
  PROVE  MemoryIInv'
<1> DEFINE gone == {m \in Live(memories) : m.id \in wanted}
           numbers == {m.id : m \in gone}
<1>1. /\ memories' = Live(memories) \ gone
      /\ stored' = IF gone = {} \/ fails THEN stored ELSE memories'
      /\ behind' = IF gone = {} THEN behind ELSE fails
      /\ forgotten' = forgotten \cup numbers /\ undone' = undone \ numbers
      /\ today' = today /\ limits' = limits /\ noted' = noted /\ reply' = Silence
  BY DEF Delete, Write, Unwritten
<1>2. /\ MemoryTypeOK /\ DeletedGone /\ OnDisk /\ memories \subseteq Remembered
      /\ Live(memories) \subseteq memories
      /\ today \in Nat /\ limits \in Limits /\ forgotten \cup undone \subseteq DOMAIN noted /\ behind \in BOOLEAN
  BY LiveOnes DEF MemoryIInv, MemoriesAreKept, MemoryTypeOK, Remembered
<1>3. /\ \A m \in memories : m.id \in DOMAIN noted
      /\ \A x, y \in memories : x.id = y.id => x = y
  BY <1>2, KnownAreNumbered
<1>4. \A m \in memories \cup stored : m.until \in Int
  BY <1>2, NotedTyped DEF MemoryTypeOK
<1>5. /\ forgotten' \cup undone' \subseteq DOMAIN noted
      /\ forgotten \cup undone \subseteq forgotten' \cup undone' /\ behind' \in BOOLEAN
  BY <1>1, <1>2, <1>3
<1>6. \A m \in memories' : m.id \notin numbers
  BY <1>1, <1>2, <1>3
<1>7. DeletedGone'
  BY <1>1, <1>2, <1>6 DEF DeletedGone
<1>8. OnDisk'
  <2>1. Live(memories)' = Live(memories') /\ Live(stored)' = Live(stored')
    BY <1>1 DEF Live
  <2>2. CASE gone = {}
    <3>1. memories' = Live(memories) /\ stored' = stored /\ behind' = behind
      BY <1>1, <2>2
    <3> HIDE DEF gone
    <3> QED BY <1>2, <2>1, <3>1, LiveAgain DEF OnDisk
  <2>3. CASE gone # {}
    BY <1>1, <2>1, <2>3 DEF OnDisk
  <2> QED BY <2>2, <2>3
<1>9. \A m \in memories : m \in memories' \/ m.until <= today' \/ m.id \in forgotten' \cup undone'
  BY <1>1, <1>2, <1>4, LiveOnes
<1>10. RecallsTheBest' /\ CountsAreFound'
  BY <1>1 DEF RecallsTheBest, CountsAreFound, Silence
<1>11. memories' \subseteq memories /\ (stored' = stored \/ stored' = memories')
  BY <1>1, <1>2
<1>12. noted' = noted /\ limits' \in Limits /\ today' \in Nat /\ today <= today'
  BY <1>1, <1>2
<1> HIDE DEF gone, numbers
<1> QED BY <1>5, <1>7, <1>8, <1>9, <1>10, <1>11, <1>12, ShrinkKeeps

\* What was on disk comes back, but for what has expired; only a write that
\* failed before makes a difference to what was in memory.
LEMMA RestartKeeps ==
  ASSUME MemoryIInv, NEW fails \in BOOLEAN, Restart(fails)
  PROVE  MemoryIInv'
<1> DEFINE differ == {m.id : m \in (memories \ stored) \cup (stored \ memories)}
<1>1. /\ memories' = Live(stored) /\ (stored' = stored \/ stored' = memories') /\ behind' \in BOOLEAN
      /\ undone' = IF behind THEN undone \cup differ ELSE undone
      /\ today' = today /\ limits' = limits /\ noted' = noted
      /\ forgotten' = forgotten /\ reply' = Silence
  BY DEF Restart, Write
<1>2. MemoryTypeOK /\ DeletedGone /\ OnDisk
      /\ today \in Nat /\ limits \in Limits /\ forgotten \cup undone \subseteq DOMAIN noted
      /\ memories \cup stored \subseteq Remembered
  BY DEF MemoryIInv, MemoriesAreKept, MemoryTypeOK, Remembered
<1>3. \A m \in memories \cup stored : m.until \in Int /\ m.id \in DOMAIN noted
  BY <1>2, NotedTyped DEF MemoryTypeOK
<1>4. DeletedGone'
  <2> SUFFICES ASSUME NEW m \in Live(stored), m.id \in forgotten PROVE m.id \in undone'
    BY <1>1 DEF DeletedGone
  <2>1. m \in stored
    BY LiveOnes
  <2>2. CASE m \in memories
    BY <1>1, <1>2, <2>2 DEF DeletedGone
  <2>3. CASE m \notin memories /\ behind
    BY <1>1, <2>1, <2>3
  <2>4. CASE m \notin memories /\ ~behind
    BY <1>2, <2>4, LiveOnes DEF OnDisk
  <2> QED BY <1>2, <2>2, <2>3, <2>4 DEF MemoryTypeOK
<1>5. OnDisk'
  <2>1. Live(memories)' = Live(memories') /\ Live(stored)' = Live(stored')
    BY <1>1 DEF Live
  <2> QED BY <1>1, <2>1, LiveAgain DEF OnDisk
<1>6. \A m \in memories : m \in memories' \/ m.until <= today' \/ m.id \in forgotten' \cup undone'
  <2> SUFFICES ASSUME NEW m \in memories, m \notin memories', ~(m.until <= today')
               PROVE  m.id \in undone'
    OBVIOUS
  <2>1. m.until > today
    BY <1>1, <1>2, <1>3
  <2>2. m \notin stored
    BY <1>1, <2>1, LiveOnes
  <2>3. behind
    BY <1>2, <2>1, <2>2, LiveOnes DEF OnDisk, MemoryTypeOK
  <2> QED BY <1>1, <2>2, <2>3
<1>7. /\ forgotten' \cup undone' \subseteq DOMAIN noted
      /\ forgotten \cup undone \subseteq forgotten' \cup undone'
  BY <1>1, <1>2, <1>3
<1>8. RecallsTheBest' /\ CountsAreFound'
  BY <1>1 DEF RecallsTheBest, CountsAreFound, Silence
<1>9. memories' \subseteq stored
  BY <1>1, LiveOnes
<1> HIDE DEF differ
<1> QED BY <1>1, <1>2, <1>4, <1>5, <1>6, <1>7, <1>8, <1>9, ShrinkKeeps

LEMMA MemoryStepKeeps == MemoryIInv /\ [MemoryNext]_memoryVars => MemoryIInv'
<1> SUFFICES ASSUME MemoryIInv, [MemoryNext]_memoryVars PROVE MemoryIInv'
  OBVIOUS
<1>1. ASSUME NEW note \in Notes, NEW fails \in BOOLEAN, Remember(note, fails) PROVE MemoryIInv'
  BY <1>1, RememberKeeps
<1>2. ASSUME NEW f \in Lookups, NEW limit \in Pages, NEW fails \in BOOLEAN, Recall(f, limit, fails)
      PROVE  MemoryIInv'
  <2>1. RecallsTheBest' /\ CountsAreFound'
    BY <1>2, RecallFinds
  <2> QED BY <1>2, <2>1, ReadKeeps DEF Recall
<1>3. ASSUME NEW fails \in BOOLEAN, ListCategories(fails) PROVE MemoryIInv'
  <2>1. RecallsTheBest' /\ CountsAreFound'
    BY <1>3, CategoriesCount
  <2> QED BY <1>3, <2>1, ReadKeeps DEF ListCategories
<1>4. ASSUME NEW fails \in BOOLEAN, Restart(fails) PROVE MemoryIInv'
  BY <1>4, RestartKeeps
<1>5. ASSUME NEW id \in 1..MostMemories, NEW fails \in BOOLEAN, Forget(id, fails) PROVE MemoryIInv'
  BY <1>5, DeleteKeeps DEF Forget
<1>6. ASSUME NEW f \in Lookups, NEW all \in BOOLEAN, NEW fails \in BOOLEAN, ForgetMatching(f, all, fails)
      PROVE  MemoryIInv'
  BY <1>6, DeleteKeeps DEF ForgetMatching
<1>7. /\ MemoryTypeOK /\ DeletedGone /\ OnDisk
      /\ today \in Nat /\ limits \in Limits /\ forgotten \cup undone \subseteq DOMAIN noted /\ behind \in BOOLEAN
      /\ \A m \in memories \cup stored : m.until \in Int
  BY NotedTyped DEF MemoryIInv, MemoriesAreKept, MemoryTypeOK
<1>8. CASE NextDay
  <2>1. /\ memories' = memories /\ stored' = stored /\ noted' = noted /\ limits' = limits
        /\ forgotten' = forgotten /\ undone' = undone /\ behind' = behind
        /\ today' = today + 1 /\ reply' = Silence
    BY <1>8 DEF NextDay
  <2>2. RecallsTheBest' /\ CountsAreFound'
    BY <2>1 DEF RecallsTheBest, CountsAreFound, Silence
  <2>3. today' \in Nat /\ today <= today'
    BY <1>7, <2>1
  <2>4. DeletedGone'
    BY <1>7, <2>1 DEF DeletedGone
  <2>5. OnDisk'
    <3>1. \A m \in memories \cup stored : m.until > today' => m.until > today
      BY <1>7, <2>1
    <3>2. /\ Live(memories)' = {m \in memories : m.until > today'}
          /\ Live(stored)' = {m \in stored : m.until > today'}
      BY <2>1 DEF Live
    <3> QED BY <1>7, <2>1, <3>1, <3>2 DEF OnDisk, Live
  <2>6. /\ memories' \subseteq memories /\ forgotten \cup undone \subseteq forgotten' \cup undone'
        /\ forgotten' \cup undone' \subseteq DOMAIN noted /\ limits' \in Limits /\ behind' \in BOOLEAN
        /\ \A m \in memories : m \in memories'
    BY <1>7, <2>1
  <2>7. noted' = noted /\ stored' = stored
    BY <2>1
  <2> QED BY <2>2, <2>3, <2>4, <2>5, <2>6, <2>7, ShrinkKeeps
<1>9. ASSUME NEW s \in Limits, ChangeLimits(s) PROVE MemoryIInv'
  <2>1. /\ memories' = memories /\ stored' = stored /\ noted' = noted /\ limits' \in Limits
        /\ forgotten' = forgotten /\ undone' = undone /\ behind' = behind
        /\ today' = today /\ reply' = Silence
    BY <1>9 DEF ChangeLimits
  <2>2. RecallsTheBest' /\ CountsAreFound'
    BY <2>1 DEF RecallsTheBest, CountsAreFound, Silence
  <2>3. DeletedGone' /\ OnDisk'
    BY <1>7, <2>1 DEF DeletedGone, OnDisk, Live
  <2>4. /\ memories' \subseteq memories /\ forgotten \cup undone \subseteq forgotten' \cup undone'
        /\ forgotten' \cup undone' \subseteq DOMAIN noted /\ behind' \in BOOLEAN
        /\ today' \in Nat /\ today <= today'
        /\ \A m \in memories : m \in memories'
    BY <1>7, <2>1
  <2>5. noted' = noted /\ limits' \in Limits /\ stored' = stored
    BY <2>1
  <2> QED BY <2>2, <2>3, <2>4, <2>5, ShrinkKeeps
<1>10. CASE UNCHANGED memoryVars
  <2>1. MemoryTypeOK' /\ DeletedGone' /\ OnDisk' /\ FewEnough(memories)' /\ FewEnough(stored)'
    BY <1>10 DEF memoryVars, MemoryIInv, MemoriesAreKept, MemoryTypeOK, DeletedGone, OnDisk, Live,
         FewEnough
  <2>2. StoredStays' /\ Lifetimes'
    BY <1>10 DEF memoryVars, MemoryIInv, MemoriesAreKept, StoredStays, Lifetimes
  <2>3. RecallsTheBest'
    BY <1>10 DEF memoryVars, MemoryIInv, MemoriesAreKept, RecallsTheBest
  <2>4. CountsAreFound'
    BY <1>10 DEF memoryVars, MemoryIInv, MemoriesAreKept, CountsAreFound, CountOf, Live
  <2> QED BY <2>1, <2>2, <2>3, <2>4 DEF MemoryIInv, MemoriesAreKept
<1> QED
  BY <1>1, <1>2, <1>3, <1>4, <1>5, <1>6, <1>8, <1>9, <1>10 DEF MemoryNext

LEMMA MemoryStartsSound == MemoryInit => MemoryIInv
<1> SUFFICES ASSUME MemoryInit PROVE MemoryIInv
  OBVIOUS
<1>1. /\ memories = {} /\ stored = {} /\ noted = <<>> /\ forgotten = {} /\ undone = {} /\ behind = FALSE
      /\ today = 0 /\ limits \in Limits /\ reply = Silence
  BY MemoryAssumption DEF MemoryInit
<1>2. DOMAIN noted = {}
  BY <1>1
<1>3. MemoryTypeOK
  <2>1. behind \in BOOLEAN
    BY <1>1
  <2>2. noted \in Seq([item : Items, day : Nat, by : Limits])
    BY <1>1
  <2>3. /\ \A i \in DOMAIN noted : noted[i].item.id = i
        /\ memories \cup stored \subseteq {noted[i].item : i \in DOMAIN noted}
        /\ forgotten \cup undone \subseteq DOMAIN noted /\ today \in Nat /\ limits \in Limits
    BY <1>1, <1>2
  <2> QED BY <2>1, <2>2, <2>3 DEF MemoryTypeOK
<1> QED BY <1>1, <1>2, <1>3
     DEF MemoryIInv, MemoriesAreKept, StoredStays, DeletedGone, OnDisk, Live, FewEnough, Lifetimes,
         RecallsTheBest, CountsAreFound, Silence

\* What the memory tools say holds on, over purges, prunes, changed settings and
\* restarts, unless a restart follows a write that failed, for any settings, texts,
\* queries and number of memories.
THEOREM MemoryIsSound == MemorySpec => []MemoriesAreKept
<1>1. MemoryIInv => MemoriesAreKept
  BY DEF MemoryIInv
<1> QED BY <1>1, MemoryStartsSound, MemoryStepKeeps, PTL DEF MemorySpec
=============================================================================
