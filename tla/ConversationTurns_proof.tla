----------------------- MODULE ConversationTurns_proof -----------------------
(***************************************************************************)
(* The history of ConversationTurns keeps its types and its limits and     *)
(* forgets only for a reason, and a request has the context of its own     *)
(* conversation, for any number of requests and conversations and for any  *)
(* limits.                                                                 *)
(***************************************************************************)
EXTENDS ConversationTurns, FiniteSetTheorems, SequenceTheorems, TLAPS

\* A suffix of a sequence: its length, and where its elements come from.
LEMMA SuffixOf ==
  ASSUME NEW S, NEW s \in Seq(S), NEW n \in Nat
  PROVE  /\ LastOf(s, n) \in Seq(S)
         /\ Len(LastOf(s, n)) = IF Len(s) > n THEN n ELSE Len(s)
         /\ \A i \in 1..Len(LastOf(s, n)) :
              /\ i + (Len(s) - Len(LastOf(s, n))) \in 1..Len(s)
              /\ LastOf(s, n)[i] = s[i + (Len(s) - Len(LastOf(s, n)))]
<1> DEFINE m == IF Len(s) > n THEN Len(s) - n + 1 ELSE 1
<1>1. /\ Len(s) \in Nat /\ m \in Int /\ m >= 1 /\ m <= Len(s) + 1
      /\ Len(s) - m + 1 = IF Len(s) > n THEN n ELSE Len(s)
      /\ \A i \in m..Len(s) : s[i] \in S
  OBVIOUS
<1>2. LastOf(s, n) = SubSeq(s, m, Len(s))
  BY DEF LastOf
<1> HIDE DEF m
<1>3. /\ LastOf(s, n) \in Seq(S)
      /\ Len(LastOf(s, n)) = Len(s) - m + 1
      /\ \A i \in 1..(Len(s) - m + 1) : LastOf(s, n)[i] = s[m + i - 1]
  <2>1. /\ SubSeq(s, m, Len(s)) \in Seq(S)
        /\ Len(SubSeq(s, m, Len(s))) = IF m <= Len(s) THEN Len(s) - m + 1 ELSE 0
        /\ \A i \in 1..(Len(s) - m + 1) : SubSeq(s, m, Len(s))[i] = s[m + i - 1]
    BY <1>1, SubSeqProperties
  <2> QED BY <1>1, <1>2, <2>1
<1>4. ASSUME NEW i \in 1..Len(LastOf(s, n))
      PROVE  /\ i + (Len(s) - Len(LastOf(s, n))) \in 1..Len(s)
             /\ LastOf(s, n)[i] = s[i + (Len(s) - Len(LastOf(s, n)))]
  <2>1. i \in 1..(Len(s) - m + 1) /\ Len(s) - m + 1 \in Nat
    BY <1>1, <1>3
  <2>2. i + (Len(s) - Len(LastOf(s, n))) = m + i - 1
    BY <1>1, <1>3, <2>1
  <2>3. m + i - 1 \in 1..Len(s)
    BY <1>1, <2>1
  <2> QED BY <1>3, <2>1, <2>2, <2>3
<1> QED BY <1>1, <1>3, <1>4

\* A suffix keeps the order and brings nothing new.
LEMMA SuffixOrdered ==
  ASSUME NEW s \in Seq(Moments), Increasing(s), NEW n \in Nat
  PROVE  /\ LastOf(s, n) \in Seq(Moments)
         /\ Increasing(LastOf(s, n))
         /\ ToSet(LastOf(s, n)) \subseteq ToSet(s)
         /\ Len(LastOf(s, n)) <= n
<1> DEFINE r == LastOf(s, n)
           k == Len(s) - Len(r)
<1>1. /\ r \in Seq(Moments)
      /\ Len(r) \in Nat /\ k \in Nat /\ Len(r) <= n
      /\ \A i \in 1..Len(r) : i + k \in 1..Len(s) /\ r[i] = s[i + k]
  BY SuffixOf
<1>2. DOMAIN r = 1..Len(r) /\ DOMAIN s = 1..Len(s)
  BY <1>1
<1>3. Increasing(r)
  <2> HIDE DEF r, k
  <2> SUFFICES ASSUME NEW i \in 1..Len(r), NEW j \in 1..Len(r), i < j
               PROVE  r[i] < r[j]
    BY <1>2 DEF Increasing
  <2>1. i + k \in 1..Len(s) /\ j + k \in 1..Len(s) /\ i + k < j + k
    BY <1>1
  <2>2. s[i + k] < s[j + k]
    BY <2>1, <1>2 DEF Increasing
  <2> QED BY <2>2, <1>1
<1>4. ToSet(r) \subseteq ToSet(s)
  BY <1>1, <1>2 DEF ToSet
<1> QED BY <1>1, <1>3, <1>4

\* The cleanup of one conversation (_cleanup_conversation).
LEMMA TrimmedKeeps ==
  ASSUME NEW s \in Seq(Moments), Increasing(s), NEW now \in Nat
  PROVE  /\ Trimmed(s, now) \in Seq(Moments)
         /\ Increasing(Trimmed(s, now))
         /\ ToSet(Trimmed(s, now)) \subseteq ToSet(s)
         /\ Len(Trimmed(s, now)) <= MaxTurns
<1> DEFINE F == {i \in DOMAIN s : s[i] > now - MaxAge}
           fresh == Cardinality(F)
<1>1. fresh \in Nat
  <2>1. IsFiniteSet(1..Len(s))
    BY FS_Interval
  <2>2. F \subseteq 1..Len(s)
    OBVIOUS
  <2> QED BY <2>1, <2>2, FS_Subset, FS_CardinalityType
<1>2. MaxTurns \in Nat
  BY LimitsAssumption
<1>3. Trimmed(s, now) = LastOf(LastOf(s, fresh), MaxTurns)
  BY DEF Trimmed
<1> HIDE DEF fresh
<1>4. /\ LastOf(s, fresh) \in Seq(Moments)
      /\ Increasing(LastOf(s, fresh))
      /\ ToSet(LastOf(s, fresh)) \subseteq ToSet(s)
  BY <1>1, SuffixOrdered
<1> QED BY <1>2, <1>3, <1>4, SuffixOrdered

\* A turn of a later moment goes to the end.
LEMMA AppendLater ==
  ASSUME NEW s \in Seq(Moments), Increasing(s), NEW t \in Moments,
         \A u \in ToSet(s) : u < t
  PROVE  /\ Append(s, t) \in Seq(Moments)
         /\ Increasing(Append(s, t))
         /\ ToSet(Append(s, t)) = ToSet(s) \cup {t}
<1>1. /\ Append(s, t) \in Seq(Moments)
      /\ DOMAIN s = 1..Len(s)
      /\ DOMAIN Append(s, t) = 1..(Len(s) + 1)
      /\ Len(s) \in Nat
      /\ \A i \in 1..Len(s) : Append(s, t)[i] = s[i] /\ s[i] < t
      /\ Append(s, t)[Len(s) + 1] = t
  BY DEF ToSet
<1>2. Increasing(Append(s, t))
  <2> SUFFICES ASSUME NEW i \in 1..(Len(s) + 1), NEW j \in 1..(Len(s) + 1), i < j
               PROVE  Append(s, t)[i] < Append(s, t)[j]
    BY <1>1 DEF Increasing
  <2>1. i \in 1..Len(s)
    OBVIOUS
  <2>2. CASE j = Len(s) + 1
    BY <2>1, <2>2, <1>1
  <2>3. CASE j \in 1..Len(s)
    BY <2>1, <2>3, <1>1 DEF Increasing
  <2> QED BY <2>2, <2>3, <1>1
<1>3. ToSet(Append(s, t)) = ToSet(s) \cup {t}
  <2>1. ToSet(Append(s, t)) = {Append(s, t)[i] : i \in 1..(Len(s) + 1)}
    BY <1>1 DEF ToSet
  <2>2. 1..(Len(s) + 1) = 1..Len(s) \cup {Len(s) + 1}
    BY <1>1
  <2>3. ToSet(s) = {s[i] : i \in 1..Len(s)}
    BY <1>1 DEF ToSet
  <2> QED BY <2>1, <2>2, <2>3, <1>1
<1> QED BY <1>1, <1>2, <1>3

-----------------------------------------------------------------------------
\* Of distinct numbers, if each has fewer than M greater ones, there are at
\* most M: the number of greater ones tells them apart.
LEMMA FewAbove ==
  ASSUME NEW K, IsFiniteSet(K), NEW g \in [K -> Nat], NEW M \in Nat,
         \A c, d \in K : c # d => g[c] # g[d],
         \A c \in K : Cardinality({d \in K : g[d] > g[c]}) < M
  PROVE  Cardinality(K) <= M
<1> DEFINE Above(c) == {d \in K : g[d] > g[c]}
           Rank == [c \in K |-> Cardinality(Above(c))]
           Ranks == 0..(M - 1)
<1>1. \A c \in K : IsFiniteSet(Above(c)) /\ Cardinality(Above(c)) \in Nat
  <2> TAKE c \in K
  <2>1. Above(c) \subseteq K
    OBVIOUS
  <2> QED BY <2>1, FS_Subset, FS_CardinalityType
<1>2. ASSUME NEW c \in K, NEW d \in K, g[c] < g[d]
      PROVE  Cardinality(Above(c)) # Cardinality(Above(d))
  <2>1. Above(d) \subseteq Above(c)
    BY <1>2
  <2>2. d \in Above(c) /\ d \notin Above(d)
    BY <1>2
  <2> HIDE DEF Above
  <2> QED BY <1>1, <2>1, <2>2, FS_Subset
<1>3. Rank \in Injection(K, Ranks)
  <2>1. \A c \in K : Cardinality(Above(c)) \in Ranks
    BY <1>1
  <2>2. ASSUME NEW c \in K, NEW d \in K, c # d
        PROVE  Rank[c] # Rank[d]
    <3>1. g[c] < g[d] \/ g[d] < g[c]
      BY <2>2
    <3> QED BY <1>2, <3>1
  <2> QED BY <2>1, <2>2 DEF Injection, IsInjective
<1>4. IsFiniteSet(Ranks) /\ Cardinality(Ranks) = M
  BY FS_Interval
<1> HIDE DEF Rank, Ranks
<1> QED BY <1>3, <1>4, FS_Injection

-----------------------------------------------------------------------------
\* The sweep of add_turn (_prune_all_conversations).
LEMMA PrunedKeeps ==
  ASSUME NEW f \in [Conversations -> Seq(Moments)],
         \A c \in Conversations : Increasing(f[c]),
         \A c, d \in Conversations : c # d => ToSet(f[c]) \cap ToSet(f[d]) = {},
         NEW now \in Nat
  PROVE  /\ Pruned(f, now) \in [Conversations -> Seq(Moments)]
         /\ \A c \in Conversations :
              /\ Increasing(Pruned(f, now)[c])
              /\ ToSet(Pruned(f, now)[c]) \subseteq ToSet(f[c])
              /\ Len(Pruned(f, now)[c]) <= MaxTurns
         /\ Cardinality(KeptIn(Pruned(f, now))) <= MaxConversations
<1> DEFINE h == [c \in Conversations |-> Trimmed(f[c], now)]
           p == [c \in Conversations |-> IF c \in Evicted(h) THEN <<>> ELSE h[c]]
<1>1. Pruned(f, now) = p
  BY DEF Pruned
<1>2. /\ h \in [Conversations -> Seq(Moments)]
      /\ \A c \in Conversations :
           /\ Increasing(h[c])
           /\ ToSet(h[c]) \subseteq ToSet(f[c])
           /\ Len(h[c]) <= MaxTurns
  BY TrimmedKeeps
<1> HIDE DEF h
<1>3. \A c \in Conversations :
        /\ p[c] \in Seq(Moments)
        /\ Increasing(p[c])
        /\ ToSet(p[c]) \subseteq ToSet(f[c])
        /\ Len(p[c]) <= MaxTurns
  <2> TAKE c \in Conversations
  <2>1. CASE c \in Evicted(h)
    <3>1. p[c] = <<>>
      BY <2>1
    <3>2. /\ <<>> \in Seq(Moments) /\ Increasing(<<>>)
          /\ ToSet(<<>>) = {} /\ Len(<<>>) <= MaxTurns
      <4>1. DOMAIN <<>> = {} /\ Len(<<>>) = 0 /\ <<>> \in Seq(Moments)
        OBVIOUS
      <4> QED BY <4>1, LimitsAssumption DEF Increasing, ToSet
    <3> HIDE DEF p
    <3> QED BY <3>1, <3>2
  <2>2. CASE c \notin Evicted(h)
    BY <2>2, <1>2
  <2> QED BY <2>1, <2>2
<1>4. Cardinality(KeptIn(p)) <= MaxConversations
  <2> DEFINE K == KeptIn(h) \ Evicted(h)
             g == [c \in K |-> Last(h[c])]
  <2>1. KeptIn(p) = K
    BY DEF KeptIn, Evicted
  <2>2. IsFiniteSet(KeptIn(h)) /\ IsFiniteSet(K)
    BY LimitsAssumption, FS_Subset DEF KeptIn
  <2>3. \A c \in KeptIn(h) : Last(h[c]) \in ToSet(f[c]) /\ Last(h[c]) \in Nat
    <3> TAKE c \in KeptIn(h)
    <3>1. c \in Conversations /\ h[c] \in Seq(Moments) /\ h[c] # <<>>
      BY <1>2 DEF KeptIn
    <3>2. Len(h[c]) \in DOMAIN h[c] /\ h[c][Len(h[c])] \in Moments
      BY <3>1
    <3>3. Last(h[c]) \in ToSet(h[c])
      BY <3>2 DEF Last, ToSet
    <3> QED BY <3>1, <3>2, <3>3, <1>2 DEF Last, Moments
  <2>4. g \in [K -> Nat]
    BY <2>3
  <2>5. \A c, d \in K : c # d => g[c] # g[d]
    BY <2>3 DEF KeptIn
  <2>6. \A c \in K : Cardinality({d \in K : g[d] > g[c]}) < MaxConversations
    <3> TAKE c \in K
    <3> DEFINE Mine == {d \in K : g[d] > g[c]}
               All == {d \in KeptIn(h) : Last(h[d]) > Last(h[c])}
    <3>1. Mine \subseteq All /\ All \subseteq KeptIn(h)
      OBVIOUS
    <3>2. ~(Cardinality(All) >= MaxConversations)
      BY DEF Evicted
    <3> HIDE DEF Mine, All
    <3>3. /\ IsFiniteSet(All) /\ Cardinality(All) \in Nat
          /\ Cardinality(Mine) \in Nat /\ Cardinality(Mine) <= Cardinality(All)
      BY <3>1, <2>2, FS_Subset, FS_CardinalityType
    <3>4. Cardinality(Mine) < MaxConversations
      BY <3>2, <3>3, LimitsAssumption
    <3> QED BY <3>4 DEF Mine
  <2> HIDE DEF K, g
  <2>7. Cardinality(K) <= MaxConversations
    BY <2>2, <2>4, <2>5, <2>6, FewAbove, LimitsAssumption
  <2> QED BY <2>1, <2>7
<1> QED BY <1>1, <1>3, <1>4

-----------------------------------------------------------------------------
\* The inductive invariant holds initially.
LEMMA InitHolds == Init => IInv
<1> SUFFICES ASSUME Init PROVE IInv
  OBVIOUS
<1>1. /\ <<>> \in Seq(Moments) /\ Increasing(<<>>)
      /\ ToSet(<<>>) = {} /\ Len(<<>>) = 0
  <2>1. DOMAIN <<>> = {} /\ Len(<<>>) = 0 /\ <<>> \in Seq(Moments)
    OBVIOUS
  <2> QED BY <2>1 DEF Increasing, ToSet
<1>2. \A c \in Conversations : turns[c] = <<>> /\ log[c] = <<>>
  BY DEF Init
<1>3. TypeOK
  BY <1>1, LimitsAssumption DEF Init, TypeOK, Indications, Deciders
<1>4. Past /\ Distinct
  BY <1>1, <1>2 DEF Past, Distinct
<1>5. Bounded
  <2>1. KeptIn(turns) = {}
    BY <1>2 DEF KeptIn
  <2> QED BY <1>1, <1>2, <2>1, FS_EmptySet, LimitsAssumption DEF Bounded
<1>6. InFlight
  BY DEF Init, InFlight
<1> QED BY <1>3, <1>4, <1>5, <1>6 DEF IInv

\* The end of a request keeps the types of what belongs to the request.
LEMMA EndKeeps ==
  ASSUME TypeOK, NEW r \in Requests, NEW by \in Deciders, NEW go \in BOOLEAN,
         End(r, by, go)
  PROVE  /\ pc' \in [Requests -> {"idle", "resolving", "asking"}]
         /\ conv' \in [Requests -> Conversations \cup {None}]
         /\ context' \in [Requests -> Seq(Moments)]
         /\ said' \in [Requests -> Indications]
         /\ last' \in [by : Deciders, continues : BOOLEAN, said : Indications]
  BY DEF TypeOK, End, Indications

\* Replacing the turns of a conversation by a part of them keeps the
\* history in order and within its limits.
LEMMA FewerTurns ==
  ASSUME TypeOK, Past, Distinct, Bounded, NEW c \in Conversations, NEW s,
         s \in Seq(Moments), Increasing(s), ToSet(s) \subseteq ToSet(turns[c]),
         Len(s) <= MaxTurns, turns[c] = <<>> => s = <<>>,
         turns' = [turns EXCEPT ![c] = s], log' = log, clock' = clock
  PROVE  /\ turns' \in [Conversations -> Seq(Moments)]
         /\ \A d \in Conversations : Increasing(turns'[d])
         /\ Past' /\ Distinct' /\ Bounded'
<1>1. /\ turns \in [Conversations -> Seq(Moments)]
      /\ \A d \in Conversations : Increasing(turns[d])
  BY DEF TypeOK
<1>2. \A d \in Conversations :
        /\ turns'[d] \in Seq(Moments) /\ Increasing(turns'[d])
        /\ ToSet(turns'[d]) \subseteq ToSet(turns[d])
        /\ Len(turns'[d]) <= MaxTurns
        /\ turns[d] = <<>> => turns'[d] = <<>>
  BY <1>1 DEF Bounded
<1>3. Past' /\ Distinct'
  BY <1>2 DEF Past, Distinct
<1>4. Bounded'
  <2>1. KeptIn(turns') \subseteq KeptIn(turns) /\ KeptIn(turns) \subseteq Conversations
    BY <1>2 DEF KeptIn
  <2>2. /\ Cardinality(KeptIn(turns')) <= Cardinality(KeptIn(turns))
        /\ Cardinality(KeptIn(turns')) \in Nat /\ Cardinality(KeptIn(turns)) \in Nat
    BY <2>1, LimitsAssumption, FS_Subset, FS_CardinalityType
  <2> QED BY <1>2, <2>2, LimitsAssumption DEF Bounded
<1> QED BY <1>1, <1>2, <1>3, <1>4

\* What add_turn makes of the history.
LEMMA AddTurnKeeps ==
  ASSUME TypeOK, Past, Distinct, NEW c \in Conversations, AddTurn(c)
  PROVE  /\ clock' \in 0..MaxClock
         /\ turns' \in [Conversations -> Seq(Moments)]
         /\ log' \in [Conversations -> Seq(Moments)]
         /\ \A d \in Conversations : Increasing(turns'[d]) /\ Increasing(log'[d])
         /\ Past' /\ Distinct' /\ Bounded'
<1> DEFINE f == [turns EXCEPT ![c] = Append(@, clock')]
<1>1. /\ clock \in Nat /\ clock' = clock + 1
      /\ clock' \in Moments /\ clock' \in Nat /\ clock' \in 0..MaxClock
  BY LimitsAssumption DEF TypeOK, AddTurn, Moments
<1>2. /\ turns \in [Conversations -> Seq(Moments)]
      /\ log \in [Conversations -> Seq(Moments)]
      /\ \A d \in Conversations : Increasing(turns[d]) /\ Increasing(log[d])
  BY DEF TypeOK
<1>3. \A d \in Conversations :
        /\ \A u \in ToSet(turns[d]) : u \in 1..clock /\ u < clock'
        /\ \A u \in ToSet(log[d]) : u \in 1..clock /\ u < clock'
  BY <1>1 DEF Past
<1>4. /\ turns' = Pruned(f, clock')
      /\ log' = [log EXCEPT ![c] = Append(@, clock')]
  BY DEF AddTurn
<1>5. \A d \in Conversations :
        /\ f[d] \in Seq(Moments) /\ Increasing(f[d])
        /\ ToSet(f[d]) = IF d = c THEN ToSet(turns[d]) \cup {clock'}
                         ELSE ToSet(turns[d])
  <2>1. /\ Append(turns[c], clock') \in Seq(Moments)
        /\ Increasing(Append(turns[c], clock'))
        /\ ToSet(Append(turns[c], clock')) = ToSet(turns[c]) \cup {clock'}
    BY <1>1, <1>2, <1>3, AppendLater
  <2> QED BY <2>1, <1>2
<1>6. \A d \in Conversations :
        /\ log'[d] \in Seq(Moments) /\ Increasing(log'[d])
        /\ ToSet(log'[d]) \subseteq ToSet(log[d]) \cup {clock'}
  <2>1. /\ Append(log[c], clock') \in Seq(Moments)
        /\ Increasing(Append(log[c], clock'))
        /\ ToSet(Append(log[c], clock')) = ToSet(log[c]) \cup {clock'}
    BY <1>1, <1>2, <1>3, AppendLater
  <2> QED BY <2>1, <1>2, <1>4
<1>7. f \in [Conversations -> Seq(Moments)]
  BY <1>2, <1>5
<1>8. \A d, e \in Conversations : d # e => ToSet(f[d]) \cap ToSet(f[e]) = {}
  <2> SUFFICES ASSUME NEW d \in Conversations, NEW e \in Conversations, d # e,
                      NEW u \in ToSet(f[d]), u \in ToSet(f[e])
               PROVE  FALSE
    OBVIOUS
  <2>1. ToSet(turns[d]) \cap ToSet(turns[e]) = {}
    BY DEF Distinct
  <2>2. clock' \notin ToSet(turns[d]) /\ clock' \notin ToSet(turns[e])
    BY <1>1, <1>3
  <2> HIDE DEF f
  <2> QED BY <1>5, <2>1, <2>2
<1> HIDE DEF f
<1>9. /\ Pruned(f, clock') \in [Conversations -> Seq(Moments)]
      /\ \A d \in Conversations :
           /\ Increasing(Pruned(f, clock')[d])
           /\ ToSet(Pruned(f, clock')[d]) \subseteq ToSet(f[d])
           /\ Len(Pruned(f, clock')[d]) <= MaxTurns
      /\ Cardinality(KeptIn(Pruned(f, clock'))) <= MaxConversations
  BY <1>1, <1>5, <1>7, <1>8, PrunedKeeps
<1>10. Past'
  <2> SUFFICES ASSUME NEW d \in Conversations,
                      NEW u \in ToSet(turns'[d]) \cup ToSet(log'[d])
               PROVE  u \in 1..clock'
    BY DEF Past
  <2>1. u \in ToSet(turns[d]) \cup ToSet(log[d]) \cup {clock'}
    BY <1>4, <1>5, <1>6, <1>9
  <2> QED BY <2>1, <1>1, <1>3
<1>11. Distinct'
  BY <1>4, <1>8, <1>9 DEF Distinct
<1>12. Bounded'
  BY <1>4, <1>9 DEF Bounded
<1>13. log' \in [Conversations -> Seq(Moments)]
  BY <1>2, <1>4, <1>6
<1> QED BY <1>1, <1>4, <1>6, <1>9, <1>10, <1>11, <1>12, <1>13

\* What every step of a request leaves alone keeps the history as it is.
LEMMA HistoryUnchanged ==
  ASSUME IInv, UNCHANGED <<clock, turns, log>>
  PROVE  Past' /\ Distinct' /\ Bounded'
  BY DEF IInv, Past, Distinct, Bounded

\* Reading the history, with or without anything left to read.
LEMMA ReadKeeps ==
  ASSUME TypeOK, Past, Distinct, Bounded, NEW c \in Conversations,
         turns' = [turns EXCEPT ![c] = Trimmed(turns[c], clock)],
         UNCHANGED <<clock, log>>
  PROVE  /\ turns' \in [Conversations -> Seq(Moments)]
         /\ \A d \in Conversations : Increasing(turns'[d])
         /\ Past' /\ Distinct' /\ Bounded'
<1> DEFINE s == Trimmed(turns[c], clock)
<1>1. turns[c] \in Seq(Moments) /\ Increasing(turns[c]) /\ clock \in Nat
  BY LimitsAssumption DEF TypeOK
<1>2. /\ s \in Seq(Moments) /\ Increasing(s)
      /\ ToSet(s) \subseteq ToSet(turns[c]) /\ Len(s) <= MaxTurns
  BY <1>1, TrimmedKeeps
<1>3. turns[c] = <<>> => s = <<>>
  <2> SUFFICES ASSUME turns[c] = <<>> PROVE s = <<>>
    OBVIOUS
  <2>1. ToSet(turns[c]) = {}
    BY DEF ToSet
  <2>2. ToSet(s) = {}
    BY <1>2, <2>1
  <2> HIDE DEF s
  <2>3. /\ DOMAIN s = 1..Len(s) /\ Len(s) \in Nat
        /\ \A i \in DOMAIN s : s[i] \in ToSet(s)
    BY <1>2 DEF ToSet
  <2>4. Len(s) = 0
    BY <2>2, <2>3
  <2> QED BY <1>2, <2>4
<1>4. turns' = [turns EXCEPT ![c] = s] /\ log' = log /\ clock' = clock
  OBVIOUS
<1> HIDE DEF s
<1> QED BY <1>2, <1>3, <1>4, FewerTurns

\* Every step preserves the invariant.
LEMMA NextHolds == IInv /\ [Next]_vars => IInv'
<1> SUFFICES ASSUME IInv, [Next]_vars PROVE IInv'
  OBVIOUS
<1>0. TypeOK /\ InFlight /\ Past /\ Distinct /\ Bounded
  BY DEF IInv
<1>1. CASE \E r \in Requests : \E c \in Conversations : Begin(r, c)
  <2>1. TypeOK' /\ InFlight'
    BY <1>0, <1>1 DEF TypeOK, InFlight, Begin
  <2>2. UNCHANGED <<clock, turns, log>>
    BY <1>1 DEF Begin
  <2> QED BY <2>1, <2>2, HistoryUnchanged DEF IInv
<1>2. CASE \E r \in Requests : ReadHistory(r)
  <2>1. PICK r \in Requests : ReadHistory(r)
    BY <1>2
  <2> DEFINE c == conv[r]
  <2>2. c \in Conversations
    BY <1>0, <2>1 DEF ReadHistory, InFlight
  <2>3. /\ turns' \in [Conversations -> Seq(Moments)]
        /\ \A d \in Conversations : Increasing(turns'[d])
        /\ Past' /\ Distinct' /\ Bounded'
    BY <1>0, <2>1, <2>2, ReadKeeps DEF ReadHistory
  <2>4. LastOf(turns'[c], HistoryLimit) \in Seq(Moments)
    BY <2>2, <2>3, SuffixOf, LimitsAssumption
  <2>5. TypeOK' /\ InFlight'
    BY <1>0, <2>1, <2>3, <2>4 DEF TypeOK, InFlight, ReadHistory
  <2> QED BY <2>3, <2>5 DEF IInv
<1>3. CASE \E r \in Requests : ReadExpired(r)
  <2>1. PICK r \in Requests : ReadExpired(r)
    BY <1>3
  <2> DEFINE c == conv[r]
  <2>2. c \in Conversations
    BY <1>0, <2>1 DEF ReadExpired, InFlight
  <2>3. /\ turns' \in [Conversations -> Seq(Moments)]
        /\ \A d \in Conversations : Increasing(turns'[d])
        /\ Past' /\ Distinct' /\ Bounded'
    BY <1>0, <2>1, <2>2, ReadKeeps DEF ReadExpired
  <2>4. End(r, "KeyError", FALSE) /\ UNCHANGED <<clock, log, expecting>>
    BY <2>1 DEF ReadExpired
  <2>5. TypeOK'
    BY <1>0, <2>3, <2>4, EndKeeps DEF TypeOK, Deciders
  <2>6. InFlight'
    BY <1>0, <2>4 DEF InFlight, End, TypeOK
  <2> QED BY <2>3, <2>5, <2>6 DEF IInv
<1>4. CASE \E r \in Requests : \E i \in Hints : Indicate(r, i)
  <2>1. TypeOK' /\ InFlight'
    BY <1>0, <1>4, LimitsAssumption DEF TypeOK, InFlight, Indicate, Indications
  <2>2. UNCHANGED <<clock, turns, log>>
    BY <1>4 DEF Indicate
  <2> QED BY <2>1, <2>2, HistoryUnchanged DEF IInv
<1>5. CASE \E r \in Requests : Fail(r)
  <2>1. PICK r \in Requests : Fail(r)
    BY <1>5
  <2>2. End(r, "failure", FALSE) /\ UNCHANGED <<clock, turns, log, expecting>>
    BY <2>1 DEF Fail
  <2>3. TypeOK'
    BY <1>0, <2>2, EndKeeps DEF TypeOK, Deciders
  <2>4. InFlight'
    BY <1>0, <2>2 DEF InFlight, End, TypeOK
  <2> QED BY <2>2, <2>3, <2>4, HistoryUnchanged DEF IInv
<1>6. CASE \E r \in Requests : Answer(r)
  <2>1. PICK r \in Requests : Answer(r)
    BY <1>6
  <2>2. conv[r] \in Conversations
    BY <1>0, <2>1 DEF Answer, InFlight
  <2>3. /\ clock' \in 0..MaxClock
        /\ turns' \in [Conversations -> Seq(Moments)]
        /\ log' \in [Conversations -> Seq(Moments)]
        /\ \A d \in Conversations : Increasing(turns'[d]) /\ Increasing(log'[d])
        /\ Past' /\ Distinct' /\ Bounded'
    BY <1>0, <2>1, <2>2, AddTurnKeeps DEF Answer
  <2>4. PICK ends \in BOOLEAN, asks \in BOOLEAN : Decide(r, ends, asks)
    BY <2>1 DEF Answer
  <2>5. \E by \in Deciders, go \in BOOLEAN : End(r, by, go)
    <3> DEFINE by == CASE ends /\ FollowUpMode # "none" -> "user"
                       [] FollowUpMode # "default"     -> "mode"
                       [] expecting # "unset"          -> "tool"
                       [] OTHER                        -> "patterns"
               go == \/ by = "mode" /\ FollowUpMode = "always"
                     \/ by = "tool" /\ expecting = "open"
                     \/ by = "patterns" /\ asks
    <3>1. End(r, by, go)
      BY <2>4 DEF Decide
    <3>2. by \in Deciders
      BY DEF Deciders
    <3>3. go \in BOOLEAN
      BY <2>4
    <3> HIDE DEF by, go
    <3> QED BY <3>1, <3>2, <3>3
  <2>6. expecting' \in Indications
    BY <1>0, <2>4 DEF Decide, TypeOK, Indications
  <2>7. TypeOK'
    BY <1>0, <2>3, <2>5, <2>6, EndKeeps DEF TypeOK
  <2>8. InFlight'
    BY <1>0, <2>5 DEF InFlight, End, TypeOK
  <2> QED BY <2>3, <2>7, <2>8 DEF IInv
<1>7. CASE Wait
  <2>1. /\ clock' = clock + 1 /\ clock < MaxClock /\ clock \in 0..MaxClock
        /\ UNCHANGED <<turns, log, pc, conv, context, expecting, said, last>>
    BY <1>0, <1>7 DEF Wait, TypeOK
  <2>2. clock' \in 0..MaxClock /\ 1..clock \subseteq 1..clock'
    BY <2>1, LimitsAssumption
  <2>3. TypeOK' /\ InFlight'
    BY <1>0, <2>1, <2>2 DEF TypeOK, InFlight
  <2>4. Past' /\ Distinct' /\ Bounded'
    BY <1>0, <2>1, <2>2 DEF Past, Distinct, Bounded
  <2> QED BY <2>3, <2>4 DEF IInv
<1>8. CASE UNCHANGED vars
  <2>1. TypeOK' /\ InFlight'
    BY <1>0, <1>8 DEF TypeOK, InFlight, vars
  <2>2. UNCHANGED <<clock, turns, log>>
    BY <1>8 DEF vars
  <2> QED BY <2>1, <2>2, HistoryUnchanged DEF IInv
<1> QED BY <1>1, <1>2, <1>3, <1>4, <1>5, <1>6, <1>7, <1>8 DEF Next

\* The inductive invariant of the history.
THEOREM Invariant == Spec => []IInv
  BY InitHolds, NextHolds, PTL DEF Spec

\* Every variable keeps its type, and the turns of every conversation stay in
\* the order of time.
THEOREM TypeCorrect == Spec => []TypeOK
<1>1. IInv => TypeOK
  BY DEF IInv
<1> QED BY <1>1, Invariant, PTL

\* The history never exceeds its limits on turns and on conversations.
THEOREM HistoryBounded == Spec => []Bounded
<1>1. IInv => Bounded
  BY DEF IInv
<1> QED BY <1>1, Invariant, PTL

-----------------------------------------------------------------------------
(* Histories and contexts without gaps *)

\* LastOf, and so the cleanup, leaves a suffix.
LEMMA LastOfEndsIn ==
  ASSUME NEW s \in Seq(Moments), NEW n \in Nat
  PROVE  EndsIn(LastOf(s, n), s)
<1> DEFINE r == LastOf(s, n)
           k == Len(s) - Len(r)
<1>1. /\ Len(r) = IF Len(s) > n THEN n ELSE Len(s)
      /\ \A i \in 1..Len(r) : r[i] = s[i + k]
  BY SuffixOf
<1>2. k \in 0..Len(s) /\ k + Len(r) = Len(s)
  <2>1. Len(s) \in Nat
    OBVIOUS
  <2> QED BY <1>1, <2>1
<1> HIDE DEF r, k
<1>3. EndsIn(r, s)
  BY <1>1, <1>2 DEF EndsIn, After
<1> QED BY <1>3 DEF r

LEMMA EndsInTransitive ==
  ASSUME NEW s \in Seq(Moments), NEW m \in Seq(Moments), NEW l \in Seq(Moments),
         EndsIn(s, m), EndsIn(m, l)
  PROVE  EndsIn(s, l)
<1>1. PICK j \in 0..Len(m) : j + Len(s) = Len(m) /\ After(j, s, m)
  BY DEF EndsIn
<1>2. PICK k \in 0..Len(l) : k + Len(m) = Len(l) /\ After(k, m, l)
  BY DEF EndsIn
<1>3. Len(s) \in Nat /\ Len(m) \in Nat /\ Len(l) \in Nat
  OBVIOUS
<1>4. After(j + k, s, l)
  <2> SUFFICES ASSUME NEW i \in 1..Len(s) PROVE s[i] = l[i + (j + k)]
    BY DEF After
  <2>1. i + j \in 1..Len(m) /\ (i + j) + k = i + (j + k)
    BY <1>1, <1>2, <1>3
  <2>2. s[i] = m[i + j]
    BY <1>1 DEF After
  <2>3. m[i + j] = l[(i + j) + k]
    BY <1>2, <2>1 DEF After
  <2> QED BY <2>1, <2>2, <2>3
<1>5. j + k \in 0..Len(l) /\ (j + k) + Len(s) = Len(l)
  <2> DEFINE x == Len(s)
             y == Len(m)
             z == Len(l)
  <2>1. /\ x \in Nat /\ y \in Nat /\ z \in Nat
        /\ j \in 0..y /\ k \in 0..z /\ j + x = y /\ k + y = z
    BY <1>1, <1>2, <1>3
  <2> HIDE DEF x, y, z
  <2>2. j + k \in 0..z /\ (j + k) + x = z
    BY <2>1
  <2> QED BY <2>2 DEF x, z
<1> QED BY <1>4, <1>5 DEF EndsIn

LEMMA TrimmedEndsIn ==
  ASSUME NEW s \in Seq(Moments), NEW now \in Nat
  PROVE  Trimmed(s, now) \in Seq(Moments) /\ EndsIn(Trimmed(s, now), s)
<1> DEFINE F == {i \in DOMAIN s : s[i] > now - MaxAge}
           fresh == Cardinality(F)
<1>1. fresh \in Nat
  <2>1. IsFiniteSet(1..Len(s)) /\ F \subseteq 1..Len(s)
    BY FS_Interval
  <2> QED BY <2>1, FS_Subset, FS_CardinalityType
<1>2. MaxTurns \in Nat
  BY LimitsAssumption
<1>3. Trimmed(s, now) = LastOf(LastOf(s, fresh), MaxTurns)
  BY DEF Trimmed
<1> HIDE DEF fresh
<1>4. LastOf(s, fresh) \in Seq(Moments) /\ EndsIn(LastOf(s, fresh), s)
  BY <1>1, SuffixOf, LastOfEndsIn
<1>5. /\ LastOf(LastOf(s, fresh), MaxTurns) \in Seq(Moments)
      /\ EndsIn(LastOf(LastOf(s, fresh), MaxTurns), LastOf(s, fresh))
  BY <1>2, <1>4, SuffixOf, LastOfEndsIn
<1> QED BY <1>3, <1>4, <1>5, EndsInTransitive

\* A turn that is appended to both keeps a suffix a suffix, and a piece is
\* still where it was.
LEMMA AppendEndsIn ==
  ASSUME NEW s \in Seq(Moments), NEW l \in Seq(Moments), NEW t \in Moments,
         EndsIn(s, l)
  PROVE  EndsIn(Append(s, t), Append(l, t))
<1>1. PICK k \in 0..Len(l) : k + Len(s) = Len(l) /\ After(k, s, l)
  BY DEF EndsIn
<1>2. /\ Len(s) \in Nat /\ Len(l) \in Nat
      /\ Len(Append(s, t)) = Len(s) + 1 /\ Len(Append(l, t)) = Len(l) + 1
      /\ \A i \in 1..Len(s) : Append(s, t)[i] = s[i]
      /\ \A i \in 1..Len(l) : Append(l, t)[i] = l[i]
      /\ Append(s, t)[Len(s) + 1] = t /\ Append(l, t)[Len(l) + 1] = t
  OBVIOUS
<1>3. After(k, Append(s, t), Append(l, t))
  <2> SUFFICES ASSUME NEW i \in 1..(Len(s) + 1)
               PROVE  Append(s, t)[i] = Append(l, t)[i + k]
    BY <1>2 DEF After
  <2>1. CASE i = Len(s) + 1
    <3>1. i + k = Len(l) + 1
      BY <2>1, <1>1, <1>2
    <3> QED BY <3>1, <2>1, <1>2
  <2>2. CASE i \in 1..Len(s)
    <3>1. i + k \in 1..Len(l)
      BY <2>2, <1>1, <1>2
    <3>2. s[i] = l[i + k]
      BY <2>2, <1>1 DEF After
    <3> QED BY <3>1, <3>2, <2>2, <1>2
  <2>3. i = Len(s) + 1 \/ i \in 1..Len(s)
    BY <1>2
  <2> QED BY <2>1, <2>2, <2>3
<1>4. k \in 0..Len(Append(l, t)) /\ k + Len(Append(s, t)) = Len(Append(l, t))
  BY <1>1, <1>2
<1> QED BY <1>3, <1>4 DEF EndsIn

LEMMA AppendPiece ==
  ASSUME NEW s \in Seq(Moments), NEW l \in Seq(Moments), NEW t \in Moments,
         Piece(s, l)
  PROVE  Piece(s, Append(l, t))
<1>1. PICK k \in 0..Len(l) : k + Len(s) <= Len(l) /\ After(k, s, l)
  BY DEF Piece
<1>2. /\ Len(l) \in Nat /\ Len(s) \in Nat /\ Len(Append(l, t)) = Len(l) + 1
      /\ \A i \in 1..Len(l) : Append(l, t)[i] = l[i]
  OBVIOUS
<1>3. After(k, s, Append(l, t))
  <2> SUFFICES ASSUME NEW i \in 1..Len(s) PROVE s[i] = Append(l, t)[i + k]
    BY DEF After
  <2>1. i + k \in 1..Len(l)
    BY <1>1, <1>2
  <2>2. s[i] = l[i + k]
    BY <1>1 DEF After
  <2> QED BY <1>2, <2>1, <2>2
<1>4. k \in 0..Len(Append(l, t)) /\ k + Len(s) <= Len(Append(l, t))
  BY <1>1, <1>2
<1> QED BY <1>3, <1>4 DEF Piece

\* What a request reads is a piece of what was recorded.
LEMMA SuffixIsPiece ==
  ASSUME NEW s \in Seq(Moments), NEW l \in Seq(Moments), EndsIn(s, l)
  PROVE  Piece(s, l)
<1>1. PICK k \in 0..Len(l) : k + Len(s) = Len(l) /\ After(k, s, l)
  BY DEF EndsIn
<1>2. k + Len(s) <= Len(l)
  BY <1>1
<1> QED BY <1>1, <1>2 DEF Piece

LEMMA PieceIsSubSeq ==
  ASSUME NEW s \in Seq(Moments), NEW l \in Seq(Moments), s # <<>>, Piece(s, l)
  PROVE  \E i, j \in DOMAIN l : s = SubSeq(l, i, j)
<1>1. PICK k \in 0..Len(l) : /\ k + Len(s) <= Len(l)
                             /\ \A i \in 1..Len(s) : s[i] = l[i + k]
  BY DEF Piece, After
<1>2. /\ Len(s) \in Nat /\ Len(s) > 0 /\ Len(l) \in Nat /\ DOMAIN l = 1..Len(l)
      /\ s = [i \in 1..Len(s) |-> s[i]]
  <2>1. Len(s) \in Nat /\ Len(l) \in Nat /\ DOMAIN l = 1..Len(l) /\ DOMAIN s = 1..Len(s)
    OBVIOUS
  <2>2. Len(s) # 0
    OBVIOUS
  <2>3. s = [i \in 1..Len(s) |-> s[i]]
    BY <2>1
  <2> QED BY <2>1, <2>2, <2>3
<1> DEFINE a == k + 1
           b == k + Len(s)
           q == SubSeq(l, a, b)
<1>3. a \in 1..Len(l) /\ b \in 1..Len(l) /\ b - a + 1 = Len(s) /\ a <= b
  <2> DEFINE x == Len(s)
             y == Len(l)
  <2>1. x \in Nat /\ x > 0 /\ y \in Nat /\ k \in 0..y /\ k + x <= y
    BY <1>1, <1>2
  <2>2. k + 1 \in 1..y /\ k + x \in 1..y /\ (k + x) - (k + 1) + 1 = x /\ k + 1 <= k + x
    <3> HIDE DEF x, y
    <3> QED BY <2>1
  <2> QED BY <2>2
<1>4. /\ q \in Seq(Moments) /\ Len(q) = Len(s)
      /\ \A i \in 1..Len(s) : q[i] = l[a + i - 1]
  <2>1. \A i \in a..b : l[i] \in Moments
    BY <1>3
  <2>2. /\ q \in Seq(Moments)
        /\ Len(q) = IF a <= b THEN b - a + 1 ELSE 0
        /\ \A i \in 1..(b - a + 1) : q[i] = l[a + i - 1]
    BY <1>3, <2>1, SubSeqProperties
  <2> QED BY <1>3, <2>2
<1>5. \A i \in 1..Len(s) : q[i] = s[i]
  <2> TAKE i \in 1..Len(s)
  <2>1. a + i - 1 = i + k
    BY <1>1, <1>2
  <2> QED BY <1>1, <1>4, <2>1
<1> HIDE DEF a, b, q
<1>6. q = s
  BY <1>2, <1>4, <1>5
<1> QED BY <1>2, <1>3, <1>6 DEF q

-----------------------------------------------------------------------------
\* The sweep leaves a suffix of every conversation, which may be empty.
LEMMA PrunedEndsIn ==
  ASSUME NEW f \in [Conversations -> Seq(Moments)], NEW now \in Nat,
         NEW c \in Conversations
  PROVE  /\ Pruned(f, now)[c] \in Seq(Moments)
         /\ EndsIn(Pruned(f, now)[c], f[c])
<1> DEFINE h == [d \in Conversations |-> Trimmed(f[d], now)]
<1>1. Pruned(f, now)[c] = IF c \in Evicted(h) THEN <<>> ELSE Trimmed(f[c], now)
  BY DEF Pruned
<1>2. CASE c \in Evicted(h)
  <2>1. Pruned(f, now)[c] = <<>>
    BY <1>1, <1>2
  <2>2. <<>> \in Seq(Moments) /\ Len(<<>>) = 0 /\ Len(f[c]) \in Nat
    OBVIOUS
  <2>3. EndsIn(<<>>, f[c])
    <3>1. After(Len(f[c]), <<>>, f[c])
      BY <2>2 DEF After
    <3>2. Len(f[c]) \in 0..Len(f[c]) /\ Len(f[c]) + Len(<<>>) = Len(f[c])
      BY <2>2
    <3> QED BY <3>1, <3>2 DEF EndsIn
  <2> QED BY <2>1, <2>2, <2>3
<1>3. CASE c \notin Evicted(h)
  BY <1>1, <1>3, TrimmedEndsIn
<1> QED BY <1>2, <1>3

LEMMA InitNoGaps == Init => NoGaps
<1> SUFFICES ASSUME Init PROVE NoGaps
  OBVIOUS
<1>1. EndsIn(<<>>, <<>>)
  <2>1. Len(<<>>) = 0
    OBVIOUS
  <2>2. After(0, <<>>, <<>>) /\ 0 \in 0..0
    BY <2>1 DEF After
  <2> QED BY <2>1, <2>2 DEF EndsIn
<1> QED BY <1>1 DEF Init, NoGaps

\* A step that keeps what was recorded, and ends requests or leaves them
\* alone.
LEMMA NoGapsOfOthers ==
  ASSUME NoGaps,
         \A c \in Conversations : EndsIn(turns'[c], log'[c]),
         log' = log,
         \A r \in Requests :
           \/ context'[r] = <<>>
           \/ context'[r] = context[r] /\ conv'[r] = conv[r] /\ pc'[r] = pc[r]
  PROVE  NoGaps'
  BY DEF NoGaps

LEMMA NextNoGaps == IInv /\ NoGaps /\ [Next]_vars => NoGaps'
<1> SUFFICES ASSUME IInv, NoGaps, [Next]_vars PROVE NoGaps'
  OBVIOUS
<1>0. /\ TypeOK /\ InFlight
      /\ turns \in [Conversations -> Seq(Moments)]
      /\ log \in [Conversations -> Seq(Moments)]
      /\ clock \in Nat
      /\ \A c \in Conversations : EndsIn(turns[c], log[c])
      /\ DOMAIN pc = Requests /\ DOMAIN conv = Requests /\ DOMAIN context = Requests
  BY LimitsAssumption DEF IInv, NoGaps, TypeOK
<1>1. CASE \E r \in Requests : \E c \in Conversations : Begin(r, c)
  <2>1. PICK r \in Requests, c \in Conversations : Begin(r, c)
    BY <1>1
  <2>2. context[r] = <<>>
    BY <2>1 DEF NoGaps, Begin
  <2> QED BY <1>0, <2>1, <2>2, NoGapsOfOthers DEF Begin
<1>2. CASE \E r \in Requests : ReadHistory(r)
  <2>1. PICK r \in Requests : ReadHistory(r)
    BY <1>2
  <2> DEFINE c == conv[r]
             s == Trimmed(turns[c], clock)
             t == LastOf(s, HistoryLimit)
  <2>2. c \in Conversations
    BY <1>0, <2>1 DEF ReadHistory, InFlight
  <2>3. s \in Seq(Moments) /\ EndsIn(s, turns[c])
    BY <1>0, <2>2, TrimmedEndsIn
  <2>4. t \in Seq(Moments) /\ EndsIn(t, s)
    BY <2>3, SuffixOf, LastOfEndsIn, LimitsAssumption
  <2>5. turns[c] \in Seq(Moments) /\ log[c] \in Seq(Moments)
    BY <1>0, <2>2
  <2>6. EndsIn(s, log[c]) /\ EndsIn(t, log[c])
    <3> HIDE DEF s, t
    <3>1. EndsIn(s, log[c])
      BY <1>0, <2>2, <2>3, <2>5, EndsInTransitive
    <3> QED BY <3>1, <2>3, <2>4, <2>5, EndsInTransitive
  <2>7. Piece(t, log[c])
    <3> HIDE DEF s, t
    <3> QED BY <2>4, <2>5, <2>6, SuffixIsPiece
  <2>8. /\ turns' = [turns EXCEPT ![c] = s]
        /\ context' = [context EXCEPT ![r] = LastOf(turns'[c], HistoryLimit)]
        /\ pc' = [pc EXCEPT ![r] = "asking"]
        /\ log' = log /\ conv' = conv
    BY <2>1 DEF ReadHistory
  <2>9. context' = [context EXCEPT ![r] = t]
    BY <1>0, <2>2, <2>8
  <2> HIDE DEF s, t
  <2>10. \A d \in Conversations : EndsIn(turns'[d], log'[d])
    BY <1>0, <2>2, <2>6, <2>8
  <2>11. ASSUME NEW q \in Requests, context'[q] # <<>>
         PROVE  /\ pc'[q] = "asking" /\ conv'[q] \in Conversations
                /\ Piece(context'[q], log'[conv'[q]])
    <3>1. CASE q = r
      BY <1>0, <2>2, <2>7, <2>8, <2>9, <3>1
    <3>2. CASE q # r
      BY <1>0, <2>8, <2>9, <2>11, <3>2 DEF NoGaps
    <3> QED BY <3>1, <3>2
  <2> QED BY <2>10, <2>11 DEF NoGaps
<1>3. CASE \E r \in Requests : ReadExpired(r)
  <2>1. PICK r \in Requests : ReadExpired(r)
    BY <1>3
  <2> DEFINE c == conv[r]
             s == Trimmed(turns[c], clock)
  <2>2. c \in Conversations
    BY <1>0, <2>1 DEF ReadExpired, InFlight
  <2>3. s \in Seq(Moments) /\ EndsIn(s, turns[c])
    BY <1>0, <2>2, TrimmedEndsIn
  <2>4. turns[c] \in Seq(Moments) /\ log[c] \in Seq(Moments)
    BY <1>0, <2>2
  <2>5. turns' = [turns EXCEPT ![c] = s] /\ log' = log
    BY <2>1 DEF ReadExpired
  <2> HIDE DEF s
  <2>6. EndsIn(s, log[c])
    BY <1>0, <2>2, <2>3, <2>4, EndsInTransitive
  <2>7. \A d \in Conversations : EndsIn(turns'[d], log'[d])
    BY <1>0, <2>2, <2>5, <2>6
  <2>8. End(r, "KeyError", FALSE)
    BY <2>1 DEF ReadExpired
  <2> QED BY <1>0, <2>5, <2>7, <2>8, NoGapsOfOthers DEF End
<1>4. CASE \E r \in Requests : \E i \in Hints : Indicate(r, i)
  BY <1>0, <1>4, NoGapsOfOthers DEF Indicate
<1>5. CASE \E r \in Requests : Fail(r)
  BY <1>0, <1>5, NoGapsOfOthers DEF Fail, End
<1>6. CASE \E r \in Requests : Answer(r)
  <2>1. PICK r \in Requests : Answer(r)
    BY <1>6
  <2> DEFINE c == conv[r]
             f == [turns EXCEPT ![c] = Append(@, clock')]
  <2>2. c \in Conversations
    BY <1>0, <2>1 DEF Answer, InFlight
  <2>3. /\ turns' = Pruned(f, clock')
        /\ log' = [log EXCEPT ![c] = Append(@, clock')]
        /\ clock' \in Moments /\ clock' \in Nat
    BY <1>0, <2>1, LimitsAssumption DEF Answer, AddTurn, Moments
  <2>4. /\ f \in [Conversations -> Seq(Moments)]
        /\ log' \in [Conversations -> Seq(Moments)]
    BY <1>0, <2>2, <2>3
  <2>5. \A d \in Conversations : EndsIn(f[d], log'[d])
    <3>1. EndsIn(Append(turns[c], clock'), Append(log[c], clock'))
      BY <1>0, <2>2, <2>3, AppendEndsIn
    <3> QED BY <1>0, <2>2, <2>3, <3>1
  <2> HIDE DEF f
  <2>6. \A d \in Conversations : EndsIn(turns'[d], log'[d])
    <3> TAKE d \in Conversations
    <3>1. turns'[d] \in Seq(Moments) /\ EndsIn(turns'[d], f[d])
      BY <2>3, <2>4, PrunedEndsIn
    <3> QED BY <2>4, <2>5, <3>1, EndsInTransitive
  <2>7. /\ pc' = [pc EXCEPT ![r] = "idle"]
        /\ conv' = [conv EXCEPT ![r] = None]
        /\ context' = [context EXCEPT ![r] = <<>>]
    BY <2>1 DEF Answer, Decide, End
  <2>8. ASSUME NEW q \in Requests, context'[q] # <<>>
        PROVE  /\ pc'[q] = "asking" /\ conv'[q] \in Conversations
               /\ Piece(context'[q], log'[conv'[q]])
    <3>1. /\ q # r /\ context'[q] = context[q]
          /\ pc'[q] = pc[q] /\ conv'[q] = conv[q]
      BY <1>0, <2>7, <2>8
    <3>2. /\ pc[q] = "asking" /\ conv[q] \in Conversations
          /\ Piece(context[q], log[conv[q]])
      BY <2>8, <3>1 DEF NoGaps
    <3>3. context[q] \in Seq(Moments) /\ log[conv[q]] \in Seq(Moments)
      BY <1>0, <3>2 DEF TypeOK
    <3>4. Piece(context[q], Append(log[conv[q]], clock'))
      BY <2>3, <3>2, <3>3, AppendPiece
    <3> QED BY <1>0, <2>3, <3>1, <3>2, <3>4
  <2> QED BY <2>6, <2>8 DEF NoGaps
<1>7. CASE Wait
  BY <1>0, <1>7, NoGapsOfOthers DEF Wait
<1>8. CASE UNCHANGED vars
  BY <1>0, <1>8, NoGapsOfOthers DEF vars
<1> QED BY <1>1, <1>2, <1>3, <1>4, <1>5, <1>6, <1>7, <1>8 DEF Next

\* A request never sends the model anything but an unbroken piece of its own
\* conversation.
THEOREM ContextIsOwn == Spec => []OwnContext
<1>1. Spec => []NoGaps
  BY Invariant, InitNoGaps, NextNoGaps, PTL DEF Spec
<1>2. IInv /\ NoGaps => OwnContext
  <2> SUFFICES ASSUME IInv, NoGaps, NEW r \in Requests, context[r] # <<>>
               PROVE  /\ conv[r] # None
                      /\ \E i, j \in DOMAIN log[conv[r]] :
                           context[r] = SubSeq(log[conv[r]], i, j)
    BY DEF OwnContext
  <2>1. conv[r] \in Conversations /\ Piece(context[r], log[conv[r]])
    BY DEF NoGaps
  <2>2. context[r] \in Seq(Moments) /\ log[conv[r]] \in Seq(Moments)
    BY <2>1 DEF IInv, TypeOK
  <2> QED BY <2>1, <2>2, PieceIsSubSeq, LimitsAssumption
<1> QED BY <1>1, <1>2, Invariant, PTL

\* The history as the run checks it: its types, its limits and the contexts.
THEOREM HistoryIsSound == Spec => []HistorySound
<1>1. IInv /\ OwnContext => HistorySound
  BY DEF IInv, HistorySound
<1> QED BY <1>1, Invariant, ContextIsOwn, PTL

-----------------------------------------------------------------------------
(* What the history forgets *)

\* Turns are moments, of which there are finitely many.
LEMMA TurnsFinite ==
  ASSUME NEW s \in Seq(Moments)
  PROVE  /\ ToSet(s) \subseteq Moments /\ IsFiniteSet(ToSet(s))
         /\ \A i \in 1..Len(s) : s[i] \in ToSet(s)
         /\ \A u \in ToSet(s) : \E i \in 1..Len(s) : s[i] = u
<1>1. ToSet(s) = {s[i] : i \in 1..Len(s)}
  BY DEF ToSet
<1>2. IsFiniteSet(Moments)
  BY LimitsAssumption, FS_Interval DEF Moments
<1>3. ToSet(s) \subseteq Moments
  BY <1>1
<1> QED BY <1>1, <1>2, <1>3, FS_Subset

\* The cleanup drops a turn that has expired, or that has MaxTurns after it.
LEMMA TrimmedForgets ==
  ASSUME NEW s \in Seq(Moments), Increasing(s), NEW now \in Nat,
         NEW t \in ToSet(s), t \notin ToSet(Trimmed(s, now)), t > now - MaxAge
  PROVE  Cardinality({u \in ToSet(s) : u > t}) >= MaxTurns
<1> DEFINE F == {i \in DOMAIN s : s[i] > now - MaxAge}
           fresh == Cardinality(F)
           a == LastOf(s, fresh)
           b == LastOf(a, MaxTurns)
           size == Len(s)
<1>0. MaxTurns \in Nat /\ MaxTurns > 0 /\ MaxAge \in Nat /\ size \in Nat /\ DOMAIN s = 1..size
  BY LimitsAssumption
<1>1. PICK k \in 1..size : s[k] = t
  BY TurnsFinite
<1>2. IsFiniteSet(F) /\ fresh \in Nat
  <2>1. IsFiniteSet(1..size) /\ F \subseteq 1..size
    BY FS_Interval
  <2> QED BY <2>1, FS_Subset, FS_CardinalityType
<1>3. fresh >= size - k + 1
  <2>1. ASSUME NEW i \in k..size PROVE i \in F
    <3>1. i \in 1..size /\ s[i] \in Int /\ t \in Int /\ now - MaxAge \in Int
      BY <1>0, <1>1, TurnsFinite DEF Moments
    <3>2. s[i] >= t
      BY <1>0, <1>1, <3>1 DEF Increasing
    <3> QED BY <1>0, <3>1, <3>2
  <2>2. Cardinality(k..size) = size - k + 1
    BY <1>0, FS_Interval
  <2>3. k..size \in SUBSET F
    BY <2>1
  <2> HIDE DEF F
  <2>4. Cardinality(k..size) <= fresh
    BY <1>2, <2>3, FS_Subset
  <2> QED BY <2>2, <2>4
<1> HIDE DEF fresh
<1>4. /\ a \in Seq(Moments) /\ Len(a) \in Nat
      /\ Len(a) = IF size > fresh THEN fresh ELSE size
      /\ \A i \in 1..Len(a) : i + (size - Len(a)) \in 1..size /\ a[i] = s[i + (size - Len(a))]
  BY <1>2, SuffixOf
<1> HIDE DEF a
<1>5. /\ b \in Seq(Moments) /\ Len(b) \in Nat
      /\ Len(b) = IF Len(a) > MaxTurns THEN MaxTurns ELSE Len(a)
      /\ \A i \in 1..Len(b) : i + (Len(a) - Len(b)) \in 1..Len(a) /\ b[i] = a[i + (Len(a) - Len(b))]
  BY <1>0, <1>4, SuffixOf
<1>6. Trimmed(s, now) = b
  BY DEF Trimmed, a, fresh
<1> HIDE DEF b
<1>7. k - (size - Len(b)) \notin 1..Len(b)
  <2> SUFFICES ASSUME k - (size - Len(b)) \in 1..Len(b) PROVE FALSE
    OBVIOUS
  <2> DEFINE i == k - (size - Len(b))
             j == i + (Len(a) - Len(b))
  <2>1. i \in 1..Len(b) /\ j \in 1..Len(a) /\ b[i] = a[j]
    BY <1>5
  <2>2. j + (size - Len(a)) = k
    <3> DEFINE x == Len(a)
               y == Len(b)
    <3>1. x \in Int /\ y \in Int /\ size \in Int /\ k \in Int
      BY <1>0, <1>1, <1>4, <1>5
    <3>2. ((k - (size - y)) + (x - y)) + (size - x) = k
      <4> HIDE DEF x, y, size
      <4> QED BY <3>1
    <3> QED BY <3>2
  <2>3. a[j] = s[k]
    BY <1>4, <2>1, <2>2
  <2> HIDE DEF i, j
  <2>4. b[i] = t
    BY <1>1, <2>1, <2>3
  <2>5. t \in ToSet(b)
    BY <1>5, <2>1, <2>4, TurnsFinite
  <2> QED BY <1>6, <2>5
<1>8. k + MaxTurns <= size
  <2> DEFINE x == Len(a)
             y == Len(b)
  <2>1. /\ x \in Nat /\ y \in Nat /\ k \in 1..size /\ fresh \in Nat
        /\ x = IF size > fresh THEN fresh ELSE size
        /\ y = IF x > MaxTurns THEN MaxTurns ELSE x
        /\ k - (size - y) \notin 1..y
    BY <1>1, <1>2, <1>4, <1>5, <1>7
  <2> HIDE DEF x, y, size
  <2> QED BY <1>0, <1>3, <2>1
<1> DEFINE Since == {u \in ToSet(s) : u > t}
           Next1 == [n \in 1..MaxTurns |-> s[k + n]]
<1>9. Next1 \in Injection(1..MaxTurns, Since)
  <2>1. ASSUME NEW n \in 1..MaxTurns PROVE k + n \in 1..size /\ s[k + n] \in Since
    <3>1. k + n \in 1..size /\ k < k + n
      BY <1>0, <1>1, <1>8
    <3>2. s[k] < s[k + n]
      BY <1>0, <1>1, <3>1 DEF Increasing
    <3>3. s[k + n] \in ToSet(s) /\ s[k + n] \in Int /\ t \in Int
      BY <1>1, <3>1, TurnsFinite DEF Moments
    <3> QED BY <1>1, <3>1, <3>2, <3>3
  <2>2. ASSUME NEW n \in 1..MaxTurns, NEW m \in 1..MaxTurns, n # m
        PROVE  s[k + n] # s[k + m]
    <3>1. k + n \in 1..size /\ k + m \in 1..size /\ (k + n < k + m \/ k + m < k + n)
      BY <1>0, <1>1, <1>8, <2>2
    <3>2. s[k + n] < s[k + m] \/ s[k + m] < s[k + n]
      BY <1>0, <3>1 DEF Increasing
    <3>3. s[k + n] \in Int /\ s[k + m] \in Int
      BY <3>1, TurnsFinite DEF Moments
    <3> QED BY <3>2, <3>3
  <2>3. Next1 \in [1..MaxTurns -> Since]
    BY <2>1
  <2>4. \A n, m \in 1..MaxTurns : Next1[n] = Next1[m] => n = m
    BY <2>2
  <2> HIDE DEF Next1, Since
  <2> QED BY <2>3, <2>4 DEF Injection, IsInjective
<1>10. IsFiniteSet(Since)
  <2>1. Since \in SUBSET ToSet(s)
    OBVIOUS
  <2> HIDE DEF Since
  <2> QED BY <2>1, TurnsFinite, FS_Subset
<1>11. Cardinality(1..MaxTurns) = MaxTurns
  BY <1>0, FS_Interval
<1>12. Cardinality(Since) \in Nat
  <2> HIDE DEF Since
  <2> QED BY <1>10, FS_CardinalityType
<1> HIDE DEF Since, Next1
<1>13. Cardinality(1..MaxTurns) <= Cardinality(Since)
  BY <1>9, <1>10, FS_Injection
<1>14. Cardinality(Since) >= MaxTurns
  BY <1>0, <1>11, <1>12, <1>13
<1> QED BY <1>14 DEF Since

\* What a list ends in is found in it.
LEMMA EndsInWithin ==
  ASSUME NEW s \in Seq(Moments), NEW l \in Seq(Moments), EndsIn(s, l)
  PROVE  ToSet(s) \subseteq ToSet(l)
<1>1. PICK k \in 0..Len(l) : k + Len(s) = Len(l) /\ After(k, s, l)
  BY DEF EndsIn
<1>2. ASSUME NEW u \in ToSet(s) PROVE u \in ToSet(l)
  <2>1. PICK i \in 1..Len(s) : s[i] = u
    BY TurnsFinite
  <2>2. i + k \in 1..Len(l) /\ l[i + k] = u
    BY <1>1, <2>1 DEF After
  <2> QED BY <2>2, TurnsFinite
<1> QED BY <1>2

\* More turns, more of them after a moment.
LEMMA MoreSince ==
  ASSUME NEW s \in Seq(Moments), NEW l \in Seq(Moments), ToSet(s) \subseteq ToSet(l),
         NEW t \in Nat, Cardinality({u \in ToSet(s) : u > t}) >= MaxTurns
  PROVE  Cardinality({u \in ToSet(l) : u > t}) >= MaxTurns
<1> DEFINE Few == {u \in ToSet(s) : u > t}
           Many == {u \in ToSet(l) : u > t}
<1>1. Few \in SUBSET Many /\ Many \in SUBSET ToSet(l) /\ IsFiniteSet(ToSet(l))
  BY TurnsFinite
<1>2. Cardinality(Few) >= MaxTurns /\ MaxTurns \in Nat
  BY LimitsAssumption
<1> HIDE DEF Few, Many
<1>3. IsFiniteSet(Many)
  BY <1>1, FS_Subset
<1>4. /\ Cardinality(Few) <= Cardinality(Many) /\ Cardinality(Few) \in Nat
      /\ Cardinality(Many) \in Nat
  BY <1>1, <1>3, FS_Subset, FS_CardinalityType
<1>5. Cardinality(Many) >= MaxTurns
  BY <1>2, <1>4
<1> QED BY <1>5 DEF Many

\* The last turn of a list is its latest, when all of its turns are of the past.
LEMMA LatestIsLast ==
  ASSUME NEW l \in Seq(Moments), Increasing(l), l # <<>>, NEW now \in Nat,
         ToSet(l) \subseteq 1..now
  PROVE  Latest(l, now) = Last(l) /\ Last(l) \in ToSet(l)
<1> DEFINE before == {u \in ToSet(l) : u <= now}
           x == l[Len(l)]
<1>1. Len(l) \in Nat /\ Len(l) \in 1..Len(l) /\ DOMAIN l = 1..Len(l)
  OBVIOUS
<1>2. x \in ToSet(l) /\ x \in Int
  BY <1>1, TurnsFinite DEF Moments
<1>3. \A v \in ToSet(l) : v <= x /\ v \in Int /\ v <= now
  <2> TAKE v \in ToSet(l)
  <2>1. PICK i \in 1..Len(l) : l[i] = v
    BY TurnsFinite
  <2>2. v \in Int /\ v <= now
    OBVIOUS
  <2>3. i = Len(l) \/ i < Len(l)
    <3>1. i \in Int /\ i <= Len(l) /\ Len(l) \in Int
      BY <1>1
    <3> QED BY <3>1
  <2>4. i < Len(l) => l[i] < x
    BY <1>1 DEF Increasing
  <2> QED BY <1>2, <2>1, <2>2, <2>3, <2>4
<1>4. x \in before /\ \A v \in before : v <= x /\ v \in Int
  BY <1>2, <1>3
<1> HIDE DEF x
<1>5. ASSUME NEW u \in before, \A v \in before : v <= u PROVE u = x
  <2>1. u <= x /\ x <= u /\ u \in Int
    BY <1>4, <1>5
  <2> QED BY <1>2, <2>1
<1>6. (CHOOSE u \in before : \A v \in before : v <= u) = x
  <2> HIDE DEF before
  <2> QED BY <1>4, <1>5
<1> QED BY <1>2, <1>6 DEF Latest, Last, x

\* The hard cap evicts a conversation behind MaxConversations others.
LEMMA EvictedIsOvertaken ==
  ASSUME NEW h \in [Conversations -> Seq(Moments)],
         NEW l \in [Conversations -> Seq(Moments)], NEW now \in Nat,
         \A d \in Conversations :
           Increasing(l[d]) /\ EndsIn(h[d], l[d]) /\ ToSet(l[d]) \subseteq 1..now,
         NEW c \in Evicted(h)
  PROVE  Cardinality(Rivals(l, c, now)) >= MaxConversations
<1> DEFINE Ahead == {d \in KeptIn(h) : Last(h[d]) > Last(h[c])}
<1>1. c \in KeptIn(h) /\ Cardinality(Ahead) >= MaxConversations
  BY DEF Evicted
<1>2. ASSUME NEW d \in KeptIn(h)
      PROVE  /\ d \in Conversations /\ l[d] # <<>> /\ Last(h[d]) = Last(l[d])
             /\ Latest(l[d], now) = Last(h[d])
             /\ Last(h[d]) \in ToSet(l[d]) /\ Last(h[d]) \in 1..now
  <2>1. d \in Conversations /\ h[d] \in Seq(Moments) /\ h[d] # <<>> /\ l[d] \in Seq(Moments)
    BY DEF KeptIn
  <2>2. PICK k \in 0..Len(l[d]) : k + Len(h[d]) = Len(l[d]) /\ After(k, h[d], l[d])
    BY <2>1 DEF EndsIn
  <2>3. Len(h[d]) \in 1..Len(h[d]) /\ Len(h[d]) + k = Len(l[d]) /\ Len(l[d]) # 0
    BY <2>1, <2>2
  <2>4. h[d][Len(h[d])] = l[d][Len(l[d])]
    BY <2>2, <2>3 DEF After
  <2>5. l[d] # <<>>
    BY <2>3
  <2>6. Last(h[d]) = Last(l[d])
    BY <2>4 DEF Last
  <2>7. Latest(l[d], now) = Last(l[d]) /\ Last(l[d]) \in ToSet(l[d])
    BY <2>1, <2>5, LatestIsLast
  <2> QED BY <2>1, <2>5, <2>6, <2>7
<1>3. ASSUME NEW d \in Ahead PROVE d \in Rivals(l, c, now)
  <2>1. d \in KeptIn(h) /\ Last(h[c]) < Last(h[d])
    BY <1>1, <1>2
  <2>2. d # c
    BY <1>1, <1>2, <2>1
  <2> QED BY <1>1, <1>2, <2>1, <2>2 DEF Rivals
<1>4. IsFiniteSet(Rivals(l, c, now)) /\ Rivals(l, c, now) \subseteq Conversations
  BY LimitsAssumption, FS_Subset DEF Rivals
<1>5. Ahead \in SUBSET Rivals(l, c, now)
  BY <1>3
<1> HIDE DEF Ahead
<1>6. /\ IsFiniteSet(Ahead) /\ Cardinality(Ahead) <= Cardinality(Rivals(l, c, now))
      /\ Cardinality(Ahead) \in Nat /\ Cardinality(Rivals(l, c, now)) \in Nat
  BY <1>4, <1>5, FS_Subset, FS_CardinalityType
<1> QED BY <1>1, <1>6, LimitsAssumption

\* What is a reason to forget a turn stays one, whatever is recorded later.
LEMMA ReasonStays ==
  ASSUME NEW l \in [Conversations -> Seq(Moments)],
         NEW m \in [Conversations -> Seq(Moments)],
         NEW now \in Nat, NEW later \in Nat, now <= later,
         \A d \in Conversations : ToSet(l[d]) = {u \in ToSet(m[d]) : u <= now},
         NEW c \in Conversations, NEW t \in ToSet(l[c]), Forgettable(l, now, c, t)
  PROVE  Forgettable(m, later, c, t)
<1>0. t \in Nat /\ MaxAge \in Nat /\ MaxTurns \in Nat
  BY TurnsFinite, LimitsAssumption DEF Moments
<1>1. CASE t <= now - MaxAge
  <2>1. t <= later - MaxAge
    BY <1>0, <1>1
  <2> QED BY <2>1 DEF Forgettable
<1>2. CASE Cardinality({u \in ToSet(l[c]) : u > t}) >= MaxTurns
  <2>1. l[c] \in Seq(Moments) /\ m[c] \in Seq(Moments) /\ ToSet(l[c]) \subseteq ToSet(m[c])
    OBVIOUS
  <2> QED BY <1>0, <1>2, <2>1, MoreSince DEF Forgettable
<1>3. CASE \E then \in t..now : Cardinality(Rivals(l, c, then)) >= MaxConversations
  <2>1. PICK then \in t..now : Cardinality(Rivals(l, c, then)) >= MaxConversations
    BY <1>3
  <2>2. then \in t..later /\ then \in Int /\ then <= now
    BY <1>0
  <2>3. \A d \in Conversations : \A u \in ToSet(m[d]) : u <= then => u \in ToSet(l[d])
    <3> SUFFICES ASSUME NEW d \in Conversations, NEW u \in ToSet(m[d]), u <= then
                 PROVE  u \in ToSet(l[d])
      OBVIOUS
    <3>1. u \in Int
      BY TurnsFinite DEF Moments
    <3>2. u <= now
      BY <2>2, <3>1
    <3> QED BY <3>2
  <2>4. {u \in ToSet(m[c]) : u <= then} = {u \in ToSet(l[c]) : u <= then}
    BY <2>3
  <2>5. Latest(m[c], then) = Latest(l[c], then)
    BY <2>4 DEF Latest
  <2>6. Rivals(m, c, then) = Rivals(l, c, then)
    BY <2>3, <2>5 DEF Rivals
  <2> QED BY <2>1, <2>2, <2>6 DEF Forgettable
<1> QED BY <1>1, <1>2, <1>3 DEF Forgettable

\* A step that records nothing, and drops at most what the cleanup drops of
\* one conversation, leaves every turn its reason.
LEMMA CleanupForgets ==
  ASSUME IInv, NoGaps, ForgetsForAReason,
         log' = log, clock' \in Nat, clock <= clock',
         \A c \in Conversations :
           turns'[c] = turns[c] \/ turns'[c] = Trimmed(turns[c], clock)
  PROVE  ForgetsForAReason'
<1>0. /\ log \in [Conversations -> Seq(Moments)]
      /\ turns \in [Conversations -> Seq(Moments)]
      /\ clock \in Nat
      /\ \A d \in Conversations : ToSet(log[d]) \subseteq 1..clock /\ Increasing(turns[d])
  BY LimitsAssumption DEF IInv, TypeOK, Past
<1>1. \A d \in Conversations : ToSet(log[d]) = {u \in ToSet(log[d]) : u <= clock}
  BY <1>0
<1>2. ASSUME NEW c \in Conversations, NEW t \in ToSet(log[c]) \ ToSet(turns'[c])
      PROVE  Forgettable(log, clock, c, t)
  <2>1. CASE t \notin ToSet(turns[c])
    BY <1>2, <2>1 DEF ForgetsForAReason
  <2>2. CASE t \in ToSet(turns[c])
    <3>1. turns'[c] = Trimmed(turns[c], clock)
      BY <1>2, <2>2
    <3>2. CASE t <= clock - MaxAge
      BY <3>2 DEF Forgettable
    <3>3. CASE t > clock - MaxAge
      <4>1. Cardinality({u \in ToSet(turns[c]) : u > t}) >= MaxTurns
        BY <1>0, <1>2, <2>2, <3>1, <3>3, TrimmedForgets
      <4>2. ToSet(turns[c]) \subseteq ToSet(log[c])
        BY <1>0, EndsInWithin DEF NoGaps
      <4> QED BY <1>0, <4>1, <4>2, MoreSince DEF Forgettable
    <3>4. t \in Int /\ clock - MaxAge \in Int
      BY <1>0, LimitsAssumption
    <3> QED BY <3>2, <3>3, <3>4
  <2> QED BY <2>1, <2>2
<1>3. ASSUME NEW c \in Conversations, NEW t \in ToSet(log[c]) \ ToSet(turns'[c])
      PROVE  Forgettable(log, clock', c, t)
  BY <1>0, <1>1, <1>2, <1>3, ReasonStays
<1> QED BY <1>3 DEF ForgetsForAReason

\* A turn that is added, and the sweep that follows, leave every turn that is
\* forgotten its reason.
LEMMA AddTurnForgets ==
  ASSUME IInv, NoGaps, ForgetsForAReason, NEW c \in Conversations, AddTurn(c)
  PROVE  ForgetsForAReason'
<1> DEFINE f == [turns EXCEPT ![c] = Append(@, clock')]
           h == [d \in Conversations |-> Trimmed(f[d], clock')]
           m == log'
           now == clock'
<1>1. /\ clock \in Nat /\ now = clock + 1 /\ now \in Moments /\ now \in Nat
      /\ turns' = Pruned(f, now) /\ m = [log EXCEPT ![c] = Append(@, now)]
      /\ turns \in [Conversations -> Seq(Moments)]
      /\ log \in [Conversations -> Seq(Moments)]
      /\ \A d \in Conversations : Increasing(turns[d]) /\ Increasing(log[d])
      /\ \A d \in Conversations : ToSet(turns[d]) \cup ToSet(log[d]) \subseteq 1..clock
      /\ \A d \in Conversations : EndsIn(turns[d], log[d])
  BY LimitsAssumption DEF IInv, TypeOK, Past, NoGaps, AddTurn, Moments
<1>2. /\ m \in [Conversations -> Seq(Moments)]
      /\ \A d \in Conversations : Increasing(m[d]) /\ ToSet(m[d]) \subseteq 1..now
  BY AddTurnKeeps DEF IInv, Past
<1>3. \A d \in Conversations :
        /\ f[d] \in Seq(Moments) /\ Increasing(f[d]) /\ EndsIn(f[d], m[d])
        /\ ToSet(f[d]) = IF d = c THEN ToSet(turns[d]) \cup {now} ELSE ToSet(turns[d])
        /\ ToSet(m[d]) = IF d = c THEN ToSet(log[d]) \cup {now} ELSE ToSet(log[d])
  <2>1. \A u \in ToSet(turns[c]) \cup ToSet(log[c]) : u < now
    BY <1>1
  <2>2. /\ Append(turns[c], now) \in Seq(Moments) /\ Increasing(Append(turns[c], now))
        /\ ToSet(Append(turns[c], now)) = ToSet(turns[c]) \cup {now}
    BY <1>1, <2>1, AppendLater
  <2>3. ToSet(Append(log[c], now)) = ToSet(log[c]) \cup {now}
    BY <1>1, <2>1, AppendLater
  <2>4. EndsIn(Append(turns[c], now), Append(log[c], now))
    BY <1>1, AppendEndsIn
  <2>5. /\ \A d \in Conversations : f[d] = IF d = c THEN Append(turns[c], now) ELSE turns[d]
        /\ \A d \in Conversations : m[d] = IF d = c THEN Append(log[c], now) ELSE log[d]
    BY <1>1
  <2> HIDE DEF f, m, now
  <2> QED BY <1>1, <2>2, <2>3, <2>4, <2>5
<1>4. f \in [Conversations -> Seq(Moments)]
  BY <1>1, <1>3
<1>5. \A d \in Conversations : ToSet(log[d]) = {u \in ToSet(m[d]) : u <= clock}
  <2> TAKE d \in Conversations
  <2>1. \A u \in ToSet(log[d]) : u <= clock
    BY <1>1
  <2>2. ~(now <= clock)
    BY <1>1
  <2> HIDE DEF m, now
  <2> QED BY <1>3, <2>1, <2>2
<1>6. \A d \in Conversations : turns'[d] = IF d \in Evicted(h) THEN <<>> ELSE Trimmed(f[d], now)
  BY <1>1 DEF Pruned
<1>7. \A d \in Conversations : h[d] = Trimmed(f[d], now)
  OBVIOUS
<1> HIDE DEF f, m, now
<1>8. /\ h \in [Conversations -> Seq(Moments)]
      /\ \A d \in Conversations : EndsIn(h[d], m[d])
  <2>1. \A d \in Conversations : Trimmed(f[d], now) \in Seq(Moments) /\ EndsIn(Trimmed(f[d], now), f[d])
    BY <1>1, <1>3, TrimmedEndsIn
  <2>2. \A d \in Conversations : EndsIn(Trimmed(f[d], now), m[d])
    BY <1>2, <1>3, <2>1, EndsInTransitive
  <2> QED BY <1>7, <2>1, <2>2
<1> HIDE DEF h
<1>9. ASSUME NEW d \in Conversations, NEW t \in ToSet(m[d]) \ ToSet(turns'[d])
      PROVE  Forgettable(m, now, d, t)
  <2>0. t \in Nat /\ t \in 1..now
    BY <1>2
  <2>1. CASE t \notin ToSet(f[d])
    <3>1. t \in ToSet(log[d]) \ ToSet(turns[d])
      BY <1>3, <1>9, <2>1
    <3>2. Forgettable(log, clock, d, t)
      BY <3>1 DEF ForgetsForAReason
    <3>3. clock <= now
      BY <1>1
    <3>4. /\ log \in [Conversations -> Seq(Moments)] /\ m \in [Conversations -> Seq(Moments)]
          /\ clock \in Nat /\ now \in Nat /\ t \in ToSet(log[d])
      BY <1>1, <1>2, <3>1
    <3> QED BY <1>5, <3>2, <3>3, <3>4, ReasonStays
  <2>2. CASE t \in ToSet(f[d]) /\ t \notin ToSet(Trimmed(f[d], now))
    <3>1. CASE t <= now - MaxAge
      BY <3>1 DEF Forgettable
    <3>2. CASE t > now - MaxAge
      <4>1. Cardinality({u \in ToSet(f[d]) : u > t}) >= MaxTurns
        <5>1. f[d] \in Seq(Moments) /\ Increasing(f[d]) /\ now \in Nat
          BY <1>1, <1>3
        <5> QED BY <2>2, <3>2, <5>1, TrimmedForgets
      <4>2. ToSet(f[d]) \subseteq ToSet(m[d])
        BY <1>2, <1>3, EndsInWithin
      <4>3. Cardinality({u \in ToSet(m[d]) : u > t}) >= MaxTurns
        BY <1>2, <1>3, <2>0, <4>1, <4>2, MoreSince
      <4> QED BY <4>3 DEF Forgettable
    <3>3. now - MaxAge \in Int
      BY <1>1, LimitsAssumption
    <3> QED BY <2>0, <3>1, <3>2, <3>3
  <2>3. CASE t \in ToSet(Trimmed(f[d], now))
    <3>1. d \in Evicted(h)
      BY <1>6, <1>9, <2>3
    <3>2. Cardinality(Rivals(m, d, now)) >= MaxConversations
      BY <1>1, <1>2, <1>8, <3>1, EvictedIsOvertaken
    <3>3. now \in t..now
      BY <1>1, <2>0
    <3> QED BY <3>2, <3>3 DEF Forgettable
  <2> QED BY <2>1, <2>2, <2>3
<1> QED BY <1>9 DEF ForgetsForAReason, m, now

\* Every step leaves every turn that is forgotten its reason.
LEMMA NextForgets == IInv /\ NoGaps /\ ForgetsForAReason /\ [Next]_vars => ForgetsForAReason'
<1> SUFFICES ASSUME IInv, NoGaps, ForgetsForAReason, [Next]_vars PROVE ForgetsForAReason'
  OBVIOUS
<1>0. /\ InFlight /\ clock \in Nat /\ turns \in [Conversations -> Seq(Moments)]
  BY LimitsAssumption DEF IInv, TypeOK
<1>1. ASSUME NEW r \in Requests, ReadHistory(r) \/ ReadExpired(r) PROVE ForgetsForAReason'
  <2>1. conv[r] \in Conversations
    BY <1>0, <1>1 DEF InFlight, ReadHistory, ReadExpired
  <2>2. /\ log' = log /\ clock' = clock
        /\ turns' = [turns EXCEPT ![conv[r]] = Trimmed(turns[conv[r]], clock)]
    <3>1. CASE ReadHistory(r)
      BY <3>1 DEF ReadHistory
    <3>2. CASE ReadExpired(r)
      BY <3>2 DEF ReadExpired
    <3> QED BY <1>1, <3>1, <3>2
  <2>3. \A d \in Conversations : turns'[d] = turns[d] \/ turns'[d] = Trimmed(turns[d], clock)
    BY <1>0, <2>1, <2>2
  <2>4. clock' \in Nat /\ clock <= clock'
    BY <1>0, <2>2
  <2> QED BY <2>2, <2>3, <2>4, CleanupForgets
<1>2. ASSUME NEW r \in Requests, Answer(r) PROVE ForgetsForAReason'
  <2>1. conv[r] \in Conversations /\ AddTurn(conv[r])
    BY <1>0, <1>2 DEF InFlight, Answer
  <2> QED BY <2>1, AddTurnForgets
<1>3. ASSUME turns' = turns, log' = log, clock' = clock \/ clock' = clock + 1
      PROVE  ForgetsForAReason'
  <2>1. clock' \in Nat /\ clock <= clock'
    BY <1>0, <1>3
  <2> QED BY <1>3, <2>1, CleanupForgets
<1>4. ASSUME NEW r \in Requests, NEW c \in Conversations, Begin(r, c) PROVE ForgetsForAReason'
  BY <1>3, <1>4 DEF Begin
<1>5. ASSUME NEW r \in Requests, NEW i \in Hints, Indicate(r, i) PROVE ForgetsForAReason'
  BY <1>3, <1>5 DEF Indicate
<1>6. ASSUME NEW r \in Requests, Fail(r) PROVE ForgetsForAReason'
  BY <1>3, <1>6 DEF Fail
<1>7. CASE Wait
  BY <1>3, <1>7 DEF Wait
<1>8. CASE UNCHANGED vars
  BY <1>3, <1>8 DEF vars
<1> QED BY <1>1, <1>2, <1>4, <1>5, <1>6, <1>7, <1>8 DEF Next

\* The history forgets a turn only for a reason: it has expired, its
\* conversation has had MaxTurns turns since, or MaxConversations others
\* became more recently active (cleanup, sweep and eviction together).
THEOREM ForgetsOnlyForAReason == Spec => []ForgetsForAReason
<1>1. Init => ForgetsForAReason
  <2> SUFFICES ASSUME Init PROVE \A c \in Conversations : ToSet(log[c]) = {}
    BY DEF ForgetsForAReason
  <2>1. \A c \in Conversations : log[c] = <<>>
    BY DEF Init
  <2>2. ToSet(<<>>) = {}
    BY DEF ToSet
  <2> QED BY <2>1, <2>2
<1> QED BY <1>1, Invariant, InitNoGaps, NextNoGaps, NextForgets, PTL DEF Spec
=============================================================================
