--------------------------- MODULE WorkspaceProofs ---------------------------
(* Theorems about Workspace, for every number of requests, users, sessions, *)
(* nodes, routes and messages.                                              *)
EXTENDS Workspace, FiniteSetTheorems, SequenceTheorems, TLAPS

-----------------------------------------------------------------------------
(* Where of two members always one is ahead of the other, each member has a *)
(* number of its own ahead of it, from none to all but one.                 *)
LEMMA Ranks ==
  ASSUME NEW S, IsFiniteSet(S), NEW ahead \in [S -> SUBSET S],
         \A m \in S : m \notin ahead[m],
         \A m, n \in S : m # n => m \in ahead[n] \/ n \in ahead[m],
         \A m, n \in S : m \in ahead[n] => ahead[m] \subseteq ahead[n]
  PROVE  /\ Cardinality(S) \in Nat
         /\ \A m \in S : Cardinality(ahead[m]) \in 0..(Cardinality(S) - 1)
         /\ \A m, n \in S : m \in ahead[n] <=> Cardinality(ahead[m]) < Cardinality(ahead[n])
         /\ \A i \in 0..(Cardinality(S) - 1) : \E m \in S : Cardinality(ahead[m]) = i
<1> DEFINE N == Cardinality(S)
           rank == [m \in S |-> Cardinality(ahead[m])]
<1>1. N \in Nat
  BY FS_CardinalityType
<1>2. ASSUME NEW m \in S
      PROVE  IsFiniteSet(ahead[m]) /\ rank[m] \in Nat /\ rank[m] < N
  <2>1. ahead[m] \in SUBSET S /\ ahead[m] # S
    OBVIOUS
  <2>2. IsFiniteSet(ahead[m]) /\ Cardinality(ahead[m]) <= N /\ Cardinality(ahead[m]) # N
    BY <2>1, FS_Subset
  <2>3. Cardinality(ahead[m]) \in Nat
    BY <2>2, FS_CardinalityType
  <2> QED
    BY <1>1, <2>2, <2>3
<1>3. ASSUME NEW m \in S, NEW n \in S, m \in ahead[n]
      PROVE  rank[m] < rank[n]
  <2>1. ahead[m] \in SUBSET ahead[n] /\ ahead[m] # ahead[n]
    BY <1>3
  <2>2. Cardinality(ahead[m]) <= Cardinality(ahead[n]) /\ Cardinality(ahead[m]) # Cardinality(ahead[n])
    BY <1>2, <2>1, FS_Subset
  <2> QED
    BY <1>2, <2>2
<1>4. \A m, n \in S : m \in ahead[n] <=> rank[m] < rank[n]
  <2> SUFFICES ASSUME NEW m \in S, NEW n \in S, rank[m] < rank[n]
               PROVE  m \in ahead[n]
    BY <1>3
  <2>1. rank[m] \in Nat /\ rank[n] \in Nat
    BY <1>2
  <2>2. m # n /\ ~(rank[n] < rank[m])
    BY <2>1
  <2> HIDE DEF rank
  <2> QED
    BY <1>3, <2>2
<1>5. \A i \in 0..(N - 1) : \E m \in S : rank[m] = i
  <2>1. rank \in [S -> 0..(N - 1)]
    <3>1. \A m \in S : rank[m] \in 0..(N - 1)
      BY <1>1, <1>2
    <3> HIDE DEF N
    <3> QED
      BY <3>1
  <2>2. \A m, n \in S : rank[m] = rank[n] => m = n
    <3>1. \A m \in S : rank[m] \in Nat
      BY <1>2
    <3> HIDE DEF rank
    <3> QED
      BY <1>3, <3>1
  <2> HIDE DEF rank, N
  <2>3. rank \in Injection(S, 0..(N - 1))
    BY <2>1, <2>2 DEF Injection, IsInjective
  <2>4. IsFiniteSet(0..(N - 1)) /\ Cardinality(0..(N - 1)) = N
    BY <1>1, FS_Interval
  <2>5. rank \in Surjection(S, 0..(N - 1))
    BY <2>3, <2>4, FS_Injection DEF N
  <2> QED
    BY <2>5 DEF Surjection
<1> QED
  BY <1>1, <1>2, <1>4, <1>5

-----------------------------------------------------------------------------
(* Messages with ids of their own.                                          *)
AreKeyed(S) == S \subseteq Message /\ IsFiniteSet(S) /\ \A m, n \in S : m.id = n.id => m = n

(* The two orders are one, read from either end, and place any two rows of  *)
(* different ids.                                                           *)
LEMMA OrderIsStrict ==
  /\ \A m, n \in Message : Newer(m, n) <=> Older(n, m)
  /\ \A m \in Message : ~Older(m, m)
  /\ \A m, n \in Message : Older(m, n) \/ Older(n, m) \/ m.id = n.id
  /\ \A m, n, k \in Message : Older(m, n) /\ Older(n, k) => Older(m, k)
<1>1. \A m \in Message : m.at \in Int /\ m.id \in Int /\ m.role \in {"user", "assistant"}
  BY DEF Message
<1>2. \A m, n \in Message : Newer(m, n) <=> Older(n, m)
  BY <1>1 DEF Newer, Older
<1>3. \A m \in Message : ~Older(m, m)
  BY <1>1 DEF Older
<1>4. \A m, n \in Message : Older(m, n) \/ Older(n, m) \/ m.id = n.id
  BY <1>1 DEF Older
<1>5. \A m, n, k \in Message : Older(m, n) /\ Older(n, k) => Older(m, k)
  BY <1>1 DEF Older
<1> QED
  BY <1>2, <1>3, <1>4, <1>5

(* The rows that are older, for each row.                                   *)
OlderThan(S) == [m \in S |-> {n \in S : Older(n, m)}]
NewerThan(S) == [m \in S |-> {n \in S : Newer(n, m)}]

(* So the rows of a conversation have ranks from either end.                *)
LEMMA OldersRank ==
  ASSUME NEW S, AreKeyed(S)
  PROVE  LET ahead == OlderThan(S) IN
         /\ Cardinality(S) \in Nat
         /\ \A m \in S : Cardinality(ahead[m]) \in 0..(Cardinality(S) - 1)
         /\ \A m, n \in S : Older(m, n) <=> Cardinality(ahead[m]) < Cardinality(ahead[n])
         /\ \A i \in 0..(Cardinality(S) - 1) : \E m \in S : Cardinality(ahead[m]) = i
<1> DEFINE ahead == OlderThan(S)
<1>1. S \subseteq Message /\ IsFiniteSet(S) /\ \A m, n \in S : m.id = n.id => m = n
  BY DEF AreKeyed
<1>2. ahead \in [S -> SUBSET S] /\ \A m, n \in S : n \in ahead[m] <=> Older(n, m)
  BY DEF OlderThan
<1> HIDE DEF ahead
<1>3. \A m \in S : m \notin ahead[m]
  BY <1>1, <1>2, OrderIsStrict
<1>4. \A m, n \in S : m # n => m \in ahead[n] \/ n \in ahead[m]
  BY <1>1, <1>2, OrderIsStrict
<1>5. \A m, n \in S : m \in ahead[n] => ahead[m] \subseteq ahead[n]
  BY <1>1, <1>2, OrderIsStrict
<1>6. /\ Cardinality(S) \in Nat
      /\ \A m \in S : Cardinality(ahead[m]) \in 0..(Cardinality(S) - 1)
      /\ \A m, n \in S : m \in ahead[n] <=> Cardinality(ahead[m]) < Cardinality(ahead[n])
      /\ \A i \in 0..(Cardinality(S) - 1) : \E m \in S : Cardinality(ahead[m]) = i
  BY <1>1, <1>2, <1>3, <1>4, <1>5, Ranks
<1> QED
  BY <1>2, <1>6 DEF ahead

LEMMA NewersRank ==
  ASSUME NEW S, AreKeyed(S)
  PROVE  LET ahead == NewerThan(S) IN
         /\ \A m \in S : Cardinality(ahead[m]) \in 0..(Cardinality(S) - 1)
         /\ \A m, n \in S : Newer(m, n) <=> Cardinality(ahead[m]) < Cardinality(ahead[n])
         /\ \A i \in 0..(Cardinality(S) - 1) : \E m \in S : Cardinality(ahead[m]) = i
<1> DEFINE ahead == NewerThan(S)
<1>1. S \subseteq Message /\ IsFiniteSet(S) /\ \A m, n \in S : m.id = n.id => m = n
  BY DEF AreKeyed
<1>2. ahead \in [S -> SUBSET S] /\ \A m, n \in S : n \in ahead[m] <=> Newer(n, m)
  BY DEF NewerThan
<1> HIDE DEF ahead
<1>3. \A m \in S : m \notin ahead[m]
  BY <1>1, <1>2, OrderIsStrict
<1>4. \A m, n \in S : m # n => m \in ahead[n] \/ n \in ahead[m]
  BY <1>1, <1>2, OrderIsStrict
<1>5. \A m, n \in S : m \in ahead[n] => ahead[m] \subseteq ahead[n]
  BY <1>1, <1>2, OrderIsStrict
<1>6. /\ \A m \in S : Cardinality(ahead[m]) \in 0..(Cardinality(S) - 1)
      /\ \A m, n \in S : m \in ahead[n] <=> Cardinality(ahead[m]) < Cardinality(ahead[n])
      /\ \A i \in 0..(Cardinality(S) - 1) : \E m \in S : Cardinality(ahead[m]) = i
  BY <1>1, <1>2, <1>3, <1>4, <1>5, Ranks
<1> QED
  BY <1>2, <1>6 DEF ahead

(* What the first query keeps: so many, and none that is older than one that*)
(* it leaves out.                                                           *)
LEMMA NewestAreLast ==
  ASSUME NEW S, AreKeyed(S), NEW limit \in Nat
  PROVE  LET top == Newest(S, limit) IN
         /\ AreKeyed(top) /\ top \subseteq S
         /\ Cardinality(top) = IF Cardinality(S) < limit THEN Cardinality(S) ELSE limit
         /\ \A m \in S \ top, n \in top : Older(m, n)
         /\ \A m \in S, n \in top : Older(n, m) => m \in top
<1> DEFINE ahead == NewerThan(S)
           rank  == [m \in S |-> Cardinality(ahead[m])]
           top   == Newest(S, limit)
           N     == Cardinality(S)
<1>1. /\ S \subseteq Message /\ IsFiniteSet(S) /\ \A m, n \in S : m.id = n.id => m = n
      /\ N \in Nat
  BY FS_CardinalityType DEF AreKeyed
<1>2. /\ \A m \in S : rank[m] \in 0..(N - 1)
      /\ \A m, n \in S : Newer(m, n) <=> rank[m] < rank[n]
      /\ \A i \in 0..(N - 1) : \E m \in S : rank[m] = i
  BY NewersRank
<1>3. top = {m \in S : rank[m] < limit}
  BY DEF Newest, NewerThan
<1> HIDE DEF top, rank, N
<1>4. AreKeyed(top) /\ top \subseteq S
  BY <1>1, <1>3, FS_Subset DEF AreKeyed
<1>5. Cardinality(top) = IF N < limit THEN N ELSE limit
  <2>1. CASE N < limit
    <3>1. top = S
      BY <1>1, <1>2, <1>3, <2>1
    <3> QED
      BY <2>1, <3>1 DEF N
  <2>2. CASE ~(N < limit)
    <3> DEFINE f == [m \in top |-> rank[m]]
    <3>1. f \in [top -> 0..(limit - 1)]
      <4>1. \A m \in top : rank[m] \in 0..(limit - 1)
        BY <1>1, <1>2, <1>3
      <4> QED
        BY <4>1
    <3>2. \A m, n \in top : f[m] = f[n] => m = n
      <4>1. \A m, n \in S : rank[m] = rank[n] => ~Newer(m, n) /\ ~Newer(n, m)
        BY <1>1, <1>2
      <4>2. \A m, n \in S : ~Newer(m, n) /\ ~Newer(n, m) => m = n
        BY <1>1, OrderIsStrict
      <4> QED
        BY <1>4, <4>1, <4>2
    <3>3. \A i \in 0..(limit - 1) : \E m \in top : f[m] = i
      <4> SUFFICES ASSUME NEW i \in 0..(limit - 1)
                   PROVE  \E m \in top : f[m] = i
        OBVIOUS
      <4>1. i \in 0..(N - 1) /\ i < limit
        BY <1>1, <2>2
      <4>2. PICK m \in S : rank[m] = i
        BY <1>2, <4>1
      <4>3. m \in top
        BY <1>3, <4>1, <4>2
      <4> QED
        BY <4>2, <4>3
    <3> HIDE DEF f
    <3>4. f \in Injection(top, 0..(limit - 1)) /\ f \in Surjection(top, 0..(limit - 1))
      BY <3>1, <3>2, <3>3 DEF Injection, IsInjective, Surjection
    <3>5. IsFiniteSet(0..(limit - 1)) /\ Cardinality(0..(limit - 1)) = limit
      BY FS_Interval
    <3>6. Cardinality(top) = Cardinality(0..(limit - 1))
      BY <3>4, <3>5, FS_Injection
    <3> QED
      BY <2>2, <3>5, <3>6
  <2> QED
    BY <2>1, <2>2
<1>6. ASSUME NEW m \in S, NEW n \in top, m \notin top
      PROVE  Older(m, n)
  <2>1. n \in S /\ rank[n] < limit /\ ~(rank[m] < limit) /\ rank[n] \in Nat /\ rank[m] \in Nat
    BY <1>1, <1>2, <1>3, <1>6
  <2>2. Newer(n, m)
    <3>1. rank[n] < rank[m]
      BY <2>1
    <3> QED
      BY <1>2, <2>1, <3>1
  <2> QED
    BY <1>1, <2>1, <2>2, OrderIsStrict
<1>7. ASSUME NEW m \in S, NEW n \in top, Older(n, m)
      PROVE  m \in top
  <2>1. n \in S
    BY <1>4
  <2> QED
    BY <1>1, <1>6, <1>7, <2>1, OrderIsStrict
<1> QED
  BY <1>4, <1>5, <1>6, <1>7 DEF top, N

(* What the second query returns: all of them, and no row before one that is*)
(* older.                                                                   *)
LEMMA AreInOrder ==
  ASSUME NEW S, AreKeyed(S)
  PROVE  LET p == InOrder(S) IN
         /\ p \in Seq(S) /\ Len(p) = Cardinality(S)
         /\ DOMAIN p = 1..Cardinality(S) /\ Range(p) = S
         /\ Cardinality(S) \in Nat
         /\ \A i \in DOMAIN p : p[i] \in S
         /\ \A i, j \in DOMAIN p : i < j <=> Older(p[i], p[j])
<1> DEFINE p     == InOrder(S)
           N     == Cardinality(S)
           ahead == OlderThan(S)
           rank  == [m \in S |-> Cardinality(ahead[m])]
           row(i) == CHOOSE m \in S : Cardinality({n \in S : Older(n, m)}) = i - 1
<1>1. /\ N \in Nat
      /\ \A m \in S : rank[m] \in 0..(N - 1)
      /\ \A m, n \in S : Older(m, n) <=> rank[m] < rank[n]
      /\ \A i \in 0..(N - 1) : \E m \in S : rank[m] = i
  BY OldersRank
<1>2. p = [i \in 1..N |-> row(i)]
  BY DEF InOrder
<1>3. S \subseteq Message /\ \A m, n \in S : m.id = n.id => m = n
  BY DEF AreKeyed
<1> HIDE DEF N, p
<1>4. ASSUME NEW i \in 1..N
      PROVE  row(i) \in S /\ rank[row(i)] = i - 1
  <2>1. i - 1 \in 0..(N - 1)
    BY <1>1
  <2>2. PICK m \in S : rank[m] = i - 1
    BY <1>1, <2>1
  <2>3. \A n \in S : rank[n] = Cardinality({k \in S : Older(k, n)})
    BY DEF OlderThan
  <2> HIDE DEF rank
  <2>4. row(i) \in S /\ Cardinality({n \in S : Older(n, row(i))}) = i - 1
    BY <2>2, <2>3
  <2> QED
    BY <2>3, <2>4
<1> HIDE DEF rank, row
<1>5. ASSUME NEW i \in 1..N
      PROVE  p[i] \in S /\ rank[p[i]] = i - 1
  BY <1>2, <1>4
<1>6. p \in Seq(S) /\ DOMAIN p = 1..N /\ Len(p) = N
  <2>1. p \in [1..N -> S]
    BY <1>2, <1>4
  <2>2. p \in Seq(S)
    BY <1>1, <2>1
  <2> QED
    BY <1>1, <2>1, <2>2
<1>7. Range(p) = S
  <2>1. Range(p) \subseteq S
    BY <1>5, <1>6 DEF Range
  <2>2. ASSUME NEW m \in S
        PROVE  m \in Range(p)
    <3> DEFINE i == rank[m] + 1
    <3>1. i \in 1..N /\ i - 1 = rank[m]
      BY <1>1
    <3>2. p[i] \in S /\ rank[p[i]] = rank[m]
      BY <1>5, <3>1
    <3>3. ~Older(p[i], m) /\ ~Older(m, p[i])
      BY <1>1, <3>2
    <3>4. p[i] = m
      BY <1>3, <3>2, <3>3, OrderIsStrict
    <3> QED
      BY <1>6, <3>1, <3>4 DEF Range
  <2> QED
    BY <2>1, <2>2
<1>8. ASSUME NEW i \in 1..N, NEW j \in 1..N
      PROVE  i < j <=> Older(p[i], p[j])
  <2>1. p[i] \in S /\ p[j] \in S /\ rank[p[i]] = i - 1 /\ rank[p[j]] = j - 1
    BY <1>5
  <2>2. Older(p[i], p[j]) <=> i - 1 < j - 1
    BY <1>1, <2>1
  <2> QED
    BY <1>1, <2>2
<1> QED
  BY <1>1, <1>5, <1>6, <1>7, <1>8 DEF p, N

(* Whole pairs: each row has its partner, of the same instant.              *)
ArePairs(S) ==
  /\ \A m, n \in S : m.post = n.post /\ m.role = n.role => m = n
  /\ \A m \in S : \E n \in S : Partner(m, n) /\ n.at = m.at

(* A question is older than its answer, though of the same instant.         *)
LEMMA PartnersAgree ==
  ASSUME NEW S, S \subseteq Message, ArePairs(S), NEW m \in S, NEW n \in S, Partner(m, n)
  PROVE  /\ m.at = n.at
         /\ m.role = "user" => n.role = "assistant" /\ Older(m, n)
<1>1. /\ m.at \in Int /\ m.role \in {"user", "assistant"}
      /\ n.at \in Int /\ n.role \in {"user", "assistant"}
  BY DEF Message
<1>2. PICK k \in S : Partner(m, k) /\ k.at = m.at
  BY DEF ArePairs
<1>3. k.role \in {"user", "assistant"}
  BY DEF Message
<1>4. k.post = n.post /\ k.role = n.role
  BY <1>1, <1>2, <1>3 DEF Partner
<1>5. k = n
  BY <1>4 DEF ArePairs
<1>6. m.at = n.at
  BY <1>2, <1>5
<1> QED
  BY <1>1, <1>6 DEF Older, Partner

(* Where one post at a time is written, a question is right ahead of its    *)
(* answer: a row in between is of their instant, so of their post.          *)
LEMMA NothingBetween ==
  ASSUME NEW S, AreKeyed(S), ArePairs(S), OneAtATime(S),
         NEW m \in S, NEW n \in S, Partner(m, n), m.role = "user",
         NEW k \in S, Older(m, k)
  PROVE  k = n \/ Older(n, k)
<1>1. S \subseteq Message /\ \A x, y \in S : x.id = y.id => x = y
  BY DEF AreKeyed
<1>2. m.at = n.at /\ n.role = "assistant" /\ Older(m, n) /\ m.post = n.post
  BY <1>1, PartnersAgree DEF Partner
<1>3. SUFFICES ASSUME ~Older(n, k)
               PROVE  k = n
  OBVIOUS
<1>4. /\ m.at \in Int /\ k.at \in Int /\ n.at \in Int
      /\ k.role \in {"user", "assistant"}
  BY <1>1 DEF Message
<1>5. m.at <= k.at /\ k.at <= n.at
  BY <1>3, <1>4 DEF Older
<1>6. k.at = m.at
  BY <1>2, <1>4, <1>5
<1>7. k.post = m.post
  BY <1>6 DEF OneAtATime
<1>8. k # m
  BY <1>1, OrderIsStrict
<1>9. k.role = "assistant"
  BY <1>4, <1>7, <1>8 DEF ArePairs
<1> QED
  BY <1>2, <1>7, <1>9 DEF ArePairs

(* What ListChatMessages returns of a conversation of whole pairs.          *)
LEMMA NewestInOrder ==
  ASSUME NEW S, AreKeyed(S), ArePairs(S)
  PROVE  PromptIsInOrder(InOrder(Newest(S, HistoryLimit)), S)
<1> DEFINE top == Newest(S, HistoryLimit)
           p   == InOrder(top)
<1>1. S \subseteq Message /\ \A x, y \in S : x.id = y.id => x = y
  BY DEF AreKeyed
<1>2. HistoryLimit \in Nat
  BY ChatIsTyped
<1>3. /\ AreKeyed(top) /\ top \subseteq S
      /\ Cardinality(top) = IF Cardinality(S) < HistoryLimit THEN Cardinality(S) ELSE HistoryLimit
      /\ \A m \in S \ top, n \in top : Older(m, n)
      /\ \A m \in S, n \in top : Older(n, m) => m \in top
  BY <1>2, NewestAreLast
<1> HIDE DEF top
<1>4. /\ Len(p) = Cardinality(top) /\ DOMAIN p = 1..Cardinality(top) /\ Range(p) = top
      /\ Cardinality(top) \in Nat
      /\ \A i \in DOMAIN p : p[i] \in top
      /\ \A i, j \in DOMAIN p : i < j <=> Older(p[i], p[j])
  BY <1>3, AreInOrder
<1> HIDE DEF p
<1>5. \A i \in DOMAIN p : i \in Int
  BY <1>4
<1>6. \A m \in top : \E i \in DOMAIN p : p[i] = m
  BY <1>4 DEF Range
<1>7. \A m, n \in S : Older(m, n) => m.at <= n.at /\ m # n
  <2>1. \A m \in S : m.at \in Int
    BY <1>1 DEF Message
  <2>2. \A m, n \in S : Older(m, n) => m.at <= n.at
    BY <2>1 DEF Older
  <2> QED
    BY <1>1, <2>2, OrderIsStrict
<1>8. \A m \in S \ Range(p) : \A n \in Range(p) : m.at <= n.at
  BY <1>3, <1>4, <1>7
<1>9. \A i, j \in DOMAIN p : i < j => p[i].at <= p[j].at /\ p[i] # p[j]
  BY <1>3, <1>4, <1>7
<1>10. \A i, j \in DOMAIN p : Partner(p[i], p[j]) /\ p[i].role = "user" => i < j
  BY <1>1, <1>3, <1>4, PartnersAgree
<1>11. ASSUME NEW i \in DOMAIN p, NEW j \in DOMAIN p, OneAtATime(S),
              Partner(p[i], p[j]), p[i].role = "user"
       PROVE  j = i + 1
  <2>1. i \in Int /\ j \in Int /\ i < j
    BY <1>5, <1>10, <1>11
  <2>2. i + 1 \in DOMAIN p /\ i < i + 1
    BY <1>4, <2>1
  <2>3. Older(p[i], p[i + 1]) /\ p[i] \in S /\ p[j] \in S /\ p[i + 1] \in S
    BY <1>3, <1>4, <2>2
  <2>4. p[i + 1] = p[j] \/ Older(p[j], p[i + 1])
    BY <1>11, <2>3, NothingBetween
  <2>5. ~(j < i + 1)
    BY <2>1
  <2>6. ~Older(p[j], p[i + 1])
    BY <1>4, <2>2, <2>5
  <2>7. ~(i + 1 < j)
    <3>1. ~Older(p[i + 1], p[j])
      BY <1>1, <2>3, <2>4, <2>6, OrderIsStrict
    <3> QED
      BY <1>4, <2>2, <3>1
  <2> QED
    BY <2>1, <2>7
<1>12. ASSUME NEW i \in DOMAIN p, OneAtATime(S), p[i].role = "user"
       PROVE  i + 1 \in DOMAIN p /\ Partner(p[i], p[i + 1])
  <2>1. p[i] \in top /\ p[i] \in S
    BY <1>3, <1>4
  <2>2. PICK n \in S : Partner(p[i], n)
    BY <2>1 DEF ArePairs
  <2>3. Older(p[i], n)
    BY <1>1, <1>12, <2>1, <2>2, PartnersAgree
  <2>4. n \in top
    BY <1>3, <2>1, <2>3
  <2>5. PICK j \in DOMAIN p : p[j] = n
    BY <1>6, <2>4
  <2>6. j = i + 1
    BY <1>11, <1>12, <2>2, <2>5
  <2> QED
    BY <2>2, <2>5, <2>6
<1>13. ASSUME NEW i \in DOMAIN p, OneAtATime(S), p[i].role # "user", i # 1
       PROVE  Partner(p[i - 1], p[i])
  <2>1. p[i] \in top /\ p[i] \in S
    BY <1>3, <1>4
  <2>2. i - 1 \in DOMAIN p /\ i - 1 < i
    BY <1>4, <1>13
  <2>3. p[i - 1] \in top /\ p[i - 1] \in S /\ Older(p[i - 1], p[i])
    BY <1>3, <1>4, <2>2
  <2>4. PICK m \in S : Partner(p[i], m)
    BY <2>1 DEF ArePairs
  <2>5. p[i].role = "assistant" /\ m.role \in {"user", "assistant"}
    BY <1>1, <1>13, <2>1 DEF Message
  <2>6. Partner(m, p[i]) /\ m.role = "user"
    BY <2>4, <2>5 DEF Partner
  <2>7. m \in top
    <3>1. SUFFICES ASSUME m \notin top
                   PROVE  FALSE
      OBVIOUS
    <3>2. Older(m, p[i - 1])
      BY <1>3, <2>3, <3>1
    <3>3. p[i - 1] = p[i] \/ Older(p[i], p[i - 1])
      BY <1>13, <2>1, <2>3, <2>6, <3>2, NothingBetween
    <3> QED
      BY <1>1, <2>1, <2>3, <3>3, OrderIsStrict
  <2>8. PICK j \in DOMAIN p : p[j] = m
    BY <1>6, <2>7
  <2>9. i = j + 1 /\ j \in Int
    BY <1>5, <1>11, <1>13, <2>6, <2>8
  <2>10. i - 1 = j
    BY <2>9
  <2> QED
    BY <2>6, <2>8, <2>10
<1> QED
  BY <1>3, <1>4, <1>8, <1>9, <1>10, <1>12, <1>13 DEF PromptIsInOrder, top, p

-----------------------------------------------------------------------------
LEMMA Asked ==
  ASSUME FrameOK, NEW r \in Requests
  PROVE  /\ ask[r].op \in Ops
         /\ ask[r].op = "signIn" => ask[r].user \in Users
         /\ ask[r].op \in DOMAIN SecondStep \cup {"createNode"} => ask[r].node \in STRING
         /\ ask[r].op \in {"connect", "disconnect"} => ask[r].app \in STRING
         /\ ask[r].op = "put" => ask[r].size \in Nat
BY AsksAreTyped DEF FrameOK, ask

(* Where the steps lead that the handlers have in common.                   *)
LEMMA Leads ==
  ASSUME NEW op \in Ops, NEW s \in StepsOf[op] \cup {"done"}
  PROVE  /\ s \in InSession => /\ op \in DOMAIN FirstStep /\ FirstStep[op] \in StepsOf[op]
                               /\ InSession \subseteq StepsOf[op]
         /\ s \in {"owner", "resolve"} => op \in DOMAIN SecondStep /\ SecondStep[op] \in StepsOf[op]
<1> USE DEF Ops, StepsOf, FirstStep, SecondStep, Started, InSession
<1>1. op \in {"signOut", "createNode", "deleteNode", "addNode", "removeNode", "listApps",
              "connect", "disconnect", "getChat", "postChat", "clearChat", "preview",
              "download", "signIn", "put", "drop", "none"}
  OBVIOUS
<1>2. CASE op \in {"signIn", "put", "drop", "none"}
  BY <1>2
<1>3. CASE op \in {"signOut", "createNode", "deleteNode", "addNode", "removeNode"}
  BY <1>3
<1>4. CASE op \in {"listApps", "connect", "disconnect"}
  BY <1>4
<1>5. CASE op \in {"getChat", "postChat", "clearChat", "preview", "download"}
  BY <1>5
<1> QED
  BY <1>1, <1>2, <1>3, <1>4, <1>5

(* What each step says about the request that is at it.                     *)
LEMMA Follows ==
  ASSUME NEW op \in Ops, NEW s \in StepsOf[op]
  PROVE  /\ s \in {"signIn", "insertSession"} =>
              op = "signIn" /\ {"insertSession", "audit"} \subseteq StepsOf[op]
         /\ s = "create" => op = "createNode" /\ "audit" \in StepsOf[op]
         /\ s = "delete" => op = "deleteNode" /\ "audit" \in StepsOf[op]
         /\ s \in {"routes", "hops", "seed", "list", "choose"} =>
              /\ op \in {"listApps", "connect", "disconnect"}
              /\ {"hops", "seed"} \subseteq StepsOf[op]
              /\ IF op = "listApps" THEN "list" \in StepsOf[op] ELSE "choose" \in StepsOf[op]
         /\ s = "list" => op = "listApps"
         /\ s = "owner" => op \notin {"addNode", "removeNode", "createNode"}
         /\ s = "resolve" => op \in {"addNode", "removeNode"}
         /\ s = "choose" => op \in {"connect", "disconnect"}
         /\ s = "history" => op \in {"getChat", "postChat"}
         /\ s \in {"model", "begin", "question", "answer", "commit", "auditFailure"} =>
              op = "postChat"
         /\ s = "clear" => op = "clearChat"
         /\ s = "add" => op = "addNode"
         /\ s = "remove" => op = "removeNode"
         /\ s = "signOut" => op = "signOut"
         /\ s \in {"asset", "get", "read"} =>
              op \in {"preview", "download"} /\ {"get", "read"} \subseteq StepsOf[op]
         /\ s = "put" => op = "put"
         /\ s = "drop" => op = "drop"
         /\ s = "audit" => op \in {"signIn", "createNode", "deleteNode", "postChat"}
<1> USE DEF Ops, StepsOf, FirstStep, SecondStep, Started, InSession
<1>1. op \in {"signOut", "createNode", "deleteNode", "addNode", "removeNode", "listApps",
              "connect", "disconnect", "getChat", "postChat", "clearChat", "preview",
              "download", "signIn", "put", "drop", "none"}
  OBVIOUS
<1>2. CASE op \in {"signIn", "put", "drop", "none"}
  BY <1>2
<1>3. CASE op \in {"signOut", "createNode", "deleteNode", "addNode", "removeNode"}
  BY <1>3
<1>4. CASE op \in {"listApps", "connect", "disconnect"}
  BY <1>4
<1>5. CASE op \in {"getChat", "postChat", "clearChat"}
  BY <1>5
<1>6. CASE op \in {"preview", "download"}
  BY <1>6
<1> QED
  BY <1>1, <1>2, <1>3, <1>4, <1>5, <1>6

(* The steps of a post.                                                     *)
LEMMA PostSteps ==
  {"model", "begin", "question", "answer", "commit", "audit", "auditFailure"}
    \subseteq StepsOf["postChat"]
BY DEF StepsOf, InSession

-----------------------------------------------------------------------------
LEMMA AnswersAre ==
  /\ {"none", "ok", "failed", "cut", "too_big", "provider_error", "not_found",
      "not_authenticated", "not_authorized"} \subseteq Answers
  /\ {DatabaseError.unique, DatabaseError.raised, DatabaseError.other} \subseteq Answers
BY DEF Answers, DatabaseError, Range

(* Type correctness, by the modules that a step belongs to.                 *)
LEMMA Frame ==
  ASSUME FrameOK, NEW r \in Requests,
         /\ UNCHANGED <<mix, now>>
         /\ \/ UNCHANGED pc
            \/ \E s : s \in StepsOf[ask[r].op] \cup {"done"} /\ pc' = [pc EXCEPT ![r] = s]
         /\ \/ UNCHANGED answer
            \/ \E a : a \in Answers /\ answer' = [answer EXCEPT ![r] = a]
         /\ UNCHANGED tries \/ tries' = [tries EXCEPT ![r] = 1]
         /\ UNCHANGED events \/ \E e \in EventRow : events' = events \cup {e}
  PROVE  FrameOK'
<1>1. \A q \in Requests : StepsOf[ask[q].op] \cup {"done"} \subseteq Steps
  <2>1. "done" \in Steps
    BY DEF Steps
  <2>2. ASSUME NEW q \in Requests PROVE StepsOf[ask[q].op] \subseteq Steps
    <3>1. ask[q].op \in Ops
      BY Asked
    <3> QED
      BY <3>1 DEF Steps
  <2> QED
    BY <2>1, <2>2
<1>2. pc' \in [Requests -> Steps]
  BY <1>1 DEF FrameOK
<1>3. \A q \in Requests : pc'[q] \in StepsOf[(ask')[q].op] \cup {"done"}
  BY DEF FrameOK, ask
<1>4. answer' \in [Requests -> Answers] /\ tries' \in [Requests -> 0..1]
  BY DEF FrameOK
<1>5. events' \subseteq EventRow
  BY DEF FrameOK
<1> QED
  BY <1>2, <1>3, <1>4, <1>5 DEF FrameOK

LEMMA At ==
  ASSUME FrameOK, NEW r \in Requests, NEW s, pc[r] = s, s # "done"
  PROVE  ask[r].op \in Ops /\ s \in StepsOf[ask[r].op]
BY Asked DEF FrameOK

LEMMA SessionFrame ==
  ASSUME FrameOK, NEW r \in Requests, SessionStep(r)
  PROVE  FrameOK'
<1> USE AnswersAre DEF quiet, Moves, Ends
<1>1. CASE RequireSession(r)
  <2>1. "clock" \in StepsOf[ask[r].op]
    BY <1>1, At, Leads DEF RequireSession, InSession
  <2> QED
    BY <1>1, <2>1, Frame DEF RequireSession
<1>2. CASE ReadClock(r)
  <2>1. FirstStep[ask[r].op] \in StepsOf[ask[r].op] /\ "touch" \in StepsOf[ask[r].op]
    BY <1>2, At, Leads DEF ReadClock, InSession, FirstStep
  <2> QED
    BY <1>2, <2>1, Frame DEF ReadClock
<1>3. CASE TouchSession(r)
  <2>1. FirstStep[ask[r].op] \in StepsOf[ask[r].op]
    BY <1>3, At, Leads DEF TouchSession, InSession, FirstStep
  <2> QED
    BY <1>3, <2>1, Frame DEF TouchSession
<1>4. CASE SignIn(r)
  <2>1. "insertSession" \in StepsOf[ask[r].op]
    BY <1>4, At, Follows DEF SignIn
  <2> QED
    BY <1>4, <2>1, Frame DEF SignIn
<1>5. CASE CreateSession(r)
  <2>1. "audit" \in StepsOf[ask[r].op]
    BY <1>5, At, Follows DEF CreateSession
  <2> QED
    BY <1>5, <2>1, Frame DEF CreateSession
<1>6. CASE SignOut(r)
  BY <1>6, Frame DEF SignOut
<1> QED
  BY <1>1, <1>2, <1>3, <1>4, <1>5, <1>6 DEF SessionStep

LEMMA SessionTypes ==
  ASSUME FrameOK, SessionsOK, NEW r \in Requests, SessionStep(r)
  PROVE  SessionsOK'
<1> USE SessionsAreTyped
<1>1. CASE RequireSession(r)
  BY <1>1 DEF RequireSession, SessionsOK, Session, Live
<1>2. CASE ReadClock(r)
  BY <1>2 DEF ReadClock, SessionsOK, FrameOK
<1>3. CASE TouchSession(r)
  BY <1>3 DEF TouchSession, SessionsOK, Session
<1>4. CASE SignIn(r)
  <2>1. ask[r].user \in Users
    BY <1>4, At, Follows, Asked DEF SignIn
  <2>2. now \in Nat /\ now + SessionLife \in Nat
    BY DEF FrameOK
  <2> QED
    BY <1>4, <2>1, <2>2 DEF SignIn, SessionsOK
<1>5. CASE CreateSession(r)
  <2>1. CASE at[r] > now
    <3>1. [user |-> caller[r], seen |-> now, expires |-> at[r]] \in Session
      BY DEF SessionsOK, FrameOK, Session
    <3>2. DOMAIN sessions' = DOMAIN sessions \cup {r}
      BY <1>5, <2>1 DEF CreateSession
    <3>3. sessions' \in [DOMAIN sessions' -> Session]
      BY <1>5, <2>1, <3>1, <3>2 DEF CreateSession, SessionsOK
    <3> QED
      BY <1>5, <3>2, <3>3 DEF CreateSession, SessionsOK, Tokens
  <2>2. CASE ~(at[r] > now)
    BY <1>5, <2>2 DEF CreateSession, SessionsOK
  <2> QED
    BY <2>1, <2>2
<1>6. CASE SignOut(r)
  BY <1>6 DEF SignOut, SessionsOK
<1> QED
  BY <1>1, <1>2, <1>3, <1>4, <1>5, <1>6 DEF SessionStep

LEMMA NodeFrame ==
  ASSUME FrameOK, NodesOK, NEW r \in Requests, NodeStep(r) \/ DeleteNode(r)
  PROVE  FrameOK'
<1> USE AnswersAre DEF quiet, Moves, Ends, NotFound
<1>1. CASE CreateNode(r)
  <2>1. "audit" \in StepsOf[ask[r].op]
    BY <1>1, At, Follows DEF CreateNode
  <2> QED
    BY <1>1, <2>1, Frame DEF CreateNode
<1>2. CASE OwnerBrain(r)
  <2>1. SecondStep[ask[r].op] \in StepsOf[ask[r].op]
    BY <1>2, At, Leads DEF OwnerBrain
  <2> QED
    BY <1>2, <2>1, Frame DEF OwnerBrain, Found
<1>3. CASE Audit(r)
  <2>1. Event(r) \in EventRow
    BY <1>3, At, Asked DEF Event, EventRow, NodesOK, Audit
  <2> QED
    BY <1>3, <2>1, Frame DEF Audit
<1>4. CASE DeleteNode(r)
  <2>1. "audit" \in StepsOf[ask[r].op]
    BY <1>4, At, Follows DEF DeleteNode
  <2> QED
    BY <1>4, <2>1, Frame DEF DeleteNode
<1> QED
  BY <1>1, <1>2, <1>3, <1>4 DEF NodeStep

LEMMA NodeTypes ==
  ASSUME FrameOK, SessionsOK, NodesOK, NEW r \in Requests, NodeStep(r) \/ DeleteNode(r)
  PROVE  NodesOK'
<1>1. CASE CreateNode(r)
  <2>1. CASE Named(ask[r].node) = {}
    <3>1. /\ minted' = minted + 1 /\ minted \in Nat
          /\ nodes' = [i \in DOMAIN nodes \cup {minted'} |->
                         IF i = minted' THEN NodeRow(r) ELSE nodes[i]]
          /\ target' = [target EXCEPT ![r] = minted']
          /\ UNCHANGED <<routes, mix>>
      BY <1>1, <2>1 DEF CreateNode, Moves, NodesOK
    <3>2. ask[r].node \in STRING /\ caller[r] \in Users
      BY <1>1, At, Follows, Asked DEF CreateNode, SessionsOK
    <3>3. NodeRow(r) \in [name: STRING, owner: Users]
      BY <3>2 DEF NodeRow
    <3>4. DOMAIN nodes' \subseteq 1..minted'
      BY <3>1 DEF NodesOK
    <3>5. nodes' \in [DOMAIN nodes' -> [name: STRING, owner: Users]]
      BY <3>1, <3>3 DEF NodesOK
    <3>6. target' \in [Requests -> 0..minted']
      BY <3>1 DEF NodesOK
    <3> QED
      BY <3>1, <3>4, <3>5, <3>6 DEF NodesOK
  <2>2. CASE Named(ask[r].node) # {}
    BY <1>1, <2>2 DEF CreateNode, NodesOK, Ends
  <2> QED
    BY <2>1, <2>2
<1>2. CASE OwnerBrain(r)
  BY <1>2 DEF OwnerBrain, NodesOK, Named, Found, NotFound, Moves, Ends
<1>3. CASE Audit(r)
  BY <1>3 DEF Audit, NodesOK, nodeVars, Ends
<1>4. CASE DeleteNode(r)
  BY <1>4 DEF DeleteNode, NodesOK, Moves, Ends
<1> QED
  BY <1>1, <1>2, <1>3, <1>4 DEF NodeStep

LEMMA CanvasFrame ==
  ASSUME FrameOK, NEW r \in Requests, CanvasStep(r)
  PROVE  FrameOK'
<1> USE AnswersAre DEF quiet, Moves, Ends, NotFound
<1>1. CASE ResolveCanvasNode(r)
  <2>1. SecondStep[ask[r].op] \in StepsOf[ask[r].op]
    BY <1>1, At, Leads DEF ResolveCanvasNode
  <2> QED
    BY <1>1, <2>1, Frame DEF ResolveCanvasNode, Found
<1>2. CASE AddToCanvas(r)
  BY <1>2, Frame DEF AddToCanvas
<1>3. CASE RemoveFromCanvas(r)
  BY <1>3, Frame DEF RemoveFromCanvas
<1> QED
  BY <1>1, <1>2, <1>3 DEF CanvasStep

LEMMA CanvasTypes ==
  ASSUME FrameOK, SessionsOK, NodesOK, CanvasOK, NEW r \in Requests, CanvasStep(r)
  PROVE  NodesOK' /\ CanvasOK'
<1> USE DEF nodeVars, canvasVars
<1>1. CASE ResolveCanvasNode(r)
  <2>1. NodesOK'
    BY <1>1 DEF ResolveCanvasNode, NodesOK, Named, Found, NotFound, Moves, Ends
  <2>2. CanvasOK'
    BY <1>1 DEF ResolveCanvasNode, CanvasOK
  <2> QED
    BY <2>1, <2>2
<1>2. ASSUME AddToCanvas(r) \/ RemoveFromCanvas(r) PROVE NodesOK' /\ CanvasOK'
  <2>1. NodesOK'
    BY <1>2 DEF AddToCanvas, RemoveFromCanvas, NodesOK, Ends
  <2>2. ask[r].node \in STRING /\ caller[r] \in Users /\ target[r] \in Nat
    <3>1. ask[r].op \in {"addNode", "removeNode"}
      BY <1>2, At, Follows DEF AddToCanvas, RemoveFromCanvas
    <3>2. ask[r].op \in DOMAIN SecondStep
      BY <3>1 DEF SecondStep
    <3> QED
      BY <3>2, Asked DEF SessionsOK, NodesOK
  <2>3. Chosen(r) \in Users \X STRING /\ <<caller[r], target[r]>> \in Users \X Nat
    BY <2>2 DEF Chosen
  <2>4. CanvasOK'
    BY <1>2, <2>3 DEF AddToCanvas, RemoveFromCanvas, CanvasOK
  <2> QED
    BY <2>1, <2>4
<1> QED
  BY <1>1, <1>2 DEF CanvasStep

LEMMA AppFrame ==
  ASSUME FrameOK, NEW r \in Requests, AppStep(r)
  PROVE  FrameOK'
<1> USE AnswersAre DEF quiet, Moves, Ends, Is
<1>1. ASSUME pc[r] \in {"routes", "hops", "seed", "list"}
      PROVE  /\ {"hops", "seed"} \subseteq StepsOf[ask[r].op]
             /\ IF ask[r].op = "listApps" THEN "list" \in StepsOf[ask[r].op]
                                          ELSE "choose" \in StepsOf[ask[r].op]
  BY <1>1, At, Follows
<1>2. CASE ListNetworkRoutes(r)
  BY <1>1, <1>2, Frame DEF ListNetworkRoutes
<1>3. CASE ListHops(r)
  BY <1>1, <1>3, Frame DEF ListHops
<1>4. CASE SeedOnce(r)
  BY <1>1, <1>4, Frame DEF SeedOnce
<1>5. CASE Choose(r)
  BY <1>5, Frame DEF Choose
<1>6. CASE AppCatalog(r)
  <2>1. "list" \in StepsOf[ask[r].op]
    BY <1>6, At DEF AppCatalog
  <2> QED
    BY <1>6, <2>1, Frame DEF AppCatalog
<1> QED
  BY <1>2, <1>3, <1>4, <1>5, <1>6 DEF AppStep

LEMMA AppTypes ==
  ASSUME FrameOK, NodesOK, RoutesStand, AppsOK, NEW r \in Requests, AppStep(r)
  PROVE  NodesOK' /\ AppsOK' /\ RoutesStand'
<1> USE DEF nodeVars, AppsOK
<1>0. mix' = mix
  BY DEF AppStep, ListNetworkRoutes, ListHops, SeedOnce, Choose, AppCatalog, Moves, Ends
<1>1. NodesOK'
  BY <1>0 DEF AppStep, ListNetworkRoutes, ListHops, SeedOnce, Choose, AppCatalog, NodesOK
<1>2. RoutesStand'
  BY <1>0 DEF AppStep, ListNetworkRoutes, ListHops, SeedOnce, Choose, AppCatalog, RoutesStand
<1>3. CASE ListNetworkRoutes(r)
  BY <1>0, <1>1, <1>2, <1>3 DEF ListNetworkRoutes, NodesOK
<1>4. CASE ListHops(r)
  <2>1. \A rt \in listed[r] : {nodes[h].name : h \in rt.hops} \subseteq STRING
    BY DEF RoutesStand, NodesOK
  <2> QED
    BY <1>0, <1>1, <1>2, <1>4, <2>1 DEF ListHops
<1>5. CASE SeedOnce(r)
  <2>1. connected' \subseteq Nat \X STRING
    <3>1. {target[r]} \X routed[r] \subseteq Nat \X STRING
      BY DEF NodesOK
    <3> QED
      BY <1>5, <3>1 DEF SeedOnce
  <2> QED
    BY <1>0, <1>1, <1>2, <1>5, <2>1 DEF SeedOnce, NodesOK
<1>6. CASE Choose(r)
  <2>1. ask[r].op \in {"connect", "disconnect"}
    BY <1>6, At, Follows DEF Choose
  <2>2. <<target[r], ask[r].app>> \in Nat \X STRING
    BY <2>1, Asked DEF NodesOK
  <2> QED
    BY <1>0, <1>1, <1>2, <1>6, <2>2 DEF Choose, NodesOK
<1>7. CASE AppCatalog(r)
  <2>1. shown' \in [Requests -> Seq(BOOLEAN)]
    <3> DEFINE found == <<target[r], Catalog[Len(shown[r]) + 1]>> \in connected
    <3>1. found \in BOOLEAN
      OBVIOUS
    <3>2. Append(shown[r], found) \in Seq(BOOLEAN)
      BY <3>1, AppendProperties, Zenon
    <3> HIDE DEF found
    <3> QED
      BY <1>7, <3>2 DEF AppCatalog, found
  <2> QED
    BY <1>0, <1>1, <1>2, <1>7, <2>1 DEF AppCatalog
<1> QED
  BY <1>1, <1>2, <1>3, <1>4, <1>5, <1>6, <1>7 DEF AppStep

LEMMA ChatFrame ==
  ASSUME FrameOK, NEW r \in Requests, ChatStep(r) \/ BeginPair(r)
  PROVE  FrameOK'
<1> USE AnswersAre DEF quiet, Moves, Ends, Is
<1>1. ASSUME pc[r] \in {"model", "begin", "question", "answer", "commit"}
             \/ (pc[r] = "history" /\ ask[r].op # "getChat")
      PROVE  {"model", "begin", "question", "answer", "commit", "audit", "auditFailure"}
               \subseteq StepsOf[ask[r].op]
  <2>1. ask[r].op = "postChat"
    BY <1>1, At, Follows
  <2> QED
    BY <2>1, PostSteps
<1>2. CASE ListChatMessages(r)
  BY <1>1, <1>2, Frame DEF ListChatMessages
<1>3. CASE Respond(r)
  BY <1>1, <1>3, Frame DEF Respond, Retries
<1>4. CASE InsertQuestion(r)
  BY <1>1, <1>4, Frame DEF InsertQuestion
<1>5. CASE InsertAnswer(r)
  BY <1>1, <1>5, Frame DEF InsertAnswer
<1>6. CASE CommitPair(r)
  BY <1>1, <1>6, Frame DEF CommitPair
<1>7. CASE ClearChat(r)
  BY <1>7, Frame DEF ClearChat
<1>8. CASE BeginPair(r)
  BY <1>1, <1>8, Frame DEF BeginPair
<1> QED
  BY <1>2, <1>3, <1>4, <1>5, <1>6, <1>7, <1>8 DEF ChatStep

LEMMA RowTypes ==
  ASSUME FrameOK, SessionsOK, NodesOK, NEW r \in Requests, NEW role \in {"user", "assistant"},
         NEW id \in Ids(r, role)
  PROVE  Row(r, role, id) \in Message
BY RequestsAreNumbers DEF Row, Message, Ids, FrameOK, SessionsOK, NodesOK

(* A conversation is part of the stored messages.                           *)
LEMMA ConversationIsKeyed ==
  ASSUME ChatOK, MessagesStand, NEW id, NEW user
  PROVE  AreKeyed(Conversation(id, user))
<1>1. Conversation(id, user) \in SUBSET messages
  BY DEF Conversation
<1>2. IsFiniteSet(Conversation(id, user))
  BY <1>1, FS_Subset DEF MessagesStand
<1> QED
  BY <1>1, <1>2 DEF AreKeyed, ChatOK, MessagesStand

LEMMA ListIsTyped ==
  ASSUME ChatOK, MessagesStand, NEW id, NEW user
  PROVE  InOrder(Newest(Conversation(id, user), HistoryLimit)) \in Seq(Message)
<1> DEFINE S   == Conversation(id, user)
           top == Newest(S, HistoryLimit)
<1>1. AreKeyed(S)
  BY ConversationIsKeyed
<1>2. AreKeyed(top)
  BY <1>1, ChatIsTyped, NewestAreLast
<1> HIDE DEF top
<1>3. InOrder(top) \in Seq(top)
  BY <1>2, AreInOrder
<1>4. top \subseteq Message
  BY <1>2 DEF AreKeyed
<1>5. InOrder(top) \in Seq(Message)
  BY <1>3, <1>4
<1> QED
  BY <1>5 DEF top

LEMMA ChatTypes ==
  ASSUME FrameOK, SessionsOK, NodesOK, ChatOK, MessagesStand, NEW r \in Requests, ChatStep(r)
  PROVE  ChatOK'
<1> USE DEF ChatOK
<1>1. CASE ListChatMessages(r)
  <2>1. InOrder(Newest(Conversation(target[r], caller[r]), HistoryLimit)) \in Seq(Message)
    BY ListIsTyped
  <2> QED
    BY <1>1, <2>1 DEF ListChatMessages
<1>2. CASE Respond(r)
  BY <1>2 DEF Respond, chatVars
<1>3. CASE InsertQuestion(r)
  BY <1>3, RowTypes DEF InsertQuestion
<1>4. CASE InsertAnswer(r)
  BY <1>4, RowTypes DEF InsertAnswer
<1>5. CASE CommitPair(r)
  BY <1>5 DEF CommitPair
<1>6. CASE ClearChat(r)
  BY <1>6 DEF ClearChat
<1> QED
  BY <1>1, <1>2, <1>3, <1>4, <1>5, <1>6 DEF ChatStep

LEMMA ObjectFrame ==
  ASSUME FrameOK, NEW r \in Requests, ObjectStep(r)
  PROVE  FrameOK'
<1> USE AnswersAre DEF quiet, Moves, Ends
<1>1. ASSUME pc[r] \in {"asset", "get", "read"} PROVE {"get", "read"} \subseteq StepsOf[ask[r].op]
  BY <1>1, At, Follows
<1>2. CASE GetAsset(r)
  BY <1>1, <1>2, Frame DEF GetAsset
<1>3. CASE Get(r)
  BY <1>1, <1>3, Frame DEF Get, Retries
<1>4. CASE Read(r)
  BY <1>1, <1>4, Frame DEF Read, Cut
<1>5. CASE Put(r)
  BY <1>5, Frame DEF Put
<1>6. CASE Drop(r)
  BY <1>6, Frame DEF Drop, Retries
<1> QED
  BY <1>2, <1>3, <1>4, <1>5, <1>6 DEF ObjectStep

LEMMA ObjectTypes ==
  ASSUME FrameOK, ObjectsOK, ReadsStand, NEW r \in Requests, ObjectStep(r)
  PROVE  ObjectsOK'
<1> USE ObjectsAreTyped DEF ObjectsOK
<1>0. mix' = mix
  BY DEF ObjectStep, GetAsset, Get, Read, Put, Drop, Cut, Retries, Moves, Ends
<1>1. CASE GetAsset(r)
  <2>1. limits.file + 1 \in Nat
    BY DEF Limits
  <2>2. \A p \in DOMAIN rows : rows[p] \in Nat
    BY DEF FrameOK
  <2> QED
    BY <1>0, <1>1, <2>1, <2>2 DEF GetAsset
<1>2. CASE Get(r)
  BY <1>0, <1>2 DEF Get, ReadsStand
<1>3. CASE Read(r)
  BY <1>0, <1>3 DEF Read
<1>4. CASE Put(r)
  <2>1. ask[r].size \in Nat
    BY <1>4, At, Follows, Asked DEF Put
  <2> QED
    BY <1>0, <1>4, <2>1 DEF Put
<1>5. CASE Drop(r)
  BY <1>0, <1>5 DEF Drop
<1> QED
  BY <1>1, <1>2, <1>3, <1>4, <1>5 DEF ObjectStep

-----------------------------------------------------------------------------
(* Where a step leaves from and where it leads, by the module it is in, and *)
(* that it is nobody else's.                                                *)
LEMMA Heads ==
  /\ \A op \in DOMAIN FirstStep : FirstStep[op] \in {"signOut", "create", "owner", "resolve"}
  /\ \A op \in DOMAIN SecondStep :
       SecondStep[op] \in {"delete", "add", "remove", "routes", "history", "clear", "asset"}
  /\ SecondStep["addNode"] = "add" /\ SecondStep["removeNode"] = "remove"
BY DEF FirstStep, SecondStep

Alone(r) ==
  /\ mix' = mix /\ pc[r] # "done"
  /\ \A q \in Requests \ {r} : pc'[q] = pc[q] /\ answer'[q] = answer[q]

LEMMA SessionTurn ==
  ASSUME FrameOK, NEW r \in Requests, SessionStep(r)
  PROVE  /\ Alone(r)
         /\ pc[r] \in {"session", "clock", "touch", "signIn", "insertSession", "signOut"}
         /\ pc'[r] \in {"clock", "touch", "insertSession", "audit", "done",
                        "signOut", "create", "owner", "resolve"}
         /\ pc'[r] = "done" \/ answer'[r] = answer[r]
         /\ pc'[r] = "insertSession" => SignIn(r)
         /\ pc'[r] = "audit" => CreateSession(r)
<1> USE DEF Moves, Ends, FrameOK, Alone
<1>1. CASE RequireSession(r)
  BY <1>1 DEF RequireSession
<1>2. ASSUME ReadClock(r) \/ TouchSession(r)
      PROVE  FirstStep[ask[r].op] \in {"signOut", "create", "owner", "resolve"}
  <2>1. ask[r].op \in DOMAIN FirstStep
    BY <1>2, At, Leads DEF ReadClock, TouchSession, InSession
  <2> QED
    BY <2>1, Heads
<1>3. CASE ReadClock(r)
  BY <1>2, <1>3 DEF ReadClock
<1>4. CASE TouchSession(r)
  BY <1>2, <1>4 DEF TouchSession
<1>5. CASE SignIn(r)
  BY <1>5 DEF SignIn
<1>6. CASE CreateSession(r)
  BY <1>6 DEF CreateSession
<1>7. CASE SignOut(r)
  BY <1>7 DEF SignOut
<1> QED
  BY <1>1, <1>3, <1>4, <1>5, <1>6, <1>7 DEF SessionStep

LEMMA NodeTurn ==
  ASSUME FrameOK, NEW r \in Requests, NodeStep(r) \/ DeleteNode(r) \/ CanvasStep(r)
  PROVE  /\ Alone(r)
         /\ pc[r] \in {"create", "owner", "audit", "auditFailure", "delete",
                       "resolve", "add", "remove"}
         /\ pc'[r] \in {"audit", "done", "delete", "add", "remove", "routes", "history",
                        "clear", "asset"}
         /\ pc'[r] = "done" \/ answer'[r] = answer[r]
         /\ pc'[r] = "audit" => CreateNode(r) \/ DeleteNode(r)
         /\ pc'[r] = "delete" => pc[r] = "owner"
         /\ pc'[r] = "remove" => pc[r] = "resolve" /\ Is(r, {"removeNode"})
<1> USE DEF Moves, Ends, FrameOK, NotFound, Alone
<1>1. CASE CreateNode(r)
  BY <1>1 DEF CreateNode
<1>2. CASE OwnerBrain(r)
  <2>1. ask[r].op \in DOMAIN SecondStep /\ ask[r].op \notin {"addNode", "removeNode"}
    BY <1>2, At, Leads, Follows DEF OwnerBrain
  <2>2. SecondStep[ask[r].op] \in {"delete", "routes", "history", "clear", "asset"}
    BY <2>1 DEF SecondStep
  <2> QED
    BY <1>2, <2>2 DEF OwnerBrain, Found
<1>3. CASE Audit(r)
  BY <1>3 DEF Audit
<1>4. CASE DeleteNode(r)
  BY <1>4 DEF DeleteNode
<1>5. CASE ResolveCanvasNode(r)
  <2>1. ask[r].op \in {"addNode", "removeNode"}
    BY <1>5, At, Follows DEF ResolveCanvasNode
  <2> QED
    BY <1>5, <2>1, Heads DEF ResolveCanvasNode, Found, Is
<1>6. CASE AddToCanvas(r)
  BY <1>6 DEF AddToCanvas
<1>7. CASE RemoveFromCanvas(r)
  BY <1>7 DEF RemoveFromCanvas
<1> QED
  BY <1>1, <1>2, <1>3, <1>4, <1>5, <1>6, <1>7 DEF NodeStep, CanvasStep

LEMMA AppTurn ==
  ASSUME FrameOK, NEW r \in Requests, AppStep(r)
  PROVE  /\ Alone(r)
         /\ pc[r] \in {"routes", "hops", "seed", "choose", "list"}
         /\ pc'[r] \in {"hops", "seed", "choose", "list", "done"}
         /\ pc'[r] = "done" \/ answer'[r] = answer[r]
BY DEF AppStep, ListNetworkRoutes, ListHops, SeedOnce, Choose, AppCatalog, Moves, Ends, FrameOK,
       Alone

LEMMA ChatTurn ==
  ASSUME FrameOK, NEW r \in Requests, ChatStep(r) \/ BeginPair(r)
  PROVE  /\ Alone(r)
         /\ pc[r] \in {"history", "model", "begin", "question", "answer", "commit", "clear"}
         /\ pc'[r] \in {"model", "begin", "question", "answer", "commit", "audit",
                        "auditFailure", "done"}
         /\ pc'[r] = "done" \/ answer'[r] = answer[r]
         /\ pc'[r] = "audit" => CommitPair(r)
<1> USE DEF Moves, Ends, FrameOK, Alone
<1>1. CASE ListChatMessages(r)
  BY <1>1 DEF ListChatMessages
<1>2. CASE Respond(r)
  BY <1>2 DEF Respond, Retries
<1>3. CASE InsertQuestion(r)
  BY <1>3 DEF InsertQuestion
<1>4. CASE InsertAnswer(r)
  BY <1>4 DEF InsertAnswer
<1>5. CASE CommitPair(r)
  BY <1>5 DEF CommitPair
<1>6. CASE ClearChat(r)
  BY <1>6 DEF ClearChat
<1>7. CASE BeginPair(r)
  BY <1>7 DEF BeginPair
<1> QED
  BY <1>1, <1>2, <1>3, <1>4, <1>5, <1>6, <1>7 DEF ChatStep

LEMMA ObjectTurn ==
  ASSUME FrameOK, NEW r \in Requests, ObjectStep(r)
  PROVE  /\ Alone(r)
         /\ pc[r] \in {"asset", "get", "read", "put", "drop"}
         /\ pc'[r] \in {"get", "read", "put", "drop", "done"}
         /\ pc'[r] = "done" \/ answer'[r] = answer[r]
<1> USE DEF Moves, Ends, FrameOK, Alone
<1>1. CASE GetAsset(r)
  BY <1>1 DEF GetAsset
<1>2. CASE Get(r)
  BY <1>2 DEF Get, Retries
<1>3. CASE Read(r)
  BY <1>3 DEF Read, Cut
<1>4. CASE Put(r)
  BY <1>4 DEF Put
<1>5. CASE Drop(r)
  BY <1>5 DEF Drop, Retries
<1> QED
  BY <1>1, <1>2, <1>3, <1>4, <1>5 DEF ObjectStep

-----------------------------------------------------------------------------
(* What a step of another module leaves as it is.                           *)
LEMMA Kept ==
  ASSUME mix' = mix
  PROVE  /\ SessionsOK /\ UNCHANGED sessionVars => SessionsOK'
         /\ NodesOK /\ UNCHANGED nodeVars => NodesOK'
         /\ CanvasOK /\ UNCHANGED canvasVars => CanvasOK'
         /\ AppsOK /\ UNCHANGED appVars => AppsOK'
         /\ ChatOK /\ UNCHANGED chatVars => ChatOK'
         /\ ObjectsOK /\ UNCHANGED objectVars => ObjectsOK'
<1>1. SessionsOK /\ UNCHANGED sessionVars => SessionsOK'
  BY DEF sessionVars, SessionsOK
<1>2. NodesOK /\ UNCHANGED nodeVars => NodesOK'
  BY DEF nodeVars, NodesOK
<1>3. CanvasOK /\ UNCHANGED canvasVars => CanvasOK'
  BY DEF canvasVars, CanvasOK
<1>4. AppsOK /\ UNCHANGED appVars => AppsOK'
  BY DEF appVars, AppsOK
<1>5. ChatOK /\ UNCHANGED chatVars => ChatOK'
  BY DEF chatVars, ChatOK
<1>6. ObjectsOK /\ UNCHANGED objectVars => ObjectsOK'
  BY DEF objectVars, ObjectsOK
<1> QED
  BY <1>1, <1>2, <1>3, <1>4, <1>5, <1>6

LEMMA HandleTypes ==
  ASSUME IInv, NEW r \in Requests, Handle(r)
  PROVE  TypeOK'
<1> USE DEF IInv, TypeOK
<1>1. CASE SessionStep(r) /\ UNCHANGED <<nodeVars, canvasVars, appVars, chatVars, objectVars>>
  <2>1. mix' = mix
    BY <1>1, SessionTurn DEF Alone
  <2> QED
    BY <1>1, <2>1, SessionFrame, SessionTypes, Kept
<1>2. CASE NodeStep(r) /\ UNCHANGED <<sessionVars, canvasVars, appVars, chatVars, objectVars>>
  <2>1. mix' = mix
    BY <1>2, NodeTurn DEF Alone
  <2> QED
    BY <1>2, <2>1, NodeFrame, NodeTypes, Kept
<1>3. CASE CanvasStep(r) /\ UNCHANGED <<sessionVars, appVars, chatVars, objectVars>>
  <2>1. mix' = mix
    BY <1>3, NodeTurn DEF Alone
  <2> QED
    BY <1>3, <2>1, CanvasFrame, CanvasTypes, Kept
<1>4. CASE AppStep(r) /\ UNCHANGED <<sessionVars, canvasVars, chatVars, objectVars>>
  <2>1. mix' = mix
    BY <1>4, AppTurn DEF Alone
  <2> QED
    BY <1>4, <2>1, AppFrame, AppTypes, Kept
<1>5. CASE ChatStep(r) /\ UNCHANGED <<sessionVars, canvasVars, appVars, objectVars>>
  <2>1. mix' = mix
    BY <1>5, ChatTurn DEF Alone
  <2>2. UNCHANGED nodeVars
    BY <1>5 DEF ChatStep, ListChatMessages, Respond, InsertQuestion, InsertAnswer, CommitPair,
                ClearChat
  <2> QED
    BY <1>5, <2>1, <2>2, ChatFrame, ChatTypes, Kept
<1>6. CASE BeginPair(r)
           /\ UNCHANGED <<sessions, caller, lastSeen, canvasVars, appVars, objectVars>>
  <2>1. mix' = mix
    BY <1>6, ChatTurn DEF Alone
  <2>2. UNCHANGED <<nodeVars, chatVars>>
    BY <1>6 DEF BeginPair
  <2>3. SessionsOK'
    BY <1>6 DEF BeginPair, SessionsOK, FrameOK
  <2> QED
    BY <1>6, <2>1, <2>2, <2>3, ChatFrame, Kept
<1>7. CASE ObjectStep(r) /\ UNCHANGED <<sessionVars, canvasVars, appVars, chatVars>>
  <2>1. mix' = mix
    BY <1>7, ObjectTurn DEF Alone
  <2>2. UNCHANGED nodeVars
    BY <1>7 DEF ObjectStep, GetAsset, Get, Read, Put, Drop
  <2> QED
    BY <1>7, <2>1, <2>2, ObjectFrame, ObjectTypes, Kept
<1> QED
  BY <1>1, <1>2, <1>3, <1>4, <1>5, <1>6, <1>7 DEF Handle

LEMMA LoadedLimits ==
  ASSUME FrameOK, NEW l \in Loaded
  PROVE  l \in Limits
<1>1. ASSUME NEW v \in Int, NEW d \in 1..Ceiling PROVE Filled(v, d) \in 1..Ceiling
  BY ObjectsAreTyped DEF Filled
<1>2. PICK f, p \in mix.settings : l = WithDefaults(f, p)
  BY DEF Loaded
<1>3. f \in Int /\ p \in Int
  BY ObjectsAreTyped DEF FrameOK
<1>4. DefaultLimits.file \in 1..Ceiling /\ DefaultLimits.payload \in 1..Ceiling
  BY ObjectsAreTyped
<1>5. Filled(f, DefaultLimits.file) \in 1..Ceiling
  BY <1>1, <1>3, <1>4, Zenon
<1>6. Filled(p, DefaultLimits.payload) \in 1..Ceiling
  BY <1>1, <1>3, <1>4, Zenon
<1> QED
  BY <1>2, <1>5, <1>6 DEF WithDefaults, Limits

LEMMA TypeStep ==
  ASSUME IInv, Next
  PROVE  TypeOK'
<1> USE DEF IInv, TypeOK
<1>1. ASSUME NEW r \in Requests, Handle(r) PROVE TypeOK'
  BY <1>1, HandleTypes
<1>2. ASSUME NEW r \in Requests, Delete(r) PROVE TypeOK'
  <2>1. mix' = mix
    BY <1>2, NodeTurn DEF Alone, Delete
  <2>2. ChatOK'
    BY <1>2 DEF Delete, Cascade, ChatOK
  <2> QED
    BY <1>2, <2>1, <2>2, NodeFrame, NodeTypes, Kept DEF Delete
<1>3. ASSUME NEW r \in Requests, Fails(r) PROVE TypeOK'
  <2>1. mix' = mix /\ FrameOK'
    BY <1>3, Frame, AnswersAre DEF Fails, Ends, quiet
  <2>2. ChatOK'
    BY <1>3 DEF Fails, RolledBack, ChatOK
  <2> QED
    BY <1>3, <2>1, <2>2, Kept DEF Fails
<1>4. CASE Restart
  <2>1. mix' = mix
    BY <1>4 DEF Restart
  <2>2. FrameOK'
    <3>1. "done" \in Steps /\ "failed" \in Answers
      BY AnswersAre DEF Steps
    <3>2. pc' \in [Requests -> Steps] /\ answer' \in [Requests -> Answers]
      BY <1>4, <3>1 DEF Restart, FrameOK
    <3>3. \A q \in Requests : pc'[q] \in StepsOf[(ask')[q].op] \cup {"done"}
      BY <1>4 DEF Restart, FrameOK, ask
    <3> QED
      BY <1>4, <3>2, <3>3 DEF Restart, FrameOK, quiet
  <2>3. CanvasOK' /\ AppsOK'
    BY <1>4 DEF Restart, CanvasLost, AppsLost, CanvasOK, AppsOK
  <2>4. ChatOK'
    BY <1>4 DEF Restart, ChatOK
  <2>5. ObjectsOK'
    BY <1>4, LoadedLimits DEF Restart, ObjectsOK
  <2> QED
    BY <1>4, <2>1, <2>2, <2>3, <2>4, <2>5, Kept DEF Restart
<1>5. CASE Elapse
  <2>1. mix' = mix /\ FrameOK'
    BY <1>5, RequestsAreNumbers DEF Elapse, Tick, FrameOK, ask
  <2> QED
    BY <1>5, <2>1, Kept DEF Elapse
<1>6. CASE Reroute
  <2> PICK rt \in mix.routes : /\ PatchPath(rt) /\ Replaced(rt)
                               /\ UNCHANGED <<sessionVars, canvasVars, chatVars, objectVars>>
    BY <1>6 DEF Reroute
  <2>1. mix' = mix /\ FrameOK'
    BY DEF PatchPath, apiVars, FrameOK, ask
  <2>2. NodesOK'
    BY <2>1 DEF PatchPath, NodesOK
  <2>3. AppsOK'
    BY <2>1 DEF Replaced, AppsOK
  <2> QED
    BY <2>1, <2>2, <2>3, Kept
<1> QED
  BY <1>1, <1>2, <1>3, <1>4, <1>5, <1>6 DEF Next

-----------------------------------------------------------------------------
LEMMA RoutesStep ==
  ASSUME IInv, Next
  PROVE  RoutesStand'
<1> USE DEF IInv, TypeOK
<1>1. ASSUME UNCHANGED <<mix, nodes, minted, routes, listed>> PROVE RoutesStand'
  BY <1>1 DEF RoutesStand
<1>2. ASSUME NEW r \in Requests, Handle(r) PROVE RoutesStand'
  <2>1. CASE SessionStep(r) /\ UNCHANGED <<nodeVars, canvasVars, appVars, chatVars, objectVars>>
    BY <1>1, <2>1, SessionTurn DEF Alone, nodeVars, appVars
  <2>2. CASE NodeStep(r) /\ UNCHANGED <<sessionVars, canvasVars, appVars, chatVars, objectVars>>
    <3>1. CASE CreateNode(r)
      <4>1. DOMAIN nodes \subseteq DOMAIN nodes' /\ minted' >= minted /\ UNCHANGED <<routes, mix>>
        BY <3>1 DEF CreateNode, NodesOK, Moves, Ends
      <4>2. \A id \in DOMAIN nodes' : id \in DOMAIN nodes \/ id = minted'
        BY <3>1 DEF CreateNode
      <4>3. CASE UNCHANGED <<nodes, minted>>
        BY <2>2, <4>1, <4>3, <1>1 DEF appVars
      <4>4. CASE minted' = minted + 1
        <5>1. \A rt \in mix.routes : rt.source <= Len(InitialNodes)
          <6>1. DOMAIN InitialNodes = 1..Len(InitialNodes)
            BY NodesAreTyped
          <6>2. \A rt \in mix.routes : rt.source \in DOMAIN InitialNodes
            BY NodesAreTyped DEF FrameOK
          <6> QED
            BY <6>1, <6>2
        <5>2. \A rt \in mix.routes : rt.source \in DOMAIN nodes' => rt.source \in DOMAIN nodes
          BY <4>2, <4>4, <5>1, NodesAreTyped DEF RoutesStand, NodesOK
        <5> QED
          BY <2>2, <4>1, <4>4, <5>2, NodesAreTyped DEF RoutesStand, appVars, NodesOK
      <4> QED
        BY <3>1, <4>3, <4>4 DEF CreateNode
    <3>2. CASE OwnerBrain(r) \/ Audit(r)
      BY <1>1, <2>2, <3>2, NodeTurn DEF OwnerBrain, Audit, NodeStep, nodeVars, appVars, Alone
    <3> QED
      BY <2>2, <3>1, <3>2 DEF NodeStep
  <2>3. CASE CanvasStep(r) /\ UNCHANGED <<sessionVars, appVars, chatVars, objectVars>>
    <3>1. UNCHANGED <<nodes, minted, routes>>
      BY <2>3 DEF CanvasStep, ResolveCanvasNode, AddToCanvas, RemoveFromCanvas, nodeVars
    <3> QED
      BY <1>1, <2>3, <3>1, NodeTurn DEF Alone, appVars
  <2>4. CASE AppStep(r) /\ UNCHANGED <<sessionVars, canvasVars, chatVars, objectVars>>
    BY <2>4, AppTypes
  <2>5. CASE (ChatStep(r) \/ BeginPair(r)) /\ UNCHANGED appVars
    <3>1. UNCHANGED nodeVars
      BY <2>5 DEF ChatStep, ListChatMessages, Respond, InsertQuestion, InsertAnswer, CommitPair,
                  ClearChat, BeginPair
    <3> QED
      BY <1>1, <2>5, <3>1, ChatTurn DEF Alone, appVars, nodeVars
  <2>6. CASE ObjectStep(r) /\ UNCHANGED <<sessionVars, canvasVars, appVars, chatVars>>
    <3>1. UNCHANGED nodeVars
      BY <2>6 DEF ObjectStep, GetAsset, Get, Read, Put, Drop
    <3> QED
      BY <1>1, <2>6, <3>1, ObjectTurn DEF Alone, appVars, nodeVars
  <2> QED
    BY <1>2, <2>1, <2>2, <2>3, <2>4, <2>5, <2>6 DEF Handle
<1>3. ASSUME NEW r \in Requests, Delete(r) PROVE RoutesStand'
  <2>1. UNCHANGED <<mix, minted, routes, listed>>
    BY <1>3 DEF Delete, DeleteNode, Moves, Ends, appVars
  <2>2. CASE UNCHANGED nodes
    BY <1>1, <2>1, <2>2
  <2>3. CASE ~Routed(target[r]) /\ ~Held(target[r]) /\ DOMAIN nodes' = DOMAIN nodes \ {target[r]}
    BY <2>1, <2>3 DEF RoutesStand, Routed, Held
  <2> QED
    BY <1>3, <2>2, <2>3 DEF Delete, DeleteNode
<1>4. ASSUME NEW r \in Requests, Fails(r) PROVE RoutesStand'
  BY <1>1, <1>4 DEF Fails, Ends, nodeVars, appVars
<1>5. CASE Restart
  BY <1>1, <1>5 DEF Restart, AppsLost, nodeVars
<1>6. CASE Elapse
  BY <1>1, <1>6 DEF Elapse, Tick, nodeVars, appVars
<1>7. CASE Reroute
  <2> PICK rt \in mix.routes : PatchPath(rt) /\ Replaced(rt)
    BY <1>7 DEF Reroute
  <2> QED
    BY DEF PatchPath, Replaced, apiVars, RoutesStand
<1> QED
  BY <1>2, <1>3, <1>4, <1>5, <1>6, <1>7 DEF Next

-----------------------------------------------------------------------------
(* What a request keeps for itself, no other request's step changes.        *)
Own(r) == <<caller[r], at[r], target[r], draft[r], body[r], got[r]>>

LEMMA Apart ==
  ASSUME IInv, NEW r \in Requests, Handle(r) \/ Delete(r) \/ Fails(r),
         NEW q \in Requests, q # r
  PROVE  Own(q)' = Own(q) /\ pc'[q] = pc[q] /\ answer'[q] = answer[q]
<1> USE DEF IInv, TypeOK, SessionsOK, NodesOK, ChatOK, ObjectsOK, Own
<1>1. CASE SessionStep(r) /\ UNCHANGED <<nodeVars, canvasVars, appVars, chatVars, objectVars>>
  <2>1. caller'[q] = caller[q] /\ at'[q] = at[q]
    BY <1>1 DEF SessionStep, RequireSession, ReadClock, TouchSession, SignIn, CreateSession, SignOut
  <2> QED
    BY <1>1, <2>1, SessionTurn DEF Alone, nodeVars, chatVars, objectVars
<1>2. CASE NodeStep(r) /\ UNCHANGED <<sessionVars, canvasVars, appVars, chatVars, objectVars>>
  <2>1. target'[q] = target[q]
    BY <1>2 DEF NodeStep, CreateNode, OwnerBrain, Found, NotFound, Audit, nodeVars
  <2> QED
    BY <1>2, <2>1, NodeTurn DEF Alone, sessionVars, chatVars, objectVars
<1>3. CASE CanvasStep(r) /\ UNCHANGED <<sessionVars, appVars, chatVars, objectVars>>
  <2>1. target'[q] = target[q]
    BY <1>3 DEF CanvasStep, ResolveCanvasNode, AddToCanvas, RemoveFromCanvas, Found, NotFound,
                nodeVars
  <2> QED
    BY <1>3, <2>1, NodeTurn DEF Alone, sessionVars, chatVars, objectVars
<1>4. CASE AppStep(r) /\ UNCHANGED <<sessionVars, canvasVars, chatVars, objectVars>>
  <2>1. UNCHANGED nodeVars
    BY <1>4 DEF AppStep, ListNetworkRoutes, ListHops, SeedOnce, Choose, AppCatalog
  <2> QED
    BY <1>4, <2>1, AppTurn DEF Alone, sessionVars, nodeVars, chatVars, objectVars
<1>5. CASE ChatStep(r) /\ UNCHANGED <<sessionVars, canvasVars, appVars, objectVars>>
  <2>1. UNCHANGED nodeVars /\ draft'[q] = draft[q]
    BY <1>5 DEF ChatStep, ListChatMessages, Respond, InsertQuestion, InsertAnswer, CommitPair,
                ClearChat, chatVars
  <2> QED
    BY <1>5, <2>1, ChatTurn DEF Alone, sessionVars, nodeVars, objectVars
<1>6. CASE BeginPair(r)
           /\ UNCHANGED <<sessions, caller, lastSeen, canvasVars, appVars, objectVars>>
  BY <1>6, ChatTurn DEF BeginPair, Alone, nodeVars, chatVars, objectVars
<1>7. CASE ObjectStep(r) /\ UNCHANGED <<sessionVars, canvasVars, appVars, chatVars>>
  <2>1. CASE GetAsset(r)
    BY <1>7, <2>1, ObjectTurn DEF Alone, GetAsset, sessionVars, nodeVars, chatVars
  <2>2. CASE Get(r)
    BY <1>7, <2>2, ObjectTurn DEF Alone, Get, sessionVars, nodeVars, chatVars
  <2>3. CASE Read(r)
    BY <1>7, <2>3, ObjectTurn DEF Alone, Read, sessionVars, nodeVars, chatVars
  <2>4. CASE Put(r)
    BY <1>7, <2>4, ObjectTurn DEF Alone, Put, sessionVars, nodeVars, chatVars
  <2>5. CASE Drop(r)
    BY <1>7, <2>5, ObjectTurn DEF Alone, Drop, sessionVars, nodeVars, chatVars
  <2> QED
    BY <1>7, <2>1, <2>2, <2>3, <2>4, <2>5 DEF ObjectStep
<1>8. CASE Delete(r)
  BY <1>8, NodeTurn DEF Delete, DeleteNode, Cascade, Alone, sessionVars, objectVars
<1>9. CASE Fails(r)
  BY <1>9 DEF Fails, RolledBack, Ends, FrameOK, sessionVars, nodeVars, objectVars
<1> QED
  BY <1>1, <1>2, <1>3, <1>4, <1>5, <1>6, <1>7, <1>8, <1>9 DEF Handle

(* A sign-in has no session before it stores one.                           *)
Unopened == \A r \in Requests : pc[r] \in {"signIn", "insertSession"} => r \notin DOMAIN sessions

LEMMA UnopenedStep ==
  ASSUME IInv, Next
  PROVE  Unopened'
<1> USE DEF IInv, TypeOK
<1>0. Unopened
  BY DEF SessionsStand, Unopened
<1>1. ASSUME DOMAIN sessions' \subseteq DOMAIN sessions,
             \A q \in Requests : pc'[q] \in {"signIn", "insertSession"}
                               => pc[q] \in {"signIn", "insertSession"}
      PROVE  Unopened'
  BY <1>0, <1>1 DEF Unopened
<1>2. ASSUME NEW r \in Requests, Handle(r) PROVE Unopened'
  <2>1. \A q \in Requests \ {r} : pc'[q] = pc[q]
    BY <1>2, Apart
  <2>2. CASE SessionStep(r)
    <3>1. CASE CreateSession(r)
      <4>1. pc'[r] \in {"audit", "done"} /\ DOMAIN sessions' \subseteq DOMAIN sessions \cup {r}
        BY <3>1 DEF CreateSession, Moves, Ends, FrameOK
      <4> QED
        BY <1>0, <2>1, <4>1 DEF Unopened
    <3>2. ASSUME SessionStep(r), ~CreateSession(r)
          PROVE  DOMAIN sessions' \subseteq DOMAIN sessions
      BY <3>2 DEF SessionStep, RequireSession, ReadClock, TouchSession, SignIn, SignOut
    <3>3. pc'[r] \in {"signIn", "insertSession"} => pc[r] \in {"signIn", "insertSession"}
      BY <2>2, SessionTurn DEF SignIn
    <3> QED
      BY <1>1, <2>1, <2>2, <3>1, <3>2, <3>3
  <2>3. CASE ~SessionStep(r)
    <3>1. UNCHANGED sessions
      BY <1>2, <2>3 DEF Handle, sessionVars
    <3>2. pc'[r] \notin {"signIn", "insertSession"}
      BY <1>2, <2>3, NodeTurn, AppTurn, ChatTurn, ObjectTurn DEF Handle
    <3> QED
      BY <1>1, <2>1, <3>1, <3>2
  <2> QED
    BY <2>2, <2>3
<1>3. ASSUME NEW r \in Requests, Delete(r) \/ Fails(r) PROVE Unopened'
  <2>1. \A q \in Requests \ {r} : pc'[q] = pc[q]
    BY <1>3, Apart
  <2>2. UNCHANGED sessions /\ pc'[r] \in {"audit", "done"}
    BY <1>3 DEF Delete, DeleteNode, Fails, Moves, Ends, FrameOK, sessionVars
  <2> QED
    BY <1>1, <2>1, <2>2
<1>4. CASE Restart
  BY <1>1, <1>4 DEF Restart, sessionVars
<1>5. CASE Elapse
  BY <1>1, <1>5 DEF Elapse, Tick, sessionVars
<1>6. CASE Reroute
  BY <1>1, <1>6 DEF Reroute, PatchPath, apiVars, sessionVars
<1> QED
  BY <1>2, <1>3, <1>4, <1>5, <1>6 DEF Next

(* ... and the one it is about to store is the user's that asked for it.    *)
LEMMA SignersStep ==
  ASSUME IInv, Next, NEW q \in Requests
  PROVE  (pc[q] = "insertSession" => caller[q] = ask[q].user)'
<1> USE DEF IInv, TypeOK
<1>0. pc[q] = "insertSession" => caller[q] = ask[q].user
  BY DEF SessionsStand
<1>1. ASSUME mix' = mix, caller'[q] = caller[q], pc'[q] = pc[q] \/ pc'[q] # "insertSession"
      PROVE  (pc[q] = "insertSession" => caller[q] = ask[q].user)'
  BY <1>0, <1>1 DEF ask
<1>2. ASSUME NEW r \in Requests, Handle(r)
      PROVE  (pc[q] = "insertSession" => caller[q] = ask[q].user)'
  <2>0. mix' = mix
    BY <1>2, SessionTurn, NodeTurn, AppTurn, ChatTurn, ObjectTurn DEF Handle, Alone
  <2>1. CASE q # r
    BY <1>1, <1>2, <2>0, <2>1, Apart DEF Own
  <2>2. CASE q = r /\ SignIn(r)
    BY <2>0, <2>2 DEF SignIn, SessionsOK, ask
  <2>3. CASE q = r /\ ~SignIn(r)
    <3>1. pc'[r] # "insertSession"
      BY <1>2, <2>3, SessionTurn, NodeTurn, AppTurn, ChatTurn, ObjectTurn DEF Handle
    <3> QED
      BY <2>3, <3>1
  <2> QED
    BY <2>1, <2>2, <2>3
<1>3. ASSUME NEW r \in Requests, Delete(r) \/ Fails(r)
      PROVE  (pc[q] = "insertSession" => caller[q] = ask[q].user)'
  <2>1. mix' = mix /\ caller' = caller /\ pc'[r] \in {"audit", "done"}
    BY <1>3 DEF Delete, DeleteNode, Fails, Moves, Ends, FrameOK, sessionVars
  <2>2. q # r => pc'[q] = pc[q]
    BY <1>3, Apart
  <2> QED
    BY <1>1, <2>1, <2>2
<1>4. CASE Restart
  BY <1>1, <1>4 DEF Restart, FrameOK, sessionVars
<1>5. CASE Elapse
  BY <1>1, <1>5 DEF Elapse, Tick, sessionVars
<1>6. CASE Reroute
  BY <1>1, <1>6 DEF Reroute, PatchPath, apiVars, sessionVars
<1> QED
  BY <1>2, <1>3, <1>4, <1>5, <1>6 DEF Next

LEMMA SessionsStandStep ==
  ASSUME IInv, Next
  PROVE  SessionsStand'
BY UnopenedStep, SignersStep DEF SessionsStand, Unopened

(* A request that has ended stays as it ended.                              *)
LEMMA EndedStay ==
  ASSUME IInv, Next, NEW q \in Requests, pc[q] = "done"
  PROVE  mix' = mix /\ pc'[q] = "done" /\ answer'[q] = answer[q] /\ target'[q] = target[q]
<1> USE DEF IInv, TypeOK
<1>1. ASSUME NEW r \in Requests, Handle(r) \/ Delete(r) \/ Fails(r)
      PROVE  mix' = mix /\ pc'[q] = "done" /\ answer'[q] = answer[q] /\ target'[q] = target[q]
  <2>1. mix' = mix /\ pc[r] # "done"
    BY <1>1, SessionTurn, NodeTurn, AppTurn, ChatTurn, ObjectTurn
       DEF Handle, Alone, Delete, Fails, Ends
  <2> QED
    BY <1>1, <2>1, Apart DEF Own
<1>2. CASE Restart
  BY <1>2 DEF Restart, Running, nodeVars, FrameOK
<1>3. CASE Elapse
  BY <1>3 DEF Elapse, Tick, nodeVars
<1>4. CASE Reroute
  BY <1>4 DEF Reroute, PatchPath, apiVars
<1> QED
  BY <1>1, <1>2, <1>3, <1>4 DEF Next

(* A session that was opened is there, with its user, until it is signed    *)
(* out of.                                                                  *)
LEMMA OpenedStep ==
  ASSUME IInv, Next, NEW q \in Requests, Opened(q)
  PROVE  Opened(q)'
<1> USE DEF IInv, TypeOK
<1>0. mix' = mix
  BY SessionTurn, NodeTurn, AppTurn, ChatTurn, ObjectTurn
     DEF Next, Handle, Alone, Delete, Fails, Ends, Restart, Elapse, Tick, Reroute, PatchPath, apiVars
<1>1. CASE \E s \in Requests : Is(s, {"signOut"}) /\ ask[s].token = q /\ answer[s] = "ok"
  <2>1. PICK s \in Requests : Is(s, {"signOut"}) /\ ask[s].token = q /\ answer[s] = "ok"
    BY <1>1
  <2>2. pc[s] = "done"
    BY <2>1 DEF ReadsStand, ReadStands
  <2>3. answer'[s] = "ok"
    BY <2>1, <2>2, EndedStay
  <2> QED
    BY <1>0, <2>1, <2>3 DEF Opened, Is, ask
<1>2. CASE q \in DOMAIN sessions /\ sessions[q].user = ask[q].user
  <2>1. ASSUME q \in DOMAIN sessions', sessions'[q].user = sessions[q].user
        PROVE  Opened(q)'
    BY <1>0, <1>2, <2>1 DEF Opened, ask
  <2>2. ASSUME NEW r \in Requests, SessionStep(r) PROVE Opened(q)'
    <3>1. CASE TouchSession(r)
      <4>1. sessions[q] \in Session
        BY <1>2 DEF SessionsOK
      <4>2. \A row \in Session : [row EXCEPT !.seen = at[r]].user = row.user
        BY DEF Session
      <4> QED
        BY <1>2, <2>1, <3>1, <4>1, <4>2 DEF TouchSession
    <3>2. CASE CreateSession(r)
      <4>1. r # q
        BY <1>2, <3>2 DEF CreateSession, SessionsStand
      <4> QED
        BY <1>2, <2>1, <3>2, <4>1 DEF CreateSession
    <3>3. CASE SignOut(r) /\ ask[r].token # q
      BY <1>2, <2>1, <3>3 DEF SignOut
    <3>4. CASE SignOut(r) /\ ask[r].token = q
      <4>1. ask[r].op = "signOut" /\ answer'[r] = "ok"
        BY <3>4, At, Follows DEF SignOut, Ends, FrameOK
      <4> QED
        BY <1>0, <3>4, <4>1 DEF Opened, Is, ask
    <3> QED
      BY <1>2, <2>1, <2>2, <3>1, <3>2, <3>3, <3>4 DEF SessionStep, RequireSession, ReadClock, SignIn
  <2>3. ASSUME NEW r \in Requests, Handle(r), ~SessionStep(r) PROVE UNCHANGED sessions
    BY <2>3 DEF Handle, sessionVars
  <2>4. ASSUME \/ \E r \in Requests : Delete(r) \/ Fails(r)
               \/ Restart \/ Elapse \/ Reroute
        PROVE  UNCHANGED sessions
    BY <2>4 DEF Delete, Fails, Restart, Elapse, Reroute, sessionVars
  <2> QED
    BY <1>2, <2>1, <2>2, <2>3, <2>4 DEF Next
<1> QED
  BY <1>1, <1>2 DEF Opened

-----------------------------------------------------------------------------
(* A record id is given out once, and what it stands for does not change.   *)
NodesGrow ==
  /\ minted <= minted'
  /\ \A i \in DOMAIN nodes' :
       \/ i > minted
       \/ i \in DOMAIN nodes /\ nodes'[i] = nodes[i]

LEMMA NodesGrowStep ==
  ASSUME IInv, Next
  PROVE  NodesGrow
<1> USE DEF IInv, TypeOK, NodesOK, NodesGrow
<1>1. ASSUME UNCHANGED <<nodes, minted>> PROVE NodesGrow
  BY <1>1
<1>2. ASSUME NEW r \in Requests, Handle(r) PROVE NodesGrow
  <2>1. CASE CreateNode(r)
    BY <2>1 DEF CreateNode
  <2>2. CASE ~CreateNode(r)
    <3>1. CASE UNCHANGED nodeVars
      BY <1>1, <3>1 DEF nodeVars
    <3>2. ASSUME NodeStep(r) \/ CanvasStep(r) PROVE UNCHANGED <<nodes, minted>>
      BY <2>2, <3>2 DEF NodeStep, OwnerBrain, Audit, CanvasStep, ResolveCanvasNode, AddToCanvas,
                        RemoveFromCanvas, nodeVars
    <3>3. ASSUME AppStep(r) PROVE UNCHANGED nodeVars
      BY <3>3 DEF AppStep, ListNetworkRoutes, ListHops, SeedOnce, Choose, AppCatalog
    <3>4. ASSUME ChatStep(r) \/ BeginPair(r) PROVE UNCHANGED nodeVars
      BY <3>4 DEF ChatStep, ListChatMessages, Respond, InsertQuestion, InsertAnswer, CommitPair,
                  ClearChat, BeginPair
    <3>5. ASSUME ObjectStep(r) PROVE UNCHANGED nodeVars
      BY <3>5 DEF ObjectStep, GetAsset, Get, Read, Put, Drop
    <3> QED
      BY <1>1, <1>2, <3>1, <3>2, <3>3, <3>4, <3>5 DEF Handle
  <2> QED
    BY <2>1, <2>2
<1>3. ASSUME NEW r \in Requests, Delete(r) PROVE NodesGrow
  BY <1>3 DEF Delete, DeleteNode
<1>4. ASSUME NEW r \in Requests, Fails(r) PROVE NodesGrow
  BY <1>1, <1>4 DEF Fails, nodeVars
<1>5. CASE Restart
  BY <1>1, <1>5 DEF Restart, nodeVars
<1>6. CASE Elapse
  BY <1>1, <1>6 DEF Elapse, nodeVars
<1>7. CASE Reroute
  BY <1>1, <1>7 DEF Reroute, PatchPath
<1> QED
  BY <1>2, <1>3, <1>4, <1>5, <1>6, <1>7 DEF Next

LEMMA Gone ==
  ASSUME IInv, Next
  PROVE  \A i \in 1..minted : i \in 1..minted' /\ (i \in DOMAIN nodes' => i \in DOMAIN nodes)
<1>1. minted \in Nat /\ minted' \in Nat /\ minted <= minted'
  BY TypeStep, NodesGrowStep DEF IInv, TypeOK, NodesOK, NodesGrow
<1> QED
  BY <1>1, NodesGrowStep DEF NodesGrow

(* A post that is written has come to its last step.                        *)
LEMMA WrittenStep ==
  ASSUME IInv, NEW r \in Requests, Handle(r)
  PROVE  written' = written \/ (CommitPair(r) /\ written' = written \cup {r})
BY DEF Handle, ChatStep, ListChatMessages, Respond, InsertQuestion, InsertAnswer, CommitPair,
       ClearChat, BeginPair, chatVars

LEMMA EventStandsStep ==
  ASSUME IInv, Next, NEW q \in Requests
  PROVE  EventStands(q)'
<1> USE DEF IInv, TypeOK
<1>0. EventStands(q) /\ NodesGrow
  BY NodesGrowStep DEF EventsStand
<1>a. Opened(q) => Opened(q)'
  BY OpenedStep
<1>1. ASSUME mix' = mix, target'[q] = target[q], pc'[q] = pc[q] \/ pc'[q] = "done",
             q \in written' <=> q \in written
      PROVE  EventStands(q)'
  BY <1>0, <1>a, <1>1, Gone DEF EventStands, Is, ask
<1>2. ASSUME mix' = mix, pc[q] \notin {"audit", "done"}, pc'[q] \notin {"audit", "delete"},
             written' = written
      PROVE  EventStands(q)'
  BY <1>0, <1>2 DEF EventStands
<1>3. ASSUME NEW r \in Requests, Handle(r) PROVE EventStands(q)'
  <2>0. mix' = mix
    BY <1>3, SessionTurn, NodeTurn, AppTurn, ChatTurn, ObjectTurn DEF Handle, Alone
  <2>1. CASE q # r
    <3>1. q \in written' <=> q \in written
      BY <1>3, <2>1, WrittenStep
    <3> QED
      BY <1>1, <1>3, <2>0, <2>1, <3>1, Apart DEF Own
  <2>2. CASE q = r /\ SessionStep(r) /\ UNCHANGED chatVars
    <3>1. CASE pc'[r] = "audit"
      <4>1. CreateSession(r) /\ ask[r].op = "signIn" /\ caller[r] = ask[r].user
        BY <2>2, <3>1, SessionTurn, At, Follows DEF CreateSession, SessionsStand
      <4>2. r \in DOMAIN sessions' /\ sessions'[r].user = ask[r].user
        BY <3>1, <4>1 DEF CreateSession, Ends, FrameOK
      <4>3. Opened(r)'
        BY <2>0, <4>2 DEF Opened, ask
      <4> QED
        BY <1>0, <2>0, <2>2, <3>1, <4>1, <4>3, SessionTurn DEF EventStands, Is, ask, chatVars
    <3>2. CASE pc'[r] # "audit"
      BY <1>2, <2>0, <2>2, <3>2, SessionTurn DEF chatVars
    <3> QED
      BY <3>1, <3>2
  <2>3. CASE q = r /\ NodeStep(r) /\ UNCHANGED chatVars
    <3>1. CASE CreateNode(r)
      <4>1. ask[r].op = "createNode" /\ pc'[r] \in {"audit", "done"} /\ r \notin written
        BY <1>0, <2>3, <3>1, At, Follows DEF CreateNode, Moves, Ends, FrameOK, EventStands
      <4>2. pc'[r] = "audit" => target'[r] = minted' /\ minted' = minted + 1
        BY <3>1 DEF CreateNode, Ends, FrameOK, NodesOK
      <4>3. minted + 1 # 0
        BY DEF NodesOK
      <4> QED
        BY <2>0, <2>3, <4>1, <4>2, <4>3 DEF EventStands, Is, ask, chatVars
    <3>2. CASE OwnerBrain(r)
      <4>1. pc'[r] \notin {"audit", "done"} => target'[r] # 0
        BY <3>2 DEF OwnerBrain, Found, NotFound, Ends, Named, NodesOK, FrameOK
      <4>2. pc'[r] # "audit" /\ r \notin written
        BY <1>0, <2>3, <3>2, NodeTurn DEF OwnerBrain, EventStands, CreateNode, DeleteNode
      <4> QED
        BY <2>0, <2>3, <4>1, <4>2 DEF EventStands, chatVars
    <3>3. CASE Audit(r)
      BY <1>1, <2>0, <2>3, <3>3 DEF Audit, Ends, FrameOK, nodeVars, chatVars
    <3> QED
      BY <2>3, <3>1, <3>2, <3>3 DEF NodeStep
  <2>4. CASE q = r /\ CanvasStep(r) /\ UNCHANGED chatVars
    <3>1. pc[r] \in {"resolve", "add", "remove"}
      BY <2>4 DEF CanvasStep, ResolveCanvasNode, AddToCanvas, RemoveFromCanvas
    <3> QED
      BY <1>2, <2>0, <2>4, <3>1, NodeTurn DEF CreateNode, DeleteNode, chatVars
  <2>5. CASE q = r /\ (AppStep(r) \/ ObjectStep(r)) /\ UNCHANGED chatVars
    BY <1>2, <2>0, <2>5, AppTurn, ObjectTurn DEF chatVars
  <2>6. CASE q = r /\ (ChatStep(r) \/ BeginPair(r))
    <3>1. CASE CommitPair(r)
      <4>1. ask[r].op = "postChat" /\ pc'[r] \in {"audit", "done"} /\ r \in written'
        BY <3>1, At, Follows DEF CommitPair, Moves, Ends, FrameOK
      <4> QED
        BY <2>0, <2>6, <4>1 DEF EventStands, Is, ask
    <3>2. CASE ~CommitPair(r)
      BY <1>2, <1>3, <2>0, <2>6, <3>2, ChatTurn, WrittenStep
    <3> QED
      BY <3>1, <3>2
  <2> QED
    BY <1>3, <2>1, <2>2, <2>3, <2>4, <2>5, <2>6 DEF Handle
<1>4. ASSUME NEW r \in Requests, Delete(r) PROVE EventStands(q)'
  <2>0. mix' = mix /\ UNCHANGED written
    BY <1>4, NodeTurn DEF Alone, Delete, Cascade
  <2>1. CASE q # r
    BY <1>1, <1>4, <2>0, <2>1, Apart DEF Own
  <2>2. CASE q = r
    <3>1. ask[r].op = "deleteNode" /\ pc'[r] \in {"audit", "done"} /\ r \notin written
          /\ target[r] \in 1..minted /\ UNCHANGED <<target, minted>>
      BY <1>0, <1>4, <2>2, At, Follows
         DEF Delete, DeleteNode, Moves, Ends, FrameOK, EventStands, NodesOK
    <3>2. pc'[r] = "audit" => target[r] \notin DOMAIN nodes'
      BY <1>4 DEF Delete, DeleteNode, Ends, FrameOK
    <3> QED
      BY <2>0, <2>2, <3>1, <3>2 DEF EventStands, Is, ask
  <2> QED
    BY <2>1, <2>2
<1>5. ASSUME NEW r \in Requests, Fails(r) PROVE EventStands(q)'
  BY <1>1, <1>5 DEF Fails, Ends, RolledBack, FrameOK, nodeVars
<1>6. CASE Restart
  BY <1>1, <1>6 DEF Restart, FrameOK, nodeVars
<1>7. CASE Elapse
  BY <1>1, <1>7 DEF Elapse, Tick, nodeVars, chatVars
<1>8. CASE Reroute
  BY <1>1, <1>8 DEF Reroute, PatchPath, apiVars, chatVars
<1> QED
  BY <1>3, <1>4, <1>5, <1>6, <1>7, <1>8 DEF Next

(* What a request has made stays its own.                                   *)
LEMMA MakersStep ==
  ASSUME IInv, Next
  PROVE  MakersStand'
<1> USE DEF IInv, TypeOK
<1>0. MakersStand /\ NodesGrow /\ minted \in Nat /\ target \in [Requests -> 0..minted]
  BY NodesGrowStep DEF EventsStand, NodesOK
<1>1. ASSUME NEW q \in Requests, Makes(q), mix' = mix, target'[q] = target[q],
             caller'[q] = caller[q], pc'[q] = pc[q] \/ pc'[q] = "done"
      PROVE  Makes(q) /\ (pc[q] \in {"audit", "done"} /\ Made(q, target[q]))'
  <2>1. Made(q, target[q]) /\ pc'[q] \in {"audit", "done"}
    BY <1>0, <1>1 DEF MakersStand
  <2>2. NodeRow(q)' = NodeRow(q)
    BY <1>1 DEF NodeRow, ask
  <2>3. target'[q] \in 1..minted' \ DOMAIN InitialNodes
    BY <1>1, <2>1, Gone DEF Made
  <2>4. target'[q] \in DOMAIN nodes' => nodes'[target'[q]] = NodeRow(q)
    BY <1>0, <1>1, <2>1, Gone DEF Made, NodesGrow
  <2> QED
    BY <1>1, <2>1, <2>2, <2>3, <2>4 DEF Made
<1>2. ASSUME \A q \in Requests : Makes(q)' =>
               /\ Makes(q) /\ mix' = mix /\ target'[q] = target[q] /\ caller'[q] = caller[q]
               /\ pc'[q] = pc[q] \/ pc'[q] = "done"
      PROVE  MakersStand'
  BY <1>0, <1>1, <1>2 DEF MakersStand
<1>3. ASSUME mix' = mix, UNCHANGED <<target, caller>>,
             \A q \in Requests : pc'[q] = pc[q] \/ pc'[q] = "done"
      PROVE  MakersStand'
  BY <1>2, <1>3 DEF Makes, Is, ask
<1>4. ASSUME NEW r \in Requests, Handle(r) PROVE MakersStand'
  <2>0. mix' = mix
    BY <1>4, SessionTurn, NodeTurn, AppTurn, ChatTurn, ObjectTurn DEF Handle, Alone
  <2>1. \A q \in Requests \ {r} :
          /\ target'[q] = target[q] /\ caller'[q] = caller[q] /\ pc'[q] = pc[q]
          /\ Makes(q)' = Makes(q)
    <3>1. \A q \in Requests \ {r} :
            target'[q] = target[q] /\ caller'[q] = caller[q] /\ pc'[q] = pc[q]
      BY <1>4, Apart DEF Own
    <3> QED
      BY <2>0, <3>1 DEF Makes, Is, ask
  <2>2. CASE CreateNode(r) /\ UNCHANGED sessionVars
    <3>1. CASE Named(ask[r].node) # {}
      BY <1>3, <2>0, <2>2, <3>1 DEF CreateNode, Ends, FrameOK, sessionVars
    <3>2. CASE Named(ask[r].node) = {}
      <4>1. /\ minted' = minted + 1 /\ target'[r] = minted' /\ pc'[r] = "audit"
            /\ minted' \in DOMAIN nodes' /\ nodes'[minted'] = NodeRow(r)
        BY <1>0, <2>2, <3>2 DEF CreateNode, Moves, FrameOK
      <4>2. NodeRow(r)' = NodeRow(r)
        BY <2>0, <2>2 DEF NodeRow, ask, sessionVars
      <4>3. minted' \in 1..minted' \ DOMAIN InitialNodes
        BY <1>0, <4>1, NodesAreTyped DEF RoutesStand
      <4>4. (pc[r] \in {"audit", "done"} /\ Made(r, target[r]))'
        BY <4>1, <4>2, <4>3 DEF Made
      <4>5. \A q \in Requests \ {r} : Makes(q)' =>
              target'[q] # target'[r] /\ (pc[q] \in {"audit", "done"} /\ Made(q, target[q]))'
        BY <1>0, <1>1, <2>0, <2>1, <4>1
      <4> QED
        BY <1>0, <2>1, <4>4, <4>5 DEF MakersStand
    <3> QED
      BY <3>1, <3>2
  <2>3. CASE Audit(r) /\ UNCHANGED sessionVars
    BY <1>3, <2>0, <2>3 DEF Audit, Ends, FrameOK, nodeVars, sessionVars
  <2>4. CASE SessionStep(r) /\ UNCHANGED nodeVars
    <3>1. ~Makes(r) /\ target' = target
      BY <1>0, <2>4, SessionTurn DEF MakersStand, nodeVars
    <3>2. ~Makes(r)'
      BY <2>0, <3>1 DEF Makes, Is, ask
    <3> QED
      BY <1>2, <2>0, <2>1, <3>2
  <2>5. CASE OwnerBrain(r) \/ CanvasStep(r) \/ AppStep(r) \/ ChatStep(r) \/ BeginPair(r)
             \/ ObjectStep(r)
    <3>1. pc[r] # "done" /\ pc[r] \notin InSession \cup {"create", "audit"}
      BY <2>5, AppTurn, ChatTurn, ObjectTurn
         DEF OwnerBrain, CanvasStep, ResolveCanvasNode, AddToCanvas, RemoveFromCanvas, InSession
    <3>2. ask[r].op # "createNode"
      BY <3>1, At DEF StepsOf
    <3>3. ~Makes(r)'
      BY <2>0, <3>2 DEF Makes, Is, ask
    <3> QED
      BY <1>2, <2>0, <2>1, <3>3
  <2> QED
    BY <1>4, <2>2, <2>3, <2>4, <2>5 DEF Handle, NodeStep
<1>5. ASSUME NEW r \in Requests, Delete(r) PROVE MakersStand'
  <2>1. mix' = mix /\ UNCHANGED <<target, caller>> /\ ask[r].op = "deleteNode"
    BY <1>5, At, Follows DEF Delete, DeleteNode, Moves, Ends, sessionVars
  <2>2. ~Makes(r)' /\ \A q \in Requests \ {r} : Makes(q)' = Makes(q) /\ pc'[q] = pc[q]
    BY <1>5, <2>1, Apart DEF Makes, Is, ask
  <2> QED
    BY <1>2, <2>1, <2>2
<1>6. ASSUME NEW r \in Requests, Fails(r) PROVE MakersStand'
  BY <1>3, <1>6 DEF Fails, Ends, FrameOK, nodeVars, sessionVars
<1>7. CASE Restart
  BY <1>3, <1>7 DEF Restart, FrameOK, nodeVars, sessionVars
<1>8. CASE Elapse
  BY <1>3, <1>8 DEF Elapse, Tick, nodeVars, sessionVars
<1>9. CASE Reroute
  BY <1>3, <1>9 DEF Reroute, PatchPath, apiVars, sessionVars
<1> QED
  BY <1>4, <1>5, <1>6, <1>7, <1>8, <1>9 DEF Next

(* What makes an event true.                                                *)
Holds(e) ==
  /\ pc[e.by] = "done"
  /\ e.type = "signIn" => Opened(e.by)
  /\ e.type = "createNode" => Makes(e.by) /\ e.node = target[e.by]
  /\ e.type = "deleteNode" => e.node \in 1..minted \ DOMAIN nodes
  /\ e.type = "postChat" => e.by \in written
  /\ e.type = "chat.failed" => e.by \notin written

(* An event stays as true as it was.                                        *)
LEMMA EventKeeps ==
  ASSUME IInv, Next, NEW e \in events
  PROVE  Holds(e)'
<1> USE DEF IInv, TypeOK
<1>1. e.by \in Requests /\ Holds(e)
  BY DEF FrameOK, EventRow, EventsStand, EventsAreTrue, Holds
<1>2. /\ mix' = mix /\ pc'[e.by] = "done" /\ target'[e.by] = target[e.by]
  BY <1>1, EndedStay DEF Holds
<1>3. Opened(e.by) => Opened(e.by)'
  BY <1>1, OpenedStep
<1>4. Makes(e.by)' = Makes(e.by)
  BY <1>2 DEF Makes, Is, ask
<1>5. e.by \in written' <=> e.by \in written
  <2>1. ASSUME NEW r \in Requests, Handle(r) PROVE e.by \in written' <=> e.by \in written
    <3>1. CommitPair(r) => r # e.by
      BY <1>1 DEF CommitPair, Holds
    <3> QED
      BY <2>1, <3>1, WrittenStep
  <2>2. ASSUME \/ \E r \in Requests : Delete(r) \/ Fails(r)
               \/ Restart \/ Elapse \/ Reroute
        PROVE  written' = written
    BY <2>2 DEF Delete, Cascade, Fails, RolledBack, Restart, Elapse, Reroute, chatVars
  <2> QED
    BY <2>1, <2>2 DEF Next
<1> QED
  BY <1>1, <1>2, <1>3, <1>4, <1>5, Gone DEF Holds

(* The events of a step: at most the one that a request ends with.          *)
LEMMA EventsGrow ==
  ASSUME IInv, Next
  PROVE  events' = events \/ \E r \in Requests : /\ Audit(r) /\ UNCHANGED <<sessionVars, chatVars>>
                                                /\ events' = events \cup {Event(r)}
<1>1. ASSUME NEW r \in Requests, Handle(r)
      PROVE  events' = events \/ (/\ Audit(r) /\ UNCHANGED <<sessionVars, chatVars>>
                                  /\ events' = events \cup {Event(r)})
  <2>1. ASSUME SessionStep(r) PROVE events' = events
    BY <2>1 DEF SessionStep, RequireSession, ReadClock, TouchSession, SignIn, CreateSession,
                SignOut, quiet
  <2>2. ASSUME NodeStep(r)
        PROVE  events' = events \/ (Audit(r) /\ events' = events \cup {Event(r)})
    BY <2>2 DEF NodeStep, CreateNode, OwnerBrain, Audit, quiet
  <2>3. ASSUME CanvasStep(r) PROVE events' = events
    BY <2>3 DEF CanvasStep, ResolveCanvasNode, AddToCanvas, RemoveFromCanvas, quiet
  <2>4. ASSUME AppStep(r) PROVE events' = events
    BY <2>4 DEF AppStep, ListNetworkRoutes, ListHops, SeedOnce, Choose, AppCatalog, quiet
  <2>5. ASSUME ChatStep(r) \/ BeginPair(r) PROVE events' = events
    BY <2>5 DEF ChatStep, ListChatMessages, Respond, InsertQuestion, InsertAnswer, CommitPair,
                ClearChat, BeginPair, quiet
  <2>6. ASSUME ObjectStep(r) PROVE events' = events
    BY <2>6 DEF ObjectStep, GetAsset, Get, Read, Put, Drop, quiet
  <2> QED
    BY <1>1, <2>1, <2>2, <2>3, <2>4, <2>5, <2>6 DEF Handle
<1>2. ASSUME \/ \E r \in Requests : Delete(r) \/ Fails(r)
             \/ Restart \/ Elapse \/ Reroute
      PROVE  events' = events
  BY <1>2 DEF Delete, DeleteNode, Fails, Restart, Elapse, Tick, Reroute, PatchPath, apiVars, quiet
<1> QED
  BY <1>1, <1>2 DEF Next

LEMMA EventsStep ==
  ASSUME IInv, Next
  PROVE  EventsStand' /\ EventsAreTrue'
<1> USE DEF IInv, TypeOK
<1>0. MakersStand' /\ \A q \in Requests : EventStands(q)'
  BY MakersStep, EventStandsStep
<1>1. events' \subseteq EventRow
  BY TypeStep DEF FrameOK
<1>2. SUFFICES \A e \in events' : Holds(e)'
  BY <1>0, <1>1, <1>2 DEF EventsStand, EventsAreTrue, MakersStand, Holds, EventRow
<1>3. CASE events' = events
  BY <1>3, EventKeeps
<1>4. ASSUME NEW r \in Requests, Audit(r), UNCHANGED <<sessionVars, chatVars>>,
             events' = events \cup {Event(r)}, NEW e, e = Event(r)
      PROVE  Holds(e)'
  <2>1. pc[r] \in {"audit", "auditFailure"}
    BY <1>4 DEF Audit
  <2>2. /\ ask[r].op \in {"signIn", "createNode", "deleteNode", "postChat"}
        /\ pc[r] = "auditFailure" => ask[r].op = "postChat"
    BY <2>1, At, Follows
  <2>3. pc[r] = "auditFailure" => r \notin written
    BY DEF EventsStand, EventStands
  <2>4. /\ UNCHANGED <<mix, written, sessions, nodeVars>> /\ pc'[r] = "done"
    BY <1>4 DEF Audit, Ends, FrameOK, chatVars, sessionVars
  <2>5. Makes(r)' = Makes(r) /\ (Opened(r) => Opened(r)')
    BY <2>4, OpenedStep DEF Makes, Is, ask, nodeVars
  <2>6. e.by = r /\ e.node = target[r]
        /\ e.type = IF pc[r] = "auditFailure" THEN "chat.failed" ELSE ask[r].op
    BY <1>4 DEF Event
  <2>7. EventStands(r)
    BY DEF EventsStand
  <2>8. CASE pc[r] = "auditFailure"
    BY <2>2, <2>3, <2>4, <2>6, <2>8 DEF Holds
  <2>9. CASE pc[r] = "audit"
    <3>1. e.type = ask[r].op
      BY <2>6, <2>9
    <3>2. ask[r].op = "signIn" => Opened(r)'
      BY <2>5, <2>7, <2>9 DEF EventStands, Is
    <3>3. ask[r].op = "createNode" => Makes(r)'
      BY <2>5, <2>7, <2>9 DEF EventStands, Makes, Is
    <3>4. ask[r].op = "deleteNode" => target[r] \in 1..minted \ DOMAIN nodes
      BY <2>7, <2>9 DEF EventStands, Is
    <3>5. ask[r].op = "postChat" => r \in written
      BY <2>7, <2>9 DEF EventStands, Is
    <3>6. ask[r].op # "chat.failed"
      BY <2>2
    <3> QED
      BY <2>4, <2>6, <3>1, <3>2, <3>3, <3>4, <3>5, <3>6 DEF Holds, nodeVars
  <2> QED
    BY <2>1, <2>8, <2>9
<1> QED
  <2>1. ASSUME NEW r \in Requests, Audit(r), UNCHANGED <<sessionVars, chatVars>>,
               events' = events \cup {Event(r)}, NEW e \in events'
        PROVE  Holds(e)'
    BY <1>4, <2>1, EventKeeps
  <2> QED
    BY <1>3, <2>1, EventsGrow

-----------------------------------------------------------------------------
LEMMA DraftsStep ==
  ASSUME IInv, Next, NEW q \in Requests
  PROVE  DraftStands(q)'
<1> USE DEF IInv, TypeOK
<1>1. ASSUME Own(q)' = Own(q), pc'[q] = pc[q] \/ {pc[q], pc'[q]} \cap {"answer", "commit"} = {}
      PROVE  DraftStands(q)'
  BY <1>1 DEF DraftStands, Row, Own
<1>2. ASSUME draft'[q] = {}, pc'[q] \notin {"answer", "commit"}
      PROVE  DraftStands(q)'
  BY <1>2 DEF DraftStands
<1>3. ASSUME NEW r \in Requests, Handle(r) PROVE DraftStands(q)'
  <2>1. CASE q # r
    BY <1>1, <1>3, <2>1, Apart
  <2>2. CASE /\ q = r /\ UNCHANGED chatVars
             /\ SessionStep(r) \/ NodeStep(r) \/ CanvasStep(r) \/ AppStep(r) \/ ObjectStep(r)
    <3>1. pc[r] \notin {"answer", "commit"} /\ pc'[r] \notin {"answer", "commit"}
      BY <2>2, SessionTurn, NodeTurn, AppTurn, ObjectTurn
    <3>2. draft'[q] = draft[q]
      BY <2>2 DEF chatVars
    <3> QED
      BY <1>2, <2>2, <3>1, <3>2 DEF DraftStands
  <2>3. CASE q = r /\ BeginPair(r)
    <3>1. pc[r] = "begin" /\ pc'[r] = "question" /\ draft' = draft
      BY <2>3 DEF BeginPair, Moves, chatVars, FrameOK
    <3> QED
      BY <1>2, <2>3, <3>1 DEF DraftStands
  <2>4. CASE q = r /\ ChatStep(r) /\ UNCHANGED sessionVars
    <3>0. UNCHANGED <<at, caller, target>>
      BY <2>4 DEF ChatStep, ListChatMessages, Respond, InsertQuestion, InsertAnswer, CommitPair,
                  ClearChat, sessionVars, nodeVars
    <3>1. \A role, i : Row(q, role, i)' = Row(q, role, i)
      BY <3>0 DEF Row
    <3>2. CASE InsertQuestion(r)
      <4>1. CASE pc'[r] = "answer"
        <5>1. PICK id \in Ids(r, "user") : draft' = [draft EXCEPT ![r] = {Row(r, "user", id)}]
          BY <3>2, <4>1 DEF InsertQuestion, Ends, FrameOK
        <5> QED
          BY <2>4, <3>1, <4>1, <5>1 DEF DraftStands, ChatOK
      <4>2. CASE pc'[r] # "answer"
        BY <1>2, <2>4, <3>2, <4>2 DEF InsertQuestion, DraftStands, Moves, Ends, FrameOK
      <4> QED
        BY <4>1, <4>2
    <3>3. CASE InsertAnswer(r)
      <4>1. CASE pc'[r] = "commit"
        <5>1. PICK i \in Ids(r, "user") : draft[r] = {Row(r, "user", i)}
          BY <3>3 DEF InsertAnswer, DraftStands
        <5>2. PICK j \in Ids(r, "assistant") : draft' = [draft EXCEPT ![r] = @ \cup {Row(r, "assistant", j)}]
          BY <3>3, <4>1 DEF InsertAnswer, Ends, FrameOK
        <5>3. draft'[r] = {Row(r, "user", i), Row(r, "assistant", j)}
          BY <5>1, <5>2 DEF ChatOK
        <5> QED
          BY <2>4, <3>1, <4>1, <5>3 DEF DraftStands
      <4>2. CASE pc'[r] # "commit"
        BY <1>2, <2>4, <3>3, <4>2 DEF InsertAnswer, Moves, Ends, FrameOK, ChatOK
      <4> QED
        BY <4>1, <4>2
    <3>4. CASE CommitPair(r)
      BY <1>2, <2>4, <3>4 DEF CommitPair, Moves, Ends, FrameOK, ChatOK
    <3>5. CASE ListChatMessages(r) \/ Respond(r) \/ ClearChat(r)
      <4>1. pc[r] \notin {"answer", "commit"} /\ pc'[r] \notin {"answer", "commit"} /\ draft' = draft
        BY <3>5 DEF ListChatMessages, Respond, Retries, ClearChat, Moves, Ends, FrameOK, chatVars
      <4> QED
        BY <1>2, <2>4, <4>1 DEF DraftStands
    <3> QED
      BY <2>4, <3>2, <3>3, <3>4, <3>5 DEF ChatStep
  <2> QED
    BY <1>3, <2>1, <2>2, <2>3, <2>4 DEF Handle
<1>4. ASSUME NEW r \in Requests, Delete(r) PROVE DraftStands(q)'
  <2>1. CASE q # r
    BY <1>1, <1>4, <2>1, Apart
  <2>2. CASE q = r
    BY <1>2, <1>4, <2>2 DEF Delete, DeleteNode, Cascade, Moves, Ends, FrameOK, DraftStands
  <2> QED
    BY <2>1, <2>2
<1>5. ASSUME NEW r \in Requests, Fails(r) PROVE DraftStands(q)'
  <2>1. CASE q # r
    BY <1>1, <1>5, <2>1, Apart
  <2>2. CASE q = r
    BY <1>2, <1>5, <2>2 DEF Fails, RolledBack, Ends, FrameOK, ChatOK
  <2> QED
    BY <2>1, <2>2
<1>6. CASE Restart
  BY <1>2, <1>6 DEF Restart, Running, FrameOK
<1>7. CASE Elapse
  BY <1>1, <1>7 DEF Elapse, Tick, Own, sessionVars, nodeVars, chatVars, objectVars
<1>8. CASE Reroute
  BY <1>1, <1>8 DEF Reroute, PatchPath, apiVars, Own, sessionVars, chatVars, objectVars
<1> QED
  BY <1>3, <1>4, <1>5, <1>6, <1>7, <1>8 DEF Next

LEMMA PairsStep ==
  ASSUME IInv, Next
  PROVE  PairsAreWhole'
<1> USE DEF IInv
<1>1. CASE messages' = messages
  BY <1>1 DEF PairsAreWhole
<1>2. ASSUME NEW r \in Requests, CommitPair(r) PROVE PairsAreWhole'
  <2>1. PICK i \in Ids(r, "user"), j \in Ids(r, "assistant") :
          draft[r] = {Row(r, "user", i), Row(r, "assistant", j)}
    BY <1>2 DEF CommitPair, DraftStands
  <2> DEFINE m == Row(r, "user", i)
             n == Row(r, "assistant", j)
  <2>2. /\ Partner(m, n) /\ n.at = m.at /\ n.node = m.node /\ n.user = m.user
        /\ Partner(n, m) /\ m.at = n.at /\ m.node = n.node /\ m.user = n.user
    BY DEF Partner, Row
  <2>3. messages' = messages \cup {m, n}
    BY <1>2, <2>1 DEF CommitPair
  <2> HIDE DEF m, n
  <2> QED
    BY <2>2, <2>3 DEF PairsAreWhole
<1>3. ASSUME NEW r \in Requests, ClearChat(r) PROVE PairsAreWhole'
  BY <1>3 DEF ClearChat, Conversation, PairsAreWhole
<1>4. ASSUME NEW r \in Requests, Delete(r) PROVE PairsAreWhole'
  BY <1>4 DEF Delete, Cascade, PairsAreWhole
<1>5. ASSUME NEW r \in Requests, Handle(r), ~CommitPair(r), ~ClearChat(r) PROVE messages' = messages
  BY <1>5 DEF Handle, ChatStep, ListChatMessages, Respond, InsertQuestion, InsertAnswer, BeginPair,
              chatVars
<1>6. ASSUME (\E r \in Requests : Fails(r)) \/ Restart \/ Elapse \/ Reroute
      PROVE  messages' = messages
  BY <1>6 DEF Fails, RolledBack, Restart, Elapse, Reroute, chatVars
<1> QED
  BY <1>1, <1>2, <1>3, <1>4, <1>5, <1>6 DEF Next

(* Two rows of one request, or of two, never have the same id.              *)
LEMMA IdsApart ==
  ASSUME NEW r \in Requests, NEW q \in Requests,
         NEW a \in {"user", "assistant"}, NEW b \in {"user", "assistant"},
         NEW id, id \in Ids(r, a), id \in Ids(q, b)
  PROVE  r = q /\ a = b
BY RequestsAreNumbers DEF Ids

LEMMA MessagesStep ==
  ASSUME IInv, Next
  PROVE  MessagesStand'
<1> USE DEF IInv
<1>1. ASSUME messages' \subseteq messages, written' = written
      PROVE  MessagesStand'
  <2>1. IsFiniteSet(messages')
    BY <1>1, FS_Subset DEF MessagesStand
  <2> QED
    BY <1>1, <2>1 DEF MessagesStand
<1>2. ASSUME NEW r \in Requests, CommitPair(r) PROVE MessagesStand'
  <2>1. PICK i \in Ids(r, "user"), j \in Ids(r, "assistant") :
          draft[r] = {Row(r, "user", i), Row(r, "assistant", j)}
    BY <1>2 DEF CommitPair, DraftStands
  <2> DEFINE m == Row(r, "user", i)
             n == Row(r, "assistant", j)
  <2>2. /\ m.post = r /\ m.role = "user" /\ m.id = i
        /\ n.post = r /\ n.role = "assistant" /\ n.id = j
    BY DEF Row
  <2>3. messages' = messages \cup {m, n} /\ written' = written \cup {r}
    BY <1>2, <2>1 DEF CommitPair
  <2>4. r \notin written
    BY <1>2 DEF CommitPair, EventsStand, EventStands
  <2> HIDE DEF m, n
  <2>5. IsFiniteSet(messages')
    <3>1. IsFiniteSet(messages \cup {m})
      BY FS_AddElement DEF MessagesStand
    <3>2. IsFiniteSet((messages \cup {m}) \cup {n})
      BY <3>1, FS_AddElement
    <3>3. messages' = (messages \cup {m}) \cup {n}
      BY <2>3
    <3> QED
      BY <3>2, <3>3
  <2>6. \A k \in messages : k.role \in {"user", "assistant"}
    BY DEF TypeOK, ChatOK, Message
  <2>7. \A k \in messages : k.post # r
    BY <2>4 DEF MessagesStand
  <2>8. \A k \in messages, role \in {"user", "assistant"} : k.id \notin Ids(r, role)
    BY <2>6, <2>7, IdsApart DEF MessagesStand
  <2>9. \A k \in messages : k.id # m.id /\ k.id # n.id /\ k.post # m.post /\ k.post # n.post
    BY <2>2, <2>7, <2>8
  <2>10. m.id # n.id
    BY <2>2, IdsApart
  <2>11. \A k, l \in messages' :
           k.id = l.id \/ (k.post = l.post /\ k.role = l.role) => k = l
    BY <2>2, <2>3, <2>9, <2>10 DEF MessagesStand
  <2>12. \A k \in messages' :
           IF k.post \in Requests THEN k.post \in written' /\ k.id \in Ids(k.post, k.role)
           ELSE \A q \in Requests, role \in {"user", "assistant"} : k.id \notin Ids(q, role)
    BY <2>2, <2>3 DEF MessagesStand
  <2> QED
    BY <2>5, <2>11, <2>12 DEF MessagesStand
<1>3. ASSUME NEW r \in Requests, Handle(r), ~CommitPair(r)
      PROVE  messages' \subseteq messages /\ written' = written
  BY <1>3 DEF Handle, ChatStep, ListChatMessages, Respond, InsertQuestion, InsertAnswer, BeginPair,
              ClearChat, chatVars
<1>4. ASSUME NEW r \in Requests, Delete(r)
      PROVE  messages' \subseteq messages /\ written' = written
  BY <1>4 DEF Delete, Cascade
<1>5. ASSUME (\E r \in Requests : Fails(r)) \/ Restart \/ Elapse \/ Reroute
      PROVE  messages' \subseteq messages /\ written' = written
  BY <1>5 DEF Fails, RolledBack, Restart, Elapse, Reroute, chatVars
<1> QED
  BY <1>1, <1>2, <1>3, <1>4, <1>5 DEF Next

-----------------------------------------------------------------------------
LEMMA HidesStays ==
  ASSUME IInv, Next, NEW id, NEW user, NEW name, Hides(id, user, name)
  PROVE  Hides(id, user, name)'
<1>1. /\ minted \in Nat /\ minted' \in Nat /\ minted <= minted'
      /\ DOMAIN nodes \subseteq Nat /\ DOMAIN nodes' \subseteq Nat
  BY TypeStep, NodesGrowStep DEF IInv, TypeOK, NodesOK, NodesGrow
<1>2. id \in 1..minted /\ id \in 1..minted'
  BY <1>1 DEF Hides
<1>3. ASSUME NEW i \in DOMAIN nodes'
      PROVE  /\ nodes'[i].name = name => id <= i
             /\ i = id => nodes'[i].name = name /\ nodes'[i].owner # user
  <2>1. CASE i > minted
    BY <1>1, <1>2, <2>1
  <2>2. CASE i \in DOMAIN nodes /\ nodes'[i] = nodes[i]
    BY <2>2 DEF Hides
  <2> QED
    BY <2>1, <2>2, NodesGrowStep DEF NodesGrow
<1> QED
  BY <1>2, <1>3 DEF Hides

LEMMA NamesStep ==
  ASSUME IInv, Next
  PROVE  \A i, j \in DOMAIN nodes' : nodes'[i].name = nodes'[j].name => i = j
<1>1. ASSUME DOMAIN nodes' \subseteq DOMAIN nodes, \A i \in DOMAIN nodes' : nodes'[i] = nodes[i]
      PROVE  \A i, j \in DOMAIN nodes' : nodes'[i].name = nodes'[j].name => i = j
  BY <1>1 DEF IInv, CanvasStands
<1>2. ASSUME NEW r \in Requests, CreateNode(r)
      PROVE  \A i, j \in DOMAIN nodes' : nodes'[i].name = nodes'[j].name => i = j
  <2>1. CASE Named(ask[r].node) = {}
    <3>1. nodes' = [i \in DOMAIN nodes \cup {minted'} |-> IF i = minted' THEN NodeRow(r) ELSE nodes[i]]
      BY <1>2, <2>1 DEF CreateNode
    <3>2. NodeRow(r).name = ask[r].node /\ \A i \in DOMAIN nodes : nodes[i].name # ask[r].node
      BY <2>1 DEF NodeRow, Named
    <3> QED
      BY <3>1, <3>2 DEF IInv, CanvasStands
  <2>2. CASE Named(ask[r].node) # {}
    BY <1>1, <1>2, <2>2 DEF CreateNode
  <2> QED
    BY <2>1, <2>2
<1>3. ASSUME \A r \in Requests : ~CreateNode(r) PROVE minted' = minted
  <2>1. ASSUME NEW r \in Requests, Handle(r) PROVE minted' = minted
    <3>1. ASSUME NodeStep(r) \/ CanvasStep(r) PROVE minted' = minted
      BY <1>3, <3>1 DEF NodeStep, OwnerBrain, Audit, CanvasStep, ResolveCanvasNode, AddToCanvas,
                        RemoveFromCanvas, nodeVars
    <3>2. ASSUME AppStep(r) PROVE minted' = minted
      BY <3>2 DEF AppStep, ListNetworkRoutes, ListHops, SeedOnce, Choose, AppCatalog, nodeVars
    <3>3. ASSUME ChatStep(r) \/ BeginPair(r) PROVE minted' = minted
      BY <3>3 DEF ChatStep, ListChatMessages, Respond, InsertQuestion, InsertAnswer, CommitPair,
                  ClearChat, BeginPair, nodeVars
    <3>4. ASSUME ObjectStep(r) PROVE minted' = minted
      BY <3>4 DEF ObjectStep, GetAsset, Get, Read, Put, Drop, nodeVars
    <3> QED
      BY <2>1, <3>1, <3>2, <3>3, <3>4 DEF Handle, nodeVars
  <2> QED
    BY <2>1 DEF Next, Delete, DeleteNode, Fails, Restart, Elapse, Reroute, PatchPath, nodeVars
<1>4. ASSUME minted' = minted
      PROVE  DOMAIN nodes' \subseteq DOMAIN nodes /\ \A i \in DOMAIN nodes' : nodes'[i] = nodes[i]
  <2>1. \A i \in DOMAIN nodes' : i <= minted /\ i \in Nat /\ minted \in Nat
    BY <1>4, TypeStep DEF IInv, TypeOK, NodesOK
  <2> QED
    BY <2>1, NodesGrowStep DEF NodesGrow
<1> QED
  BY <1>1, <1>2, <1>3, <1>4

LEMMA RemovedStep ==
  ASSUME IInv, Next
  PROVE  /\ \A c \in removed' : \E j \in 1..minted' : <<c[1], j>> \in hidden' /\ Hides(j, c[1], c[2])'
         /\ \A c \in hidden' :
              c[2] <= minted' /\ (c[2] \in DOMAIN nodes' => nodes'[c[2]].owner # c[1])
<1> DEFINE Removed == \A c \in removed' : \E j \in 1..minted' :
                        <<c[1], j>> \in hidden' /\ Hides(j, c[1], c[2])'
           Hidden  == \A c \in hidden' :
                        c[2] <= minted' /\ (c[2] \in DOMAIN nodes' => nodes'[c[2]].owner # c[1])
<1>0. \A j \in 1..minted : j \in 1..minted'
  BY Gone
<1>1. ASSUME NEW c \in removed, hidden \subseteq hidden'
      PROVE  \E j \in 1..minted' : <<c[1], j>> \in hidden' /\ Hides(j, c[1], c[2])'
  <2>1. PICK j \in 1..minted : <<c[1], j>> \in hidden /\ Hides(j, c[1], c[2])
    BY DEF IInv, CanvasStands
  <2>2. Hides(j, c[1], c[2])'
    BY <2>1, HidesStays
  <2> QED
    BY <1>0, <1>1, <2>1, <2>2
<1>2. ASSUME NEW c \in hidden
      PROVE  c[2] <= minted' /\ (c[2] \in DOMAIN nodes' => nodes'[c[2]].owner # c[1])
  <2>1. c[2] \in Nat /\ c[2] <= minted /\ (c[2] \in DOMAIN nodes => nodes[c[2]].owner # c[1])
    BY DEF IInv, TypeOK, CanvasOK, CanvasStands
  <2>2. minted \in Nat /\ minted' \in Nat /\ minted <= minted'
    BY TypeStep, NodesGrowStep DEF IInv, TypeOK, NodesOK, NodesGrow
  <2> QED
    BY <2>1, <2>2, NodesGrowStep DEF NodesGrow
<1>3. ASSUME removed' \subseteq removed, hidden' = hidden PROVE Removed /\ Hidden
  BY <1>1, <1>2, <1>3
<1>4. ASSUME NEW r \in Requests, RemoveFromCanvas(r) PROVE Removed /\ Hidden
  <2> PICK id, user, name : id = target[r] /\ user = caller[r] /\ name = ask[r].node
    OBVIOUS
  <2>1. /\ removed' = removed \cup {<<user, name>>}
        /\ hidden' = hidden \cup {<<user, id>>}
    BY <1>4 DEF RemoveFromCanvas, Chosen
  <2>2. Hides(id, user, name)
    BY <1>4 DEF RemoveFromCanvas, IInv, CanvasStands
  <2>3. Hides(id, user, name)'
    BY <2>2, HidesStays
  <2>4. id \in 1..minted' /\ id <= minted' /\ (id \in DOMAIN nodes' => nodes'[id].owner # user)
    BY <2>3, TypeStep DEF Hides, TypeOK, NodesOK
  <2>5. Removed
    <3>1. \A c \in removed : \E j \in 1..minted' : <<c[1], j>> \in hidden' /\ Hides(j, c[1], c[2])'
      BY <1>1, <2>1
    <3>2. \E j \in 1..minted' : <<user, j>> \in hidden' /\ Hides(j, user, name)'
      BY <2>1, <2>3, <2>4
    <3> QED
      BY <2>1, <3>1, <3>2
  <2>6. Hidden
    BY <1>2, <2>1, <2>4
  <2> QED
    BY <2>5, <2>6
<1>5. ASSUME NEW r \in Requests, Handle(r), ~RemoveFromCanvas(r)
      PROVE  removed' \subseteq removed /\ hidden' = hidden
  BY <1>5 DEF Handle, CanvasStep, ResolveCanvasNode, AddToCanvas, canvasVars
<1>6. CASE Restart
  BY <1>6 DEF Restart, CanvasLost
<1>7. ASSUME (\E r \in Requests : Delete(r) \/ Fails(r)) \/ Elapse \/ Reroute
      PROVE  removed' \subseteq removed /\ hidden' = hidden
  BY <1>7 DEF Delete, Fails, Elapse, Reroute, canvasVars
<1> QED
  BY <1>3, <1>4, <1>5, <1>6, <1>7 DEF Next

LEMMA RemovingStep ==
  ASSUME IInv, Next, NEW q \in Requests, pc'[q] = "remove"
  PROVE  Hides(target[q], caller[q], ask[q].node)'
<1> USE DEF IInv, TypeOK
<1>1. ASSUME target'[q] = target[q], caller'[q] = caller[q], mix' = mix, pc[q] = "remove"
      PROVE  Hides(target[q], caller[q], ask[q].node)'
  <2> PICK id, user, name : id = target[q] /\ user = caller[q] /\ name = ask[q].node
    OBVIOUS
  <2>1. Hides(id, user, name)
    BY <1>1 DEF CanvasStands
  <2>2. Hides(id, user, name)'
    BY <2>1, HidesStays
  <2> QED
    BY <1>1, <2>2 DEF Hides, ask
<1>2. ASSUME NEW r \in Requests, Handle(r) PROVE Hides(target[q], caller[q], ask[q].node)'
  <2>0. mix' = mix
    BY <1>2, SessionTurn, NodeTurn, AppTurn, ChatTurn, ObjectTurn DEF Handle, Alone
  <2>1. CASE q # r
    BY <1>1, <1>2, <2>0, <2>1, Apart DEF Own
  <2>2. CASE q = r
    <3>1. pc[r] = "resolve" /\ Is(r, {"removeNode"}) /\ CanvasStep(r) /\ UNCHANGED sessionVars
      <4>1. NodeStep(r) \/ CanvasStep(r)
        BY <1>2, <2>2, SessionTurn, AppTurn, ChatTurn, ObjectTurn DEF Handle
      <4>2. pc[r] = "resolve" /\ Is(r, {"removeNode"})
        BY <2>2, <4>1, NodeTurn
      <4>3. ~NodeStep(r) /\ ~SessionStep(r) /\ ~AppStep(r) /\ ~ChatStep(r) /\ ~BeginPair(r)
            /\ ~ObjectStep(r)
        BY <4>2, SessionTurn, AppTurn, ChatTurn, ObjectTurn
           DEF NodeStep, CreateNode, OwnerBrain, Audit
      <4> QED
        BY <1>2, <4>2, <4>3 DEF Handle
    <3>2. ResolveCanvasNode(r)
      BY <3>1 DEF CanvasStep, AddToCanvas, RemoveFromCanvas
    <3>3. PICK id \in Named(ask[r].node) : nodes[id].owner # caller[r] /\ Found(r, id)
      BY <2>2, <3>1, <3>2 DEF ResolveCanvasNode, NotFound, Ends, FrameOK
    <3>4. /\ target'[r] = id /\ id \in DOMAIN nodes /\ nodes[id].name = ask[r].node
          /\ UNCHANGED <<nodes, minted, caller>> /\ id \in 1..minted
      BY <3>1, <3>2, <3>3 DEF Found, ResolveCanvasNode, Named, NodesOK, sessionVars
    <3>5. \A i \in DOMAIN nodes : nodes[i].name = ask[r].node => i = id
      BY <3>4 DEF CanvasStands
    <3>6. id \in Int
      BY <3>4
    <3> QED
      BY <2>0, <2>2, <3>3, <3>4, <3>5, <3>6 DEF Hides, ask
  <2> QED
    BY <2>1, <2>2
<1>3. ASSUME NEW r \in Requests, Delete(r) \/ Fails(r) PROVE Hides(target[q], caller[q], ask[q].node)'
  <2>1. pc'[r] # "remove" /\ mix' = mix
    BY <1>3 DEF Delete, DeleteNode, Fails, Moves, Ends, FrameOK
  <2> QED
    BY <1>1, <1>3, <2>1, Apart DEF Own
<1>4. CASE Restart
  BY <1>1, <1>4 DEF Restart, FrameOK, sessionVars, nodeVars
<1>5. CASE Elapse
  BY <1>1, <1>5 DEF Elapse, Tick, sessionVars, nodeVars
<1>6. CASE Reroute
  BY <1>1, <1>6 DEF Reroute, PatchPath, apiVars, sessionVars
<1> QED
  BY <1>2, <1>3, <1>4, <1>5, <1>6 DEF Next

LEMMA CanvasStandsStep ==
  ASSUME IInv, Next
  PROVE  CanvasStands'
BY NamesStep, RemovedStep, RemovingStep DEF CanvasStands

LEMMA HiddenNames ==
  ASSUME TypeOK, CanvasStands
  PROVE  OnlyAnEarlierNameHides
<1> SUFFICES ASSUME NEW i \in DOMAIN nodes,
                    ~OnCanvas(nodes[i].owner, nodes[i].name),
                    ~(nodes[i].name \in DefaultOff
                        /\ <<nodes[i].owner, nodes[i].name>> \notin added \cup removed)
             PROVE  /\ <<nodes[i].owner, i>> \notin hidden
                    /\ \E j \in 1..minted \ DOMAIN nodes : j < i /\ <<nodes[i].owner, j>> \in hidden
  BY DEF OnlyAnEarlierNameHides
<1> DEFINE user == nodes[i].owner
           name == nodes[i].name
<1>1. <<user, name>> \in removed
  BY DEF OnCanvas
<1>2. <<user, i>> \notin hidden
  <2>1. \A c \in hidden : c[2] = i => c[1] # user
    BY DEF CanvasStands
  <2> QED
    BY <2>1
<1>3. PICK j \in 1..minted : <<user, j>> \in hidden /\ Hides(j, user, name)
  <2> HIDE DEF user, name
  <2>1. \A c \in removed : \E j \in 1..minted : <<c[1], j>> \in hidden /\ Hides(j, c[1], c[2])
    BY DEF CanvasStands
  <2> QED
    BY <1>1, <2>1
<1>4. j <= i /\ j # i /\ i \in Nat /\ minted \in Nat
  BY <1>2, <1>3 DEF Hides, TypeOK, NodesOK
<1>5. j \notin DOMAIN nodes
  BY <1>3, <1>4 DEF Hides, CanvasStands
<1> QED
  BY <1>2, <1>3, <1>4, <1>5

-----------------------------------------------------------------------------
(* What ReadsAreWhole says of one request.                                  *)
Whole(r) ==
  /\ answer[r] = "ok" /\ Is(r, {"download"}) => got[r] = body[r].size
  /\ answer[r] = "ok" /\ Is(r, {"preview"}) =>
       got[r] = body[r].size \/ (got[r] = body[r].want /\ got[r] > body[r].under.file)
  /\ answer[r] = "too_big" => /\ body[r].size > body[r].under.file
                              /\ body[r].size > body[r].under.payload
  /\ got[r] <= MaxObjectBytes(body[r].under)

LEMMA ReadTypes ==
  ASSUME TypeOK, ReadsStand, NEW r \in Requests
  PROVE  /\ body[r].want \in Nat /\ body[r].size \in Nat /\ got[r] \in Nat
         /\ body[r].under.file \in 1..Ceiling /\ body[r].under.payload \in 1..Ceiling
         /\ limits.file \in 1..Ceiling /\ limits.payload \in 1..Ceiling /\ Ceiling \in Nat
         /\ \A p \in DOMAIN rows : rows[p] \in Nat
BY ObjectsAreTyped DEF TypeOK, FrameOK, ObjectsOK, Limits

(* The other modules' steps end no read.                                    *)
LEMMA Others ==
  ASSUME FrameOK, NEW r \in Requests, answer[r] = "none",
         \/ SessionStep(r) \/ NodeStep(r) \/ DeleteNode(r) \/ CanvasStep(r)
         \/ AppStep(r) \/ ChatStep(r) \/ BeginPair(r)
  PROVE  /\ answer'[r] # "too_big"
         /\ answer'[r] = "ok" => ask[r].op \notin {"preview", "download"}
<1> USE DEF Moves, Ends, NotFound, FrameOK
<1>0. pc[r] \in {"signOut", "audit", "auditFailure", "add", "remove", "choose", "list", "history", "clear"}
        => ask[r].op \notin {"preview", "download"}
  <2>1. ASSUME ask[r].op \in {"preview", "download"}
        PROVE  StepsOf[ask[r].op] = InSession \cup {"owner", "asset", "get", "read"}
    BY <2>1 DEF StepsOf
  <2> QED
    BY <2>1 DEF InSession
<1>1. CASE SessionStep(r)
  BY <1>0, <1>1 DEF SessionStep, RequireSession, ReadClock, TouchSession, SignIn, CreateSession, SignOut
<1>2. CASE NodeStep(r) \/ DeleteNode(r)
  BY <1>0, <1>2 DEF NodeStep, CreateNode, OwnerBrain, Audit, DeleteNode, Found, DatabaseError
<1>3. CASE CanvasStep(r)
  BY <1>0, <1>3 DEF CanvasStep, ResolveCanvasNode, AddToCanvas, RemoveFromCanvas, Found
<1>4. CASE AppStep(r)
  BY <1>0, <1>4 DEF AppStep, ListNetworkRoutes, ListHops, SeedOnce, Choose, AppCatalog
<1>5. CASE ChatStep(r) \/ BeginPair(r)
  BY <1>0, <1>5 DEF ChatStep, ListChatMessages, Respond, Retries, InsertQuestion, InsertAnswer,
                   CommitPair, ClearChat, BeginPair
<1> QED
  BY <1>1, <1>2, <1>3, <1>4, <1>5

LEMMA ObjectReads ==
  ASSUME TypeOK, ReadsStand, NEW r \in Requests, Whole(r), ObjectStep(r)
  PROVE  ReadStands(r)' /\ Whole(r)'
<1> USE DEF Moves, Ends, Is, ask
<1>0. /\ mix' = mix /\ UNCHANGED <<limits, rows>>
  BY DEF ObjectStep, GetAsset, Get, Read, Put, Drop, Retries, Cut
<1>1. ReadStands(r) /\ pc[r] # "done" /\ answer[r] = "none"
  BY ObjectTurn DEF ReadsStand, ReadStands, TypeOK, Alone
<1>2. pc[r] \in {"asset", "get", "read"} => ask[r].op \in {"preview", "download"}
  BY At, Follows DEF TypeOK
<1>3. CASE GetAsset(r)
  <2>1. CASE ask[r].path \in DOMAIN rows
    <3>1. /\ body'[r] = [want |-> IF Is(r, {"preview"}) THEN limits.file + 1 ELSE rows[ask[r].path],
                        size |-> 0, under |-> limits]
          /\ pc'[r] = "get" /\ answer' = answer /\ got' = got
      BY <1>3, <2>1 DEF GetAsset, TypeOK, FrameOK, ObjectsOK
    <3>2. got[r] = 0
      BY <1>1, <1>3 DEF GetAsset, ReadStands
    <3> QED
      BY <1>0, <1>1, <2>1, <3>1, <3>2, ReadTypes DEF ReadStands, Whole, MaxObjectBytes
  <2>2. CASE ask[r].path \notin DOMAIN rows
    BY <1>0, <1>1, <1>3, <2>2 DEF GetAsset, ReadStands, Whole, TypeOK, FrameOK
  <2> QED
    BY <2>1, <2>2
<1>4. CASE Get(r)
  <2>1. got[r] = 0 /\ got' = got /\ body[r].under = limits
        /\ IF ask[r].op = "preview" THEN body[r].want = limits.file + 1
           ELSE ask[r].path \in DOMAIN rows /\ body[r].want = rows[ask[r].path]
    BY <1>1, <1>4 DEF Get, ReadStands
  <2>2. CASE Retries(r) /\ UNCHANGED body
    BY <1>0, <1>1, <2>1, <2>2 DEF Retries, ReadStands, Whole
  <2>3. CASE Ends(r, "provider_error") /\ UNCHANGED body
    BY <1>0, <1>1, <2>1, <2>3 DEF ReadStands, Whole, TypeOK, FrameOK
  <2>4. CASE /\ ask[r].path \in DOMAIN objects
             /\ body' = [body EXCEPT ![r].size = objects[ask[r].path]]
             /\ \/ body'[r].size > MaxObjectBytes(limits) /\ Ends(r, "too_big")
                \/ Moves(r, "read")
    <3>1. /\ body'[r].want = body[r].want /\ body'[r].under = limits
          /\ body'[r].size = objects[ask[r].path] /\ objects[ask[r].path] \in Nat
          /\ ask[r].path \in DOMAIN rows => body'[r].size = rows[ask[r].path]
      BY <2>1, <2>4 DEF TypeOK, ObjectsOK, ReadsStand
    <3>2. body[r].want \in Nat
      BY ReadTypes
    <3>3. CASE body'[r].size > MaxObjectBytes(limits) /\ Ends(r, "too_big")
      BY <1>0, <1>1, <2>1, <3>1, <3>3, ReadTypes DEF ReadStands, Whole, MaxObjectBytes, TypeOK, FrameOK
    <3>4. CASE Moves(r, "read")
      BY <1>0, <1>1, <1>2, <1>4, <2>1, <3>1, <3>2, <3>4, ReadTypes
         DEF Get, ReadStands, Whole, MaxObjectBytes, TypeOK, FrameOK
    <3> QED
      BY <2>4, <3>3, <3>4
  <2> QED
    BY <1>4, <2>2, <2>3, <2>4 DEF Get
<1>5. CASE Read(r)
  <2>1. /\ got[r] <= body[r].want /\ got[r] <= body[r].size /\ body' = body
        /\ body[r].under = limits
        /\ ask[r].op = "download" => body[r].size = body[r].want
        /\ IF ask[r].op = "preview" THEN body[r].want = limits.file + 1
           ELSE ask[r].path \in DOMAIN rows /\ body[r].want = rows[ask[r].path]
        /\ ask[r].op \in {"preview", "download"}
    BY <1>1, <1>2, <1>5 DEF Read, ReadStands
  <2> DEFINE left == body[r].want - got[r]
             room == MaxObjectBytes(limits) - got[r]
             rest == body[r].size - got[r]
  <2>2. CASE /\ UNCHANGED got
             /\ \/ left = 0 /\ Ends(r, "ok")
                \/ left # 0 /\ rest = 0 /\ Cut(r, "ok")
                \/ room = 0 /\ rest > 0 /\ Cut(r, "too_big")
                \/ Cut(r, "provider_error")
    <3>1. /\ pc'[r] = "done" /\ got' = got
          /\ answer'[r] = "ok" => left = 0 \/ (rest = 0 /\ ask[r].op # "download")
          /\ answer'[r] = "too_big" => room = 0 /\ rest > 0
      BY <2>2 DEF Cut, TypeOK, FrameOK
    <3>2. ReadStands(r)'
      BY <3>1 DEF ReadStands
    <3>3. /\ left = 0 => got[r] = body[r].want
          /\ rest = 0 => got[r] = body[r].size
          /\ room = 0 /\ rest > 0 => body[r].size > MaxObjectBytes(limits)
      BY ReadTypes DEF MaxObjectBytes
    <3> HIDE DEF left, room, rest
    <3>4. /\ answer'[r] = "ok" => got[r] = body[r].size \/
                                (got[r] = body[r].want /\ ask[r].op # "download")
          /\ answer'[r] = "too_big" => body[r].size > MaxObjectBytes(limits)
      BY <2>1, <3>1, <3>3
    <3>5. /\ ask[r].op = "preview" => body[r].want > body[r].under.file
          /\ body[r].size > MaxObjectBytes(limits)
                => body[r].size > body[r].under.file /\ body[r].size > body[r].under.payload
      BY <2>1, ReadTypes DEF MaxObjectBytes
    <3> QED
      BY <1>0, <2>1, <3>1, <3>2, <3>4, <3>5 DEF Whole
  <2>3. ASSUME NEW n \in 1..Ceiling, n <= left, n <= room, n <= rest,
               got' = [got EXCEPT ![r] = @ + n], Moves(r, "read")
        PROVE  ReadStands(r)' /\ Whole(r)'
    <3>1. got'[r] = got[r] + n /\ pc'[r] = "read" /\ answer'[r] = "none"
      BY <1>1, <2>3 DEF TypeOK, FrameOK, ObjectsOK
    <3>2. got'[r] <= body[r].want /\ got'[r] <= body[r].size
          /\ got'[r] <= MaxObjectBytes(body[r].under)
      BY <2>1, <2>3, <3>1, ReadTypes DEF MaxObjectBytes
    <3> QED
      BY <1>0, <1>5, <2>1, <3>1, <3>2 DEF ReadStands, Whole
  <2> QED
    BY <1>5, <2>2, <2>3 DEF Read
<1>6. CASE Put(r)
  <2>1. ask[r].op = "put" /\ got[r] = 0 /\ got' = got /\ ask[r].size \in Nat
    BY <1>1, <1>6, At, Follows, Asked DEF Put, ReadStands, TypeOK
  <2>2. /\ body'[r] = [want |-> 0, size |-> ask[r].size, under |-> limits] /\ pc'[r] = "done"
        /\ answer'[r] = "too_big" => ask[r].size > MaxObjectBytes(limits)
    BY <1>6 DEF Put, TypeOK, FrameOK, ObjectsOK
  <2> QED
    BY <1>0, <2>1, <2>2, ReadTypes DEF ReadStands, Whole, MaxObjectBytes
<1>7. CASE Drop(r)
  <2>1. ask[r].op = "drop" /\ pc[r] = "drop" /\ got[r] = 0 /\ got' = got /\ body' = body
    BY <1>1, <1>7, At, Follows DEF Drop, ReadStands, TypeOK
  <2>2. \/ pc' = pc /\ answer' = answer
        \/ pc'[r] = "done" /\ answer'[r] \in {"ok", "provider_error"}
    BY <1>7 DEF Drop, Retries, TypeOK, FrameOK
  <2> QED
    BY <1>0, <1>1, <2>1, <2>2 DEF ReadStands, Whole
<1> QED
  BY <1>3, <1>4, <1>5, <1>6, <1>7 DEF ObjectStep

LEMMA ReadsStep ==
  ASSUME IInv, Next, NEW q \in Requests
  PROVE  ReadStands(q)' /\ Whole(q)'
<1> USE DEF IInv
<1>0. ReadStands(q) /\ Whole(q)
  BY DEF ReadsStand, ReadsAreWhole, Whole
<1>1. ASSUME UNCHANGED <<mix, limits, rows>>, body'[q] = body[q], got'[q] = got[q],
             pc'[q] = pc[q], answer'[q] = answer[q]
      PROVE  ReadStands(q)' /\ Whole(q)'
  BY <1>0, <1>1 DEF ReadStands, Whole, Is, ask
<1>2. ASSUME mix' = mix, body'[q] = body[q], got'[q] = got[q],
             pc[q] \notin {"get", "read", "done"}, pc'[q] \notin {"get", "read"},
             answer'[q] = answer[q] \/ pc'[q] = "done",
             answer'[q] # "too_big", answer'[q] = "ok" => ask[q].op \notin {"preview", "download"}
      PROVE  ReadStands(q)' /\ Whole(q)'
  BY <1>0, <1>2 DEF ReadStands, Whole, Is, ask
<1>3. ASSUME NEW r \in Requests, Handle(r) PROVE ReadStands(q)' /\ Whole(q)'
  <2>0. mix' = mix
    BY <1>3, SessionTurn, NodeTurn, AppTurn, ChatTurn, ObjectTurn DEF Handle, Alone, TypeOK
  <2>1. CASE q # r
    <3>1. UNCHANGED <<limits, rows>>
      BY <1>3 DEF Handle, objectVars, ObjectStep, GetAsset, Get, Read, Put, Drop
    <3> QED
      BY <1>1, <1>3, <2>0, <2>1, <3>1, Apart DEF Own
  <2>2. CASE /\ q = r /\ UNCHANGED objectVars
             /\ \/ SessionStep(r) \/ NodeStep(r) \/ CanvasStep(r) \/ AppStep(r)
                \/ ChatStep(r) \/ BeginPair(r)
    <3>1. /\ pc[r] \notin {"get", "read", "done"} /\ pc'[r] \notin {"get", "read"}
          /\ answer'[r] = answer[r] \/ pc'[r] = "done"
      BY <2>2, SessionTurn, NodeTurn, AppTurn, ChatTurn DEF TypeOK
    <3>2. answer[r] = "none"
      BY <1>0, <2>2, <3>1 DEF ReadStands
    <3>3. answer'[r] # "too_big" /\ (answer'[r] = "ok" => ask[r].op \notin {"preview", "download"})
      BY <2>2, <3>2, Others DEF TypeOK
    <3> QED
      BY <1>2, <2>0, <2>2, <3>1, <3>3 DEF objectVars
  <2>3. CASE q = r /\ ObjectStep(r)
    BY <1>0, <2>3, ObjectReads
  <2> QED
    BY <1>3, <2>1, <2>2, <2>3 DEF Handle
<1>4. ASSUME NEW r \in Requests, Delete(r) PROVE ReadStands(q)' /\ Whole(q)'
  <2>0. mix' = mix /\ UNCHANGED objectVars
    BY <1>4, NodeTurn DEF Alone, Delete, TypeOK
  <2>1. CASE q # r
    BY <1>1, <1>4, <2>0, <2>1, Apart DEF Own, objectVars
  <2>2. CASE q = r
    <3>1. /\ pc[r] \notin {"get", "read", "done"} /\ pc'[r] \notin {"get", "read"}
          /\ answer'[r] = answer[r] \/ pc'[r] = "done"
      BY <1>4, NodeTurn DEF TypeOK, Delete, DeleteNode, Moves, Ends, FrameOK
    <3>2. answer[r] = "none"
      BY <1>0, <2>2, <3>1 DEF ReadStands
    <3>3. answer'[r] # "too_big" /\ (answer'[r] = "ok" => ask[r].op \notin {"preview", "download"})
      BY <1>4, <3>2, Others DEF TypeOK, Delete
    <3> QED
      BY <1>2, <2>0, <2>2, <3>1, <3>3 DEF objectVars
  <2> QED
    BY <2>1, <2>2
<1>5. ASSUME NEW r \in Requests, Fails(r) PROVE ReadStands(q)' /\ Whole(q)'
  <2>1. CASE q # r
    BY <1>1, <1>5, <2>1, Apart DEF Fails, Ends, Own, objectVars
  <2>2. CASE q = r
    BY <1>0, <1>5, <2>2 DEF Fails, Ends, ReadStands, Whole, Is, ask, TypeOK, FrameOK, objectVars
  <2> QED
    BY <2>1, <2>2
<1>6. CASE Restart
  <2>1. UNCHANGED <<mix, body, got, rows>>
    BY <1>6 DEF Restart
  <2>2. CASE q \in Running
    <3>1. pc'[q] = "done" /\ answer'[q] = "failed"
      BY <1>6, <2>2 DEF Restart
    <3> QED
      BY <1>0, <2>1, <3>1 DEF ReadStands, Whole
  <2>3. CASE q \notin Running
    <3>1. pc'[q] = pc[q] /\ answer'[q] = answer[q] /\ pc[q] \notin {"get", "read"}
      BY <1>6, <2>3 DEF Restart, Running
    <3> QED
      BY <1>0, <2>1, <3>1 DEF ReadStands, Whole, Is, ask
  <2> QED
    BY <2>2, <2>3
<1>7. CASE Elapse
  BY <1>1, <1>7 DEF Elapse, Tick, objectVars
<1>8. CASE Reroute
  BY <1>1, <1>8 DEF Reroute, PatchPath, apiVars, objectVars
<1> QED
  BY <1>3, <1>4, <1>5, <1>6, <1>7, <1>8 DEF Next

LEMMA ObjectsStep ==
  ASSUME IInv, Next
  PROVE  \A p \in DOMAIN objects' :
           objects'[p] \in Nat /\ (p \in DOMAIN rows' => objects'[p] = rows'[p])
<1> USE DEF IInv, TypeOK, ReadsStand
<1>1. CASE UNCHANGED <<objects, rows>>
  BY <1>1
<1>2. ASSUME NEW r \in Requests, Put(r)
      PROVE  \A p \in DOMAIN objects' :
               objects'[p] \in Nat /\ (p \in DOMAIN rows' => objects'[p] = rows'[p])
  <2>1. ask[r].op = "put"
    BY <1>2, At, Follows DEF Put
  <2>2. ask[r].size \in Nat /\ (ask[r].path \in DOMAIN rows => rows[ask[r].path] = ask[r].size)
    BY <2>1, AsksAreTyped DEF FrameOK, ObjectsOK, ask
  <2> QED
    BY <1>1, <1>2, <2>2 DEF Put
<1>3. ASSUME NEW r \in Requests, Drop(r)
      PROVE  \A p \in DOMAIN objects' :
               objects'[p] \in Nat /\ (p \in DOMAIN rows' => objects'[p] = rows'[p])
  BY <1>3 DEF Drop
<1>4. ASSUME NEW r \in Requests, Handle(r), ~Put(r), ~Drop(r) PROVE UNCHANGED <<objects, rows>>
  BY <1>4 DEF Handle, ObjectStep, GetAsset, Get, Read, objectVars
<1>5. ASSUME (\E r \in Requests : Delete(r) \/ Fails(r)) \/ Restart \/ Elapse \/ Reroute
      PROVE  UNCHANGED <<objects, rows>>
  BY <1>5 DEF Delete, Fails, Restart, Elapse, Reroute, objectVars
<1> QED
  BY <1>1, <1>2, <1>3, <1>4, <1>5 DEF Next

-----------------------------------------------------------------------------
LEMMA InvInit ==
  ASSUME Init
  PROVE  IInv
<1> USE DEF Init, ApiInit, SessionsInit, NodesInit, CanvasInit, AppsInit, ChatInit, ObjectsInit
<1>1. FrameOK
  <2>1. ASSUME NEW r \in Requests PROVE pc[r] \in StepsOf[ask[r].op] \cup {"done"}
    <3>1. ask[r].op \in Ops
      BY AsksAreTyped DEF ask
    <3>2. CASE ask[r].op \in DOMAIN Started
      BY <3>2 DEF Started, StepsOf
    <3>3. CASE ask[r].op \in DOMAIN FirstStep /\ ask[r].op \notin DOMAIN Started
      BY <3>3 DEF FirstStep, StepsOf, InSession
    <3> QED
      BY <3>1, <3>2, <3>3 DEF Ops
  <2>2. ASSUME NEW r \in Requests PROVE pc[r] \in Steps
    <3>1. ask[r].op \in Ops
      BY AsksAreTyped DEF ask
    <3> QED
      BY <2>1, <3>1 DEF Steps
  <2> QED
    BY <2>1, <2>2, AnswersAre DEF FrameOK
<1>2. SessionsOK
  BY SessionsAreTyped DEF SessionsOK, Session, Tokens
<1>3. NodesOK
  <2>1. /\ nodes = InitialNodes /\ minted = Len(InitialNodes) /\ minted \in Nat
        /\ DOMAIN nodes = 1..minted
    BY NodesAreTyped
  <2>2. nodes \in [DOMAIN nodes -> [name: STRING, owner: Users]]
    <3>1. \A S, q : q \in Seq(S) => q \in [DOMAIN q -> S]
      OBVIOUS
    <3> QED
      BY <2>1, <3>1, NodesAreTyped, Zenon
  <2>3. target \in [Requests -> 0..minted]
    BY <2>1
  <2> QED
    BY <2>1, <2>2, <2>3 DEF NodesOK
<1>4. CanvasOK /\ AppsOK
  BY DEF CanvasOK, AppsOK
<1>5. ChatOK
  BY ChatIsTyped DEF ChatOK
<1>6. ObjectsOK
  <2>1. DefaultLimits \in Limits
    BY ObjectsAreTyped DEF Limits
  <2> QED
    BY <1>1, <2>1, LoadedLimits DEF ObjectsOK, NoBody
<1>7. RoutesStand
  BY NodesAreTyped DEF RoutesStand
<1>8. \A r \in Requests : pc[r] \in {"signIn", "put", "drop", "done", "session"}
  BY DEF Started
<1>9. SessionsStand
  BY <1>8, SessionsAreTyped DEF SessionsStand
<1>10. EventsStand /\ EventsAreTrue
  BY <1>8 DEF EventsStand, EventStands, EventsAreTrue, MakersStand, Makes
<1>11. CanvasStands
  BY <1>8, NodesAreTyped DEF CanvasStands
<1>12. \A p \in DOMAIN rows : rows[p] \in Nat
  BY ObjectsAreTyped
<1>13. ReadsStand
  BY <1>8, <1>12 DEF ReadsStand, ReadStands
<1>14. \A r \in Requests : DraftStands(r)
  BY <1>8 DEF DraftStands
<1>15. PairsAreWhole
  BY ChatIsTyped DEF PairsAreWhole
<1>16. ReadsAreWhole
  BY ObjectsAreTyped DEF ReadsAreWhole, MaxObjectBytes, NoBody
<1>17. MessagesStand
  BY ChatIsTyped DEF MessagesStand
<1> QED
  BY <1>1, <1>2, <1>3, <1>4, <1>5, <1>6, <1>7, <1>9, <1>10, <1>11, <1>13, <1>14, <1>15, <1>16,
     <1>17
     DEF IInv, TypeOK

LEMMA InvStep ==
  ASSUME IInv, [Next]_vars
  PROVE  IInv'
<1>1. CASE Next
  <2>1. ReadsStand' /\ ReadsAreWhole'
    <3>1. \A q \in Requests : ReadStands(q)' /\ Whole(q)'
      BY <1>1, ReadsStep
    <3> QED
      BY <1>1, <3>1, ObjectsStep DEF ReadsStand, ReadsAreWhole, Whole
  <2> QED
    BY <1>1, <2>1, TypeStep, RoutesStep, SessionsStandStep, EventsStep, CanvasStandsStep,
       DraftsStep, MessagesStep, PairsStep DEF IInv
<1>2. CASE UNCHANGED vars
  <2> USE <1>2 DEF vars, apiVars, sessionVars, nodeVars, canvasVars, appVars, chatVars, objectVars
  <2>1. TypeOK'
    <3>1. FrameOK'
      BY DEF IInv, TypeOK, FrameOK, ask
    <3> QED
      BY <3>1, Kept DEF IInv, TypeOK
  <2>2. RoutesStand' /\ SessionsStand' /\ CanvasStands'
    BY DEF IInv, RoutesStand, SessionsStand, CanvasStands, Hides, ask
  <2>3. EventsStand' /\ EventsAreTrue'
    BY DEF IInv, EventsStand, EventStands, EventsAreTrue, MakersStand, Makes, Made, Opened,
           NodeRow, Is, ask
  <2>4. ReadsStand' /\ ReadsAreWhole'
    BY DEF IInv, ReadsStand, ReadStands, ReadsAreWhole, Is, ask
  <2>5. PairsAreWhole' /\ MessagesStand' /\ \A r \in Requests : DraftStands(r)'
    BY DEF IInv, PairsAreWhole, MessagesStand, DraftStands, Row
  <2> QED
    BY <2>1, <2>2, <2>3, <2>4, <2>5 DEF IInv
<1> QED
  BY <1>1, <1>2

-----------------------------------------------------------------------------
(* The invariant, for every number of requests, users, sessions, nodes,     *)
(* routes, messages and objects, and every way the requests run together.   *)
THEOREM InvAlways == Spec => []IInv
  BY InvInit, InvStep, PTL DEF Spec

(* Every request is at a step of its own handler and every limit in bounds. *)
THEOREM TypeCorrect == Spec => []TypeOK
<1>1. IInv => TypeOK
  BY DEF IInv
<1> QED
  BY <1>1, InvAlways, PTL

(* No question ever stands without its answer, nor an answer without its    *)
(* question: whatever clears, deletions, failed posts and restarts run in   *)
(* between, InsertChatPair stores two rows or none.                         *)
THEOREM PairsAreWholeAlways == Spec => []PairsAreWhole
<1>1. IInv => PairsAreWhole
  BY DEF IInv
<1> QED
  BY <1>1, InvAlways, PTL

(* The audit never says of a session, a node or a post what is not so: an   *)
(* event is written last, and of a node or a session by the one request that*)
(* made it.                                                                 *)
THEOREM EventsAreTrueAlways == Spec => []EventsAreTrue
<1>1. IInv => EventsAreTrue
  BY DEF IInv
<1> QED
  BY <1>1, InvAlways, PTL

(* A user's own node is off the canvas only through a name that another's   *)
(* node, gone since, had before.                                            *)
THEOREM OnlyAnEarlierNameHidesAlways == Spec => []OnlyAnEarlierNameHides
<1>1. IInv => OnlyAnEarlierNameHides
  BY HiddenNames DEF IInv
<1> QED
  BY <1>1, InvAlways, PTL

(* What the object storage client hands out as whole is whole, and what the *)
(* limits admit is not refused for its size, whatever limits are configured.*)
THEOREM ReadsAreWholeAlways == Spec => []ReadsAreWhole
<1>1. IInv => ReadsAreWhole
  BY DEF IInv
<1> QED
  BY <1>1, InvAlways, PTL

(* A session's last use never moves back, nor past its expiry, whatever     *)
(* order the updates of its requests arrive in.                             *)
THEOREM SessionsAdvanceAlways == Spec => SessionsAdvance
<1>1. ASSUME IInv, [Next]_vars
      PROVE  [\A token \in Tokens : SessionAdvances(token)]_sessions
  <2>0. SessionsOK /\ SessionsStand
    BY <1>1 DEF IInv, TypeOK
  <2>1. ASSUME NEW r \in Requests, TouchSession(r), NEW token \in Tokens PROVE SessionAdvances(token)
    <3>1. CASE UNCHANGED sessions
      BY <3>1 DEF SessionAdvances
    <3>2. ASSUME NEW t \in DOMAIN sessions,
                 sessions[t].seen <= at[r] - 1, sessions[t].expires > at[r],
                 sessions' = [sessions EXCEPT ![t].seen = at[r]]
          PROVE  SessionAdvances(token)
      <4>1. sessions[t] \in Session /\ at[r] \in Nat
        BY <2>0 DEF SessionsOK
      <4>2. \A row \in Session : /\ [row EXCEPT !.seen = at[r]].seen = at[r]
                               /\ [row EXCEPT !.seen = at[r]].expires = row.expires
        BY DEF Session
      <4>3. /\ sessions'[t] = [sessions[t] EXCEPT !.seen = at[r]]
            /\ \A u \in DOMAIN sessions \ {t} : sessions'[u] = sessions[u]
        BY <3>2
      <4>4. sessions'[t].seen = at[r] /\ sessions'[t].expires = sessions[t].expires
        BY <4>1, <4>2, <4>3
      <4>5. sessions[t].seen \in Nat /\ sessions[t].expires \in Nat
        BY <4>1 DEF Session
      <4> QED
        BY <3>2, <4>1, <4>3, <4>4, <4>5 DEF SessionAdvances
    <3> QED
      BY <2>1, <3>1, <3>2 DEF TouchSession
  <2>2. ASSUME NEW r \in Requests, CreateSession(r), NEW token \in Tokens PROVE SessionAdvances(token)
    <3>1. r \notin DOMAIN sessions
      BY <2>0, <2>2 DEF CreateSession, SessionsStand
    <3>2. token \in DOMAIN sessions => token \in DOMAIN sessions' /\ sessions'[token] = sessions[token]
      BY <2>2, <3>1 DEF CreateSession
    <3> QED
      BY <3>2 DEF SessionAdvances
  <2>3. ASSUME NEW r \in Requests, SignOut(r), NEW token \in Tokens PROVE SessionAdvances(token)
    BY <2>3 DEF SignOut, SessionAdvances
  <2>4. ASSUME NEW r \in Requests, Handle(r), ~TouchSession(r), ~CreateSession(r), ~SignOut(r)
        PROVE  UNCHANGED sessions
    BY <2>4 DEF Handle, SessionStep, RequireSession, ReadClock, SignIn, sessionVars
  <2>5. ASSUME \/ \E r \in Requests : Delete(r) \/ Fails(r)
               \/ Restart \/ Elapse \/ Reroute \/ UNCHANGED vars
        PROVE  UNCHANGED sessions
    BY <2>5 DEF Delete, Fails, Restart, Elapse, Reroute, vars, sessionVars
  <2> QED
    BY <1>1, <2>1, <2>2, <2>3, <2>4, <2>5 DEF Next
<1> QED
  BY <1>1, InvAlways, PTL DEF Spec, SessionsAdvance

(* Once the apps of a Brain are known, only a request to connect or to      *)
(* disconnect an app does so: no seed that was read earlier undoes it.      *)
THEOREM ChoicesStandAlways == Spec => ChoicesStand
<1>1. ASSUME [Next]_vars
      PROVE  [\A id \in 1..minted, app \in Range(Catalog) : ChoiceStands(id, app)]_appVars
  <2> SUFFICES ASSUME NEW id, NEW app PROVE ChoiceStands(id, app)
    OBVIOUS
  <2>1. ASSUME UNCHANGED connected PROVE ChoiceStands(id, app)
    BY <2>1 DEF ChoiceStands
  <2>2. ASSUME NEW r \in Requests, SeedOnce(r) PROVE ChoiceStands(id, app)
    BY <2>2 DEF SeedOnce, ChoiceStands
  <2>3. ASSUME NEW r \in Requests, Choose(r) PROVE ChoiceStands(id, app)
    <3>1. CASE id = target[r] /\ app = ask[r].app
      BY <2>3, <3>1 DEF Choose, ChoiceStands
    <3>2. CASE ~(id = target[r] /\ app = ask[r].app)
      BY <2>3, <3>2 DEF Choose, ChoiceStands
    <3> QED
      BY <3>1, <3>2
  <2>4. CASE Restart
    BY <2>4 DEF Restart, AppsLost, ChoiceStands
  <2>5. ASSUME NEW r \in Requests, Handle(r), ~SeedOnce(r), ~Choose(r) PROVE UNCHANGED connected
    BY <2>5 DEF Handle, AppStep, ListNetworkRoutes, ListHops, AppCatalog, appVars
  <2>6. ASSUME \/ \E r \in Requests : Delete(r) \/ Fails(r)
               \/ Elapse \/ Reroute \/ UNCHANGED vars
        PROVE  UNCHANGED connected
    BY <2>6 DEF Delete, Fails, Elapse, Reroute, Replaced, vars, appVars
  <2> QED
    BY <1>1, <2>1, <2>2, <2>3, <2>4, <2>5, <2>6 DEF Next
<1> QED
  BY <1>1, PTL DEF Spec, ChoicesStand

(* What the model is given is the newest of the conversation in order, with *)
(* every answer behind its own question, however the rows' ids and instants *)
(* fall and whatever is posted, cleared or deleted while the list is read.  *)
THEOREM PromptsAreInOrderAlways == Spec => PromptsAreInOrder
<1>1. ASSUME IInv, [Next]_vars
      PROVE  [\A r \in Requests : prompt'[r] # prompt[r] =>
                PromptIsInOrder(prompt'[r], Conversation(target[r], caller[r]))]_prompt
  <2>1. ChatOK /\ MessagesStand /\ PairsAreWhole
    BY <1>1 DEF IInv, TypeOK
  <2>2. ASSUME NEW q \in Requests, ListChatMessages(q), NEW r \in Requests, prompt'[r] # prompt[r]
        PROVE  PromptIsInOrder(prompt'[r], Conversation(target[r], caller[r]))
    <3> DEFINE S == Conversation(target[r], caller[r])
    <3>1. r = q /\ prompt'[r] = InOrder(Newest(S, HistoryLimit))
      BY <2>1, <2>2 DEF ListChatMessages, ChatOK
    <3>2. AreKeyed(S)
      BY <2>1, ConversationIsKeyed
    <3>3. ArePairs(S)
      BY <2>1 DEF Conversation, ArePairs, MessagesStand, PairsAreWhole
    <3>4. PromptIsInOrder(InOrder(Newest(S, HistoryLimit)), S)
      BY <3>2, <3>3, NewestInOrder
    <3> QED
      BY <3>1, <3>4
  <2>3. ASSUME NEW r \in Requests, Handle(r), ~ListChatMessages(r) PROVE UNCHANGED prompt
    BY <2>3 DEF Handle, ChatStep, Respond, InsertQuestion, InsertAnswer, CommitPair, ClearChat,
                BeginPair, chatVars
  <2>4. ASSUME \/ \E r \in Requests : Delete(r) \/ Fails(r)
               \/ Restart \/ Elapse \/ Reroute \/ UNCHANGED vars
        PROVE  UNCHANGED prompt
    BY <2>4 DEF Delete, Cascade, Fails, RolledBack, Restart, Elapse, Reroute, vars, chatVars
  <2> QED
    BY <1>1, <2>2, <2>3, <2>4 DEF Next
<1> QED
  BY <1>1, InvAlways, PTL DEF Spec, PromptsAreInOrder
=============================================================================
